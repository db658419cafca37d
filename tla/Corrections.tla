---------------------------- MODULE Corrections ----------------------------
(***************************************************************************)
(* How an approved correction reaches the searchable text of one           *)
(* transcript, and how a withdrawn one leaves it: the findings and their    *)
(* patch_state, the chunk rows with the text made from them and the flag    *)
(* embedding_stale, the deciders' transactions (internal/db/corrections.go, *)
(* findingevents.go, review.go, db.go ClearFindings), and the worker that   *)
(* rebuilds a flagged transcript in seven separate database steps           *)
(* (internal/worker/worker.go embedTranscript, persistReplay).              *)
(*                                                                         *)
(* A decision takes effect at its commit but is stamped when its            *)
(* transaction begins; the worker's steps fall anywhere in between.  The    *)
(* stamps matter only against the watermark of the rebuild under way, so    *)
(* late says which findings carry a later one and no clock is kept.         *)
(***************************************************************************)
EXTENDS Naturals, FiniteSets

CONSTANTS
  Findings,    \* judge findings and hand-made corrections
  Chunks,      \* chunk indexes
  Deciders,    \* reviewers, decide runs and operators with a transaction open
  ChunkOf,     \* the chunk a finding is addressed to
  Clashing,    \* pairs of findings that are neighbours in their chunk and overlap
  Layout,      \* the chunks the worker makes under each chunking
  MaxFaults,   \* faults a behaviour may contain (bound)
  Env          \* the kinds of faults and overlaps a behaviour may contain (bound)

Versions == DOMAIN Layout

ASSUME AddressAssumption == ChunkOf \in [Findings -> Chunks]
ASSUME LayoutAssumption  == Layout \in [Versions -> (SUBSET Chunks) \ {{}}] /\ 0 \in Versions
ASSUME FaultsAssumption  == MaxFaults \in Nat

States  == {"none", "proposed", "accepted", "applied", "rejected", "reverted",
            "stale", "superseded"}
Overlay == {"accepted", "applied"}

\* The moves of a finding, as internal/patch declares them.
CanTransition(from, to) ==
  \/ to = "superseded" /\ from \notin {"none", "superseded"}
  \/ from = "proposed" /\ to \in {"accepted", "rejected", "stale"}
  \/ from = "accepted" /\ to \in {"applied", "rejected", "stale"}
  \/ from = "applied"  /\ to \in {"reverted", "stale"}
  \/ from \in {"rejected", "reverted"} /\ to = "proposed"

VARIABLES
  state,     \* patch_state of each finding, "none" before it is recorded
  late,      \* decided_at is later than the watermark of the rebuild under way
  made,      \* the chunking whose text each finding was recorded against
  chunking,  \* the chunking of the worker's configuration
  rows,      \* chunk rows of the transcript
  text,      \* the corrections replayed into each row's text
  flag,      \* embedding_stale
  built,     \* the chunking the rows were made with
  gone,      \* the transcript is deleted
  tx,        \* the transaction each decider has open
  pc,        \* where the worker is in its rebuild
  plan,      \* what the worker replayed, and under which chunking
  todo,      \* chunks whose flag the worker's last statement will clear
  faults     \* faults left

findingVars == <<state, late, made>>
chunkVars   == <<rows, text, flag, built, gone>>
workerVars  == <<pc, plan, todo>>
vars == <<findingVars, chunking, chunkVars, tx, workerVars, faults>>

NoTx   == [stage |-> "none"]
NoPlan == [version |-> 0, applied |-> {}, stale |-> {}]

Init ==
  /\ state = [f \in Findings |-> "none"]
  /\ late = [f \in Findings |-> FALSE]
  /\ made = [f \in Findings |-> 0]
  /\ chunking = 0
  /\ rows = {} /\ built = 0 /\ gone = FALSE
  /\ text = [c \in Chunks |-> {}]
  /\ flag = [c \in Chunks |-> FALSE]
  /\ tx = [d \in Deciders |-> NoTx]
  /\ pc = "idle" /\ plan = NoPlan /\ todo = {}
  /\ faults = MaxFaults

Fault(kind) == kind \in Env /\ faults > 0 /\ faults' = faults - 1

\* A decider's transaction holds the finding it wrote, the worker's last one
\* the findings it replayed.
Wrote(d)     == tx[d].stage = "wrote"
Locked(f)    == \E d \in Deciders : Wrote(d) /\ tx[d].finding = f
ShareLocked(f) == pc \in {"sharing", "scanned"} /\ f \in plan.applied

-----------------------------------------------------------------------------
(* Findings appear; the configuration and the transcript change.           *)

\* A judge run records a finding: against the stored text, or, before the
\* first embed (EVAL_GATES_EMBED), against the text about to be embedded.
Judge(f) ==
  /\ ~gone
  /\ state[f] = "none" /\ ~Locked(f)
  /\ ChunkOf[f] \in IF rows = {} THEN Layout[chunking] ELSE rows
  /\ state' = [state EXCEPT ![f] = "proposed"]
  /\ made' = [made EXCEPT ![f] = IF rows = {} THEN chunking ELSE built]
  /\ UNCHANGED <<late, chunking, chunkVars, tx, workerVars, faults>>

\* The operator changes CHUNK_SIZE and restarts the worker; counted with the
\* faults.
Rechunk ==
  /\ Fault("rechunk")
  /\ chunking + 1 \in Versions
  /\ chunking' = chunking + 1
  /\ pc = "idle"
  /\ UNCHANGED <<findingVars, chunkVars, tx, workerVars>>

-----------------------------------------------------------------------------
(* Deciders.  A transaction begins, writes its rows and holds their locks, *)
(* then commits or rolls back.                                             *)

\* The moves a reviewer may ask for.
Moves == {<<"proposed", "accepted">>, <<"proposed", "rejected">>,
          <<"accepted", "rejected">>, <<"applied", "reverted">>,
          <<"rejected", "proposed">>, <<"reverted", "proposed">>}

\* The moves of a decide run: of a proposed finding, or of one another recipe
\* accepted.
DecideMoves == {<<"proposed", "accepted">>, <<"proposed", "rejected">>,
                <<"accepted", "rejected">>, <<"applied", "reverted">>}

\* The moves an undo makes.
UndoMoves == {<<"accepted", "rejected">>, <<"applied", "reverted">>,
              <<"rejected", "proposed">>, <<"reverted", "proposed">>}

\* A reviewer's reconsider stamps no decision.
Stamps(to) == to \in {"accepted", "rejected", "reverted"}

\* The worker has taken its watermark.
Watched == pc \notin {"idle", "open"}

\* SetPatchState begins: now() is fixed here, whenever the commit comes.
Begin(d, f, move) ==
  /\ tx[d].stage = "none"
  /\ state[f] = move[1]
  /\ tx' = [tx EXCEPT ![d] = [stage |-> "begun", finding |-> f, from |-> move[1],
                               to |-> move[2], stamps |-> Stamps(move[2]),
                               late |-> Watched, again |-> FALSE]]
  /\ UNCHANGED <<findingVars, chunking, chunkVars, workerVars, faults>>

\* Nobody else holds the finding, and no statement of the worker overlaps
\* unless the environment has such overlaps.
MayWrite(f) ==
  /\ ~Locked(f) /\ ~ShareLocked(f)
  /\ pc = "scanned" => "overlap" \in Env

\* An accept needs the chunk's row to flag it.  SetPatchState does not ask for
\* one: a reviewer may accept before the first embed, or after a prune.
HasRow(f, to) ==
  to = "accepted" =>
    \/ ChunkOf[f] \in rows
    \/ rows = {} /\ "early" \in Env
    \/ rows # {} /\ "tail" \in Env

\* The compare-and-swap of a reviewer's decision.
Write(d) ==
  /\ tx[d].stage = "begun"
  /\ MayWrite(tx[d].finding) /\ HasRow(tx[d].finding, tx[d].to)
  /\ tx' = [tx EXCEPT ![d] = IF state[tx[d].finding] = tx[d].from
                               THEN [@ EXCEPT !.stage = "wrote"] ELSE NoTx]
  /\ UNCHANGED <<findingVars, chunking, chunkVars, workerVars, faults>>

\* A decide run stamps with clock_timestamp() as it writes, and wants the
\* chunk row to be there.
WriteBulk(d, f, move) ==
  /\ tx[d].stage = "none"
  /\ state[f] = move[1]
  /\ MayWrite(f)
  /\ ChunkOf[f] \in rows
  /\ tx' = [tx EXCEPT ![d] = [stage |-> "wrote", finding |-> f, from |-> move[1],
                               to |-> move[2], stamps |-> TRUE,
                               late |-> Watched, again |-> FALSE]]
  /\ UNCHANGED <<findingVars, chunking, chunkVars, workerVars, faults>>

\* An undo stamps too, and flags the chunk again after its commit.
WriteUndo(d, f, move) ==
  /\ tx[d].stage = "none"
  /\ state[f] = move[1]
  /\ MayWrite(f)
  /\ tx' = [tx EXCEPT ![d] = [stage |-> "wrote", finding |-> f, from |-> move[1],
                               to |-> move[2], stamps |-> TRUE,
                               late |-> Watched, again |-> TRUE]]
  /\ UNCHANGED <<findingVars, chunking, chunkVars, workerVars, faults>>

\* ClearFindings archives a finding and stamps no decision.
WriteClear(d, f) ==
  /\ tx[d].stage = "none"
  /\ state[f] \notin {"none", "superseded"}
  /\ MayWrite(f)
  /\ tx' = [tx EXCEPT ![d] = [stage |-> "wrote", finding |-> f, from |-> state[f],
                               to |-> "superseded", stamps |-> FALSE,
                               late |-> FALSE, again |-> state[f] \in Overlay]]
  /\ UNCHANGED <<findingVars, chunking, chunkVars, workerVars, faults>>

\* InsertManualCorrection: an accepted finding where there was none, on a
\* chunk that still reads as it did.
WriteManual(d, f) ==
  /\ tx[d].stage = "none"
  /\ state[f] = "none"
  /\ MayWrite(f)
  /\ ChunkOf[f] \in rows
  /\ tx' = [tx EXCEPT ![d] = [stage |-> "wrote", finding |-> f, from |-> "none",
                               to |-> "accepted", stamps |-> TRUE,
                               late |-> Watched, again |-> FALSE]]
  /\ UNCHANGED <<findingVars, chunking, chunkVars, workerVars, faults>>

\* Mutant: only an accept flags its chunk.
FlagsOnAccept(from, to) == to = "accepted"

\* The decisions that leave a chunk's text out of date: an accept, a revert, a
\* clear of a correction in the overlay.
Outdates(from, to) ==
  to \in {"accepted", "reverted"} \/ (to = "superseded" /\ from \in Overlay)

Commit(d) ==
  /\ Wrote(d)
  /\ LET f == tx[d].finding
         to == tx[d].to IN
     /\ state' = [state EXCEPT ![f] = to]
     /\ late' = [late EXCEPT ![f] = IF tx[d].stamps THEN tx[d].late /\ Watched ELSE @]
     /\ made' = [made EXCEPT ![f] = IF tx[d].from = "none" THEN built ELSE @]
     /\ flag' = [flag EXCEPT ![ChunkOf[f]] =
                   @ \/ (Outdates(tx[d].from, to) /\ ChunkOf[f] \in rows)]
     /\ tx' = [tx EXCEPT ![d] = IF tx[d].again
                                  THEN [@ EXCEPT !.stage = "reflag"] ELSE NoTx]
  /\ UNCHANGED <<chunking, rows, text, built, gone, workerVars, faults>>

\* An undo and a clear flag the withdrawn corrections' chunks once more.
Reflag(d) ==
  /\ tx[d].stage = "reflag"
  /\ flag' = [flag EXCEPT ![ChunkOf[tx[d].finding]] = @ \/ ChunkOf[tx[d].finding] \in rows]
  /\ tx' = [tx EXCEPT ![d] = NoTx]
  /\ UNCHANGED <<findingVars, chunking, rows, text, built, gone, workerVars, faults>>

\* A transaction that fails, or a process that dies before its re-flag.
Abort(d) ==
  /\ tx[d].stage # "none"
  /\ tx' = [tx EXCEPT ![d] = NoTx]
  /\ UNCHANGED <<findingVars, chunking, chunkVars, workerVars, faults>>

\* A requeue archives every finding and deletes the transcript; its locks
\* wait for every other writer's.
Requeue ==
  /\ ~gone
  /\ \A d \in Deciders : ~Wrote(d)
  /\ pc \notin {"sharing", "scanned"}
  /\ gone' = TRUE /\ rows' = {}
  /\ state' = [f \in Findings |-> IF state[f] = "none" THEN "none" ELSE "superseded"]
  /\ text' = [c \in Chunks |-> {}]
  /\ flag' = [c \in Chunks |-> FALSE]
  /\ UNCHANGED <<late, made, chunking, built, tx, workerVars, faults>>

-----------------------------------------------------------------------------
(* The worker's rebuild.                                                   *)

\* No transaction is between its write and its commit.  The worker waits only
\* for one that holds a row it wants; any other might as well write later.
Quiet == \A d \in Deciders : ~Wrote(d)

\* Selected for its first embed, or for a flagged chunk; chunked afresh.
Select ==
  /\ pc = "idle" /\ ~gone
  /\ rows = {} \/ \E c \in rows : flag[c]
  /\ pc' = "open"
  /\ plan' = [NoPlan EXCEPT !.version = chunking]
  /\ UNCHANGED <<findingVars, chunking, chunkVars, tx, todo, faults>>

\* GetCorrectionOverlay: its transaction's time, then its rows.
Watermark ==
  /\ pc = "open"
  /\ pc' = "marked"
  /\ late' = [f \in Findings |-> FALSE]
  /\ tx' = [d \in Deciders |-> IF tx[d].stage \in {"begun", "wrote"}
                                 THEN [tx[d] EXCEPT !.late = FALSE] ELSE tx[d]]
  /\ UNCHANGED <<state, made, chunking, chunkVars, plan, todo, faults>>

\* A correction lands if the chunk still is the text it was recorded against
\* and no other correction that resolves there overlaps it.
Resolves(f, v) == made[f] = v /\ ChunkOf[f] \in Layout[v]
Lands(f, v, overlay) ==
  /\ Resolves(f, v)
  /\ ~ \E g \in overlay : {f, g} \in Clashing /\ Resolves(g, v)

ReadOverlay ==
  /\ pc = "marked"
  /\ pc' = "read"
  /\ LET overlay == {f \in Findings : state[f] \in Overlay}
         v == plan.version
         applied == {f \in overlay : Lands(f, v, overlay)} IN
     plan' = [version |-> v, applied |-> applied, stale |-> overlay \ applied]
  /\ UNCHANGED <<findingVars, chunking, chunkVars, tx, todo, faults>>

\* Mutants: a state the code retires from is missing.
RetiresUndecided == {"proposed", "applied"}
RetiresPending   == {"proposed", "accepted"}

\* The states a finding is retired to stale from.
Retirable == {"proposed", "accepted", "applied"}

\* Mutant: the pruned tail keeps its flags.
FlagsKeptAll(kept) == flag

\* The rows that stay keep their flags, the pruned ones are gone.
FlagsKept(kept) == [c \in Chunks |-> flag[c] /\ c \in kept]

\* InsertChunks: every row rewritten, the tail pruned and its findings
\* retired, the flags of the rows that stay left alone.
Insert ==
  /\ pc = "read"
  /\ ~gone /\ Quiet
  /\ LET kept == Layout[plan.version] IN
     /\ rows' = kept
     /\ text' = [c \in Chunks |-> {f \in plan.applied : ChunkOf[f] = c /\ c \in kept}]
     /\ flag' = FlagsKept(kept)
     /\ state' = [f \in Findings |->
                    IF state[f] \in Retirable /\ ChunkOf[f] \notin kept
                      THEN "stale" ELSE state[f]]
  /\ built' = plan.version
  /\ pc' = "inserted"
  /\ UNCHANGED <<late, made, chunking, gone, tx, plan, todo, faults>>

\* Mutant: whatever was replayed is applied.
PromotesAll == {"accepted", "applied", "rejected", "reverted"}

\* The states MarkFindingsApplied promotes from.
Promotable == {"accepted", "applied"}

\* Mutant: every accepted finding is recorded as applied, replayed or not.
MarkAllApplied ==
  /\ pc = "inserted"
  /\ \A f \in plan.applied : ~Locked(f)
  /\ state' = [f \in Findings |-> IF state[f] \in Promotable THEN "applied" ELSE state[f]]
  /\ pc' = "recorded"
  /\ UNCHANGED <<late, made, chunking, chunkVars, tx, plan, todo, faults>>

\* MarkFindingsApplied waits for the deciders that hold a finding it names.
MarkApplied ==
  /\ pc = "inserted"
  /\ \A f \in plan.applied : ~Locked(f)
  /\ state' = [f \in Findings |->
                 IF f \in plan.applied /\ state[f] \in Promotable THEN "applied" ELSE state[f]]
  /\ pc' = "recorded"
  /\ UNCHANGED <<late, made, chunking, chunkVars, tx, plan, todo, faults>>

\* The best-effort write of either record is lost; the worker goes on.
LoseApplied ==
  /\ Fault("lost_applied")
  /\ pc = "inserted" /\ pc' = "recorded"
  /\ UNCHANGED <<findingVars, chunking, chunkVars, tx, plan, todo>>

Reason(f) ==
  IF Resolves(f, plan.version) THEN "overlapping_patch" ELSE "chunk_changed"

MarkStale ==
  /\ pc = "recorded"
  /\ \A f \in plan.stale : ~Locked(f)
  /\ state' = [f \in Findings |->
                 IF f \in plan.stale /\ state[f] \in Retirable THEN "stale" ELSE state[f]]
  /\ pc' = "retired"
  /\ UNCHANGED <<late, made, chunking, chunkVars, tx, plan, todo, faults>>

\* One statement for each reason; some of them are lost.
LoseStale ==
  /\ Fault("lost_stale")
  /\ pc = "recorded"
  /\ \E lost \in SUBSET {"chunk_changed", "overlapping_patch"} \ {{}} :
       LET kept == {f \in plan.stale : Reason(f) \notin lost} IN
       /\ \A f \in kept : ~Locked(f)
       /\ state' = [f \in Findings |->
                      IF f \in kept /\ state[f] \in Retirable THEN "stale" ELSE state[f]]
  /\ pc' = "retired"
  /\ UNCHANGED <<late, made, chunking, chunkVars, tx, plan, todo>>

\* ClearEmbeddingStale locks the findings it replayed.
ShareLock ==
  /\ pc = "retired"
  /\ \A f \in plan.applied : ~Locked(f)
  /\ pc' = "sharing"
  /\ UNCHANGED <<findingVars, chunking, chunkVars, tx, plan, todo, faults>>

\* Mutants: one of the conditions that hold a flag is missing.
HeldByTime(f)    == late[f] \/ (f \in plan.applied /\ state[f] \notin Overlay)
HeldByPending(f) == late[f] \/ state[f] = "accepted"

\* A flag stays while a finding of its chunk was decided after the watermark,
\* still waits to be replayed, or was replayed and has left the overlay.
Holds(f) ==
  \/ late[f]
  \/ state[f] = "accepted"
  \/ f \in plan.applied /\ state[f] \notin Overlay

\* The UPDATE's snapshot: which flags it will clear.
Scan ==
  /\ pc = "sharing"
  /\ Quiet \/ "overlap" \in Env
  /\ todo' = {c \in rows : flag[c] /\ ~ \E f \in Findings :
                             ChunkOf[f] = c /\ state[f] # "none" /\ Holds(f)}
  /\ pc' = "scanned"
  /\ UNCHANGED <<findingVars, chunking, chunkVars, tx, plan, faults>>

\* It waits for the transactions that hold a chunk row it wants, looks at that
\* row again, but not at the findings, and commits.
Clear ==
  /\ pc = "scanned"
  /\ \A d \in Deciders : Wrote(d) => ChunkOf[tx[d].finding] \notin todo
  /\ flag' = [c \in Chunks |-> flag[c] /\ c \notin todo]
  /\ pc' = "idle" /\ plan' = NoPlan /\ todo' = {}
  /\ late' = [f \in Findings |-> FALSE]
  /\ UNCHANGED <<state, made, chunking, rows, text, built, gone, tx, faults>>

\* The overlay cannot be read, the embedder fails, a lock times out, the
\* process dies: the rebuild ends where it is.
Interrupt ==
  /\ Fault("interrupt")
  /\ pc # "idle"
  /\ pc' = "idle" /\ plan' = NoPlan /\ todo' = {}
  /\ late' = [f \in Findings |-> FALSE]
  /\ UNCHANGED <<state, made, chunking, chunkVars, tx>>

\* The transcript a rebuild was made for is gone: its insert fails on the
\* foreign key.
InsertRefused ==
  /\ pc = "read" /\ gone
  /\ pc' = "idle" /\ plan' = NoPlan
  /\ late' = [f \in Findings |-> FALSE]
  /\ UNCHANGED <<state, made, chunking, chunkVars, tx, todo, faults>>

-----------------------------------------------------------------------------

Decide == \E d \in Deciders :
  \/ \E f \in Findings :
       \/ \E move \in Moves : Begin(d, f, move)
       \/ \E move \in DecideMoves : WriteBulk(d, f, move)
       \/ \E move \in UndoMoves : WriteUndo(d, f, move)
       \/ WriteClear(d, f) \/ WriteManual(d, f)
  \/ Write(d) \/ Commit(d) \/ Reflag(d) \/ Abort(d)

Rebuild ==
  \/ Select \/ Watermark \/ ReadOverlay \/ Insert \/ InsertRefused
  \/ MarkApplied \/ MarkStale \/ ShareLock \/ Scan \/ Clear

Next ==
  \/ \E f \in Findings : Judge(f)
  \/ Rechunk \/ Requeue
  \/ Decide
  \/ Rebuild \/ LoseApplied \/ LoseStale \/ Interrupt

Spec == Init /\ [][Next]_vars

\* The worker's loop goes on; a statement that waits for a row gets its turn in
\* the row's queue; a transaction ends.
Fairness ==
  /\ WF_vars(Select) /\ WF_vars(Watermark) /\ WF_vars(ReadOverlay) /\ WF_vars(InsertRefused)
  /\ SF_vars(Insert) /\ SF_vars(MarkApplied) /\ SF_vars(MarkStale)
  /\ SF_vars(ShareLock) /\ SF_vars(Scan) /\ SF_vars(Clear)
  /\ \A d \in Deciders : WF_vars(Commit(d) \/ Abort(d))

FairSpec == Spec /\ Fairness

-----------------------------------------------------------------------------
(* Properties.                                                             *)

Transactions ==
  {NoTx} \cup
  [stage : {"begun", "wrote", "reflag"}, finding : Findings, from : States, to : States,
   stamps : BOOLEAN, late : BOOLEAN, again : BOOLEAN]

\* The type invariant of the findings, the chunk rows, the deciders and the
\* worker of one transcript (internal/db/corrections.go, worker.go).
TypeOK ==
  /\ state \in [Findings -> States]
  /\ late \in [Findings -> BOOLEAN]
  /\ made \in [Findings -> Versions]
  /\ chunking \in Versions /\ built \in Versions
  /\ rows \in SUBSET Chunks
  /\ \A c \in Chunks : flag[c] \/ text[c] # {} => c \in rows
  /\ text \in [Chunks -> SUBSET Findings]
  /\ flag \in [Chunks -> BOOLEAN]
  /\ gone \in BOOLEAN
  /\ tx \in [Deciders -> Transactions]
  /\ pc \in {"idle", "open", "marked", "read", "inserted", "recorded", "retired",
             "sharing", "scanned"}
  /\ plan \in [version : Versions, applied : SUBSET Findings, stale : SUBSET Findings]
  /\ todo \in SUBSET Chunks
  /\ faults \in 0..MaxFaults

\* An accepted correction that is not in the text yet has its chunk flagged, so
\* the worker will come for it: no order of a decision's transaction and a
\* rebuild's steps drops the flag and with it the decision
\* (ClearEmbeddingStale's conditions, SetPatchState's flag).
AcceptedIsOwed ==
  \A f \in Findings :
    state[f] = "accepted" => rows = {} \/ pc = "inserted" \/ flag[ChunkOf[f]]

\* A correction that was rejected, reverted, retired or archived is out of the
\* searchable text, or its chunk is flagged for the rebuild that takes it out
\* (the flag of a revert and of a clear, the replayed-set condition).
WithdrawnIsOwed ==
  \A f \in Findings :
    f \in text[ChunkOf[f]] /\ state[f] \notin Overlay => flag[ChunkOf[f]]

\* When nothing is flagged and no rebuild runs, every finding recorded as
\* applied is in the text of its chunk (persistReplay: the flag is cleared only
\* after the outcome is recorded).
AppliedIsServed ==
  pc = "idle" /\ (\A c \in rows : ~flag[c]) =>
    \A f \in Findings : state[f] = "applied" => f \in text[ChunkOf[f]]

\* Whoever writes a patch_state, in whatever order the commits and the
\* worker's steps come, makes a move CanTransition allows: above all, only an
\* accepted finding becomes applied and a stale or archived one stays so
\* (the guards of markFindingsAppliedSQL, retire_pruned, SetPatchState).
LegalMoves ==
  [][\A f \in Findings : state'[f] # state[f] =>
       \/ state[f] = "none" /\ state'[f] \in {"proposed", "accepted"}
       \/ CanTransition(state[f], state'[f])]_vars

\* An accepted correction does not stay accepted: a rebuild applies it or
\* retires it, unless someone withdraws it first.
AcceptedSettles ==
  \A f \in Findings : (state[f] = "accepted") ~> (state[f] # "accepted")

\* A withdrawn correction leaves the searchable text.
WithdrawnLeaves ==
  \A f \in Findings :
    (f \in text[ChunkOf[f]] /\ state[f] \notin Overlay)
      ~> (f \notin text[ChunkOf[f]] \/ state[f] \in Overlay)
=============================================================================
