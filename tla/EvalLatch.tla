----------------------------- MODULE EvalLatch -----------------------------
(***************************************************************************)
(* How one job's transcript is judged and released for embedding: the      *)
(* worker's in-pipeline judge, gated (EVAL_GATES_EMBED: an eval pass, then *)
(* an embed pass) or not (judge, embed, persist), the operator's           *)
(* `earmark eval --backfill-*` and `--rejudge` runs beside it, and the      *)
(* requeue and re-embed that replace what is being judged                  *)
(* (internal/worker/worker.go, internal/db/judgepasses.go, cmd/eval).      *)
(*                                                                         *)
(* The outcome of a judge is keyed by the job (run_metrics), its findings  *)
(* and its pass by the transcript; a requeue replaces the transcript under *)
(* the same job.  All judges here run one recipe, and a chunk yields at    *)
(* most one finding, the same one each time it is judged.                  *)
(***************************************************************************)
EXTENDS Naturals

CONSTANTS
  Chunks,     \* chunk indexes of the transcript
  Worker,     \* the embed worker
  Commands,   \* operator processes running `earmark eval`
  Gates,      \* the settings of EVAL_GATES_EMBED to explore
  Flaws,      \* the sets of chunks in which a judge may find something, to explore
  MaxOps,     \* requeues and re-embeds in a behaviour (bound)
  MaxFaults,  \* failed writes, lost replies, stops and crashes (bound)
  MaxIds      \* chunkings under random ids (bound)

ASSUME BoundsAssumption == MaxOps \in Nat /\ MaxFaults \in Nat /\ MaxIds \in Nat
ASSUME ExploredAssumption == Gates \subseteq BOOLEAN /\ Flaws \subseteq SUBSET Chunks

Judges      == {Worker} \cup Commands
Transcripts == 0 .. MaxOps + 1   \* 0 is none
IdSets      == 0 .. MaxIds       \* 0 is the deterministic UUIDv5 set
None        == MaxIds + 1        \* no chunk is stored

VARIABLES
  gated,     \* EVAL_GATES_EMBED
  flawed,    \* the chunks in which a judge finds something
  tr,        \* the job's transcript; the job is done exactly when it has one
  made,      \* transcripts made so far
  chunks,    \* the ids the stored chunks bear, or None
  used,      \* random id sets handed out
  inserted,  \* id sets the current transcript's chunks have ever borne
  latch,     \* eval_finished_at: the transcript it was written about, 0 is NULL
  failed,    \* eval_failed_at: likewise
  live,      \* copies of each finding that are not superseded
  complete,  \* transcripts with a complete pass
  left,      \* passes left 'running' by a process that is done with them
  refused,   \* commits refused because the transcript is gone, their pass left
  at,        \* where each judge is, and what it holds
  ops, faults,  \* what is left of the bounds
  attempted, \* transcripts a judge ran over to the end
  crossed,   \* an outcome was written about another transcript of the job
  fellBack   \* findings were written outside a pass

setup    == <<gated, flawed>>
dbVars   == <<chunks, used, inserted, latch, failed, live, complete>>
seenVars == <<attempted, crossed, fellBack>>
vars == <<setup, tr, made, dbVars, left, refused, at, ops, faults, seenVars>>

Keys == IdSets \X Chunks

Idle == [pc |-> "idle", tr |-> 0, ids |-> 0, pass |-> "none", good |-> {},
         stop |-> FALSE, lost |-> FALSE]

Init ==
  /\ gated \in Gates /\ flawed \in Flaws
  /\ tr = 1 /\ made = 1
  /\ chunks = None /\ used = 0 /\ inserted = {}
  /\ latch = 0 /\ failed = 0
  /\ live = [k \in Keys |-> 0]
  /\ complete = {} /\ left = 0 /\ refused = 0
  /\ at = [a \in Judges |-> Idle]
  /\ ops = MaxOps /\ faults = MaxFaults
  /\ attempted = {} /\ crossed = FALSE /\ fellBack = FALSE

Goto(a, pc)   == at' = [at EXCEPT ![a].pc = pc]
Finish(a)     == at' = [at EXCEPT ![a] = Idle]
Fault         == faults > 0 /\ faults' = faults - 1
Found(a)      == at[a].good \cap flawed
Complete(a)   == at[a].good = Chunks /\ ~at[a].stop
DropPass(a)   == IF at[a].pass = "running" THEN 1 ELSE 0

\* Mutant: no dedupe.
AllFound(a) == Found(a)

\* The findings the recipe has not recorded yet.
Fresh(a) == {c \in Found(a) : live[<<at[a].ids, c>>] = 0}

-----------------------------------------------------------------------------
(* The operator and the runner.                                            *)

\* Mutant: the run_metrics row outlives its transcript.
KeepMetrics == UNCHANGED <<latch, failed>>

ClearMetrics == latch' = 0 /\ failed' = 0

\* A requeue resets the job, archives the findings and deletes the transcript,
\* its chunks and the job's run_metrics row, in one transaction.
Requeue ==
  /\ tr # 0 /\ ops > 0
  /\ tr' = 0 /\ ops' = ops - 1
  /\ chunks' = None /\ inserted' = {}
  /\ live' = [k \in Keys |-> 0]
  /\ ClearMetrics
  /\ crossed' = FALSE /\ fellBack' = FALSE
  /\ UNCHANGED <<setup, made, used, complete, left, refused, at, faults, attempted>>

\* The runner stores the new transcript and marks the job done.
Transcribe ==
  /\ tr = 0
  /\ tr' = made + 1 /\ made' = made + 1
  /\ UNCHANGED <<setup, dbVars, left, refused, at, ops, faults, seenVars>>

\* ReembedJobs deletes the chunks and touches nothing else.
Reembed ==
  /\ chunks # None /\ ops > 0
  /\ chunks' = None /\ ops' = ops - 1
  /\ UNCHANGED <<setup, tr, made, used, inserted, latch, failed, live, complete,
                 left, refused, at, faults, seenVars>>

-----------------------------------------------------------------------------
(* Selection.                                                              *)

\* The gated eval pass: not embedded, neither judged nor failed.
Unevaluated == tr # 0 /\ chunks = None /\ latch = 0 /\ failed = 0
\* Mutant: the gate fails closed.
JudgedUnembedded == tr # 0 /\ chunks = None /\ latch # 0

\* The gated embed pass: not embedded, judged or failed (fail open).
EvaluatedUnembedded == tr # 0 /\ chunks = None /\ (latch # 0 \/ failed # 0)
\* The ungated selection: not embedded.
Unembedded == tr # 0 /\ chunks = None

SelectEval ==
  /\ gated /\ at[Worker].pc = "idle" /\ Unevaluated
  /\ at' = [at EXCEPT ![Worker] = [Idle EXCEPT !.pc = "open", !.tr = tr]]
  /\ UNCHANGED <<setup, tr, made, dbVars, left, refused, ops, faults, seenVars>>

SelectEmbed ==
  /\ gated /\ at[Worker].pc = "idle" /\ EvaluatedUnembedded
  /\ at' = [at EXCEPT ![Worker] = [Idle EXCEPT !.pc = "embed", !.tr = tr]]
  /\ UNCHANGED <<setup, tr, made, dbVars, left, refused, ops, faults, seenVars>>

\* Without the gate each chunking draws new random ids.
SelectUngated ==
  /\ ~gated /\ at[Worker].pc = "idle" /\ Unembedded /\ used < MaxIds
  /\ used' = used + 1
  /\ at' = [at EXCEPT ![Worker] = [Idle EXCEPT !.pc = "open", !.tr = tr, !.ids = used + 1]]
  /\ UNCHANGED <<setup, tr, made, chunks, inserted, latch, failed, live, complete, left, refused,
                 ops, faults, seenVars>>

\* --backfill-unevaluated, --backfill-eval-errors, and --rejudge: embedded
\* transcripts without a complete pass.
Unlatched       == tr # 0 /\ latch = 0
JudgingFailed   == tr # 0 /\ failed # 0
NeverCompleted  == tr # 0 /\ chunks # None /\ tr \notin complete

SelectBackfill(a) ==
  /\ a \in Commands /\ at[a].pc = "idle" /\ (Unlatched \/ JudgingFailed)
  /\ at' = [at EXCEPT ![a] = [Idle EXCEPT !.pc = "read", !.tr = tr]]
  /\ UNCHANGED <<setup, tr, made, dbVars, left, refused, ops, faults, seenVars>>

SelectRejudge(a) ==
  /\ a \in Commands /\ at[a].pc = "idle" /\ NeverCompleted
  /\ at' = [at EXCEPT ![a] = [Idle EXCEPT !.pc = "reread", !.tr = tr]]
  /\ UNCHANGED <<setup, tr, made, dbVars, left, refused, ops, faults, seenVars>>

\* GetEvalChunksForTranscript: the stored rows; with none, a gated backfill
\* regenerates them under the deterministic ids, anything else skips the job.
Stored(a) == IF at[a].tr = tr THEN chunks ELSE None
ReadChunks(a) ==
  /\ at[a].pc \in {"read", "reread"}
  /\ \/ /\ Stored(a) # None
        /\ at' = [at EXCEPT ![a].pc = "open", ![a].ids = Stored(a)]
     \/ /\ Stored(a) = None
        /\ IF gated /\ at[a].pc = "read" THEN Goto(a, "open") ELSE Finish(a)
  /\ UNCHANGED <<setup, tr, made, dbVars, left, refused, ops, faults, seenVars>>

-----------------------------------------------------------------------------
(* Judging.                                                                *)

\* The pass is opened before the first call.  The worker judges without one
\* when that fails; a command never spends unrecorded.  An open whose reply is
\* lost leaves its row behind.
OpenPass(a) ==
  /\ at[a].pc = "open"
  /\ \/ /\ at' = [at EXCEPT ![a].pc = "judge", ![a].pass = "running"]
        /\ UNCHANGED <<left, faults>>
     \/ /\ Fault /\ left' \in {left, left + 1}
        /\ IF a = Worker THEN Goto(a, "judge") ELSE Finish(a)
  /\ UNCHANGED <<setup, tr, made, dbVars, refused, ops, seenVars>>

\* Mutant: a judge without a pass has nowhere to go.
CommitsAlways(a) == IF at[a].pass = "running" THEN "commit" ELSE "none"

Persists(a) == IF at[a].pass = "running" THEN "commit" ELSE "insert"

\* Mutant: findings are persisted before the embed.
PersistAtOnce(a, stop) == IF stop THEN "stopped" ELSE Persists(a)

\* What follows the judge's last call.
AfterJudge(a, stop) ==
  IF a = Worker /\ ~gated THEN "embed"
  ELSE IF stop THEN "stopped" ELSE Persists(a)

\* Any of the chunks fail; or the process is told to stop in the middle.
Judge(a, good, stop) ==
  /\ at[a].pc = "judge"
  /\ stop => good # Chunks
  /\ IF stop THEN Fault /\ UNCHANGED attempted
     ELSE attempted' = attempted \cup {at[a].tr} /\ UNCHANGED faults
  /\ at' = [at EXCEPT ![a].pc = AfterJudge(a, stop), ![a].good = good, ![a].stop = stop]
  /\ UNCHANGED <<setup, tr, made, dbVars, left, refused, ops, crossed, fellBack>>

-----------------------------------------------------------------------------
(* The database's side of one commit.                                      *)

\* A finding of a deleted transcript is refused by its foreign key.
Insertable(a, cs) == cs = {} \/ at[a].tr = tr

StoreFindings(a, cs) ==
  live' = [k \in Keys |-> live[k] + IF k[1] = at[a].ids /\ k[2] \in cs THEN 1 ELSE 0]

\* The run_metrics row of the job: the latch and no failure, or the failure
\* beside whatever latch there is.
Outcome(a, success) ==
  /\ IF success THEN latch' = at[a].tr /\ failed' = 0
     ELSE failed' = at[a].tr /\ UNCHANGED latch
  /\ crossed' = (crossed \/ at[a].tr # tr)

\* A deleted transcript has no finding to be a duplicate of.
NewFindings(a) == IF at[a].tr = tr THEN Fresh(a) ELSE Found(a)

\* CommitJudgePass: findings, the pass's close and, unless the judge was
\* stopped, the outcome.
PassStored(a) ==
  /\ at[a].pass = "running"
  /\ Insertable(a, NewFindings(a))
  /\ StoreFindings(a, NewFindings(a))
  /\ complete' = IF Complete(a) THEN complete \cup {at[a].tr} ELSE complete
  /\ IF at[a].stop THEN UNCHANGED <<latch, failed, crossed>>
     ELSE Outcome(a, Complete(a))

-----------------------------------------------------------------------------
(* Committing a judged pass.                                               *)

CommitPass(a) ==
  /\ at[a].pc \in {"commit", "stopped"} /\ at[a].pass = "running"
  /\ PassStored(a)
  /\ Finish(a)
  /\ UNCHANGED <<setup, tr, made, chunks, used, inserted, left, refused, ops, faults, attempted,
                 fellBack>>

\* The reply is lost after the commit took effect.
CommitUnacknowledged(a) ==
  /\ at[a].pc = "commit"
  /\ PassStored(a) /\ Fault
  /\ IF a = Worker THEN at' = [at EXCEPT ![a].pc = "close", ![a].pass = "closed"]
     ELSE Finish(a)
  /\ UNCHANGED <<setup, tr, made, chunks, used, inserted, left, refused, ops, attempted, fellBack>>

\* The commit is refused, or fails.  The worker goes on to close the pass as
\* failed and to write without it; a command, and a stopped judge, leave it
\* running.
CommitFails(a) ==
  /\ at[a].pc \in {"commit", "stopped"} /\ at[a].pass = "running"
  /\ IF Insertable(a, NewFindings(a)) THEN Fault ELSE UNCHANGED faults
  /\ IF a = Worker /\ at[a].pc = "commit" THEN Goto(a, "close") /\ UNCHANGED left
     ELSE Finish(a) /\ left' = left + 1
  /\ refused' = refused + IF Insertable(a, NewFindings(a)) THEN 0 ELSE 1
  /\ UNCHANGED <<setup, tr, made, dbVars, ops, seenVars>>

\* closePass after a failed commit: a pass closed already is not rewritten.
ClosePass ==
  /\ at[Worker].pc = "close"
  /\ \/ UNCHANGED <<left, faults>>
     \/ Fault /\ left' = left + DropPass(Worker)
  /\ at' = [at EXCEPT ![Worker].pc = "insert", ![Worker].pass = "none"]
  /\ UNCHANGED <<setup, tr, made, dbVars, refused, ops, seenVars>>

\* A judge stopped without a pass has nothing to record.
StopUnrecorded(a) ==
  /\ at[a].pc = "stopped" /\ at[a].pass = "none"
  /\ Finish(a)
  /\ UNCHANGED <<setup, tr, made, dbVars, left, refused, ops, faults, seenVars>>

-----------------------------------------------------------------------------
(* The worker's plain writes: every finding, recorded before or not, then  *)
(* the outcome.                                                            *)

InsertFindings ==
  LET good == Found(Worker) IN
  /\ at[Worker].pc = "insert"
  /\ \/ /\ Insertable(Worker, good)
        /\ StoreFindings(Worker, good)
        /\ fellBack' = (fellBack \/ good # {})
        /\ \/ Goto(Worker, "record") /\ UNCHANGED faults
           \/ Fault /\ at' = [at EXCEPT ![Worker].pc = "record", ![Worker].lost = TRUE]
     \/ /\ IF Insertable(Worker, good) THEN Fault ELSE UNCHANGED faults
        /\ at' = [at EXCEPT ![Worker].pc = "record", ![Worker].lost = TRUE]
        /\ UNCHANGED <<live, fellBack>>
  /\ UNCHANGED <<setup, tr, made, chunks, used, inserted, latch, failed, complete, left, refused,
                 ops, attempted, crossed>>

\* Mutant: latched although the findings were lost.
JudgedAll == Complete(Worker)

\* The latch only when every chunk was judged and the findings were stored.
Succeeded == Complete(Worker) /\ ~at[Worker].lost

Record ==
  /\ at[Worker].pc = "record"
  /\ \/ Outcome(Worker, Succeeded) /\ UNCHANGED faults
     \/ Fault /\ UNCHANGED <<latch, failed, crossed>>
  /\ Finish(Worker)
  /\ UNCHANGED <<setup, tr, made, chunks, used, inserted, live, complete, left, refused, ops,
                 attempted, fellBack>>

-----------------------------------------------------------------------------
(* Embedding.                                                              *)

\* The chunks are in: the gated worker is done, the other one now persists
\* what it judged.
Embed ==
  /\ at[Worker].pc = "embed" /\ at[Worker].tr = tr /\ ~at[Worker].stop
  /\ chunks' = at[Worker].ids
  /\ inserted' = inserted \cup {at[Worker].ids}
  /\ IF gated THEN Finish(Worker) ELSE Goto(Worker, Persists(Worker))
  /\ UNCHANGED <<setup, tr, made, used, latch, failed, live, complete, left, refused, ops, faults,
                 seenVars>>

\* Mutant: the pass is forgotten.
ForgetPass == left' = left + DropPass(Worker)

\* The deferred abandonPass closes the pass as failed, without findings.
AbandonPass == UNCHANGED left

\* The embed fails: on a deleted transcript, on shutdown, or of itself.
EmbedFails ==
  /\ at[Worker].pc = "embed"
  /\ \/ /\ IF at[Worker].tr = tr /\ ~at[Worker].stop THEN Fault ELSE UNCHANGED faults
        /\ AbandonPass
     \/ /\ Fault /\ left' = left + DropPass(Worker)
  /\ Finish(Worker)
  /\ UNCHANGED <<setup, tr, made, dbVars, refused, ops, seenVars>>

\* A process dies.
Crash(a) ==
  /\ at[a].pc # "idle" /\ Fault
  /\ left' = left + DropPass(a)
  /\ Finish(a)
  /\ UNCHANGED <<setup, tr, made, dbVars, refused, ops, seenVars>>

-----------------------------------------------------------------------------
Judging(a) ==
  \/ OpenPass(a)
  \/ \E good \in SUBSET Chunks, stop \in BOOLEAN : Judge(a, good, stop)
  \/ CommitPass(a) \/ CommitUnacknowledged(a) \/ CommitFails(a)
  \/ StopUnrecorded(a)

\* The worker's sequential loop.
Work ==
  \/ SelectEval \/ SelectEmbed \/ SelectUngated
  \/ Judging(Worker)
  \/ ClosePass \/ InsertFindings \/ Record
  \/ Embed \/ EmbedFails

Command(a) == SelectBackfill(a) \/ SelectRejudge(a) \/ ReadChunks(a) \/ Judging(a)

Next ==
  \/ Requeue \/ Transcribe \/ Reembed
  \/ Work
  \/ \E a \in Commands : Command(a)
  \/ \E a \in Judges : Crash(a)

Spec     == Init /\ [][Next]_vars
FairSpec == Spec /\ WF_vars(Work) /\ WF_vars(Transcribe)

-----------------------------------------------------------------------------
(* Properties.                                                             *)

TypeOK ==
  /\ gated \in BOOLEAN /\ flawed \subseteq Chunks /\ tr \in Transcripts /\ made \in Transcripts
  /\ chunks \in IdSets \cup {None} /\ used \in IdSets /\ inserted \subseteq IdSets
  /\ latch \in Transcripts /\ failed \in Transcripts
  /\ live \in [Keys -> Nat] /\ complete \subseteq Transcripts /\ left \in Nat /\ refused \in Nat
  /\ at \in [Judges -> [pc : {"idle", "read", "reread", "open", "judge", "embed", "commit",
                              "stopped", "close", "insert", "record"},
                        tr : Transcripts, ids : IdSets,
                        pass : {"none", "running", "closed"}, good : SUBSET Chunks,
                        stop : BOOLEAN, lost : BOOLEAN]]
  /\ ops \in 0 .. MaxOps /\ faults \in 0 .. MaxFaults
  /\ attempted \subseteq Transcripts /\ crossed \in BOOLEAN /\ fellBack \in BOOLEAN

HasFindings == \A c \in flawed : \E i \in IdSets : live[<<i, c>>] > 0

\* Latch only on success: when the job is latched, or the transcript has a
\* complete pass, about the transcript the job has now, every finding of the
\* judge that did it is stored (persistJudged, CommitJudgePass).
JudgedMeansStored == (tr # 0 /\ (latch = tr \/ tr \in complete)) => HasFindings

\* Under the gate a transcript is embedded only after a judge ran over it to
\* the end, unless a judge of an earlier transcript of the job recorded its
\* outcome late (the two selections of the gated flow).
EmbeddedWasJudged == (gated /\ chunks # None) => (tr \in attempted \/ crossed)

\* The same without the exception: what the gate is documented to guarantee.
GateHolds == (gated /\ chunks # None) => tr \in attempted

\* A finding is stored once however many judges, stops and retries there are,
\* as long as every judge writes through its pass (CommitJudgePass's dedupe).
FindingsOnce == (\E k \in Keys : live[k] > 1) => fellBack

\* No pass is left running by a process that went on, except for a failed
\* write, a crash, or findings refused because the transcript is gone
\* (abandonPass, closeStoppedPass, closePass).
PassesClose == left <= (MaxFaults - faults) + refused

\* Without the gate no finding names chunks that were never stored: they are
\* persisted after the insert (processTranscript, backfillOne).
FindingsHaveChunks ==
  ~gated => \A k \in Keys : live[k] > 0 => k[1] \in inserted

\* A judge outage, a lost outcome or a requeue never keeps a transcript out of
\* the search for good (the fail-open gate and the worker's retries).
Searchable == [](tr # 0 => <>(chunks # None \/ tr = 0 \/ used = MaxIds))
=============================================================================
