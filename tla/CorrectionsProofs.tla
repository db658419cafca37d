------------------------- MODULE CorrectionsProofs -------------------------
(***************************************************************************)
(* Proofs about Corrections, for any number of findings, chunks, deciders, *)
(* chunkings and faults.  The moves of a finding are legal whatever the    *)
(* environment does; that no accepted correction is forgotten and no       *)
(* withdrawn one kept is proved where no decision comes before the first   *)
(* embed, on a pruned chunk, or across the statement that clears a flag.   *)
(***************************************************************************)
EXTENDS Corrections, TLAPS

-----------------------------------------------------------------------------
(* The inductive invariant.                                                *)

\* What a decider may ask for: a hand-made correction, or a legal move that is
\* not the worker's.
LegalMove(from, to) ==
  \/ from = "none" /\ to = "accepted"
  \/ CanTransition(from, to) /\ to \notin {"applied", "stale"}

TxLegal ==
  \A d \in Deciders :
    tx[d].stage \in {"begun", "wrote"} => LegalMove(tx[d].from, tx[d].to)

\* A finding that was written is held: it still is what it was, and by one
\* transaction only.
TxHeld ==
  /\ \A d \in Deciders : Wrote(d) => state[tx[d].finding] = tx[d].from
  /\ \A d, e \in Deciders :
       Wrote(d) /\ Wrote(e) /\ tx[d].finding = tx[e].finding => d = e

TxInv == TypeOK /\ TxLegal /\ TxHeld

\* No decision before the first embed, on a pruned chunk, or while a flag clear
\* waits for a row.
Undisturbed == Env \cap {"early", "tail", "overlap"} = {}

\* What is in the overlay has a row, and what waits to be replayed a flag.
RowInv ==
  /\ \A d \in Deciders :
       Wrote(d) /\ tx[d].to = "accepted" => ChunkOf[tx[d].finding] \in rows
  /\ \A f \in Findings : state[f] \in Overlay => ChunkOf[f] \in rows
  /\ \A f \in Findings : state[f] = "accepted" => flag[ChunkOf[f]]

Stored == {"inserted", "recorded", "retired", "sharing", "scanned"}

\* What the worker replayed is recorded, was sorted into two disjoint sets,
\* and, until it is stored, has left the overlay only under a flag; from then on
\* the text holds nothing else.
PlanInv ==
  /\ plan.applied \cap plan.stale = {}
  /\ \A f \in plan.applied : state[f] # "none"
  /\ pc = "read" =>
       \A f \in plan.applied :
         /\ ChunkOf[f] \in Layout[plan.version]
         /\ gone \/ state[f] \in Overlay \/ flag[ChunkOf[f]]
  /\ pc \in Stored => \A c \in Chunks : text[c] \subseteq plan.applied

\* Between the snapshot of the flag clear and its end nobody is in the way.
ScanInv ==
  pc = "scanned" =>
    /\ Quiet
    /\ \A f \in Findings : ChunkOf[f] \in todo =>
         /\ state[f] # "accepted"
         /\ f \in plan.applied => state[f] \in Overlay

Owed == RowInv /\ PlanInv /\ ScanInv /\ WithdrawnIsOwed

-----------------------------------------------------------------------------
(* The steps that only open, advance or end a transaction.                 *)

\* Decider d goes on to transaction v.
Opens(d, v) ==
  /\ v \in Transactions
  /\ v.stage \in {"begun", "wrote"} => LegalMove(v.from, v.to)
  /\ v.stage = "wrote" => /\ state[v.finding] = v.from
                          /\ MayWrite(v.finding)
                          /\ HasRow(v.finding, v.to)
  /\ tx' = [tx EXCEPT ![d] = v]
  /\ UNCHANGED <<findingVars, chunking, chunkVars, workerVars, faults>>

\* A reviewer's transaction begins with a legal move.
LEMMA BeginOpens ==
  ASSUME NEW d \in Deciders, NEW f \in Findings, NEW move \in Moves, Begin(d, f, move)
  PROVE  \E v : Opens(d, v)
<1> DEFINE v == [stage |-> "begun", finding |-> f, from |-> move[1], to |-> move[2],
                 stamps |-> Stamps(move[2]), late |-> Watched, again |-> FALSE]
<1>1. move[1] \in States /\ move[2] \in States /\ LegalMove(move[1], move[2])
  BY DEF Moves, States, LegalMove, CanTransition
<1>2. v \in Transactions
  BY <1>1 DEF Transactions, Stamps, Watched
<1>3. Opens(d, v)
  BY <1>1, <1>2 DEF Opens, Begin
<1> QED
  BY <1>3

\* So does a decide run's.
LEMMA BulkOpens ==
  ASSUME NEW d \in Deciders, NEW f \in Findings, NEW move \in DecideMoves, WriteBulk(d, f, move)
  PROVE  \E v : Opens(d, v)
<1> DEFINE v == [stage |-> "wrote", finding |-> f, from |-> move[1], to |-> move[2],
                 stamps |-> TRUE, late |-> Watched, again |-> FALSE]
<1>1. move[1] \in States /\ move[2] \in States /\ LegalMove(move[1], move[2])
  BY DEF DecideMoves, States, LegalMove, CanTransition
<1>2. v \in Transactions
  BY <1>1 DEF Transactions, Watched
<1>3. Opens(d, v)
  BY <1>1, <1>2 DEF Opens, WriteBulk, HasRow
<1> QED
  BY <1>3

\* And an undo's, which never accepts.
LEMMA UndoOpens ==
  ASSUME NEW d \in Deciders, NEW f \in Findings, NEW move \in UndoMoves, WriteUndo(d, f, move)
  PROVE  \E v : Opens(d, v)
<1> DEFINE v == [stage |-> "wrote", finding |-> f, from |-> move[1], to |-> move[2],
                 stamps |-> TRUE, late |-> Watched, again |-> TRUE]
<1>1. /\ move[1] \in States /\ move[2] \in States /\ move[2] # "accepted"
      /\ LegalMove(move[1], move[2])
  BY DEF UndoMoves, States, LegalMove, CanTransition
<1>2. v \in Transactions
  BY <1>1 DEF Transactions, Watched
<1>3. Opens(d, v)
  BY <1>1, <1>2 DEF Opens, WriteUndo, HasRow
<1> QED
  BY <1>3

\* A clear archives what is not archived yet.
LEMMA ClearOpens ==
  ASSUME TypeOK, NEW d \in Deciders, NEW f \in Findings, WriteClear(d, f)
  PROVE  \E v : Opens(d, v)
<1> DEFINE v == [stage |-> "wrote", finding |-> f, from |-> state[f], to |-> "superseded",
                 stamps |-> FALSE, late |-> FALSE, again |-> state[f] \in Overlay]
<1>1. state[f] \in States /\ "superseded" \in States /\ LegalMove(state[f], "superseded")
  BY DEF TypeOK, WriteClear, States, LegalMove, CanTransition
<1>2. v \in Transactions
  BY <1>1 DEF Transactions
<1>3. Opens(d, v)
  BY <1>1, <1>2 DEF Opens, WriteClear, HasRow
<1> QED
  BY <1>3

\* A hand-made correction is accepted where there was none.
LEMMA ManualOpens ==
  ASSUME NEW d \in Deciders, NEW f \in Findings, WriteManual(d, f)
  PROVE  \E v : Opens(d, v)
<1> DEFINE v == [stage |-> "wrote", finding |-> f, from |-> "none", to |-> "accepted",
                 stamps |-> TRUE, late |-> Watched, again |-> FALSE]
<1>1. v \in Transactions
  BY DEF Transactions, States, Watched
<1>2. Opens(d, v)
  BY <1>1 DEF Opens, WriteManual, HasRow, LegalMove
<1> QED
  BY <1>2

\* The compare-and-swap goes on with the move the transaction began with.
LEMMA WriteOpens ==
  ASSUME TypeOK, TxLegal, NEW d \in Deciders, Write(d)
  PROVE  \E v : Opens(d, v)
<1>1. tx[d] \in Transactions /\ tx[d] # NoTx
  BY DEF TypeOK, Write, NoTx
<1>2. CASE state[tx[d].finding] = tx[d].from
  <2> DEFINE v == [tx[d] EXCEPT !.stage = "wrote"]
  <2>1. /\ v \in Transactions /\ v.from = tx[d].from /\ v.to = tx[d].to
        /\ v.finding = tx[d].finding
    BY <1>1 DEF Transactions, NoTx
  <2>2. Opens(d, v)
    BY <1>2, <2>1 DEF Opens, Write, TxLegal
  <2> QED
    BY <2>2
<1>3. CASE state[tx[d].finding] # tx[d].from
  <2>1. Opens(d, NoTx)
    BY <1>3 DEF Opens, Write, NoTx, Transactions
  <2> QED
    BY <2>1
<1> QED
  BY <1>2, <1>3

\* A rollback leaves no transaction.
LEMMA AbortOpens == ASSUME NEW d \in Deciders, Abort(d) PROVE \E v : Opens(d, v)
<1>1. Opens(d, NoTx)
  BY DEF Opens, Abort, NoTx, Transactions
<1> QED
  BY <1>1

\* A step of a decider opens, commits or flags again.
LEMMA DecideSteps ==
  ASSUME TypeOK, TxLegal, Decide
  PROVE  \E d \in Deciders : (\E v : Opens(d, v)) \/ Commit(d) \/ Reflag(d)
<1>1. PICK d \in Deciders :
        \/ \E f \in Findings :
             \/ \E move \in Moves : Begin(d, f, move)
             \/ \E move \in DecideMoves : WriteBulk(d, f, move)
             \/ \E move \in UndoMoves : WriteUndo(d, f, move)
             \/ WriteClear(d, f) \/ WriteManual(d, f)
        \/ Write(d) \/ Commit(d) \/ Reflag(d) \/ Abort(d)
  BY DEF Decide
<1> QED
  BY <1>1, BeginOpens, BulkOpens, UndoOpens, ClearOpens, ManualOpens, WriteOpens, AbortOpens

-----------------------------------------------------------------------------
(* Typing.                                                                 *)

\* A spent fault leaves a number of faults.
LEMMA FaultType ==
  ASSUME faults \in 0..MaxFaults, NEW kind, Fault(kind) PROVE faults' \in 0..MaxFaults
BY FaultsAssumption DEF Fault

\* A chunking makes chunks.
LEMMA LayoutType == ASSUME NEW v \in Versions PROVE Layout[v] \subseteq Chunks
BY LayoutAssumption

\* A transaction that wrote is a transaction.
LEMMA WrittenType ==
  ASSUME TypeOK, NEW d \in Deciders, Wrote(d)
  PROVE  /\ tx[d] \in Transactions /\ tx[d] # NoTx
         /\ tx[d].finding \in Findings
         /\ tx[d].from \in States /\ tx[d].to \in States
         /\ ChunkOf[tx[d].finding] \in Chunks
<1>1. tx[d] \in Transactions
  BY DEF TypeOK
<1>2. tx[d].stage # NoTx.stage
  BY DEF Wrote, NoTx
<1>3. tx[d] # NoTx
  BY <1>2
<1>4. /\ tx[d].finding \in Findings
      /\ tx[d].from \in States /\ tx[d].to \in States
  BY <1>1, <1>3 DEF Transactions
<1> QED
  BY <1>1, <1>3, <1>4, AddressAssumption

\* A decider's step keeps the types.
LEMMA DecideType ==
  ASSUME TypeOK, NEW d \in Deciders, (\E v : Opens(d, v)) \/ Commit(d) \/ Reflag(d)
  PROVE  TypeOK'
<1> USE DEF findingVars, chunkVars, workerVars
<1>1. CASE \E v : Opens(d, v)
  <2>1. tx' \in [Deciders -> Transactions]
    BY <1>1 DEF Opens, TypeOK
  <2> QED
    BY <1>1, <2>1 DEF Opens, TypeOK
<1>2. CASE Commit(d)
  <2>1. /\ tx[d] \in Transactions /\ tx[d] # NoTx
        /\ tx[d].finding \in Findings /\ tx[d].to \in States
        /\ ChunkOf[tx[d].finding] \in Chunks
    BY <1>2, WrittenType DEF Commit
  <2>2. state' \in [Findings -> States]
    BY <1>2, <2>1 DEF Commit, TypeOK
  <2>3. late' \in [Findings -> BOOLEAN]
    <3>1. (IF tx[d].stamps THEN tx[d].late /\ Watched ELSE late[tx[d].finding]) \in BOOLEAN
      BY <2>1 DEF TypeOK
    <3> QED
      BY <1>2, <2>1, <3>1 DEF Commit, TypeOK
  <2>4. made' \in [Findings -> Versions]
    BY <1>2, <2>1 DEF Commit, TypeOK
  <2>5. /\ flag' \in [Chunks -> BOOLEAN]
        /\ \A c \in Chunks : flag'[c] => flag[c] \/ c \in rows
    BY <1>2, <2>1 DEF Commit, TypeOK
  <2>6. tx' \in [Deciders -> Transactions]
    <3>1. [tx[d] EXCEPT !.stage = "reflag"] \in Transactions
      BY <2>1 DEF Transactions, NoTx
    <3>2. NoTx \in Transactions
      BY DEF Transactions
    <3> QED
      BY <1>2, <3>1, <3>2 DEF Commit, TypeOK
  <2>7. UNCHANGED <<chunking, rows, text, built, gone, pc, plan, todo, faults>>
    BY <1>2 DEF Commit
  <2> QED
    BY <2>2, <2>3, <2>4, <2>5, <2>6, <2>7 DEF TypeOK
<1>3. CASE Reflag(d)
  <2>1. tx' \in [Deciders -> Transactions]
    BY <1>3 DEF Reflag, TypeOK, Transactions
  <2>2. /\ flag' \in [Chunks -> BOOLEAN]
        /\ \A c \in Chunks : flag'[c] => flag[c] \/ c \in rows
    BY <1>3 DEF Reflag, TypeOK
  <2>3. UNCHANGED <<state, late, made, chunking, rows, text, built, gone, pc, plan, todo, faults>>
    BY <1>3 DEF Reflag
  <2> QED
    BY <2>1, <2>2, <2>3 DEF TypeOK
<1> QED
  BY <1>1, <1>2, <1>3

\* A step of the worker keeps them.
LEMMA RebuildType == ASSUME TypeOK, Rebuild PROVE TypeOK'
<1> USE DEF findingVars, chunkVars
<1>0. /\ plan \in [version : Versions, applied : SUBSET Findings, stale : SUBSET Findings]
      /\ chunking \in Versions /\ Layout[plan.version] \subseteq Chunks
      /\ 0 \in Versions
  BY LayoutAssumption, LayoutType DEF TypeOK
<1>1. CASE Select
  <2>1. plan' \in [version : Versions, applied : SUBSET Findings, stale : SUBSET Findings]
    BY <1>0, <1>1 DEF Select, NoPlan
  <2> QED
    BY <1>1, <2>1 DEF Select, TypeOK
<1>2. CASE Watermark
  <2>1. tx' \in [Deciders -> Transactions]
    <3>1. ASSUME NEW d \in Deciders, tx[d].stage \in {"begun", "wrote"}
          PROVE  [tx[d] EXCEPT !.late = FALSE] \in Transactions
      <4> DEFINE Open == [stage : {"begun", "wrote", "reflag"}, finding : Findings, from : States,
                          to : States, stamps : BOOLEAN, late : BOOLEAN, again : BOOLEAN]
      <4>1. tx[d] \in {NoTx} \cup Open
        BY DEF TypeOK, Transactions
      <4>2. tx[d] # NoTx
        BY <3>1 DEF NoTx
      <4>3. tx[d] \in Open
        BY <4>1, <4>2
      <4>4. [tx[d] EXCEPT !.late = FALSE] \in Open
        BY <4>3
      <4> QED
        BY <4>4 DEF Transactions
    <3> QED
      BY <1>2, <3>1 DEF Watermark, TypeOK
  <2>2. late' \in [Findings -> BOOLEAN]
    BY <1>2 DEF Watermark
  <2> QED
    BY <1>2, <2>1, <2>2 DEF Watermark, TypeOK
<1>3. CASE ReadOverlay
  <2>1. plan' \in [version : Versions, applied : SUBSET Findings, stale : SUBSET Findings]
    BY <1>0, <1>3 DEF ReadOverlay
  <2> QED
    BY <1>3, <2>1 DEF ReadOverlay, TypeOK
<1>4. CASE Insert
  <2>1. rows' = Layout[plan.version]
    BY <1>4 DEF Insert
  <2>2. /\ text' \in [Chunks -> SUBSET Findings]
        /\ \A c \in Chunks : text'[c] # {} => c \in rows'
    BY <1>0, <1>4 DEF Insert
  <2>3. /\ flag' \in [Chunks -> BOOLEAN]
        /\ \A c \in Chunks : flag'[c] => c \in rows'
    BY <1>0, <1>4 DEF Insert, FlagsKept
  <2>4. state' \in [Findings -> States]
    BY <1>4 DEF Insert, TypeOK, States
  <2>5. built' \in Versions /\ pc' = "inserted"
    BY <1>0, <1>4 DEF Insert
  <2>6. UNCHANGED <<late, made, chunking, gone, tx, plan, todo, faults>>
    BY <1>4 DEF Insert
  <2> QED
    BY <1>0, <2>1, <2>2, <2>3, <2>4, <2>5, <2>6 DEF TypeOK
<1>5. CASE InsertRefused
  BY <1>0, <1>5 DEF InsertRefused, TypeOK, NoPlan
<1>6. CASE MarkApplied
  <2>1. state' \in [Findings -> States]
    BY <1>6 DEF MarkApplied, TypeOK, States
  <2> QED
    BY <1>6, <2>1 DEF MarkApplied, TypeOK
<1>7. CASE MarkStale
  <2>1. state' \in [Findings -> States]
    BY <1>7 DEF MarkStale, TypeOK, States
  <2> QED
    BY <1>7, <2>1 DEF MarkStale, TypeOK
<1>8. CASE ShareLock
  BY <1>8 DEF ShareLock, TypeOK
<1>9. CASE Scan
  <2>1. todo' \in SUBSET Chunks
    BY <1>9 DEF Scan, TypeOK
  <2> QED
    BY <1>9, <2>1 DEF Scan, TypeOK
<1>10. CASE Clear
  <2>1. /\ flag' \in [Chunks -> BOOLEAN]
        /\ \A c \in Chunks : flag'[c] => flag[c]
    BY <1>10 DEF Clear, TypeOK
  <2>2. plan' \in [version : Versions, applied : SUBSET Findings, stale : SUBSET Findings]
    BY <1>0, <1>10 DEF Clear, NoPlan
  <2>3. late' \in [Findings -> BOOLEAN] /\ pc' = "idle" /\ todo' = {}
    BY <1>10 DEF Clear
  <2>4. UNCHANGED <<state, made, chunking, rows, text, built, gone, tx, faults>>
    BY <1>10 DEF Clear
  <2> QED
    BY <2>1, <2>2, <2>3, <2>4 DEF TypeOK
<1> QED
  BY <1>1, <1>2, <1>3, <1>4, <1>5, <1>6, <1>7, <1>8, <1>9, <1>10 DEF Rebuild

\* Every step keeps them.
LEMMA StepType == TypeOK /\ TxLegal /\ [Next]_vars => TypeOK'
<1> SUFFICES ASSUME TypeOK, TxLegal, [Next]_vars PROVE TypeOK'
  OBVIOUS
<1> USE DEF findingVars, chunkVars, workerVars
<1>1. CASE \E f \in Findings : Judge(f)
  BY <1>1 DEF Judge, TypeOK, States
<1>2. CASE Rechunk
  BY <1>2, FaultType DEF Rechunk, TypeOK
<1>3. CASE Requeue
  <2>1. state' \in [Findings -> States]
    BY <1>3 DEF Requeue, States
  <2> QED
    BY <1>3, <2>1 DEF Requeue, TypeOK
<1>4. CASE Decide
  BY <1>4, DecideSteps, DecideType
<1>5. CASE Rebuild
  BY <1>5, RebuildType
<1>6. CASE LoseApplied
  BY <1>6, FaultType DEF LoseApplied, TypeOK
<1>7. CASE LoseStale
  <2>1. state' \in [Findings -> States]
    BY <1>7 DEF LoseStale, TypeOK, States
  <2> QED
    BY <1>7, <2>1, FaultType DEF LoseStale, TypeOK
<1>8. CASE Interrupt
  <2>1. plan' \in [version : Versions, applied : SUBSET Findings, stale : SUBSET Findings]
    BY <1>8, LayoutAssumption DEF Interrupt, NoPlan
  <2> QED
    BY <1>8, <2>1, FaultType DEF Interrupt, TypeOK
<1>9. CASE UNCHANGED vars
  BY <1>9 DEF vars, TypeOK
<1> QED
  BY <1>1, <1>2, <1>3, <1>4, <1>5, <1>6, <1>7, <1>8, <1>9 DEF Next

-----------------------------------------------------------------------------
(* Transactions.                                                           *)

\* What a decider's step leaves in its slot is a transaction that may be there,
\* and the others' are left alone.
LEMMA CommitEnds ==
  ASSUME TypeOK, NEW d \in Deciders, Commit(d) \/ Reflag(d)
  PROVE  /\ tx'[d].stage \in {"reflag", "none"}
         /\ \A e \in Deciders : e # d => tx'[e] = tx[e]
<1>1. CASE Commit(d)
  <2>1. tx[d] \in Transactions /\ tx[d] # NoTx
    BY <1>1, WrittenType DEF Commit
  <2>2. [tx[d] EXCEPT !.stage = "reflag"].stage = "reflag"
    BY <2>1 DEF Transactions
  <2> QED
    BY <1>1, <2>2 DEF Commit, TypeOK, NoTx
<1>2. CASE Reflag(d)
  BY <1>2 DEF Reflag, TypeOK, NoTx
<1> QED
  BY <1>1, <1>2

\* The watermark makes no transaction another one.
LEMMA WatermarkKeepsTx ==
  ASSUME TypeOK, Watermark, NEW d \in Deciders
  PROVE  /\ tx'[d].stage = tx[d].stage
         /\ tx[d].stage \in {"begun", "wrote"} =>
              /\ tx'[d].finding = tx[d].finding
              /\ tx'[d].from = tx[d].from /\ tx'[d].to = tx[d].to
<1>1. CASE tx[d].stage \in {"begun", "wrote"}
  <2>1. tx[d] \in Transactions /\ tx[d].stage # NoTx.stage
    BY <1>1 DEF TypeOK, NoTx
  <2>2. tx[d] # NoTx
    BY <2>1
  <2>3. tx'[d] = [tx[d] EXCEPT !.late = FALSE]
    BY <1>1 DEF Watermark
  <2> QED
    BY <2>1, <2>2, <2>3 DEF Transactions
<1>2. CASE tx[d].stage \notin {"begun", "wrote"}
  BY <1>2 DEF Watermark
<1> QED
  BY <1>1, <1>2

\* Every step leaves legal transactions.
LEMMA StepLegal == TypeOK /\ TxLegal /\ [Next]_vars => TxLegal'
<1> SUFFICES ASSUME TypeOK, TxLegal, [Next]_vars,
                    NEW e \in Deciders, tx'[e].stage \in {"begun", "wrote"}
             PROVE  LegalMove(tx'[e].from, tx'[e].to)
  BY DEF TxLegal, LegalMove, CanTransition
<1>1. CASE Decide
  <2>1. PICK d \in Deciders : (\E v : Opens(d, v)) \/ Commit(d) \/ Reflag(d)
    BY <1>1, DecideSteps
  <2>2. CASE \E v : Opens(d, v)
    BY <2>2 DEF Opens, TypeOK, TxLegal
  <2>3. CASE Commit(d) \/ Reflag(d)
    BY <2>3, CommitEnds DEF TxLegal
  <2> QED
    BY <2>1, <2>2, <2>3
<1>2. CASE Watermark
  BY <1>2, WatermarkKeepsTx DEF TxLegal
<1>3. CASE tx' = tx
  BY <1>3 DEF TxLegal
<1>4. Decide \/ Watermark \/ tx' = tx
  BY DEF Next, Rebuild, Judge, Rechunk, Requeue, LoseApplied, LoseStale, Interrupt, Select,
         ReadOverlay, Insert, InsertRefused, MarkApplied, MarkStale, ShareLock, Scan, Clear,
         vars, chunkVars
<1> QED
  BY <1>1, <1>2, <1>3, <1>4

\* A step that leaves the transactions alone moves no finding one of them
\* holds.
LEMMA HeldStay ==
  ASSUME TypeOK, [Next]_vars, ~Decide, NEW d \in Deciders, Wrote(d)
  PROVE  state'[tx[d].finding] = state[tx[d].finding]
<1> DEFINE g == tx[d].finding
<1>0. g \in Findings /\ Locked(g) /\ state \in [Findings -> States]
  BY WrittenType DEF Locked, TypeOK
<1>1. CASE \E f \in Findings : Judge(f)
  BY <1>0, <1>1 DEF Judge
<1>2. CASE Requeue
  BY <1>2 DEF Requeue
<1>3. CASE Insert
  BY <1>3 DEF Insert, Quiet
<1>4. CASE MarkApplied
  BY <1>0, <1>4 DEF MarkApplied
<1>5. CASE MarkStale
  BY <1>0, <1>5 DEF MarkStale
<1>6. CASE LoseStale
  BY <1>0, <1>6 DEF LoseStale
<1>7. CASE state' = state
  BY <1>7
<1>8. \/ \E f \in Findings : Judge(f)
      \/ Requeue \/ Insert \/ MarkApplied \/ MarkStale \/ LoseStale
      \/ state' = state
  BY DEF Next, Rebuild, Rechunk, LoseApplied, Interrupt, Select, Watermark,
         ReadOverlay, InsertRefused, ShareLock, Scan, Clear, vars, findingVars
<1> QED
  BY <1>1, <1>2, <1>3, <1>4, <1>5, <1>6, <1>7, <1>8

\* Every step keeps what transactions hold.
LEMMA StepHeld == TypeOK /\ TxLegal /\ TxHeld /\ [Next]_vars => TxHeld'
<1> SUFFICES ASSUME TypeOK, TxLegal, TxHeld, [Next]_vars PROVE TxHeld'
  OBVIOUS
<1>1. CASE Decide
  <2>1. PICK d \in Deciders : (\E v : Opens(d, v)) \/ Commit(d) \/ Reflag(d)
    BY <1>1, DecideSteps
  <2>2. CASE \E v : Opens(d, v)
    <3>1. PICK v : Opens(d, v)
      BY <2>2
    <3>2. /\ state' = state /\ tx'[d] = v
          /\ \A e \in Deciders : e # d => tx'[e] = tx[e]
      BY <3>1 DEF Opens, findingVars, TypeOK
    <3>3. v.stage = "wrote" =>
            /\ state[v.finding] = v.from
            /\ \A e \in Deciders : Wrote(e) => tx[e].finding # v.finding
      BY <3>1 DEF Opens, MayWrite, Locked
    <3> QED
      BY <3>2, <3>3 DEF TxHeld, Wrote
  <2>3. CASE Commit(d)
    <3>1. /\ tx'[d].stage # "wrote"
          /\ \A e \in Deciders : e # d => tx'[e] = tx[e]
      BY <2>3, CommitEnds
    <3>2. /\ Wrote(d) /\ state \in [Findings -> States]
          /\ state' = [state EXCEPT ![tx[d].finding] = tx[d].to]
      BY <2>3 DEF Commit, TypeOK
    <3>3. ASSUME NEW e \in Deciders, e # d, Wrote(e)
          PROVE  state'[tx[e].finding] = tx[e].from
      <4>1. tx[e].finding # tx[d].finding /\ tx[e].finding \in Findings
        BY <3>2, <3>3, WrittenType DEF TxHeld
      <4> QED
        BY <3>2, <3>3, <4>1 DEF TxHeld
    <3> QED
      BY <3>1, <3>3 DEF TxHeld, Wrote
  <2>4. CASE Reflag(d)
    <3>1. /\ tx'[d].stage # "wrote" /\ state' = state
          /\ \A e \in Deciders : e # d => tx'[e] = tx[e]
      BY <2>4, CommitEnds DEF Reflag, findingVars
    <3> QED
      BY <3>1 DEF TxHeld, Wrote
  <2> QED
    BY <2>1, <2>2, <2>3, <2>4
<1>2. CASE ~Decide
  <2>1. \A d \in Deciders : Wrote(d) => state'[tx[d].finding] = tx[d].from
    BY <1>2, HeldStay DEF TxHeld
  <2>2. CASE Watermark
    <3>1. \A d \in Deciders : Wrote(d)' =>
            /\ Wrote(d)
            /\ tx'[d].finding = tx[d].finding /\ tx'[d].from = tx[d].from
      BY <2>2, WatermarkKeepsTx DEF Wrote
    <3> QED
      BY <2>1, <3>1 DEF TxHeld
  <2>3. CASE tx' = tx
    BY <2>1, <2>3 DEF TxHeld, Wrote
  <2>4. Watermark \/ tx' = tx
    BY <1>2 DEF Next, Rebuild, Judge, Rechunk, Requeue, LoseApplied, LoseStale, Interrupt,
       Select, ReadOverlay, Insert, InsertRefused, MarkApplied, MarkStale, ShareLock, Scan,
       Clear, vars, chunkVars
  <2> QED
    BY <2>2, <2>3, <2>4
<1> QED
  BY <1>1, <1>2

\* The system starts with the invariant of its transactions.
LEMMA InitTx == Init => TxInv
<1> SUFFICES ASSUME Init PROVE TxInv
  OBVIOUS
<1>1. \A d \in Deciders : tx[d].stage = "none"
  BY DEF Init, NoTx
<1>2. /\ tx \in [Deciders -> Transactions]
      /\ plan \in [version : Versions, applied : SUBSET Findings, stale : SUBSET Findings]
      /\ state \in [Findings -> States]
      /\ faults \in 0..MaxFaults
  BY LayoutAssumption, FaultsAssumption DEF Init, Transactions, NoPlan, States
<1> QED
  BY <1>1, <1>2, LayoutAssumption DEF Init, TxInv, TypeOK, TxLegal, TxHeld, Wrote

\* Every step keeps it.
LEMMA StepTx == TxInv /\ [Next]_vars => TxInv'
BY StepType, StepLegal, StepHeld DEF TxInv

\* The invariant of the transactions holds throughout.
LEMMA TxAlways == Spec => []TxInv
<1> QED
  BY InitTx, StepTx, PTL DEF Spec

\* Every variable of the findings, chunk rows, deciders and worker keeps its
\* type; a flag and a text belong to a row (corrections.go, worker.go).
THEOREM TypeCorrect == Spec => []TypeOK
<1>1. TxInv => TypeOK
  BY DEF TxInv
<1> QED
  BY <1>1, TxAlways, PTL

-----------------------------------------------------------------------------
(* Moves.                                                                  *)

\* A step moves a finding as CanTransition allows.
LEMMA StepMoves ==
  ASSUME TxInv, [Next]_vars, NEW f \in Findings, state'[f] # state[f]
  PROVE  \/ state[f] = "none" /\ state'[f] \in {"proposed", "accepted"}
         \/ CanTransition(state[f], state'[f])
<1>0. TypeOK /\ TxLegal /\ state \in [Findings -> States]
  BY DEF TxInv, TypeOK
<1>1. CASE \E g \in Findings : Judge(g)
  BY <1>0, <1>1 DEF Judge
<1>2. CASE Requeue
  BY <1>0, <1>2 DEF Requeue, States, CanTransition
<1>3. CASE Decide
  <2>1. PICK d \in Deciders : (\E v : Opens(d, v)) \/ Commit(d) \/ Reflag(d)
    BY <1>0, <1>3, DecideSteps
  <2>2. CASE Commit(d)
    <3>1. f = tx[d].finding /\ state'[f] = tx[d].to
      BY <1>0, <2>2 DEF Commit
    <3>2. state[f] = tx[d].from /\ LegalMove(tx[d].from, tx[d].to)
      BY <2>2, <3>1 DEF Commit, TxInv, TxHeld, TxLegal, Wrote
    <3> QED
      BY <3>1, <3>2 DEF LegalMove
  <2>3. CASE (\E v : Opens(d, v)) \/ Reflag(d)
    BY <2>3 DEF Opens, Reflag, findingVars
  <2> QED
    BY <2>1, <2>2, <2>3
<1>4. CASE Insert
  BY <1>0, <1>4 DEF Insert, Retirable, CanTransition
<1>5. CASE MarkApplied
  BY <1>0, <1>5 DEF MarkApplied, Promotable, CanTransition
<1>6. CASE MarkStale
  BY <1>0, <1>6 DEF MarkStale, Retirable, CanTransition
<1>7. CASE LoseStale
  BY <1>0, <1>7 DEF LoseStale, Retirable, CanTransition
<1>8. \/ \E g \in Findings : Judge(g)
      \/ Requeue \/ Decide \/ Insert \/ MarkApplied \/ MarkStale \/ LoseStale
      \/ state' = state
  BY DEF Next, Rebuild, Rechunk, LoseApplied, Interrupt, Select, Watermark,
         ReadOverlay, InsertRefused, ShareLock, Scan, Clear, vars, findingVars
<1> QED
  BY <1>1, <1>2, <1>3, <1>4, <1>5, <1>6, <1>7, <1>8

\* Whatever races, is lost or dies, every patch_state moves as CanTransition
\* allows: only an accepted finding becomes applied, and a stale or archived
\* one stays so (SetPatchState, ClearFindings, MarkFindingsApplied,
\* MarkFindingsStale, pruneChunksSQL, requeueSupersedeFindingsSQL).
THEOREM MovesAreLegal == Spec => LegalMoves
<1>1. TxInv /\ [Next]_vars =>
        [\A f \in Findings : state'[f] # state[f] =>
           \/ state[f] = "none" /\ state'[f] \in {"proposed", "accepted"}
           \/ CanTransition(state[f], state'[f])]_vars
  BY StepMoves
<1> QED
  BY <1>1, TxAlways, PTL DEF Spec, LegalMoves

-----------------------------------------------------------------------------
(* What is owed.                                                           *)

\* Addresses are chunks.
LEMMA Addresses == \A f \in Findings : ChunkOf[f] \in Chunks
BY AddressAssumption

\* What the worker replayed are findings.
LEMMA PlanType == TypeOK => plan.applied \subseteq Findings /\ plan.stale \subseteq Findings
BY DEF TypeOK

\* Opening a transaction takes nothing away from what is owed.
LEMMA OpensOwed ==
  ASSUME Undisturbed, TypeOK, Owed, NEW d \in Deciders, NEW v, Opens(d, v) PROVE Owed'
<1>1. /\ tx'[d] = v /\ \A e \in Deciders : e # d => tx'[e] = tx[e]
      /\ UNCHANGED <<state, rows, text, flag, gone, pc, plan, todo>>
  BY DEF Opens, TypeOK, findingVars, chunkVars, workerVars
<1>2. v.stage = "wrote" =>
        /\ pc # "scanned"
        /\ v.to = "accepted" => ChunkOf[v.finding] \in rows
  BY DEF Opens, MayWrite, HasRow, Undisturbed
<1>3. RowInv'
  BY <1>1, <1>2 DEF Owed, RowInv, Wrote, Overlay
<1>4. ScanInv'
  BY <1>1, <1>2 DEF Owed, ScanInv, Quiet, Wrote, Overlay
<1>5. PlanInv' /\ WithdrawnIsOwed'
  BY <1>1 DEF Owed, PlanInv, WithdrawnIsOwed, Overlay, Stored
<1> QED
  BY <1>3, <1>4, <1>5 DEF Owed

\* A commit leaves a flag wherever the text no longer says what the findings
\* say.
LEMMA CommitOwed ==
  ASSUME Undisturbed, TxInv, Owed, NEW d \in Deciders, Commit(d) PROVE Owed'
<1> DEFINE g == tx[d].finding
           to == tx[d].to
<1>1. /\ Wrote(d) /\ g \in Findings /\ ChunkOf[g] \in Chunks
      /\ state[g] = tx[d].from /\ LegalMove(tx[d].from, to)
  BY WrittenType DEF Commit, TxInv, TxHeld, TxLegal, Wrote
<1>2. /\ state'[g] = to
      /\ \A f \in Findings : f # g => state'[f] = state[f]
      /\ \A c \in Chunks : flag[c] => flag'[c]
      /\ Outdates(tx[d].from, to) /\ ChunkOf[g] \in rows => flag'[ChunkOf[g]]
      /\ UNCHANGED <<rows, text, gone, pc, plan, todo>>
  BY <1>1 DEF Commit, TxInv, TypeOK, workerVars
<1>3. \A e \in Deciders : Wrote(e)' => Wrote(e) /\ tx'[e] = tx[e]
  BY CommitEnds DEF TxInv, Wrote
<1>4. to # "none" /\ to # "applied"
  BY <1>1 DEF LegalMove, CanTransition
<1>5. pc # "scanned"
  BY <1>1 DEF Owed, ScanInv, Quiet
<1>6. to = "accepted" => ChunkOf[g] \in rows
  BY <1>1 DEF Owed, RowInv
<1>7. ASSUME state[g] \in Overlay, to \notin Overlay
      PROVE  flag'[ChunkOf[g]]
  <2>1. CASE state[g] = "accepted"
    BY <1>1, <1>2, <2>1 DEF Owed, RowInv
  <2>2. CASE state[g] = "applied"
    <3>1. to \in {"reverted", "superseded"}
      BY <1>1, <2>2 DEF LegalMove, CanTransition
    <3> QED
      BY <1>1, <1>2, <1>7, <3>1 DEF Owed, RowInv, Outdates
  <2> QED
    BY <1>7, <2>1, <2>2 DEF Overlay
<1>8. RowInv'
  <2>1. \A e \in Deciders :
          Wrote(e)' /\ tx'[e].to = "accepted" => ChunkOf[tx'[e].finding] \in rows'
    BY <1>2, <1>3 DEF Owed, RowInv
  <2>2. \A f \in Findings : state'[f] \in Overlay => ChunkOf[f] \in rows'
    BY <1>2, <1>4, <1>6 DEF Owed, RowInv, Overlay
  <2>3. \A f \in Findings : state'[f] = "accepted" => flag'[ChunkOf[f]]
    BY <1>2, <1>6, Addresses DEF Owed, RowInv, Outdates
  <2> QED
    BY <2>1, <2>2, <2>3 DEF RowInv, Overlay
<1>9. PlanInv'
  <2>1. \A f \in plan.applied : f \in Findings /\ ChunkOf[f] \in Chunks
    BY PlanType, Addresses DEF TxInv
  <2>2. \A f \in plan.applied : state'[f] # "none"
    BY <1>2, <1>4, <2>1 DEF Owed, PlanInv
  <2>3. pc = "read" => \A f \in plan.applied : gone \/ state'[f] \in Overlay \/ flag'[ChunkOf[f]]
    BY <1>2, <1>7, <2>1 DEF Owed, PlanInv
  <2> QED
    BY <1>2, <2>2, <2>3 DEF Owed, PlanInv, Overlay, Stored
<1>10. ScanInv'
  BY <1>2, <1>5 DEF ScanInv
<1>11. WithdrawnIsOwed'
  <2> SUFFICES ASSUME NEW f \in Findings, f \in text[ChunkOf[f]], state'[f] \notin Overlay
               PROVE  flag'[ChunkOf[f]]
    BY <1>2 DEF WithdrawnIsOwed, Overlay
  <2>1. CASE state[f] \in Overlay
    BY <1>2, <1>7, <2>1
  <2>2. CASE state[f] \notin Overlay
    BY <1>2, <2>2, Addresses DEF Owed, WithdrawnIsOwed
  <2> QED
    BY <2>1, <2>2
<1> QED
  BY <1>8, <1>9, <1>10, <1>11 DEF Owed

\* Flagging a chunk again does no harm.
LEMMA ReflagOwed == ASSUME TypeOK, Owed, NEW d \in Deciders, Reflag(d) PROVE Owed'
<1>1. /\ \A c \in Chunks : flag[c] => flag'[c]
      /\ UNCHANGED <<state, rows, text, gone, pc, plan, todo>>
  BY DEF Reflag, TypeOK, findingVars, workerVars
<1>2. \A e \in Deciders : Wrote(e)' => Wrote(e) /\ tx'[e] = tx[e]
  BY CommitEnds DEF Wrote
<1>3. RowInv'
  BY <1>1, <1>2, Addresses DEF Owed, RowInv, Overlay
<1>4. ScanInv'
  BY <1>1, <1>2 DEF Owed, ScanInv, Quiet, Overlay
<1>5. PlanInv'
  BY <1>1, PlanType, Addresses DEF Owed, PlanInv, Overlay, Stored
<1>6. WithdrawnIsOwed'
  BY <1>1, Addresses DEF Owed, WithdrawnIsOwed, Overlay
<1> QED
  BY <1>3, <1>4, <1>5, <1>6 DEF Owed

\* A new finding owes nothing.
LEMMA JudgeOwed == ASSUME TypeOK, Owed, NEW g \in Findings, Judge(g) PROVE Owed'
<1>1. /\ state[g] = "none" /\ state'[g] = "proposed"
      /\ \A f \in Findings : f # g => state'[f] = state[f]
      /\ UNCHANGED <<rows, text, flag, gone, tx, pc, plan, todo>>
  BY DEF Judge, TypeOK, chunkVars, workerVars
<1>2. g \notin plan.applied
  BY <1>1 DEF Owed, PlanInv
<1>3. RowInv'
  BY <1>1 DEF Owed, RowInv, Overlay, Wrote
<1>4. PlanInv'
  BY <1>1, <1>2, PlanType DEF Owed, PlanInv, Overlay, Stored
<1>5. ScanInv'
  BY <1>1, <1>2 DEF Owed, ScanInv, Quiet, Wrote, Overlay
<1>6. WithdrawnIsOwed'
  BY <1>1 DEF Owed, WithdrawnIsOwed, Overlay
<1> QED
  BY <1>3, <1>4, <1>5, <1>6 DEF Owed

\* A requeue takes the text and the findings with it.
LEMMA RequeueOwed == ASSUME TypeOK, Owed, Requeue PROVE Owed'
<1>1. /\ \A f \in Findings : state'[f] \notin Overlay /\ (state'[f] = "none" => state[f] = "none")
      /\ \A c \in Chunks : text'[c] = {}
      /\ gone' /\ pc # "scanned"
      /\ \A d \in Deciders : tx'[d].stage # "wrote"
      /\ UNCHANGED <<pc, plan, todo>>
  BY DEF Requeue, workerVars, Overlay, Wrote
<1>2. RowInv'
  BY <1>1 DEF RowInv, Overlay, Wrote
<1>3. PlanInv'
  BY <1>1, PlanType DEF Owed, PlanInv, Overlay, Stored
<1>4. ScanInv' /\ WithdrawnIsOwed'
  BY <1>1, Addresses DEF ScanInv, WithdrawnIsOwed, Overlay
<1> QED
  BY <1>2, <1>3, <1>4 DEF Owed

\* The worker's steps that only move the worker on.
LEMMA MoveOwed ==
  ASSUME TypeOK, Owed,
         \/ Select \/ InsertRefused \/ ShareLock \/ LoseApplied \/ Interrupt \/ Rechunk
  PROVE  Owed'
<1>1. UNCHANGED <<state, rows, text, flag, gone, tx>>
  BY DEF Select, InsertRefused, ShareLock, LoseApplied, Interrupt, Rechunk, findingVars, chunkVars
<1>2. /\ pc' \notin {"read", "scanned"}
      /\ \/ plan' = plan /\ (pc' \in Stored => pc \in Stored)
         \/ plan'.applied = {} /\ pc' \notin Stored
  BY DEF Select, InsertRefused, ShareLock, LoseApplied, Interrupt, Rechunk, NoPlan, workerVars,
         Stored
<1>3. RowInv' /\ WithdrawnIsOwed'
  BY <1>1 DEF Owed, RowInv, WithdrawnIsOwed, Overlay, Wrote
<1>4. PlanInv'
  BY <1>1, <1>2 DEF Owed, PlanInv, Stored
<1>5. ScanInv'
  BY <1>2 DEF ScanInv
<1> QED
  BY <1>3, <1>4, <1>5 DEF Owed

\* So does the watermark.
LEMMA WatermarkOwed == ASSUME TypeOK, Owed, Watermark PROVE Owed'
<1>1. /\ UNCHANGED <<state, rows, text, flag, gone, plan>>
      /\ pc' = "marked"
  BY DEF Watermark, chunkVars
<1>2. \A d \in Deciders : Wrote(d)' => /\ Wrote(d) /\ tx'[d].finding = tx[d].finding
                                       /\ tx'[d].to = tx[d].to
  BY WatermarkKeepsTx DEF Wrote
<1>3. RowInv'
  BY <1>1, <1>2 DEF Owed, RowInv, Overlay
<1>4. PlanInv' /\ ScanInv' /\ WithdrawnIsOwed'
  BY <1>1 DEF Owed, PlanInv, ScanInv, WithdrawnIsOwed, Stored, Overlay
<1> QED
  BY <1>3, <1>4 DEF Owed

\* What the worker reads is in the overlay and has a place in its chunking.
LEMMA ReadOwed == ASSUME TypeOK, Owed, ReadOverlay PROVE Owed'
<1>1. /\ UNCHANGED <<state, rows, text, flag, gone, tx>>
      /\ pc' = "read"
  BY DEF ReadOverlay, findingVars, chunkVars
<1>2. /\ plan'.applied \cap plan'.stale = {}
      /\ plan'.version = plan.version
      /\ \A f \in plan'.applied : state[f] \in Overlay /\ ChunkOf[f] \in Layout[plan.version]
  BY DEF ReadOverlay, Lands, Resolves
<1>3. RowInv' /\ WithdrawnIsOwed' /\ ScanInv'
  BY <1>1 DEF Owed, RowInv, WithdrawnIsOwed, ScanInv, Overlay, Wrote
<1>4. PlanInv'
  BY <1>1, <1>2 DEF PlanInv, Overlay, Stored
<1> QED
  BY <1>3, <1>4 DEF Owed

\* The rows the worker stores keep the flags of what it replayed in vain.
LEMMA InsertOwed == ASSUME TypeOK, Owed, Insert PROVE Owed'
<1> DEFINE kept == Layout[plan.version]
<1>1. /\ pc = "read" /\ pc' = "inserted" /\ ~gone
      /\ rows' = kept
      /\ \A d \in Deciders : tx'[d].stage # "wrote"
      /\ plan' = plan
  BY DEF Insert, Quiet, Wrote
<1>2. \A c \in Chunks : /\ flag'[c] <=> flag[c] /\ c \in kept
                        /\ text'[c] = {f \in plan.applied : ChunkOf[f] = c /\ c \in kept}
  BY DEF Insert, FlagsKept
<1>3. \A f \in Findings :
        /\ state'[f] # state[f] => state'[f] = "stale"
        /\ state[f] \in Overlay /\ ChunkOf[f] \notin kept => state'[f] = "stale"
        /\ ChunkOf[f] \in kept => state'[f] = state[f]
  BY DEF Insert, Retirable, Overlay
<1>4. RowInv'
  <2>1. \A f \in Findings : state'[f] \in Overlay => state[f] = state'[f] /\ ChunkOf[f] \in kept
    BY <1>3 DEF Overlay
  <2> QED
    BY <1>1, <1>2, <2>1, Addresses DEF Owed, RowInv, Overlay, Wrote
<1>5. PlanInv'
  BY <1>1, <1>2, <1>3, PlanType DEF Owed, PlanInv, Stored
<1>6. ScanInv'
  BY <1>1 DEF ScanInv
<1>7. WithdrawnIsOwed'
  BY <1>1, <1>2, <1>3, PlanType, Addresses DEF Owed, PlanInv, WithdrawnIsOwed, Overlay
<1> QED
  BY <1>4, <1>5, <1>6, <1>7 DEF Owed

\* Recording a landed correction leaves it in the overlay.
LEMMA AppliedOwed == ASSUME TypeOK, Owed, MarkApplied PROVE Owed'
<1>1. /\ UNCHANGED <<rows, text, flag, gone, tx, plan>>
      /\ pc = "inserted" /\ pc' = "recorded"
  BY DEF MarkApplied, chunkVars
<1>2. \A f \in Findings : /\ state'[f] \in Overlay <=> state[f] \in Overlay
                          /\ state'[f] = "accepted" => state[f] = "accepted"
                          /\ state'[f] = "none" => state[f] = "none"
  BY DEF MarkApplied, Promotable, Overlay
<1>3. RowInv' /\ ScanInv'
  BY <1>1, <1>2 DEF Owed, RowInv, ScanInv, Overlay, Wrote
<1>4. PlanInv'
  BY <1>1, <1>2, PlanType DEF Owed, PlanInv, Stored
<1>5. WithdrawnIsOwed'
  BY <1>1, <1>2 DEF Owed, WithdrawnIsOwed, Overlay
<1> QED
  BY <1>3, <1>4, <1>5 DEF Owed

\* Retiring a correction that did not land takes nothing out of the text.
LEMMA StaleOwed == ASSUME TypeOK, Owed, MarkStale \/ LoseStale PROVE Owed'
<1>1. /\ UNCHANGED <<rows, text, flag, gone, tx, plan>>
      /\ pc = "recorded" /\ pc' = "retired"
  BY DEF MarkStale, LoseStale, chunkVars
<1>2. \A f \in Findings : state'[f] # state[f] => f \in plan.stale /\ state'[f] = "stale"
  BY DEF MarkStale, LoseStale
<1>3. \A c \in Chunks : text[c] \subseteq plan.applied
  BY <1>1 DEF Owed, PlanInv, Stored
<1>4. RowInv' /\ ScanInv'
  BY <1>1, <1>2 DEF Owed, RowInv, ScanInv, Overlay, Wrote
<1>5. PlanInv'
  BY <1>1, <1>2, <1>3, PlanType DEF Owed, PlanInv, Stored
<1>6. WithdrawnIsOwed'
  BY <1>1, <1>2, <1>3, Addresses DEF Owed, PlanInv, WithdrawnIsOwed, Overlay
<1> QED
  BY <1>4, <1>5, <1>6 DEF Owed

\* The snapshot of the flag clear holds nothing that is owed.
LEMMA ScanOwed == ASSUME Undisturbed, TypeOK, Owed, Scan PROVE Owed'
<1>1. /\ UNCHANGED <<state, rows, text, flag, gone, tx, plan>>
      /\ pc = "sharing" /\ pc' = "scanned" /\ Quiet
  BY DEF Scan, findingVars, chunkVars, Undisturbed
<1>2. \A f \in Findings : ChunkOf[f] \in todo' => state[f] = "none" \/ ~Holds(f)
  BY DEF Scan
<1>3. ScanInv'
  BY <1>1, <1>2 DEF Owed, PlanInv, ScanInv, Quiet, Wrote, Holds, Overlay
<1>4. RowInv' /\ PlanInv' /\ WithdrawnIsOwed'
  BY <1>1 DEF Owed, RowInv, PlanInv, WithdrawnIsOwed, Overlay, Stored, Wrote
<1> QED
  BY <1>3, <1>4 DEF Owed

\* So the flags it clears are owed to nobody.
LEMMA ClearOwed == ASSUME TypeOK, Owed, Clear PROVE Owed'
<1>1. /\ UNCHANGED <<state, rows, text, gone, tx>>
      /\ pc = "scanned" /\ pc' = "idle" /\ plan'.applied = {}
  BY DEF Clear, NoPlan
<1>2. \A c \in Chunks : flag'[c] <=> flag[c] /\ c \notin todo
  BY DEF Clear
<1>3. \A f \in Findings : ChunkOf[f] \in todo =>
        /\ state[f] # "accepted"
        /\ f \in plan.applied => state[f] \in Overlay
  BY <1>1 DEF Owed, ScanInv
<1>4. RowInv'
  BY <1>1, <1>2, <1>3, Addresses DEF Owed, RowInv, Overlay, Wrote
<1>5. PlanInv' /\ ScanInv'
  BY <1>1 DEF PlanInv, ScanInv, Stored
<1>6. WithdrawnIsOwed'
  <2>1. \A c \in Chunks : text[c] \subseteq plan.applied
    BY <1>1 DEF Owed, PlanInv, Stored
  <2> QED
    BY <1>1, <1>2, <1>3, <2>1, Addresses DEF Owed, WithdrawnIsOwed, Overlay
<1> QED
  BY <1>4, <1>5, <1>6 DEF Owed

\* Every step keeps what is owed.
LEMMA StepOwed == Undisturbed /\ TxInv /\ Owed /\ [Next]_vars => Owed'
<1> SUFFICES ASSUME Undisturbed, TxInv, Owed, [Next]_vars PROVE Owed'
  OBVIOUS
<1>0. TypeOK /\ TxLegal
  BY DEF TxInv
<1>1. CASE \E f \in Findings : Judge(f)
  BY <1>0, <1>1, JudgeOwed
<1>2. CASE Requeue
  BY <1>0, <1>2, RequeueOwed
<1>3. CASE Decide
  <2>1. PICK d \in Deciders : (\E v : Opens(d, v)) \/ Commit(d) \/ Reflag(d)
    BY <1>0, <1>3, DecideSteps
  <2>2. CASE \E v : Opens(d, v)
    BY <1>0, <2>2, OpensOwed
  <2>3. CASE Commit(d)
    BY <2>3, CommitOwed
  <2>4. CASE Reflag(d)
    BY <1>0, <2>4, ReflagOwed
  <2> QED
    BY <2>1, <2>2, <2>3, <2>4
<1>4. CASE Select \/ InsertRefused \/ ShareLock \/ LoseApplied \/ Interrupt \/ Rechunk
  BY <1>0, <1>4, MoveOwed
<1>5. CASE Watermark
  BY <1>0, <1>5, WatermarkOwed
<1>6. CASE ReadOverlay
  BY <1>0, <1>6, ReadOwed
<1>7. CASE Insert
  BY <1>0, <1>7, InsertOwed
<1>8. CASE MarkApplied
  BY <1>0, <1>8, AppliedOwed
<1>9. CASE MarkStale \/ LoseStale
  BY <1>0, <1>9, StaleOwed
<1>10. CASE Scan
  BY <1>0, <1>10, ScanOwed
<1>11. CASE Clear
  BY <1>0, <1>11, ClearOwed
<1>12. CASE UNCHANGED vars
  BY <1>12 DEF vars, findingVars, chunkVars, workerVars, Owed, RowInv, PlanInv, ScanInv,
               WithdrawnIsOwed, Overlay, Stored, Quiet, Wrote
<1> QED
  BY <1>1, <1>2, <1>3, <1>4, <1>5, <1>6, <1>7, <1>8, <1>9, <1>10, <1>11, <1>12 DEF Next, Rebuild

\* At the start nothing is.
LEMMA InitOwed == Init => Owed
<1> SUFFICES ASSUME Init PROVE Owed
  OBVIOUS
<1>1. /\ \A f \in Findings : state[f] = "none" /\ ChunkOf[f] \in Chunks
      /\ \A c \in Chunks : text[c] = {}
      /\ \A d \in Deciders : tx[d].stage = "none"
      /\ pc = "idle" /\ plan.applied = {} /\ plan.stale = {}
  BY Addresses DEF Init, NoPlan, NoTx
<1>2. RowInv
  BY <1>1 DEF RowInv, Overlay, Wrote
<1>3. PlanInv /\ ScanInv
  BY <1>1 DEF PlanInv, ScanInv, Stored
<1>4. WithdrawnIsOwed
  BY <1>1 DEF WithdrawnIsOwed
<1> QED
  BY <1>2, <1>3, <1>4 DEF Owed

\* What is owed stays owed throughout.
LEMMA OwedAlways == Undisturbed /\ Spec => [](TxInv /\ Owed)
<1>1. Undisturbed /\ TxInv /\ Owed /\ [Next]_vars => (TxInv /\ Owed)'
  BY StepTx, StepOwed
<1>2. CASE Undisturbed
  <2>1. TxInv /\ Owed /\ [Next]_vars => (TxInv /\ Owed)'
    BY <1>1, <1>2
  <2> QED
    BY <2>1, InitTx, InitOwed, PTL DEF Spec
<1>3. CASE ~Undisturbed
  BY <1>3
<1> QED
  BY <1>2, <1>3

\* While no decision comes before the first embed, on a pruned chunk or across
\* the statement that clears a flag, an accepted correction always has its
\* chunk flagged: no order of deciders' transactions, lost records, crashes,
\* re-chunkings and rebuild steps drops it (clearEmbeddingStaleSQL's
\* conditions, SetPatchState's flag, InsertChunks leaving flags alone).
THEOREM AcceptedStaysOwed == Undisturbed /\ Spec => []AcceptedIsOwed
<1>1. TxInv /\ Owed => AcceptedIsOwed
  BY DEF Owed, RowInv, AcceptedIsOwed
<1> QED
  BY <1>1, OwedAlways, PTL

\* Under the same conditions a correction that was withdrawn is out of the
\* searchable text, or its chunk is flagged (the replayed-set condition of
\* clearEmbeddingStaleSQL, the flags of reverts and clears).
THEOREM WithdrawnStaysOwed == Undisturbed /\ Spec => []WithdrawnIsOwed
<1>1. TxInv /\ Owed => WithdrawnIsOwed
  BY DEF Owed
<1> QED
  BY <1>1, OwedAlways, PTL

-----------------------------------------------------------------------------
(* What is recorded as applied is served.                                  *)

\* Whatever CHUNK_SIZE the operator turns to, the transcript has as many chunks.
Unpruned == \A v, w \in Versions : Layout[v] = Layout[w]

Flagged == \E c \in rows : flag[c]

\* The worker runs for a flag or for the first rows; once it has read the
\* overlay each applied correction is among what it replayed or what it will
\* retire, and what it replayed reaches the text before it is recorded.
ServedInv ==
  /\ \A v \in Versions : rows = {} \/ rows = Layout[v]
  /\ \A f \in Findings : state[f] = "applied" => f \in text[ChunkOf[f]] \/ Flagged
  /\ pc \in {"open", "marked", "read"} => rows = {} \/ Flagged
  /\ pc = "read" =>
       \A f \in Findings : state[f] = "applied" => f \in plan.applied \cup plan.stale
  /\ pc \in {"inserted", "recorded"} =>
       \A f \in Findings : state[f] = "applied" => f \in text[ChunkOf[f]] \cup plan.stale
  /\ pc = "inserted" =>
       \A f \in plan.applied : ChunkOf[f] \in rows => f \in text[ChunkOf[f]]
  /\ pc \in {"retired", "sharing", "scanned"} =>
       \A f \in Findings : state[f] = "applied" => f \in text[ChunkOf[f]]

\* A step that promotes no finding, takes no flag away and leaves the rows and
\* the worker alone keeps what is served.
LEMMA QuietServed ==
  ASSUME TypeOK, ServedInv,
         \A f \in Findings : state'[f] = "applied" => state[f] = "applied",
         \A c \in Chunks : flag[c] => flag'[c],
         UNCHANGED <<rows, text, pc, plan>>
  PROVE  ServedInv'
<1>1. Flagged => Flagged'
  BY DEF Flagged, TypeOK
<1> QED
  BY <1>1 DEF ServedInv

\* No decision records a correction as applied, and none takes a flag away.
LEMMA DecideServed == ASSUME TxInv, ServedInv, Decide PROVE ServedInv'
<1>0. TypeOK /\ TxLegal
  BY DEF TxInv
<1>1. PICK d \in Deciders : (\E v : Opens(d, v)) \/ Commit(d) \/ Reflag(d)
  BY <1>0, DecideSteps
<1>2. CASE \E v : Opens(d, v)
  <2>1. UNCHANGED <<state, flag, rows, text, pc, plan>>
    BY <1>2 DEF Opens, findingVars, chunkVars, workerVars
  <2> QED
    BY <1>0, <2>1, QuietServed
<1>3. CASE Commit(d)
  <2>1. /\ Wrote(d) /\ LegalMove(tx[d].from, tx[d].to)
        /\ tx[d].finding \in Findings
    BY <1>0, <1>3, WrittenType DEF Commit, TxLegal, Wrote
  <2>2. tx[d].to # "applied"
    BY <2>1 DEF LegalMove
  <2>3. \A f \in Findings : state'[f] = "applied" => state[f] = "applied"
    BY <1>0, <1>3, <2>2 DEF Commit, TypeOK
  <2>4. /\ \A c \in Chunks : flag[c] => flag'[c]
        /\ UNCHANGED <<rows, text, pc, plan>>
    BY <1>0, <1>3 DEF Commit, TypeOK, workerVars
  <2> QED
    BY <1>0, <2>3, <2>4, QuietServed
<1>4. CASE Reflag(d)
  <2>1. /\ \A c \in Chunks : flag[c] => flag'[c]
        /\ UNCHANGED <<state, rows, text, pc, plan>>
    BY <1>0, <1>4 DEF Reflag, TypeOK, findingVars, workerVars
  <2> QED
    BY <1>0, <2>1, QuietServed
<1> QED
  BY <1>1, <1>2, <1>3, <1>4

\* A new finding is proposed.
LEMMA JudgeServed == ASSUME TypeOK, ServedInv, NEW g \in Findings, Judge(g) PROVE ServedInv'
<1>1. \A f \in Findings : state'[f] = "applied" => state[f] = "applied"
  BY DEF Judge, TypeOK
<1>2. UNCHANGED <<flag, rows, text, pc, plan>>
  BY DEF Judge, chunkVars, workerVars
<1> QED
  BY <1>1, <1>2, QuietServed

\* A requeue leaves nothing to serve.
LEMMA RequeueServed == ASSUME Owed, TypeOK, ServedInv, Requeue PROVE ServedInv'
<1>1. /\ \A f \in Findings : state'[f] # "applied"
      /\ rows' = {} /\ UNCHANGED <<pc, plan>>
  BY DEF Requeue, workerVars
<1> QED
  BY <1>1 DEF ServedInv

\* The worker sets out for a flag or for the first rows.
LEMMA SelectServed == ASSUME TypeOK, ServedInv, Select PROVE ServedInv'
<1>1. /\ rows = {} \/ Flagged
      /\ pc' = "open"
      /\ UNCHANGED <<state, rows, text, flag>>
  BY DEF Select, Flagged, findingVars, chunkVars
<1>2. Flagged' <=> Flagged
  BY <1>1 DEF Flagged
<1> QED
  BY <1>1, <1>2 DEF ServedInv

\* It gives up, or goes on without having written anything.
LEMMA MoveServed ==
  ASSUME TypeOK, ServedInv,
         Watermark \/ InsertRefused \/ ShareLock \/ LoseApplied \/ Interrupt \/ Rechunk \/ Scan
  PROVE  ServedInv'
<1>1. UNCHANGED <<state, rows, text, flag>>
  BY DEF Watermark, InsertRefused, ShareLock, LoseApplied, Interrupt, Rechunk, Scan,
         findingVars, chunkVars
<1>2. \/ pc' = "idle"
      \/ pc = "open" /\ pc' = "marked" /\ plan' = plan
      \/ pc = "inserted" /\ pc' = "recorded" /\ plan' = plan
      \/ pc = "retired" /\ pc' = "sharing" /\ plan' = plan
      \/ pc = "sharing" /\ pc' = "scanned" /\ plan' = plan
      \/ pc' = pc /\ plan' = plan
  BY DEF Watermark, InsertRefused, ShareLock, LoseApplied, Interrupt, Rechunk, Scan, workerVars
<1>3. Flagged' <=> Flagged
  BY <1>1 DEF Flagged
<1> QED
  BY <1>1, <1>2, <1>3 DEF ServedInv

\* Everything applied is in the overlay it reads.
LEMMA ReadServed == ASSUME TypeOK, ServedInv, ReadOverlay PROVE ServedInv'
<1>1. /\ pc = "marked" /\ pc' = "read"
      /\ UNCHANGED <<state, rows, text, flag>>
  BY DEF ReadOverlay, findingVars, chunkVars
<1>2. \A f \in Findings : state[f] = "applied" => f \in plan'.applied \cup plan'.stale
  BY DEF ReadOverlay, Overlay
<1>3. Flagged' <=> Flagged
  BY <1>1 DEF Flagged
<1> QED
  BY <1>1, <1>2, <1>3 DEF ServedInv

\* The rewritten rows are the same rows under the same flags, and their text
\* has all that was replayed.
LEMMA InsertServed == ASSUME Unpruned, TypeOK, Owed, ServedInv, Insert PROVE ServedInv'
<1> DEFINE kept == Layout[plan.version]
<1>1. /\ pc = "read" /\ pc' = "inserted" /\ rows' = kept /\ plan' = plan
      /\ plan.version \in Versions /\ kept \subseteq Chunks
  BY LayoutType DEF Insert, TypeOK
<1>2. \A c \in Chunks : /\ flag'[c] <=> flag[c] /\ c \in kept
                        /\ text'[c] = {f \in plan.applied : ChunkOf[f] = c /\ c \in kept}
  BY DEF Insert, FlagsKept
<1>3. \A f \in Findings :
        state'[f] = "applied" => state[f] = "applied" /\ ChunkOf[f] \in kept
  BY DEF Insert, Retirable
<1>4. \A f \in plan.applied : ChunkOf[f] \in kept => f \in text'[ChunkOf[f]]
  BY <1>2, PlanType, Addresses
<1>5. \A v \in Versions : rows' = Layout[v]
  BY <1>1 DEF Unpruned
<1>6. \A f \in Findings : state'[f] = "applied" => f \in text'[ChunkOf[f]] \cup plan.stale
  BY <1>1, <1>3, <1>4 DEF ServedInv
<1>7. ASSUME NEW f \in Findings, state[f] = "applied" PROVE Flagged'
  <2>1. ChunkOf[f] \in rows
    BY <1>7 DEF Owed, RowInv, Overlay
  <2>2. rows = kept /\ Flagged
    BY <1>1, <2>1 DEF ServedInv
  <2> QED
    BY <1>1, <1>2, <2>2 DEF Flagged
<1>8. \A f \in Findings : state'[f] = "applied" => f \in text'[ChunkOf[f]] \/ Flagged'
  BY <1>3, <1>7
<1> QED
  BY <1>1, <1>4, <1>5, <1>6, <1>8 DEF ServedInv

\* Only what is in the text is recorded.
LEMMA AppliedServed == ASSUME TypeOK, Owed, ServedInv, MarkApplied PROVE ServedInv'
<1>1. /\ pc = "inserted" /\ pc' = "recorded"
      /\ UNCHANGED <<rows, text, flag, plan>>
  BY DEF MarkApplied, chunkVars
<1>2. \A f \in Findings : state'[f] = "applied" =>
        state[f] = "applied" \/ (f \in plan.applied /\ state[f] \in Overlay)
  BY DEF MarkApplied, Promotable, Overlay
<1>3. \A f \in Findings : state'[f] = "applied" => f \in text[ChunkOf[f]] \cup plan.stale
  BY <1>1, <1>2 DEF Owed, RowInv, ServedInv
<1>4. Flagged' <=> Flagged
  BY <1>1 DEF Flagged
<1>5. \A f \in Findings : state'[f] = "applied" => f \in text[ChunkOf[f]] \/ Flagged
  BY <1>1, <1>2 DEF Owed, RowInv, ServedInv
<1> QED
  BY <1>1, <1>3, <1>4, <1>5 DEF ServedInv

\* What did not land is retired, whichever order the two records come in.
LEMMA StaleServed == ASSUME TypeOK, ServedInv, MarkStale PROVE ServedInv'
<1>1. /\ pc = "recorded" /\ pc' = "retired"
      /\ UNCHANGED <<rows, text, flag, plan>>
  BY DEF MarkStale, chunkVars
<1>2. \A f \in Findings : state'[f] = "applied" => state[f] = "applied" /\ f \notin plan.stale
  BY DEF MarkStale, Retirable
<1>3. \A f \in Findings : state'[f] = "applied" => f \in text[ChunkOf[f]]
  BY <1>1, <1>2 DEF ServedInv
<1> QED
  BY <1>1, <1>3 DEF ServedInv

\* The flags go when all that is applied is in the text.
LEMMA ClearServed == ASSUME TypeOK, ServedInv, Clear PROVE ServedInv'
<1>1. /\ pc = "scanned" /\ pc' = "idle"
      /\ UNCHANGED <<state, rows, text>>
  BY DEF Clear
<1> QED
  BY <1>1 DEF ServedInv

\* Every step keeps what is served, if no record of a retirement is lost.
LEMMA StepServed ==
  Unpruned /\ "lost_stale" \notin Env /\ TxInv /\ Owed /\ ServedInv /\ [Next]_vars => ServedInv'
<1> SUFFICES ASSUME Unpruned, "lost_stale" \notin Env, TxInv, Owed, ServedInv, [Next]_vars
             PROVE  ServedInv'
  OBVIOUS
<1>0. TypeOK
  BY DEF TxInv
<1>1. CASE \E f \in Findings : Judge(f)
  BY <1>0, <1>1, JudgeServed
<1>2. CASE Requeue
  BY <1>0, <1>2, RequeueServed
<1>3. CASE Decide
  BY <1>3, DecideServed
<1>4. CASE Watermark \/ InsertRefused \/ ShareLock \/ LoseApplied \/ Interrupt \/ Rechunk \/ Scan
  BY <1>0, <1>4, MoveServed
<1>5. CASE Select
  BY <1>0, <1>5, SelectServed
<1>6. CASE ReadOverlay
  BY <1>0, <1>6, ReadServed
<1>7. CASE Insert
  BY <1>0, <1>7, InsertServed
<1>8. CASE MarkApplied
  BY <1>0, <1>8, AppliedServed
<1>9. CASE MarkStale
  BY <1>0, <1>9, StaleServed
<1>10. CASE LoseStale
  BY <1>10 DEF LoseStale, Fault
<1>11. CASE Clear
  BY <1>0, <1>11, ClearServed
<1>12. CASE UNCHANGED vars
  <2>1. UNCHANGED <<state, flag, rows, text, pc, plan>>
    BY <1>12 DEF vars, findingVars, chunkVars, workerVars
  <2> QED
    BY <1>0, <2>1, QuietServed
<1> QED
  BY <1>1, <1>2, <1>3, <1>4, <1>5, <1>6, <1>7, <1>8, <1>9, <1>10, <1>11, <1>12 DEF Next, Rebuild

\* While no record of a retirement is lost, no re-chunking makes the transcript
\* shorter, and the conditions above hold, a correction recorded as applied is
\* in the text of its chunk once nothing is flagged and no rebuild runs,
\* whatever crashes, lost promotions, decisions and re-chunkings came before
\* (persistReplay: rows first, then the outcome, then the flags).
THEOREM AppliedStaysServed ==
  Undisturbed /\ Unpruned /\ "lost_stale" \notin Env /\ Spec => []AppliedIsServed
<1> DEFINE H == Undisturbed /\ Unpruned /\ "lost_stale" \notin Env
<1>1. ServedInv => AppliedIsServed
  BY DEF ServedInv, AppliedIsServed, Flagged
<1>2. Init => ServedInv
  BY DEF Init, ServedInv
<1>3. CASE H
  <2>1. TxInv /\ Owed /\ ServedInv /\ [Next]_vars => ServedInv'
    BY <1>3, StepServed
  <2>2. Spec => [](TxInv /\ Owed)
    BY <1>3, OwedAlways
  <2> QED
    BY <1>1, <1>2, <2>1, <2>2, PTL DEF Spec
<1>4. CASE ~H
  BY <1>4
<1> QED
  BY <1>3, <1>4
=============================================================================
