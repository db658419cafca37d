-------------------------- MODULE EvalLatchProofs --------------------------
(***************************************************************************)
(* Machine-checked proofs about EvalLatch: no transcript is embedded under *)
(* the gate unjudged, a latched or completely passed transcript has its    *)
(* findings, a finding is stored once, no pass is left running without a   *)
(* cause, and without the gate no finding names chunks never stored.       *)
(***************************************************************************)
EXTENDS EvalLatch, Integers, Sequences, TLAPS

Place == [pc : {"idle", "read", "reread", "open", "judge", "embed", "commit", "stopped", "close",
                "insert", "record"},
          tr : Transcripts, ids : IdSets, pass : {"none", "running", "closed"},
          good : SUBSET Chunks, stop : BOOLEAN, lost : BOOLEAN]

\* A job with a transcript has the last one made, and what is left of the
\* requeues bounds how many there can be.
Counting ==
  /\ made >= 1 /\ tr \in {0, made}
  /\ made + ops <= MaxOps + (IF tr = 0 THEN 0 ELSE 1)

TypeInv == TypeOK /\ Counting

LEMMA PlaceType == TypeInv => at \in [Judges -> Place]
  BY DEF TypeInv, TypeOK, Place

\* The part of the type that is not the judges' places.
Others ==
  /\ gated \in BOOLEAN /\ flawed \subseteq Chunks /\ tr \in Transcripts /\ made \in Transcripts
  /\ chunks \in IdSets \cup {None} /\ used \in IdSets /\ inserted \subseteq IdSets
  /\ latch \in Transcripts /\ failed \in Transcripts
  /\ live \in [Keys -> Nat] /\ complete \subseteq Transcripts /\ left \in Nat /\ refused \in Nat
  /\ ops \in 0 .. MaxOps /\ faults \in 0 .. MaxFaults
  /\ attempted \subseteq Transcripts /\ crossed \in BOOLEAN /\ fellBack \in BOOLEAN

LEMMA TypeParts == ASSUME TypeInv PROVE Others /\ Counting /\ at \in [Judges -> Place]
BY DEF TypeInv, TypeOK, Others, Place

LEMMA TypeWhole == ASSUME Others, Counting, at \in [Judges -> Place] PROVE TypeInv
BY DEF TypeInv, TypeOK, Others, Place

LEMMA TypeWhole2 == ASSUME Others', Counting', at' \in [Judges -> Place] PROVE TypeInv'
BY DEF TypeInv, TypeOK, Others, Place

LEMMA IdlePlace == Idle \in Place
BY BoundsAssumption DEF Idle, Place, Transcripts, IdSets

LEMMA InitType == Init => TypeInv
<1> SUFFICES ASSUME Init PROVE TypeInv
  OBVIOUS
<1>1. at \in [Judges -> Place]
  BY IdlePlace DEF Init
<1>2. live \in [Keys -> Nat]
  BY DEF Init
<1>3. gated \in BOOLEAN /\ flawed \subseteq Chunks
  BY ExploredAssumption DEF Init
<1>4. /\ tr \in Transcripts /\ made \in Transcripts /\ latch \in Transcripts
      /\ failed \in Transcripts /\ used \in IdSets /\ chunks \in IdSets \cup {None}
      /\ ops \in 0 .. MaxOps /\ faults \in 0 .. MaxFaults
  BY BoundsAssumption DEF Init, Transcripts, IdSets
<1>5. Others
  BY <1>2, <1>3, <1>4 DEF Init, Others
<1>6. Counting
  BY BoundsAssumption DEF Init, Counting
<1> QED
  BY <1>1, <1>5, <1>6, TypeWhole

\* A place with one field changed is a place.
LEMMA PlaceChanges ==
  ASSUME NEW f \in [Judges -> Place], NEW a \in Judges
  PROVE  /\ \A pc \in {"open", "judge", "embed", "commit", "stopped", "close", "insert", "record"} :
              [f EXCEPT ![a].pc = pc] \in [Judges -> Place]
         /\ \A pass \in {"none", "running", "closed"} : [f EXCEPT ![a].pass = pass] \in [Judges -> Place]
         /\ \A good \in SUBSET Chunks : [f EXCEPT ![a].good = good] \in [Judges -> Place]
         /\ \A b \in BOOLEAN : /\ [f EXCEPT ![a].stop = b] \in [Judges -> Place]
                              /\ [f EXCEPT ![a].lost = b] \in [Judges -> Place]
<1>1. \A pc \in {"open", "judge", "embed", "commit", "stopped", "close", "insert", "record"} :
        [f EXCEPT ![a].pc = pc] \in [Judges -> Place]
  BY DEF Place
<1>2. \A pass \in {"none", "running", "closed"} : [f EXCEPT ![a].pass = pass] \in [Judges -> Place]
  BY DEF Place
<1>3. \A good \in SUBSET Chunks : [f EXCEPT ![a].good = good] \in [Judges -> Place]
  BY DEF Place
<1>4. \A b \in BOOLEAN : [f EXCEPT ![a].stop = b] \in [Judges -> Place]
  BY DEF Place
<1>5. \A b \in BOOLEAN : [f EXCEPT ![a].lost = b] \in [Judges -> Place]
  BY DEF Place
<1> QED
  BY <1>1, <1>2, <1>3, <1>4, <1>5

LEMMA StoredType ==
  ASSUME TypeInv, NEW a \in Judges, NEW cs \in SUBSET Chunks, StoreFindings(a, cs)
  PROVE  live' \in [Keys -> Nat]
<1>1. \A k \in Keys : live[k] \in Nat
  BY DEF TypeInv, TypeOK
<1> QED
  BY <1>1 DEF StoreFindings

LEMMA FoundType ==
  ASSUME TypeInv, NEW a \in Judges
  PROVE  Found(a) \in SUBSET Chunks /\ NewFindings(a) \in SUBSET Chunks
BY DEF TypeInv, TypeOK, Found, NewFindings, Fresh

\* How a judge's step changes its own place and nobody else's.
Moves(a) == \E v \in Place : at' = [at EXCEPT ![a] = v]

LEMMA MoveType == ASSUME TypeInv, NEW a \in Judges, Moves(a) PROVE at' \in [Judges -> Place]
BY PlaceType DEF Moves

\* The operator's and the runner's steps keep the types.
LEMMA ControlType ==
  ASSUME TypeInv, Requeue \/ Transcribe \/ Reembed PROVE TypeInv'
<1>0. Others /\ Counting /\ at \in [Judges -> Place]
  BY TypeParts
<1>1. CASE Requeue
  <2>1. live' \in [Keys -> Nat]
    BY <1>1 DEF Requeue
  <2>2. tr' \in Transcripts /\ latch' \in Transcripts /\ failed' \in Transcripts /\ ops' \in 0 .. MaxOps
    BY <1>0, <1>1, BoundsAssumption DEF Requeue, ClearMetrics, Others, Transcripts
  <2>3. Others'
    BY <1>0, <1>1, <2>1, <2>2 DEF Requeue, Others, setup
  <2>4. Counting'
    BY <1>0, <1>1, BoundsAssumption DEF Requeue, Others, Counting, Transcripts
  <2> QED
    BY <1>0, <1>1, <2>3, <2>4, TypeWhole2 DEF Requeue
<1>2. CASE Transcribe
  <2>1. made' \in Transcripts
    BY <1>0, <1>2, BoundsAssumption DEF Transcribe, Others, Counting, Transcripts
  <2>2. Others' /\ at' = at
    BY <1>0, <1>2, <2>1 DEF Transcribe, Others, setup, dbVars, seenVars
  <2>3. Counting'
    BY <1>0, <1>2, BoundsAssumption DEF Transcribe, Others, Counting, Transcripts
  <2> QED
    BY <1>0, <2>2, <2>3, TypeWhole2
<1>3. CASE Reembed
  <2>1. ops' \in 0 .. MaxOps
    BY <1>0, <1>3, BoundsAssumption DEF Reembed, Others
  <2>2. Others' /\ at' = at
    BY <1>0, <1>3, <2>1 DEF Reembed, Others, setup, seenVars
  <2>3. Counting'
    BY <1>0, <1>3, BoundsAssumption DEF Reembed, Others, Counting
  <2> QED
    BY <1>0, <2>2, <2>3, TypeWhole2
<1> QED
  BY <1>1, <1>2, <1>3

LEMMA SelectType ==
  ASSUME TypeInv, NEW a \in Judges,
         \/ SelectEval \/ SelectEmbed \/ SelectUngated
         \/ SelectBackfill(a) \/ SelectRejudge(a) \/ ReadChunks(a)
  PROVE  TypeInv'
<1>0. Others /\ Counting /\ at \in [Judges -> Place] /\ Worker \in Judges
  BY TypeParts DEF Judges
<1>1. \A pc \in {"read", "reread", "open", "embed"}, i \in IdSets :
        [Idle EXCEPT !.pc = pc, !.tr = tr, !.ids = i] \in Place
  BY <1>0, IdlePlace DEF Idle, Place, Others
<1>2. \A pc \in {"read", "reread", "open", "embed"} : [Idle EXCEPT !.pc = pc, !.tr = tr] \in Place
  BY <1>0, IdlePlace DEF Idle, Place, Others
<1>3. CASE SelectEval \/ SelectEmbed
  <2>1. at' \in [Judges -> Place]
    BY <1>0, <1>2, <1>3 DEF SelectEval, SelectEmbed
  <2> QED
    BY <1>0, <1>3, <2>1, TypeWhole2
       DEF SelectEval, SelectEmbed, Others, Counting, setup, dbVars, seenVars
<1>4. CASE SelectUngated
  <2>1. used' \in IdSets /\ used' = used + 1
    BY <1>0, <1>4, BoundsAssumption DEF SelectUngated, Others, IdSets
  <2>2. at' \in [Judges -> Place]
    <3>0. used + 1 \in IdSets
      BY <2>1
    <3>1. [Idle EXCEPT !.pc = "open", !.tr = tr, !.ids = used + 1] \in Place
      BY <1>0, <3>0, IdlePlace DEF Idle, Place, Others
    <3> QED
      BY <1>0, <1>4, <3>1 DEF SelectUngated
  <2> QED
    BY <1>0, <1>4, <2>1, <2>2, TypeWhole2
       DEF SelectUngated, Others, Counting, setup, dbVars, seenVars
<1>5. CASE SelectBackfill(a) \/ SelectRejudge(a)
  <2>1. at' \in [Judges -> Place]
    BY <1>0, <1>2, <1>5 DEF SelectBackfill, SelectRejudge
  <2> QED
    BY <1>0, <1>5, <2>1, TypeWhole2
       DEF SelectBackfill, SelectRejudge, Others, Counting, setup, dbVars, seenVars
<1>6. CASE ReadChunks(a)
  <2>1. ASSUME Stored(a) # None PROVE Stored(a) \in IdSets
    BY <1>0, <2>1 DEF Stored, Others
  <2>2. at' \in [Judges -> Place]
    BY <1>0, <1>6, <2>1, IdlePlace DEF ReadChunks, Goto, Finish, Place
  <2> QED
    BY <1>0, <1>6, <2>2, TypeWhole2 DEF ReadChunks, Others, Counting, setup, dbVars, seenVars
<1> QED
  BY <1>3, <1>4, <1>5, <1>6

\* A judge's own steps move it to a place of its type.
LEMMA JudgingMoves ==
  ASSUME TypeInv, NEW a \in Judges, Judging(a) \/ Crash(a) PROVE at' \in [Judges -> Place]
<1>0. at \in [Judges -> Place]
  BY TypeParts
<1>1. CASE Finish(a)
  BY <1>0, <1>1, IdlePlace DEF Finish
<1>2. ASSUME NEW pc \in {"open", "judge", "insert", "record", "close", "commit"}, Goto(a, pc)
      PROVE  at' \in [Judges -> Place]
  BY <1>0, <1>2 DEF Goto, Place
<1>3. CASE OpenPass(a)
  <2>1. CASE at' = [at EXCEPT ![a].pc = "judge", ![a].pass = "running"]
    <3>1. [at EXCEPT ![a].pc = "judge"] \in [Judges -> Place]
      BY <1>0, PlaceChanges
    <3> QED
      BY <2>1, <3>1, PlaceChanges
  <2> QED
    BY <1>1, <1>2, <1>3, <2>1 DEF OpenPass
<1>4. ASSUME NEW good \in SUBSET Chunks, NEW stop \in BOOLEAN, Judge(a, good, stop)
      PROVE  at' \in [Judges -> Place]
  <2>1. AfterJudge(a, stop) \in {"embed", "stopped", "commit", "insert"}
    BY DEF AfterJudge, Persists
  <2>2. [at EXCEPT ![a].pc = AfterJudge(a, stop)] \in [Judges -> Place]
    BY <1>0, <2>1, PlaceChanges
  <2>3. [at EXCEPT ![a].pc = AfterJudge(a, stop), ![a].good = good] \in [Judges -> Place]
    BY <2>2, PlaceChanges
  <2> QED
    BY <1>4, <2>3, PlaceChanges DEF Judge
<1>5. CASE CommitUnacknowledged(a)
  <2>1. CASE at' = [at EXCEPT ![a].pc = "close", ![a].pass = "closed"]
    <3>1. [at EXCEPT ![a].pc = "close"] \in [Judges -> Place]
      BY <1>0, PlaceChanges
    <3> QED
      BY <2>1, <3>1, PlaceChanges
  <2> QED
    BY <1>1, <1>5, <2>1 DEF CommitUnacknowledged
<1> QED
  BY <1>1, <1>2, <1>3, <1>4, <1>5 DEF Judging, CommitPass, CommitFails, StopUnrecorded, Crash

\* And so do the worker's.
LEMMA WorkerMoves ==
  ASSUME TypeInv, ClosePass \/ InsertFindings \/ Record \/ Embed \/ EmbedFails
  PROVE  at' \in [Judges -> Place]
<1>0. at \in [Judges -> Place] /\ Worker \in Judges
  BY TypeParts DEF Judges
<1>1. CASE Finish(Worker)
  BY <1>0, <1>1, IdlePlace DEF Finish
<1>2. ASSUME NEW pc \in {"record", "commit", "insert"}, Goto(Worker, pc)
      PROVE  at' \in [Judges -> Place]
  BY <1>0, <1>2 DEF Goto, Place
<1>3. CASE ClosePass
  <2>1. [at EXCEPT ![Worker].pc = "insert"] \in [Judges -> Place]
    BY <1>0, PlaceChanges
  <2> QED
    BY <1>3, <2>1, PlaceChanges, <1>0 DEF ClosePass
<1>4. CASE InsertFindings
  <2>1. CASE at' = [at EXCEPT ![Worker].pc = "record", ![Worker].lost = TRUE]
    <3>1. [at EXCEPT ![Worker].pc = "record"] \in [Judges -> Place]
      BY <1>0, PlaceChanges
    <3> QED
      BY <1>0, <2>1, <3>1, PlaceChanges
  <2> QED
    BY <1>2, <1>4, <2>1 DEF InsertFindings
<1>5. CASE Embed
  BY <1>1, <1>2, <1>5 DEF Embed, Persists
<1> QED
  BY <1>1, <1>3, <1>4, <1>5 DEF Record, EmbedFails

\* What a judge's writes do to the rest.
LEMMA WritesType ==
  ASSUME TypeInv, NEW a \in Judges,
         \/ Judging(a) \/ Crash(a)
         \/ ClosePass \/ InsertFindings \/ Record \/ Embed \/ EmbedFails
  PROVE  Others' /\ Counting'
<1>0. /\ Others /\ Counting /\ Worker \in Judges /\ at[a] \in Place /\ at[Worker] \in Place
      /\ \A b \in Judges : DropPass(b) \in {0, 1}
  BY TypeParts DEF Judges, DropPass
<1>1. ASSUME Fault PROVE faults' \in 0 .. MaxFaults
  BY <1>0, <1>1, BoundsAssumption DEF Fault, Others
<1>2. ASSUME NEW b \in Judges, NEW s \in BOOLEAN, Outcome(b, s)
      PROVE  latch' \in Transcripts /\ failed' \in Transcripts /\ crossed' \in BOOLEAN
  <2>1. at[b] \in Place
    BY TypeParts
  <2> QED
    BY <1>0, <1>2, <2>1, BoundsAssumption DEF Outcome, Others, Place, Transcripts
<1>3. ASSUME PassStored(a)
      PROVE  /\ latch' \in Transcripts /\ failed' \in Transcripts /\ crossed' \in BOOLEAN
             /\ live' \in [Keys -> Nat] /\ complete' \subseteq Transcripts
  <2>1. live' \in [Keys -> Nat]
    BY <1>3, FoundType, StoredType DEF PassStored
  <2>2. complete' \subseteq Transcripts
    BY <1>0, <1>3 DEF PassStored, Others, Place
  <2>3. latch' \in Transcripts /\ failed' \in Transcripts /\ crossed' \in BOOLEAN
    BY <1>0, <1>2, <1>3 DEF PassStored, Others, Complete
  <2> QED
    BY <2>1, <2>2, <2>3
<1>4. CASE OpenPass(a) \/ ClosePass \/ EmbedFails \/ Crash(a) \/ CommitFails(a) \/ StopUnrecorded(a)
  <2>1. left' \in Nat /\ refused' \in Nat
    BY <1>0, <1>4 DEF OpenPass, ClosePass, EmbedFails, Crash, CommitFails, StopUnrecorded, AbandonPass,
       Others
  <2>2. faults' \in 0 .. MaxFaults
    BY <1>0, <1>1, <1>4 DEF OpenPass, ClosePass, EmbedFails, Crash, CommitFails, StopUnrecorded, Others
  <2>3. UNCHANGED <<setup, tr, made, dbVars, ops, seenVars>>
    BY <1>4 DEF OpenPass, ClosePass, EmbedFails, Crash, CommitFails, StopUnrecorded
  <2> QED
    BY <1>0, <2>1, <2>2, <2>3 DEF Others, Counting, setup, dbVars, seenVars
<1>5. ASSUME NEW good \in SUBSET Chunks, NEW stop \in BOOLEAN, Judge(a, good, stop)
      PROVE  Others' /\ Counting'
  <2>1. faults' \in 0 .. MaxFaults /\ attempted' \subseteq Transcripts
    BY <1>0, <1>1, <1>5 DEF Judge, Others, Place
  <2> QED
    BY <1>0, <1>5, <2>1 DEF Judge, Others, Counting, setup, dbVars
<1>6. CASE CommitPass(a) \/ CommitUnacknowledged(a)
  <2>1. faults' \in 0 .. MaxFaults
    BY <1>0, <1>1, <1>6 DEF CommitPass, CommitUnacknowledged, Others
  <2>2. PassStored(a) /\ UNCHANGED <<setup, tr, made, chunks, used, inserted, left, refused, ops,
                                     attempted, fellBack>>
    BY <1>6 DEF CommitPass, CommitUnacknowledged
  <2> QED
    BY <1>0, <1>3, <2>1, <2>2 DEF Others, Counting, setup
<1>7. CASE InsertFindings
  <2>1. faults' \in 0 .. MaxFaults
    BY <1>0, <1>1, <1>7 DEF InsertFindings, Others
  <2>2. live' \in [Keys -> Nat] /\ fellBack' \in BOOLEAN
    BY <1>0, <1>7, FoundType, StoredType DEF InsertFindings, Others
  <2> QED
    BY <1>0, <1>7, <2>1, <2>2 DEF InsertFindings, Others, Counting, setup
<1>8. CASE Record
  <2>1. faults' \in 0 .. MaxFaults
    BY <1>0, <1>1, <1>8 DEF Record, Others
  <2>2. latch' \in Transcripts /\ failed' \in Transcripts /\ crossed' \in BOOLEAN
    <3>1. Succeeded \in BOOLEAN
      BY DEF Succeeded, Complete
    <3> QED
      BY <1>0, <1>2, <1>8, <3>1 DEF Record, Others
  <2> QED
    BY <1>0, <1>8, <2>1, <2>2 DEF Record, Others, Counting, setup
<1>9. CASE Embed
  <2>1. chunks' \in IdSets /\ inserted' \subseteq IdSets
    BY <1>0, <1>9 DEF Embed, Others, Place
  <2> QED
    BY <1>0, <1>9, <2>1 DEF Embed, Others, Counting, setup, seenVars
<1> QED
  BY <1>4, <1>5, <1>6, <1>7, <1>8, <1>9 DEF Judging

LEMMA StepType == TypeInv /\ [Next]_vars => TypeInv'
<1> SUFFICES ASSUME TypeInv, [Next]_vars PROVE TypeInv'
  OBVIOUS
<1>1. CASE Requeue \/ Transcribe \/ Reembed
  BY <1>1, ControlType
<1>2. CASE Work
  BY <1>2, SelectType, JudgingMoves, WorkerMoves, WritesType, TypeWhole2 DEF Work, Judges
<1>3. ASSUME NEW a \in Commands, Command(a) PROVE TypeInv'
  BY <1>3, SelectType, JudgingMoves, WritesType, TypeWhole2 DEF Command, Judges
<1>4. ASSUME NEW a \in Judges, Crash(a) PROVE TypeInv'
  BY <1>4, JudgingMoves, WritesType, TypeWhole2
<1>5. CASE UNCHANGED vars
  BY <1>5, TypeParts, TypeWhole2 DEF vars, Others, Counting, setup, dbVars, seenVars
<1> QED
  BY <1>1, <1>2, <1>3, <1>4, <1>5 DEF Next

LEMMA TypeInvariant == Spec => []TypeInv
  BY InitType, StepType, PTL DEF Spec

\* In every reachable state every variable has its type.
THEOREM TypeCorrect == Spec => []TypeOK
<1>1. TypeInv => TypeOK
  BY DEF TypeInv
<1> QED
  BY <1>1, TypeInvariant, PTL

-----------------------------------------------------------------------------
(* Findings are stored once, and passes close.                             *)

OnceInv == fellBack \/ \A k \in Keys : live[k] <= 1

LEMMA OnceStep == TypeInv /\ OnceInv /\ [Next]_vars => OnceInv'
<1> SUFFICES ASSUME TypeInv, OnceInv, [Next]_vars PROVE OnceInv'
  OBVIOUS
<1>0. /\ \A k \in Keys : live[k] \in Nat
      /\ fellBack \in BOOLEAN
  BY DEF TypeInv, TypeOK
<1>1. ASSUME UNCHANGED <<live, fellBack>> PROVE OnceInv'
  BY <1>1 DEF OnceInv
<1>2. CASE Requeue
  BY <1>2 DEF Requeue, OnceInv
<1>3. ASSUME NEW a \in Judges, PassStored(a), UNCHANGED fellBack PROVE OnceInv'
  <2>1. CASE at[a].tr = tr
    <3>1. \A c \in NewFindings(a) : live[<<at[a].ids, c>>] = 0
      BY <2>1 DEF NewFindings, Fresh
    <3>2. \A k \in Keys : k[1] = at[a].ids /\ k[2] \in NewFindings(a) => live[k] = 0
      BY <3>1 DEF Keys
    <3>3. StoreFindings(a, NewFindings(a))
      BY <1>3 DEF PassStored
    <3> QED
      BY <1>0, <1>3, <3>2, <3>3 DEF StoreFindings, OnceInv
  <2>2. CASE at[a].tr # tr
    <3>1. StoreFindings(a, {})
      BY <1>3, <2>2 DEF PassStored, Insertable
    <3> QED
      BY <1>0, <1>3, <3>1 DEF StoreFindings, OnceInv
  <2> QED
    BY <2>1, <2>2
<1>4. CASE InsertFindings
  <2>1. CASE StoreFindings(Worker, Found(Worker)) /\ Found(Worker) = {} /\ UNCHANGED fellBack
    BY <1>0, <2>1 DEF StoreFindings, OnceInv
  <2>2. CASE fellBack'
    BY <2>2 DEF OnceInv
  <2>3. CASE UNCHANGED <<live, fellBack>>
    BY <1>1, <2>3
  <2> QED
    BY <1>0, <1>4, <2>1, <2>2, <2>3 DEF InsertFindings
<1>5. ASSUME NEW a \in Judges, Judging(a) PROVE OnceInv'
  <2>1. CASE CommitPass(a) \/ CommitUnacknowledged(a)
    BY <1>3, <2>1 DEF CommitPass, CommitUnacknowledged
  <2>2. ASSUME NEW good \in SUBSET Chunks, NEW stop \in BOOLEAN, Judge(a, good, stop)
        PROVE  UNCHANGED <<live, fellBack>>
    BY <2>2 DEF Judge, dbVars
  <2>3. CASE OpenPass(a) \/ CommitFails(a) \/ StopUnrecorded(a)
    BY <1>1, <2>3 DEF OpenPass, CommitFails, StopUnrecorded, dbVars, seenVars
  <2> QED
    BY <1>1, <1>5, <2>1, <2>2, <2>3 DEF Judging
<1>6. CASE Work
  BY <1>1, <1>4, <1>5, <1>6 DEF Work, SelectEval, SelectEmbed, SelectUngated, ClosePass, Record, Embed,
     EmbedFails, dbVars, seenVars, Judges
<1>7. ASSUME NEW a \in Commands, Command(a) PROVE OnceInv'
  BY <1>1, <1>5, <1>7 DEF Command, SelectBackfill, SelectRejudge, ReadChunks, dbVars, seenVars, Judges
<1> QED
  BY <1>1, <1>2, <1>6, <1>7 DEF Next, Transcribe, Reembed, Crash, vars, dbVars, seenVars

\* FindingsOnce: however many judges, stops, retries, requeues and re-embeds
\* there are, a finding is stored twice only if a worker wrote it outside its
\* pass (CommitJudgePass's dedupe against what the recipe recorded).
THEOREM FindingsAreOnce == Spec => []FindingsOnce
<1>1. Init => OnceInv
  BY DEF Init, OnceInv
<1>2. TypeInv /\ OnceInv => FindingsOnce
  BY DEF TypeInv, TypeOK, OnceInv, FindingsOnce
<1> QED
  BY <1>1, <1>2, OnceStep, TypeInvariant, PTL DEF Spec

LEMMA ClosesStep == TypeInv /\ PassesClose /\ [Next]_vars => PassesClose'
<1> SUFFICES ASSUME TypeInv, PassesClose, [Next]_vars PROVE PassesClose'
  OBVIOUS
<1>0. left \in Nat /\ refused \in Nat /\ faults \in Nat /\ MaxFaults \in Nat
  BY BoundsAssumption DEF TypeInv, TypeOK
<1>1. ASSUME UNCHANGED <<left, refused>>, faults' = faults \/ Fault PROVE PassesClose'
  BY <1>0, <1>1 DEF PassesClose, Fault
<1>2. ASSUME Fault, left' \in {left, left + 1}, refused' = refused PROVE PassesClose'
  BY <1>0, <1>2 DEF PassesClose, Fault
<1>3. ASSUME NEW a \in Judges, Judging(a) PROVE PassesClose'
  <2>1. CASE CommitFails(a)
    BY <1>0, <1>1, <1>2, <2>1 DEF CommitFails, PassesClose
  <2>2. CASE OpenPass(a)
    BY <1>1, <1>2, <2>2 DEF OpenPass
  <2>3. CASE CommitPass(a) \/ CommitUnacknowledged(a) \/ StopUnrecorded(a)
    BY <1>1, <2>3 DEF CommitPass, CommitUnacknowledged, StopUnrecorded
  <2>4. ASSUME NEW good \in SUBSET Chunks, NEW stop \in BOOLEAN, Judge(a, good, stop)
        PROVE  UNCHANGED <<left, refused>> /\ (faults' = faults \/ Fault)
    BY <2>4 DEF Judge
  <2> QED
    BY <1>1, <1>3, <2>1, <2>2, <2>3, <2>4 DEF Judging
<1>4. ASSUME NEW a \in Judges, Crash(a) PROVE PassesClose'
  BY <1>0, <1>2, <1>4 DEF Crash, DropPass
<1>5. CASE Work
  <2>1. CASE ClosePass \/ EmbedFails
    BY <1>0, <1>1, <1>2, <2>1 DEF ClosePass, EmbedFails, AbandonPass, DropPass
  <2>2. CASE InsertFindings \/ Record \/ Embed
    BY <1>1, <2>2 DEF InsertFindings, Record, Embed
  <2> QED
    BY <1>1, <1>3, <1>5, <2>1, <2>2 DEF Work, SelectEval, SelectEmbed, SelectUngated, Judges
<1>6. ASSUME NEW a \in Commands, Command(a) PROVE PassesClose'
  BY <1>1, <1>3, <1>6 DEF Command, SelectBackfill, SelectRejudge, ReadChunks, Judges
<1> QED
  BY <1>1, <1>4, <1>5, <1>6 DEF Next, Requeue, Transcribe, Reembed, vars

\* PassesClose: a pass is left 'running' only by a failed write, a crash, or
\* findings refused because their transcript is gone (abandonPass,
\* closeStoppedPass, closePass).
THEOREM PassesAreClosed == Spec => []PassesClose
<1>1. Init => PassesClose
  BY BoundsAssumption DEF Init, PassesClose
<1> QED
  BY <1>1, ClosesStep, TypeInvariant, PTL DEF Spec

-----------------------------------------------------------------------------
(* The gate.                                                               *)

\* A judge that is about to commit or record has run over its transcript to
\* the end; one that is about to embed had it judged, unless an outcome of
\* another transcript stood in.
PlaceInv ==
  \A a \in Judges :
    /\ at[a].tr <= made
    /\ at[a].pc # "idle" => at[a].tr # 0
    /\ at[a].pc \in {"commit", "close", "insert", "record"} => at[a].tr \in attempted
    /\ at[a].pc = "stopped" => at[a].stop
    /\ at[a].pc = "embed" /\ gated /\ at[a].tr = tr => tr \in attempted \/ crossed
    /\ at[a].pc = "embed" /\ ~gated /\ ~at[a].stop => at[a].tr \in attempted

\* An outcome on the row is of the transcript the job has, or came late.
GateInv ==
  /\ 0 \notin attempted
  /\ tr = 0 => chunks = None
  /\ latch # 0 \/ failed # 0 => tr \in attempted \/ crossed
  /\ gated /\ chunks # None => tr \in attempted \/ crossed

GateWhole == PlaceInv /\ GateInv

\* What the step of one judge must show of its new place.
LEMMA GateMove ==
  ASSUME TypeInv, PlaceInv, NEW a \in Judges, \A b \in Judges \ {a} : at'[b] = at[b],
         UNCHANGED <<gated, tr, made>>, attempted \subseteq attempted', crossed => crossed',
         at'[a].tr <= made, at'[a].pc # "idle" => at'[a].tr # 0,
         at'[a].pc \in {"commit", "close", "insert", "record"} => at'[a].tr \in attempted',
         at'[a].pc = "stopped" => at'[a].stop,
         at'[a].pc = "embed" /\ gated /\ at'[a].tr = tr => tr \in attempted' \/ crossed',
         at'[a].pc = "embed" /\ ~gated /\ ~at'[a].stop => at'[a].tr \in attempted'
  PROVE  PlaceInv'
BY DEF PlaceInv

LEMMA CrossedStays ==
  ASSUME NEW a \in Judges, NEW s \in BOOLEAN, Outcome(a, s) PROVE crossed => crossed'
BY DEF Outcome

LEMMA StoredCrossed == ASSUME NEW a \in Judges, PassStored(a) PROVE crossed => crossed'
<1>1. CASE at[a].stop
  BY <1>1 DEF PassStored
<1>2. CASE ~at[a].stop
  BY <1>2, CrossedStays DEF PassStored, Complete
<1> QED
  BY <1>1, <1>2

\* A judge that goes home leaves nothing to show.
LEMMA GoesHome ==
  ASSUME TypeInv, PlaceInv, NEW a \in Judges, Finish(a),
         UNCHANGED <<gated, tr, made, attempted>>, crossed => crossed'
  PROVE  PlaceInv'
<1>1. at' = [at EXCEPT ![a] = Idle] /\ at \in [Judges -> Place]
  BY TypeParts DEF Finish
<1>2. at'[a] = Idle /\ \A b \in Judges \ {a} : at'[b] = at[b]
  BY <1>1
<1>3. at'[a].pc = "idle" /\ at'[a].tr = 0
  BY <1>2 DEF Idle
<1>4. 0 <= made
  BY TypeParts, BoundsAssumption DEF Counting, Others, Transcripts
<1> QED
  BY <1>2, <1>3, <1>4, GateMove

\* One that goes on, with its transcript, to a place that is covered already.
LEMMA GoesOn ==
  ASSUME TypeInv, PlaceInv, NEW a \in Judges, \A b \in Judges \ {a} : at'[b] = at[b],
         at'[a].tr = at[a].tr, at[a].pc # "idle",
         UNCHANGED <<gated, tr, made, attempted>>, crossed => crossed',
         at'[a].pc \notin {"embed", "stopped"},
         at'[a].pc \in {"commit", "close", "insert", "record"} => at[a].tr \in attempted
  PROVE  PlaceInv'
BY GateMove DEF PlaceInv

LEMMA PlaceStep == ASSUME TypeInv, PlaceInv, GateInv, [Next]_vars PROVE PlaceInv'
<1>0. Others /\ Counting /\ at \in [Judges -> Place] /\ Worker \in Judges /\ Commands \subseteq Judges
  BY TypeParts DEF Judges
<1>1. CASE Requeue \/ Transcribe \/ Reembed
  <2>1. at' = at /\ gated' = gated /\ attempted' = attempted
    BY <1>1 DEF Requeue, Transcribe, Reembed, setup, dbVars, seenVars
  <2>2. made \in Nat /\ \A a \in Judges : at[a].tr \in Nat
    BY <1>0, BoundsAssumption DEF Others, Transcripts, Place
  <2>3. CASE made' = made /\ tr' = tr /\ crossed' = crossed
    BY <2>1, <2>3 DEF PlaceInv
  <2>4. CASE made' = made /\ tr' = 0
    BY <2>1, <2>4 DEF PlaceInv
  <2>5. CASE made' = made + 1 /\ tr' = made + 1
    BY <2>1, <2>2, <2>5 DEF PlaceInv
  <2> QED
    BY <1>1, <2>3, <2>4, <2>5 DEF Requeue, Transcribe, Reembed, seenVars
<1>2. ASSUME NEW a \in Judges,
             \/ a = Worker /\ (SelectEval \/ SelectEmbed \/ SelectUngated)
             \/ SelectBackfill(a) \/ SelectRejudge(a)
      PROVE  PlaceInv'
  <2>1. /\ \A b \in Judges \ {a} : at'[b] = at[b]
        /\ at'[a].tr = tr /\ at'[a].pc \in {"open", "read", "reread", "embed"}
        /\ at'[a].pc = "embed" => gated /\ EvaluatedUnembedded
    <3>1. CASE SelectEval /\ a = Worker
      BY <1>0, <3>1 DEF SelectEval, Idle
    <3>2. CASE SelectEmbed /\ a = Worker
      BY <1>0, <3>2 DEF SelectEmbed, Idle
    <3>3. CASE SelectUngated /\ a = Worker
      BY <1>0, <3>3 DEF SelectUngated, Idle
    <3>4. CASE SelectBackfill(a)
      BY <1>0, <3>4 DEF SelectBackfill, Idle
    <3>5. CASE SelectRejudge(a)
      BY <1>0, <3>5 DEF SelectRejudge, Idle
    <3> QED
      BY <1>2, <3>1, <3>2, <3>3, <3>4, <3>5
  <2>2. tr # 0
    BY <1>2 DEF SelectEval, SelectEmbed, SelectUngated, SelectBackfill, SelectRejudge, Unevaluated,
       EvaluatedUnembedded, Unembedded, Unlatched, JudgingFailed, NeverCompleted
  <2>3. UNCHANGED <<gated, tr, made, attempted, crossed>>
    BY <1>2 DEF SelectEval, SelectEmbed, SelectUngated, SelectBackfill, SelectRejudge, setup, seenVars
  <2>4. at'[a].pc = "embed" => tr \in attempted \/ crossed
    BY <2>1 DEF EvaluatedUnembedded, GateInv
  <2> QED
    BY <1>0, <2>1, <2>2, <2>3, <2>4, GateMove DEF Counting, Others, Transcripts
<1>3. ASSUME NEW a \in Judges, ReadChunks(a) PROVE PlaceInv'
  <2>1. UNCHANGED <<gated, tr, made, attempted, crossed>>
    BY <1>3 DEF ReadChunks, setup, seenVars
  <2>2. CASE Finish(a)
    BY <2>1, <2>2, GoesHome
  <2>3. CASE Goto(a, "open")
    BY <1>0, <1>3, <2>1, <2>3, GoesOn DEF Goto, ReadChunks, Place
  <2>4. CASE at' = [at EXCEPT ![a].pc = "open", ![a].ids = Stored(a)]
    BY <1>0, <1>3, <2>1, <2>4, GoesOn DEF ReadChunks, Place
  <2> QED
    BY <1>3, <2>2, <2>3, <2>4 DEF ReadChunks
<1>4. ASSUME NEW a \in Judges, Judging(a) PROVE PlaceInv'
  <2>1. CASE OpenPass(a)
    <3>1. UNCHANGED <<gated, tr, made, attempted, crossed>> /\ at[a].pc = "open"
      BY <2>1 DEF OpenPass, setup, seenVars
    <3>2. CASE Finish(a)
      BY <3>1, <3>2, GoesHome
    <3>3. CASE Goto(a, "judge")
      BY <1>0, <3>1, <3>3, GoesOn DEF Goto, Place
    <3>4. CASE at' = [at EXCEPT ![a].pc = "judge", ![a].pass = "running"]
      BY <1>0, <3>1, <3>4, GoesOn DEF Place
    <3> QED
      BY <2>1, <3>2, <3>3, <3>4 DEF OpenPass
  <2>2. ASSUME NEW good \in SUBSET Chunks, NEW stop \in BOOLEAN, Judge(a, good, stop)
        PROVE  PlaceInv'
    <3>1. /\ UNCHANGED <<gated, tr, made, crossed>> /\ at[a].pc = "judge"
          /\ attempted \subseteq attempted' /\ (stop \/ at[a].tr \in attempted')
      BY <2>2 DEF Judge, setup
    <3>2. /\ \A b \in Judges \ {a} : at'[b] = at[b]
          /\ at'[a].tr = at[a].tr /\ at'[a].pc = AfterJudge(a, stop) /\ at'[a].stop = stop
      BY <1>0, <2>2 DEF Judge, Place
    <3>3. AfterJudge(a, stop) \in {"commit", "insert"} => ~stop
      BY DEF AfterJudge, Persists
    <3>4. AfterJudge(a, stop) = "embed" => ~gated
      BY DEF AfterJudge, Persists
    <3>5. AfterJudge(a, stop) \notin {"close", "record"} /\ (AfterJudge(a, stop) = "stopped" => stop)
      BY DEF AfterJudge, Persists
    <3> QED
      BY <3>1, <3>2, <3>3, <3>4, <3>5, GateMove DEF PlaceInv
  <2>3. CASE CommitPass(a) \/ StopUnrecorded(a)
    <3>1. Finish(a) /\ UNCHANGED <<gated, tr, made, attempted>> /\ (crossed => crossed')
      BY <2>3, StoredCrossed DEF CommitPass, StopUnrecorded, setup, seenVars
    <3> QED
      BY <3>1, GoesHome
  <2>4. CASE CommitUnacknowledged(a)
    <3>1. UNCHANGED <<gated, tr, made, attempted>> /\ (crossed => crossed') /\ at[a].pc = "commit"
      BY <2>4, StoredCrossed DEF CommitUnacknowledged, setup
    <3>2. CASE Finish(a)
      BY <3>1, <3>2, GoesHome
    <3>3. CASE at' = [at EXCEPT ![a].pc = "close", ![a].pass = "closed"]
      <4>1. at[a].tr \in attempted
        BY <3>1 DEF PlaceInv
      <4> QED
        BY <1>0, <3>1, <3>3, <4>1, GoesOn DEF Place
    <3> QED
      BY <2>4, <3>2, <3>3 DEF CommitUnacknowledged
  <2>5. CASE CommitFails(a)
    <3>1. UNCHANGED <<gated, tr, made, attempted, crossed>>
      BY <2>5 DEF CommitFails, setup, seenVars
    <3>2. CASE Finish(a)
      BY <3>1, <3>2, GoesHome
    <3>3. CASE Goto(a, "close") /\ at[a].pc = "commit"
      <4>1. at[a].tr \in attempted
        BY <3>3 DEF PlaceInv
      <4> QED
        BY <1>0, <3>1, <3>3, <4>1, GoesOn DEF Place, Goto
    <3> QED
      BY <2>5, <3>2, <3>3 DEF CommitFails
  <2> QED
    BY <1>4, <2>1, <2>2, <2>3, <2>4, <2>5 DEF Judging
<1>5. CASE ClosePass \/ InsertFindings
  <2>1. UNCHANGED <<gated, tr, made, attempted, crossed>> /\ at[Worker].pc \in {"close", "insert"}
    BY <1>5 DEF ClosePass, InsertFindings, setup, seenVars
  <2>2. at[Worker].tr \in attempted
    BY <1>0, <2>1 DEF PlaceInv
  <2>3. \/ at' = [at EXCEPT ![Worker].pc = "insert", ![Worker].pass = "none"]
        \/ at' = [at EXCEPT ![Worker].pc = "record"]
        \/ at' = [at EXCEPT ![Worker].pc = "record", ![Worker].lost = TRUE]
    BY <1>5 DEF ClosePass, InsertFindings, Goto
  <2>4. /\ \A b \in Judges \ {Worker} : at'[b] = at[b]
        /\ at'[Worker].tr = at[Worker].tr /\ at'[Worker].pc \in {"insert", "record"}
    BY <1>0, <2>3 DEF Place
  <2> QED
    BY <1>0, <2>1, <2>2, <2>4, GoesOn
<1>6. CASE Record \/ EmbedFails
  <2>1. Finish(Worker) /\ UNCHANGED <<gated, tr, made, attempted>> /\ (crossed => crossed')
    <3>1. Succeeded \in BOOLEAN
      BY DEF Succeeded, Complete
    <3>2. CASE Record
      BY <1>0, <3>1, <3>2, CrossedStays DEF Record, setup
    <3>3. CASE EmbedFails
      BY <3>3 DEF EmbedFails, setup, seenVars
    <3> QED
      BY <1>6, <3>2, <3>3
  <2> QED
    BY <1>0, <2>1, GoesHome
<1>7. CASE Embed
  <2>1. UNCHANGED <<gated, tr, made, attempted, crossed>> /\ at[Worker].pc = "embed"
    BY <1>7 DEF Embed, setup, seenVars
  <2>2. CASE gated
    BY <1>0, <1>7, <2>1, <2>2, GoesHome DEF Embed
  <2>3. CASE ~gated
    <3>1. at[Worker].tr \in attempted
      BY <1>0, <1>7, <2>1, <2>3 DEF Embed, PlaceInv
    <3>2. Persists(Worker) \in {"commit", "insert"}
      BY DEF Persists
    <3> QED
      BY <1>0, <1>7, <2>1, <2>3, <3>1, <3>2, GoesOn DEF Embed, Goto, Place
  <2> QED
    BY <2>2, <2>3
<1>8. ASSUME NEW a \in Judges, Crash(a) PROVE PlaceInv'
  BY <1>8, GoesHome DEF Crash, setup, seenVars
<1>9. CASE UNCHANGED vars
  BY <1>9 DEF vars, setup, seenVars, PlaceInv
<1> QED
  BY <1>0, <1>1, <1>2, <1>3, <1>4, <1>5, <1>6, <1>7, <1>8, <1>9 DEF Next, Work, Command

LEMMA GateStep == ASSUME TypeInv, PlaceInv, GateInv, [Next]_vars PROVE GateInv'
<1>0. /\ Others /\ Counting /\ at \in [Judges -> Place]
      /\ Worker \in Judges /\ Commands \subseteq Judges
  BY TypeParts DEF Judges
<1>1. ASSUME UNCHANGED <<gated, tr, chunks, latch, failed, attempted, crossed>> PROVE GateInv'
  BY <1>1 DEF GateInv
<1>2. CASE Requeue \/ Transcribe \/ Reembed
  <2>1. CASE Requeue
    BY <2>1 DEF Requeue, ClearMetrics, GateInv
  <2>2. CASE Transcribe
    <3>1. tr' # 0
      BY <1>0, <2>2, BoundsAssumption DEF Transcribe, Counting, Others, Transcripts
    <3> QED
      BY <2>2, <3>1 DEF Transcribe, dbVars, seenVars, GateInv
  <2>3. CASE Reembed
    BY <2>3 DEF Reembed, seenVars, GateInv
  <2> QED
    BY <1>2, <2>1, <2>2, <2>3
<1>3. ASSUME NEW a \in Judges, at[a].tr \in attempted,
             UNCHANGED <<gated, tr, chunks, attempted>>,
             \/ UNCHANGED <<latch, failed, crossed>>
             \/ \E s \in BOOLEAN : Outcome(a, s)
      PROVE  GateInv'
  <2>1. CASE UNCHANGED <<latch, failed, crossed>>
    BY <1>1, <1>3, <2>1
  <2>2. ASSUME NEW s \in BOOLEAN, Outcome(a, s) PROVE GateInv'
    <3>1. crossed' = (crossed \/ at[a].tr # tr)
      BY <2>2 DEF Outcome
    <3>2. tr \in attempted \/ crossed'
      BY <1>3, <3>1
    <3>3. crossed => crossed'
      BY <3>1
    <3> QED
      BY <1>3, <3>2, <3>3 DEF GateInv
  <2> QED
    BY <1>3, <2>1, <2>2
<1>4. ASSUME NEW a \in Judges, Judging(a) PROVE GateInv'
  <2>1. CASE OpenPass(a) \/ CommitFails(a) \/ StopUnrecorded(a)
    BY <1>1, <2>1 DEF OpenPass, CommitFails, StopUnrecorded, setup, dbVars, seenVars
  <2>2. ASSUME NEW good \in SUBSET Chunks, NEW stop \in BOOLEAN, Judge(a, good, stop)
        PROVE  GateInv'
    <3>1. UNCHANGED <<gated, tr, chunks, latch, failed, crossed>> /\ at[a].pc = "judge"
          /\ attempted' \in {attempted, attempted \cup {at[a].tr}}
      BY <2>2 DEF Judge, setup, dbVars
    <3>2. at[a].tr # 0
      BY <3>1 DEF PlaceInv
    <3> QED
      BY <3>1, <3>2 DEF GateInv
  <2>3. CASE CommitPass(a) \/ CommitUnacknowledged(a)
    <3>1. PassStored(a) /\ UNCHANGED <<gated, tr, chunks, attempted>>
          /\ at[a].pc \in {"commit", "stopped"}
      BY <2>3 DEF CommitPass, CommitUnacknowledged, setup
    <3>2. CASE at[a].stop
      BY <1>1, <3>1, <3>2 DEF PassStored
    <3>3. CASE ~at[a].stop
      <4>1. Outcome(a, Complete(a)) /\ Complete(a) \in BOOLEAN
        BY <3>1, <3>3 DEF PassStored, Complete
      <4>2. at[a].tr \in attempted
        BY <3>1, <3>3 DEF PlaceInv
      <4> QED
        BY <1>3, <3>1, <4>1, <4>2
    <3> QED
      BY <3>2, <3>3
  <2> QED
    BY <1>4, <2>1, <2>2, <2>3 DEF Judging
<1>5. CASE Record
  <2>1. at[Worker].tr \in attempted /\ Succeeded \in BOOLEAN
    BY <1>0, <1>5 DEF Record, PlaceInv, Succeeded, Complete
  <2> QED
    BY <1>0, <1>3, <1>5, <2>1 DEF Record, setup
<1>6. CASE Embed
  <2>1. UNCHANGED <<gated, tr, latch, failed, attempted, crossed>> /\ at[Worker].pc = "embed"
        /\ at[Worker].tr = tr
    BY <1>6 DEF Embed, setup, seenVars
  <2>2. gated => tr \in attempted \/ crossed
    BY <1>0, <2>1 DEF PlaceInv
  <2>3. tr # 0
    BY <1>0, <2>1 DEF PlaceInv
  <2> QED
    BY <2>1, <2>2, <2>3 DEF GateInv
<1>7. CASE SelectEval \/ SelectEmbed \/ SelectUngated \/ ClosePass \/ InsertFindings \/ EmbedFails
  BY <1>1, <1>7 DEF SelectEval, SelectEmbed, SelectUngated, ClosePass, InsertFindings, EmbedFails,
     setup, dbVars, seenVars
<1>8. ASSUME NEW a \in Judges, SelectBackfill(a) \/ SelectRejudge(a) \/ ReadChunks(a) \/ Crash(a)
      PROVE  GateInv'
  BY <1>1, <1>8 DEF SelectBackfill, SelectRejudge, ReadChunks, Crash, setup, dbVars, seenVars
<1>9. CASE UNCHANGED vars
  BY <1>1, <1>9 DEF vars, setup, dbVars, seenVars
<1> QED
  BY <1>0, <1>2, <1>4, <1>5, <1>6, <1>7, <1>8, <1>9 DEF Next, Work, Command

LEMMA GateInvariant == Spec => [](TypeInv /\ PlaceInv /\ GateInv)
<1>1. Init => PlaceInv /\ GateInv
  <2> SUFFICES ASSUME Init PROVE PlaceInv /\ GateInv
    OBVIOUS
  <2>1. \A a \in Judges : at[a].pc = "idle" /\ at[a].tr = 0
    BY DEF Init, Idle
  <2> QED
    BY <2>1, BoundsAssumption DEF Init, PlaceInv, GateInv, None
<1>2. TypeInv /\ PlaceInv /\ GateInv /\ [Next]_vars => (PlaceInv /\ GateInv)'
  BY PlaceStep, GateStep
<1> QED
  BY <1>1, <1>2, TypeInvariant, PTL DEF Spec

\* EmbeddedWasJudged: under the gate a transcript is embedded only after a
\* judge ran over it to the end, or after an earlier transcript's outcome
\* arrived late (the selections of the gated flow, CommitJudgePass and
\* recordOutcome under the job's id, the requeue's deletion of run_metrics).
THEOREM EmbeddedAfterJudge == Spec => []EmbeddedWasJudged
<1>1. GateInv => EmbeddedWasJudged
  BY DEF GateInv, EmbeddedWasJudged
<1> QED
  BY <1>1, GateInvariant, PTL

-----------------------------------------------------------------------------
(* Latched means stored.                                                   *)

\* A latch or a complete pass of the present transcript has the findings, and
\* so will the latch the worker is about to write.
StoredInv ==
  /\ latch <= made /\ \A t \in complete : t <= made
  /\ JudgedMeansStored
  /\ \A a \in Judges : at[a].pc = "record" /\ ~at[a].lost /\ at[a].good = Chunks /\ at[a].tr = tr
                         => HasFindings

LEMMA FindingsStay ==
  ASSUME TypeInv, HasFindings, UNCHANGED flawed,
         UNCHANGED live \/ \E a \in Judges : \E cs \in SUBSET Chunks : StoreFindings(a, cs)
  PROVE  HasFindings'
<1>1. \A k \in Keys : live[k] \in Nat
  BY DEF TypeInv, TypeOK
<1>2. \A k \in Keys : live[k] > 0 => live'[k] > 0
  BY <1>1 DEF StoreFindings
<1>3. flawed \subseteq Chunks
  BY DEF TypeInv, TypeOK
<1> QED
  BY <1>2, <1>3 DEF HasFindings, Keys

\* A write of all the findings, or of those that were missing.
LEMMA FindingsStored ==
  ASSUME TypeInv, UNCHANGED flawed, NEW a \in Judges, at[a].good = Chunks,
         NEW cs \in SUBSET Chunks, cs \in {Found(a), Fresh(a)}, StoreFindings(a, cs)
  PROVE  HasFindings'
<1>1. /\ \A k \in Keys : live[k] \in Nat
      /\ flawed \subseteq Chunks /\ at[a].ids \in IdSets
  BY DEF TypeInv, TypeOK
<1>2. ASSUME NEW c \in flawed PROVE live'[<<at[a].ids, c>>] > 0
  <2>1. <<at[a].ids, c>> \in Keys
    BY <1>1 DEF Keys
  <2>2. c \in Found(a)
    BY <1>1 DEF Found
  <2>3. c \in cs \/ live[<<at[a].ids, c>>] # 0
    BY <2>2 DEF Fresh
  <2>4. live'[<<at[a].ids, c>>] = live[<<at[a].ids, c>>] + IF c \in cs THEN 1 ELSE 0
    BY <2>1 DEF StoreFindings
  <2> QED
    BY <1>1, <2>1, <2>3, <2>4
<1> QED
  BY <1>1, <1>2 DEF HasFindings

LEMMA StoredStep == ASSUME TypeInv, PlaceInv, StoredInv, [Next]_vars PROVE StoredInv'
<1>0. /\ Others /\ Counting /\ at \in [Judges -> Place] /\ made \in Nat
      /\ Worker \in Judges /\ Commands \subseteq Judges
  BY TypeParts, BoundsAssumption DEF Judges, Others, Transcripts
<1> DEFINE Same == UNCHANGED <<flawed, tr, made, live>>
           Known == UNCHANGED <<latch, complete>>
\* The judge does not go to the latch.
<1>1. ASSUME Same, Known, NEW a \in Judges, \A b \in Judges \ {a} : at'[b] = at[b],
             at'[a].pc = "record" => at'[a].lost
      PROVE  StoredInv'
  BY <1>1 DEF StoredInv, JudgedMeansStored, HasFindings
<1>2. ASSUME NEW a \in Judges, Finish(a) PROVE (\A b \in Judges \ {a} : at'[b] = at[b]) /\ at'[a].pc = "idle"
  BY <1>0, <1>2 DEF Finish, Idle
<1>3. CASE Requeue
  BY <1>0, <1>3 DEF Requeue, ClearMetrics, setup, StoredInv, PlaceInv, JudgedMeansStored
<1>4. CASE Transcribe
  <2>1. tr' = made + 1 /\ made' = made + 1 /\ UNCHANGED <<at, latch, complete>>
    BY <1>4 DEF Transcribe, dbVars
  <2>2. /\ latch \in Nat /\ complete \subseteq Nat
        /\ \A a \in Judges : at[a].tr \in Nat /\ at[a].tr <= made
    BY <1>0, BoundsAssumption DEF Others, Transcripts, Place, PlaceInv
  <2>3. tr' # latch /\ tr' \notin complete /\ \A a \in Judges : at[a].tr # tr'
    BY <1>0, <2>1, <2>2 DEF StoredInv
  <2>4. latch' <= made' /\ \A t \in complete' : t <= made'
    BY <1>0, <2>1, <2>2 DEF StoredInv
  <2> QED
    BY <2>1, <2>3, <2>4 DEF StoredInv, JudgedMeansStored
<1>5. CASE Reembed
  BY <1>5 DEF Reembed, setup, StoredInv, JudgedMeansStored, HasFindings
<1>6. ASSUME NEW a \in Judges,
             \/ a = Worker /\ (SelectEval \/ SelectEmbed \/ SelectUngated)
             \/ SelectBackfill(a) \/ SelectRejudge(a) \/ ReadChunks(a) \/ Crash(a)
      PROVE  StoredInv'
  <2>1. Same /\ Known
    BY <1>6 DEF SelectEval, SelectEmbed, SelectUngated, SelectBackfill, SelectRejudge, ReadChunks,
       Crash, setup, dbVars
  <2>2. (\A b \in Judges \ {a} : at'[b] = at[b]) /\ at'[a].pc # "record"
    <3>1. CASE SelectEval /\ a = Worker
      BY <1>0, <3>1 DEF SelectEval, Idle
    <3>2. CASE SelectEmbed /\ a = Worker
      BY <1>0, <3>2 DEF SelectEmbed, Idle
    <3>3. CASE SelectUngated /\ a = Worker
      BY <1>0, <3>3 DEF SelectUngated, Idle
    <3>4. CASE SelectBackfill(a)
      BY <1>0, <3>4 DEF SelectBackfill, Idle
    <3>5. CASE SelectRejudge(a)
      BY <1>0, <3>5 DEF SelectRejudge, Idle
    <3>6. CASE Finish(a)
      BY <1>2, <3>6
    <3>7. CASE Goto(a, "open")
      BY <1>0, <3>7 DEF Goto, Place
    <3>8. CASE at' = [at EXCEPT ![a].pc = "open", ![a].ids = Stored(a)]
      BY <1>0, <3>8 DEF Place
    <3> QED
      BY <1>6, <3>1, <3>2, <3>3, <3>4, <3>5, <3>6, <3>7, <3>8 DEF ReadChunks, Crash
  <2> QED
    BY <1>1, <2>1, <2>2
<1>7. ASSUME NEW a \in Judges, PassStored(a), UNCHANGED <<flawed, tr, made>>,
             \A b \in Judges \ {a} : at'[b] = at[b], at'[a].pc # "record"
      PROVE  StoredInv'
  <2>1. NewFindings(a) \in SUBSET Chunks /\ StoreFindings(a, NewFindings(a))
    BY <1>7, FoundType DEF PassStored
  <2>2. HasFindings => HasFindings'
    BY <1>7, <2>1, FindingsStay
  <2>3. Complete(a) /\ at[a].tr = tr => HasFindings'
    <3>1. ASSUME Complete(a), at[a].tr = tr PROVE HasFindings'
      <4>1. at[a].good = Chunks /\ NewFindings(a) = Fresh(a)
        BY <3>1 DEF Complete, NewFindings
      <4> QED
        BY <1>7, <2>1, <4>1, FindingsStored
    <3> QED
      BY <3>1
  <2>4. /\ latch' = latch \/ (latch' = at[a].tr /\ Complete(a))
        /\ complete' = complete \/ (complete' = complete \cup {at[a].tr} /\ Complete(a))
    <3>1. complete' = complete \/ (complete' = complete \cup {at[a].tr} /\ Complete(a))
      BY <1>7 DEF PassStored
    <3>2. latch' = latch \/ Outcome(a, Complete(a))
      BY <1>7 DEF PassStored
    <3>3. ASSUME Outcome(a, Complete(a)) PROVE latch' = latch \/ (latch' = at[a].tr /\ Complete(a))
      BY <3>3 DEF Outcome
    <3> QED
      BY <3>1, <3>2, <3>3
  <2>5. at[a].tr <= made
    BY DEF PlaceInv
  <2> QED
    BY <1>7, <2>2, <2>3, <2>4, <2>5 DEF StoredInv, JudgedMeansStored
<1>8. ASSUME NEW a \in Judges, Judging(a) PROVE StoredInv'
  <2>1. CASE OpenPass(a) \/ CommitFails(a) \/ StopUnrecorded(a)
    <3>1. Same /\ Known
      BY <2>1 DEF OpenPass, CommitFails, StopUnrecorded, setup, dbVars
    <3>2. ASSUME NEW pc \in {"judge", "close"}, Goto(a, pc)
          PROVE  (\A b \in Judges \ {a} : at'[b] = at[b]) /\ at'[a].pc = pc
      BY <1>0, <3>2 DEF Goto, Place
    <3>3. CASE at' = [at EXCEPT ![a].pc = "judge", ![a].pass = "running"]
      <4>1. (\A b \in Judges \ {a} : at'[b] = at[b]) /\ at'[a].pc = "judge"
        BY <1>0, <3>3 DEF Place
      <4> QED
        BY <1>1, <3>1, <4>1
    <3> QED
      BY <1>1, <1>2, <2>1, <3>1, <3>2, <3>3 DEF OpenPass, CommitFails, StopUnrecorded
  <2>2. ASSUME NEW good \in SUBSET Chunks, NEW stop \in BOOLEAN, Judge(a, good, stop)
        PROVE  StoredInv'
    <3>1. Same /\ Known
      BY <2>2 DEF Judge, setup, dbVars
    <3>2. (\A b \in Judges \ {a} : at'[b] = at[b]) /\ at'[a].pc = AfterJudge(a, stop)
      BY <1>0, <2>2 DEF Judge, Place
    <3>3. AfterJudge(a, stop) # "record"
      BY DEF AfterJudge, Persists
    <3> QED
      BY <1>1, <3>1, <3>2, <3>3
  <2>3. CASE CommitPass(a)
    BY <1>2, <1>7, <2>3 DEF CommitPass, setup
  <2>4. CASE CommitUnacknowledged(a)
    <3>1. CASE at' = [at EXCEPT ![a].pc = "close", ![a].pass = "closed"]
      <4>1. (\A b \in Judges \ {a} : at'[b] = at[b]) /\ at'[a].pc = "close"
        BY <1>0, <3>1 DEF Place
      <4> QED
        BY <1>7, <2>4, <4>1 DEF CommitUnacknowledged, setup
    <3> QED
      BY <1>2, <1>7, <2>4, <3>1 DEF CommitUnacknowledged, setup
  <2> QED
    BY <1>8, <2>1, <2>2, <2>3, <2>4 DEF Judging
<1>9. CASE ClosePass \/ Embed \/ EmbedFails
  <2>1. Same /\ Known
    BY <1>9 DEF ClosePass, Embed, EmbedFails, setup, dbVars
  <2>2. CASE ClosePass
    <3>1. (\A b \in Judges \ {Worker} : at'[b] = at[b]) /\ at'[Worker].pc = "insert"
      BY <1>0, <2>2 DEF ClosePass, Place
    <3> QED
      BY <1>0, <1>1, <2>1, <3>1
  <2>3. CASE Goto(Worker, Persists(Worker))
    <3>1. (\A b \in Judges \ {Worker} : at'[b] = at[b]) /\ at'[Worker].pc = Persists(Worker)
      BY <1>0, <2>3 DEF Goto, Place
    <3> QED
      BY <1>0, <1>1, <2>1, <3>1 DEF Persists
  <2> QED
    BY <1>0, <1>1, <1>2, <1>9, <2>1, <2>2, <2>3 DEF Embed, EmbedFails
<1>10. CASE InsertFindings
  <2>1. /\ UNCHANGED <<flawed, tr, made, latch, complete>>
        /\ \A b \in Judges \ {Worker} : at'[b] = at[b]
        /\ at'[Worker].good = at[Worker].good
    BY <1>0, <1>10 DEF InsertFindings, Goto, setup, Place
  <2>2. CASE StoreFindings(Worker, Found(Worker))
    <3>1. HasFindings => HasFindings'
      BY <1>0, <2>1, <2>2, FoundType, FindingsStay
    <3>2. at[Worker].good = Chunks => HasFindings'
      BY <1>0, <2>1, <2>2, FoundType, FindingsStored
    <3> QED
      BY <2>1, <3>1, <3>2 DEF StoredInv, JudgedMeansStored
  <2>3. CASE UNCHANGED live /\ at' = [at EXCEPT ![Worker].pc = "record", ![Worker].lost = TRUE]
    <3>1. at'[Worker].lost
      BY <1>0, <2>3 DEF Place
    <3> QED
      BY <1>0, <1>1, <2>1, <2>3, <3>1
  <2> QED
    BY <1>10, <2>2, <2>3 DEF InsertFindings
<1>11. CASE Record
  <2>1. /\ Same /\ complete' = complete /\ at[Worker].pc = "record" /\ Finish(Worker)
        /\ latch' = latch \/ (latch' = at[Worker].tr /\ Succeeded)
    <3>1. Same /\ complete' = complete /\ at[Worker].pc = "record" /\ Finish(Worker)
      BY <1>11 DEF Record, setup
    <3>2. latch' = latch \/ Outcome(Worker, Succeeded)
      BY <1>11 DEF Record
    <3>3. ASSUME Outcome(Worker, Succeeded) PROVE latch' = latch \/ (latch' = at[Worker].tr /\ Succeeded)
      BY <3>3 DEF Outcome
    <3> QED
      BY <3>1, <3>2, <3>3
  <2>2. (\A b \in Judges \ {Worker} : at'[b] = at[b]) /\ at'[Worker].pc = "idle"
    BY <1>0, <1>2, <2>1
  <2>3. Succeeded /\ at[Worker].tr = tr => HasFindings
    BY <1>0, <2>1 DEF Succeeded, Complete, StoredInv
  <2>4. at[Worker].tr <= made /\ HasFindings' = HasFindings
    BY <1>0, <2>1 DEF PlaceInv, HasFindings
  <2> QED
    BY <2>1, <2>2, <2>3, <2>4 DEF StoredInv, JudgedMeansStored
<1>12. CASE UNCHANGED vars
  BY <1>12 DEF vars, setup, dbVars, StoredInv, JudgedMeansStored, HasFindings
<1> QED
  BY <1>0, <1>3, <1>4, <1>5, <1>6, <1>8, <1>9, <1>10, <1>11, <1>12 DEF Next, Work, Command

\* JudgedMeansStored: a transcript that is latched, or has a complete pass,
\* has every finding of the judge that did it, whatever was requeued,
\* re-embedded, lost or retried meanwhile (persistJudged, CommitJudgePass).
THEOREM LatchedMeansStored == Spec => []JudgedMeansStored
<1>1. Init => StoredInv
  <2> SUFFICES ASSUME Init PROVE StoredInv
    OBVIOUS
  <2>1. \A a \in Judges : at[a].pc = "idle"
    BY DEF Init, Idle
  <2> QED
    BY <2>1 DEF Init, StoredInv, JudgedMeansStored
<1>2. TypeInv /\ PlaceInv /\ StoredInv /\ [Next]_vars => StoredInv'
  BY StoredStep
<1>3. StoredInv => JudgedMeansStored
  BY DEF StoredInv
<1> QED
  BY <1>1, <1>2, <1>3, GateInvariant, PTL DEF Spec

=============================================================================
