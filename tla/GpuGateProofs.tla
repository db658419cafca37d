--------------------------- MODULE GpuGateProofs ---------------------------
(***************************************************************************)
(* Proofs about GpuGate, for any number of models and of faults.  They say *)
(* precisely what the gate's two promises rest on: the acknowledgement is  *)
(* true as long as no move back onto the card has raised in this process,  *)
(* and jobs run on the card as long as no move off it has.                 *)
(***************************************************************************)
EXTENDS GpuGate, TLAPS

\* What the gate's own variables are; moving goes on only while a model is left.
Moving == pc \in {"parking", "unparking"} => moved < Parts

TypeInv == TypeOK /\ Moving

-----------------------------------------------------------------------------
(* Typing.                                                                 *)

\* A spent fault leaves a number of faults.
LEMMA FaultType == ASSUME NEW kind, faults \in Nat, Fault(kind) PROVE faults' \in Nat
BY DEF Fault

\* Every step of the gate keeps the types.
LEMMA StepType == TypeInv /\ [Next]_vars => TypeInv'
<1> SUFFICES ASSUME TypeInv, [Next]_vars PROVE TypeInv'
  OBVIOUS
<1>0. /\ moved \in 0..Parts /\ moved \in Nat /\ Parts \in Nat \ {0}
      /\ onGpu \subseteq 1..Parts /\ faults \in Nat
      /\ (pc \in {"parking", "unparking"} => moved < Parts)
  BY PartsAssumption DEF PartsAssumption, TypeInv, TypeOK, Moving, All
<1>1. CASE Request
  <2>1. UNCHANGED <<stamp, pc, moved, onGpu, parked, worker, faults, torn>>
    BY <1>1 DEF Request, SetPaused, SetPhase, SetYield
  <2>2. paused' \in BOOLEAN /\ yield' \in BOOLEAN
    BY <1>1 DEF Request, SetPaused, SetPhase, SetYield, TypeInv, TypeOK
  <2>3. phase' \in {"idle", "transcribe", "analyze"}
    BY <1>1 DEF Request, SetPaused, SetPhase, SetYield, TypeInv, TypeOK
  <2> QED
    BY <2>1, <2>2, <2>3 DEF TypeInv, TypeOK, Moving, All
<1>2. CASE Load
  <2>1. UNCHANGED <<paused, yield, phase, stamp, moved, worker, faults>>
    BY <1>2 DEF Load, request
  <2>2. pc' \in {"down", "poll", "parking", "unparking", "parked", "active", "failed",
             "claim", "job"}
    BY <1>0, <1>2 DEF Load, request, All, TypeInv, TypeOK
  <2>3. onGpu' \subseteq 1..Parts
    BY <1>0, <1>2 DEF Load, request, All
  <2>4. parked' \in BOOLEAN
    BY <1>0, <1>2 DEF Load, request, All, TypeInv, TypeOK
  <2>5. Moving'
    BY <1>0, <1>2 DEF Load, request, All, Moving
  <2>9. torn' \subseteq {"park", "unpark"}
    BY <1>2 DEF Load, TypeInv, TypeOK
  <2> QED
    BY <2>9, <2>1, <2>2, <2>3, <2>4, <2>5 DEF TypeInv, TypeOK, Moving, All
<1>3. CASE ReadGate
  <2>1. UNCHANGED <<paused, yield, phase, stamp, onGpu, parked, worker, faults, torn>>
    BY <1>3 DEF ReadGate, request
  <2>2. pc' \in {"down", "poll", "parking", "unparking", "parked", "active", "failed",
             "claim", "job"}
    BY <1>0, <1>3 DEF ReadGate, GateStep, request, TypeInv, TypeOK
  <2>3. moved' \in 0..Parts
    BY <1>0, <1>3 DEF ReadGate, GateStep, request
  <2>4. Moving'
    BY <1>0, <1>3 DEF ReadGate, GateStep, request, Moving
  <2> QED
    BY <2>1, <2>2, <2>3, <2>4 DEF TypeInv, TypeOK, Moving, All
<1>4. CASE ParkOne
  <2>1. UNCHANGED <<paused, yield, phase, stamp, worker, faults, torn>>
    BY <1>4 DEF ParkOne, request
  <2>2. onGpu' \subseteq 1..Parts
    BY <1>0, <1>4 DEF ParkOne, AllMoved, request
  <2>3. moved' \in 0..Parts
    BY <1>0, <1>4 DEF ParkOne, AllMoved, request
  <2>4. pc' \in {"down", "poll", "parking", "unparking", "parked", "active", "failed",
             "claim", "job"}
    BY <1>0, <1>4 DEF ParkOne, AllMoved, request, TypeInv, TypeOK
  <2>5. parked' \in BOOLEAN
    BY <1>0, <1>4 DEF ParkOne, AllMoved, request, TypeInv, TypeOK
  <2>6. Moving'
    BY <1>0, <1>4 DEF ParkOne, AllMoved, request, Moving
  <2> QED
    BY <2>1, <2>2, <2>3, <2>4, <2>5, <2>6 DEF TypeInv, TypeOK, Moving, All
<1>5. CASE UnparkOne
  <2>1. UNCHANGED <<paused, yield, phase, stamp, worker, faults, torn>>
    BY <1>5 DEF UnparkOne, request
  <2>2. onGpu' \subseteq 1..Parts
    BY <1>0, <1>5 DEF UnparkOne, AllMoved, request
  <2>3. moved' \in 0..Parts
    BY <1>0, <1>5 DEF UnparkOne, AllMoved, request
  <2>4. pc' \in {"down", "poll", "parking", "unparking", "parked", "active", "failed",
             "claim", "job"}
    BY <1>0, <1>5 DEF UnparkOne, AllMoved, request, TypeInv, TypeOK
  <2>5. parked' \in BOOLEAN
    BY <1>0, <1>5 DEF UnparkOne, AllMoved, request, TypeInv, TypeOK
  <2>6. Moving'
    BY <1>0, <1>5 DEF UnparkOne, AllMoved, request, Moving
  <2> QED
    BY <2>1, <2>2, <2>3, <2>4, <2>5, <2>6 DEF TypeInv, TypeOK, Moving, All
<1>6. CASE Stamp
  <2>1. UNCHANGED <<paused, yield, phase, moved, onGpu, parked, worker, torn>>
    BY <1>6 DEF Stamp, request
  <2>2. stamp' \in {"null", "parked", "on"}
    BY <1>0, <1>6 DEF Stamp, StampSkipped, request, TypeInv, TypeOK
  <2>3. pc' \in {"down", "poll", "parking", "unparking", "parked", "active", "failed",
             "claim", "job"}
    BY <1>0, <1>6 DEF Stamp, StampSkipped, request, TypeInv, TypeOK
  <2>4. faults' \in Nat
    BY FaultType, <1>0, <1>6 DEF Stamp, StampSkipped, request
  <2>5. Moving'
    BY <1>0, <1>6 DEF Stamp, StampSkipped, request, Moving
  <2> QED
    BY <2>1, <2>2, <2>3, <2>4, <2>5 DEF TypeInv, TypeOK, Moving, All
<1>7. CASE Claim
  <2>1. UNCHANGED <<paused, yield, phase, stamp, moved, onGpu, parked, worker, faults, torn>>
    BY <1>7 DEF Claim, request
  <2>2. pc' \in {"down", "poll", "parking", "unparking", "parked", "active", "failed",
             "claim", "job"}
    BY <1>0, <1>7 DEF Claim, request, TypeInv, TypeOK
  <2>3. Moving'
    BY <1>0, <1>7 DEF Claim, request, Moving
  <2> QED
    BY <2>1, <2>2, <2>3 DEF TypeInv, TypeOK, Moving, All
<1>8. CASE JobEnds
  <2>1. UNCHANGED <<paused, yield, phase, stamp, moved, onGpu, parked, worker, faults, torn>>
    BY <1>8 DEF JobEnds, request
  <2>2. pc' \in {"down", "poll", "parking", "unparking", "parked", "active", "failed",
             "claim", "job"}
    BY <1>0, <1>8 DEF JobEnds, request, TypeInv, TypeOK
  <2>3. Moving'
    BY <1>0, <1>8 DEF JobEnds, request, Moving
  <2> QED
    BY <2>1, <2>2, <2>3 DEF TypeInv, TypeOK, Moving, All
<1>9. CASE Crash
  <2>1. UNCHANGED <<paused, yield, phase, stamp, worker, torn>>
    BY <1>9 DEF Crash, request
  <2>2. pc' \in {"down", "poll", "parking", "unparking", "parked", "active", "failed",
             "claim", "job"}
    BY <1>0, <1>9 DEF Crash, request, TypeInv, TypeOK
  <2>3. onGpu' \subseteq 1..Parts
    BY <1>0, <1>9 DEF Crash, request
  <2>4. parked' \in BOOLEAN
    BY <1>0, <1>9 DEF Crash, request, TypeInv, TypeOK
  <2>5. moved' \in 0..Parts
    BY <1>0, <1>9 DEF Crash, request
  <2>6. faults' \in Nat
    BY FaultType, <1>0, <1>9 DEF Crash, request
  <2>7. Moving'
    BY <1>0, <1>9 DEF Crash, request, Moving
  <2> QED
    BY <2>1, <2>2, <2>3, <2>4, <2>5, <2>6, <2>7 DEF TypeInv, TypeOK, Moving, All
<1>10. CASE MoveFails
  <2>1. UNCHANGED <<paused, yield, phase, stamp, moved, parked, worker>>
    BY <1>10 DEF MoveFails, request
  <2>2. pc' \in {"down", "poll", "parking", "unparking", "parked", "active", "failed",
             "claim", "job"}
    BY <1>0, <1>10 DEF MoveFails, AfterFault, request, TypeInv, TypeOK
  <2>3. onGpu' \subseteq 1..Parts
    <3>1. onGpu' = onGpu \/ (pc = "unparking" /\ onGpu' = onGpu \cup {moved + 1})
      BY <1>10 DEF MoveFails
    <3>2. pc = "unparking" => moved + 1 \in 1..Parts
      BY <1>0
    <3> QED
      BY <1>0, <3>1, <3>2
  <2>4. faults' \in Nat
    BY FaultType, <1>0, <1>10 DEF MoveFails, AfterFault, request
  <2>5. Moving'
    BY <1>0, <1>10 DEF MoveFails, AfterFault, request, Moving
  <2>9. torn' \subseteq {"park", "unpark"}
    BY <1>10 DEF MoveFails, TypeInv, TypeOK
  <2> QED
    BY <2>9, <2>1, <2>2, <2>3, <2>4, <2>5 DEF TypeInv, TypeOK, Moving, All
<1>11. CASE WorkerStarts
  <2>1. UNCHANGED <<paused, yield, phase, stamp, pc, moved, onGpu, parked, faults, torn>>
    BY <1>11 DEF WorkerStarts, request
  <2>2. worker' \in {"poll", "work"}
    BY <1>0, <1>11 DEF WorkerStarts, request
  <2> QED
    BY <2>1, <2>2 DEF TypeInv, TypeOK, Moving, All
<1>12. CASE WorkerEnds
  <2>1. UNCHANGED <<paused, yield, phase, stamp, pc, moved, onGpu, parked, faults, torn>>
    BY <1>12 DEF WorkerEnds, request
  <2>2. worker' \in {"poll", "work"}
    BY <1>0, <1>12 DEF WorkerEnds, request
  <2> QED
    BY <2>1, <2>2 DEF TypeInv, TypeOK, Moving, All
<1>13. CASE UNCHANGED vars
  BY <1>13 DEF vars, request, TypeInv, TypeOK, Moving, All
<1> QED
  BY <1>1, <1>2, <1>3, <1>4, <1>5, <1>6, <1>7, <1>8, <1>9, <1>10, <1>11, <1>12, <1>13
     DEF Next, Cycle

\* The typing facts that the invariants below rest on, and that they hold.
LEMMA TypeInvariant == Spec => []TypeInv
<1>1. Init => TypeInv
  <2> SUFFICES ASSUME Init PROVE TypeInv
    OBVIOUS
  <2>1. moved \in 0..Parts /\ faults \in Nat
    BY PartsAssumption, FaultsAssumption DEF PartsAssumption, FaultsAssumption, Init
  <2>2. paused \in BOOLEAN /\ yield \in BOOLEAN /\ parked \in BOOLEAN /\ onGpu \subseteq All
    BY DEF Init
  <2> QED
    BY <2>1, <2>2 DEF Init, TypeInv, TypeOK, Moving
<1> QED
  BY <1>1, StepType, PTL DEF Spec

\* In every reachable state every variable has its type.
THEOREM TypeCorrect == Spec => []TypeOK
<1>1. TypeInv => TypeOK
  BY DEF TypeInv
<1> QED
  BY <1>1, TypeInvariant, PTL

-----------------------------------------------------------------------------
(* The acknowledgement.                                                    *)

\* While a park runs, only the models not moved yet are on the card; outside
\* an unpark a set flag means an empty card.
AckInv ==
  /\ pc = "parking" => ~parked /\ \A m \in onGpu : m > moved
  /\ pc = "unparking" => parked
  /\ pc = "parked" => parked
  /\ parked /\ pc # "unparking" => onGpu = {}

\* Unless an unpark raises, every step keeps AckInv.
LEMMA StepAck == ASSUME "unpark" \notin torn', TypeInv, AckInv, [Next]_vars
                 PROVE  AckInv'
<1>0. /\ moved \in Nat /\ Parts \in Nat \ {0} /\ onGpu \subseteq 1..Parts
      /\ parked \in BOOLEAN
      /\ (pc = "parking" => moved < Parts)
  BY PartsAssumption DEF PartsAssumption, TypeInv, TypeOK, Moving, All
<1>1. CASE Request \/ WorkerStarts \/ WorkerEnds
  <2>1. UNCHANGED <<pc, moved, onGpu, parked>>
    BY <1>1 DEF Request, SetPaused, SetPhase, SetYield, WorkerStarts, WorkerEnds
  <2> QED
    BY <2>1 DEF AckInv
<1>2. CASE Load
  BY <1>2 DEF Load, AckInv
<1>3. CASE ReadGate
  <2>1. pc = "poll" /\ pc' = GateStep /\ moved' = 0 /\ UNCHANGED <<onGpu, parked>>
    BY <1>3 DEF ReadGate
  <2>2. CASE pc' = "parking"
    <3>1. ~parked
      BY <2>1, <2>2 DEF GateStep
    <3>2. \A m \in onGpu' : m > moved'
      BY <1>0, <2>1
    <3> QED
      BY <2>1, <2>2, <3>1, <3>2 DEF AckInv
  <2>3. CASE pc' # "parking"
    <3>1. pc' \in {"parked", "unparking"} => parked
      BY <2>1 DEF GateStep
    <3> QED
      BY <2>1, <2>3, <3>1 DEF AckInv
  <2> QED
    BY <2>2, <2>3
<1>4. CASE ParkOne
  <2>1. pc = "parking" /\ moved' = moved + 1 /\ onGpu' = onGpu \ {moved + 1}
    BY <1>4 DEF ParkOne
  <2>2. \A m \in onGpu' : m > moved'
    <3> SUFFICES ASSUME NEW m \in onGpu' PROVE m > moved'
      OBVIOUS
    <3>1. m \in onGpu /\ m # moved + 1 /\ m \in Nat
      BY <1>0, <2>1
    <3>2. m > moved
      BY <2>1, <3>1 DEF AckInv
    <3> QED
      BY <1>0, <2>1, <3>1, <3>2
  <2>3. CASE moved + 1 = Parts
    <3>1. pc' = "parked" /\ parked' = TRUE
      BY <1>4, <2>3 DEF ParkOne, AllMoved
    <3>2. onGpu' = {}
      BY <1>0, <2>1, <2>2, <2>3
    <3> QED
      BY <3>1, <3>2 DEF AckInv
  <2>4. CASE moved + 1 # Parts
    <3>1. UNCHANGED <<pc, parked>>
      BY <1>4, <2>4 DEF ParkOne, AllMoved
    <3> QED
      BY <2>1, <2>2, <3>1 DEF AckInv
  <2> QED
    BY <2>3, <2>4
<1>5. CASE UnparkOne
  <2>1. CASE pc' = "unparking" /\ parked' = parked
    BY <1>5, <2>1 DEF UnparkOne, AckInv
  <2>2. CASE pc' = "active" /\ parked' = FALSE
    BY <2>2 DEF AckInv
  <2> QED
    BY <1>5, <2>1, <2>2 DEF UnparkOne
<1>6. CASE Stamp
  <2>1. pc \in {"parked", "active", "failed"} /\ pc' \in {"claim", "poll"}
        /\ UNCHANGED <<onGpu, parked>>
    BY <1>6 DEF Stamp
  <2> QED
    BY <2>1 DEF AckInv
<1>7. CASE Claim \/ JobEnds
  <2>1. pc \in {"claim", "job"} /\ pc' \in {"job", "poll"} /\ UNCHANGED <<onGpu, parked>>
    BY <1>7 DEF Claim, JobEnds
  <2> QED
    BY <2>1 DEF AckInv
<1>8. CASE Crash
  BY <1>8 DEF Crash, AckInv
<1>9. CASE MoveFails
  <2>1. pc = "parking" /\ pc' = "failed" /\ UNCHANGED <<onGpu, parked>>
    BY <1>9 DEF MoveFails, AfterFault
  <2> QED
    BY <2>1 DEF AckInv
<1>10. CASE UNCHANGED vars
  BY <1>10 DEF vars, AckInv
<1> QED
  BY <1>1, <1>2, <1>3, <1>4, <1>5, <1>6, <1>7, <1>8, <1>9, <1>10 DEF Next, Cycle

\* The set of raised moves only grows until the process starts again.
LEMMA TornGrows == ASSUME [Next]_vars, ~Load PROVE torn \subseteq torn'
BY DEF Next, Cycle, Request, SetPaused, SetPhase, SetYield, ReadGate, ParkOne, UnparkOne, Stamp,
       Claim, JobEnds, Crash, MoveFails, WorkerStarts, WorkerEnds, vars

\* What holds of the card until an unpark raises.
AckWhole == "unpark" \notin torn => AckInv

\* A process starts with AckInv and keeps it until an unpark raises.
LEMMA StepAckWhole == ASSUME TypeInv, AckWhole, [Next]_vars PROVE AckWhole'
<1>1. CASE Load
  BY <1>1 DEF Load, AckWhole, AckInv
<1>2. CASE ~Load
  BY <1>2, TornGrows, StepAck DEF AckWhole
<1> QED
  BY <1>1, <1>2

\* As long as no unpark of the process has raised, the stamp turns to parked
\* only when no model holds GPU memory, whatever else fails.
THEOREM AckIsTrue == Spec => AckedParkIsReal
<1> DEFINE A == stamp' = "parked" => stamp = "parked" \/ onGpu = {} \/ "unpark" \in torn
<1>1. Init => AckWhole
  BY DEF Init, AckInv, AckWhole
<1>2. ASSUME AckWhole, Next PROVE A
  <2>1. CASE Stamp
    <3>1. stamp' = "parked" => stamp = "parked" \/ pc = "parked"
      BY <2>1 DEF Stamp, StampSkipped
    <3> QED
      BY <1>2, <3>1 DEF AckInv, AckWhole
  <2>2. CASE ~Stamp
    <3>1. stamp' = stamp
      BY <1>2, <2>2 DEF Next, Cycle, Request, SetPaused, SetPhase, SetYield, Load, ReadGate,
                        ParkOne, UnparkOne, Claim, JobEnds, Crash, MoveFails, WorkerStarts,
                        WorkerEnds
    <3> QED
      BY <3>1
  <2> QED
    BY <2>1, <2>2
<1>3. TypeInv /\ AckWhole /\ [Next]_vars => AckWhole'
  BY StepAckWhole
<1>4. AckWhole /\ [Next]_vars => [A]_vars
  BY <1>2
<1> QED
  BY <1>1, <1>3, <1>4, TypeInvariant, PTL DEF Spec, AckedParkIsReal

-----------------------------------------------------------------------------
(* Jobs run on the card.                                                   *)

\* While an unpark runs, the models moved so far are back; outside a park an
\* unset flag means a full card.
JobInv ==
  /\ pc = "parking" => ~parked
  /\ pc = "unparking" => parked /\ \A m \in 1..moved : m \in onGpu
  /\ pc \in {"parked", "failed"} => parked
  /\ pc \in {"active", "claim", "job"} => ~parked
  /\ ~parked /\ pc \notin {"down", "parking"} => onGpu = 1..Parts

\* Unless a park raises, every step keeps JobInv.
LEMMA StepJob == ASSUME "park" \notin torn', TypeInv, JobInv, [Next]_vars
                 PROVE  JobInv'
<1>0. /\ moved \in Nat /\ Parts \in Nat \ {0} /\ onGpu \subseteq 1..Parts
      /\ parked \in BOOLEAN
      /\ (pc = "unparking" => moved < Parts)
  BY PartsAssumption DEF PartsAssumption, TypeInv, TypeOK, Moving, All
<1>1. CASE Request \/ WorkerStarts \/ WorkerEnds
  <2>1. UNCHANGED <<pc, moved, onGpu, parked>>
    BY <1>1 DEF Request, SetPaused, SetPhase, SetYield, WorkerStarts, WorkerEnds
  <2> QED
    BY <2>1 DEF JobInv
<1>2. CASE Load
  <2>1. pc' = "poll" /\ onGpu' = 1..Parts /\ parked' = FALSE
    BY <1>2 DEF Load, All
  <2> QED
    BY <2>1 DEF JobInv
<1>3. CASE ReadGate
  <2>1. pc = "poll" /\ pc' = GateStep /\ moved' = 0 /\ UNCHANGED <<onGpu, parked>>
    BY <1>3 DEF ReadGate
  <2>2. /\ pc' \in {"parked", "unparking", "parking", "active"}
        /\ (pc' \in {"parked", "unparking"} => parked)
        /\ (pc' \in {"parking", "active"} => ~parked)
    BY <1>0, <2>1 DEF GateStep
  <2>3. \A m \in 1..moved' : m \in onGpu'
    BY <2>1
  <2>4. ~parked => onGpu = 1..Parts
    BY <2>1 DEF JobInv
  <2> QED
    BY <2>1, <2>2, <2>3, <2>4 DEF JobInv
<1>4. CASE ParkOne
  <2>1. \/ pc' = "parked" /\ parked' = TRUE
        \/ pc' = "parking" /\ parked' = parked
    BY <1>4 DEF ParkOne
  <2>2. pc = "parking"
    BY <1>4 DEF ParkOne
  <2> QED
    BY <2>1, <2>2 DEF JobInv
<1>5. CASE UnparkOne
  <2>1. pc = "unparking" /\ moved' = moved + 1 /\ onGpu' = onGpu \cup {moved + 1}
    BY <1>5 DEF UnparkOne
  <2>2. \A m \in 1..moved' : m \in onGpu'
    <3> SUFFICES ASSUME NEW m \in 1..moved' PROVE m \in onGpu'
      OBVIOUS
    <3>1. m \in 1..moved \/ m = moved + 1
      BY <1>0, <2>1
    <3> QED
      BY <2>1, <3>1 DEF JobInv
  <2>3. CASE moved + 1 = Parts
    <3>1. pc' = "active" /\ parked' = FALSE
      BY <1>5, <2>3 DEF UnparkOne, AllMoved
    <3>2. onGpu' = 1..Parts
      <4>1. onGpu' \subseteq 1..Parts
        BY <1>0, <2>1, <2>3
      <4>2. 1..Parts \subseteq onGpu'
        BY <1>0, <2>1, <2>2, <2>3
      <4> QED
        BY <4>1, <4>2
    <3> QED
      BY <3>1, <3>2 DEF JobInv
  <2>4. CASE moved + 1 # Parts
    <3>1. UNCHANGED <<pc, parked>>
      BY <1>5, <2>4 DEF UnparkOne, AllMoved
    <3> QED
      BY <2>1, <2>2, <3>1 DEF JobInv
  <2> QED
    BY <2>3, <2>4
<1>6. CASE Stamp
  <2>1. /\ pc \in {"parked", "active", "failed"}
        /\ pc' = IF pc = "active" THEN "claim" ELSE "poll"
        /\ UNCHANGED <<onGpu, parked>>
    BY <1>6 DEF Stamp
  <2> QED
    BY <2>1 DEF JobInv
<1>7. CASE Claim \/ JobEnds
  <2>1. pc \in {"claim", "job"} /\ pc' \in {"job", "poll"} /\ UNCHANGED <<onGpu, parked>>
    BY <1>7 DEF Claim, JobEnds
  <2> QED
    BY <2>1 DEF JobInv
<1>8. CASE Crash
  <2>1. pc' = "down"
    BY <1>8 DEF Crash
  <2> QED
    BY <2>1 DEF JobInv
<1>9. CASE MoveFails
  <2>1. pc = "unparking" /\ pc' = "failed" /\ UNCHANGED parked
    BY <1>9 DEF MoveFails, AfterFault
  <2> QED
    BY <2>1 DEF JobInv
<1>10. CASE UNCHANGED vars
  BY <1>10 DEF vars, JobInv
<1> QED
  BY <1>1, <1>2, <1>3, <1>4, <1>5, <1>6, <1>7, <1>8, <1>9, <1>10 DEF Next, Cycle

\* What holds of the card until a park raises.
JobWhole == "park" \notin torn => JobInv

\* A process starts with JobInv and keeps it until a park raises.
LEMMA StepJobWhole == ASSUME TypeInv, JobWhole, [Next]_vars PROVE JobWhole'
<1>1. CASE Load
  BY <1>1 DEF Load, JobWhole, JobInv, All
<1>2. CASE ~Load
  BY <1>2, TornGrows, StepJob DEF JobWhole
<1> QED
  BY <1>1, <1>2

\* As long as no park of the process has raised, a job runs with every model on
\* the card, whatever else fails.
THEOREM JobsOnGpu == Spec => []JobsRunOnGpu
<1>1. Init => JobWhole
  BY DEF Init, JobInv, JobWhole
<1>2. TypeInv /\ JobWhole /\ [Next]_vars => JobWhole'
  BY StepJobWhole
<1>3. JobWhole => JobsRunOnGpu
  BY DEF JobInv, JobWhole, JobsRunOnGpu, All
<1> QED
  BY <1>1, <1>2, <1>3, TypeInvariant, PTL DEF Spec
=============================================================================
