----------------------- MODULE BatchCoordinatorProofs -----------------------
(***************************************************************************)
(* Proofs about BatchCoordinator, for any number of coordinators, jobs,    *)
(* runs and faults, any batch size and any budgets of the operator.  They  *)
(* rest on one fact, that a run under way holds the lock, which is true as *)
(* long as the session that holds it does not break.                       *)
(***************************************************************************)
EXTENDS BatchCoordinator, TLAPS

-----------------------------------------------------------------------------
(* Typing.                                                                 *)

\* A spent fault leaves a number of faults.
LEMMA FaultType == ASSUME NEW kind, faults \in Nat, Fault(kind) PROVE faults' \in Nat
BY DEF Fault

\* Going to a place keeps the type of pc.
LEMMA GoToType == ASSUME NEW c \in Coordinators, NEW place \in Places, GoTo(c, place),
                         pc \in [Coordinators -> Places]
                  PROVE  pc' \in [Coordinators -> Places]
BY DEF GoTo

\* Every step of the system keeps the types.
LEMMA StepType == TypeOK /\ [Next]_vars => TypeOK'
<1> SUFFICES ASSUME TypeOK, [Next]_vars PROVE TypeOK'
  OBVIOUS
<1>0. /\ pending \in Nat /\ backlog \in Nat /\ toCome \in Nat
      /\ runs \in Nat /\ sets \in Nat /\ faults \in Nat
      /\ limit \in Limits /\ budget \in Limits /\ phase \in Phases
      /\ BatchSize \in Nat /\ BatchSize \in Limits
      /\ pc \in [Coordinators -> Places]
      /\ restore \in [Coordinators -> Limits]
      /\ first \in [Coordinators -> Phases]
      /\ seen \in [Coordinators -> [pending : Nat, claimed : {0, 1}]]
  BY SizeAssumption DEF SizeAssumption, TypeOK, Limits
<1>1. CASE Enqueue
  <2>1. UNCHANGED <<phase, limit, runner, backlog, lock, pc, restore, first, seen, budget, owner,
                    residue, runs, sets, faults>>
    BY <1>1 DEF Enqueue, control, local, history, bounds
  <2>2. pending' \in Nat
    BY <1>0, <1>1 DEF Enqueue
  <2>3. toCome' \in Nat
    BY <1>0, <1>1 DEF Enqueue
  <2> QED
    BY <2>1, <2>2, <2>3 DEF TypeOK
<1>2. CASE PassGate
  <2>1. UNCHANGED <<phase, limit, pending, backlog, toCome, lock, pc, restore, first, seen,
                    budget, owner, residue, runs, sets, faults>>
    BY <1>2 DEF PassGate, control, local, history, bounds
  <2>2. runner' \in {"poll", "gate", "job"}
    BY <1>0, <1>2 DEF PassGate
  <2> QED
    BY <2>1, <2>2 DEF TypeOK
<1>3. CASE Claim
  <2>1. UNCHANGED <<phase, backlog, toCome, lock, pc, restore, first, seen, owner, residue, runs,
                    sets, faults>>
    BY <1>3 DEF Claim, local, bounds
  <2>2. runner' \in {"poll", "gate", "job"}
    BY <1>0, <1>3 DEF Claim
  <2>3. pending' \in Nat
    BY <1>0, <1>3 DEF Claim
  <2>4. limit' \in Limits
    BY <1>0, <1>3 DEF Claim, Spend, Parked, Limits, PutBack, NoLimit
  <2>5. budget' \in Limits
    BY <1>0, <1>3 DEF Claim, Spend, Limits, NoLimit
  <2> QED
    BY <2>1, <2>2, <2>3, <2>4, <2>5 DEF TypeOK
<1>4. CASE ClaimNothing
  <2>1. UNCHANGED <<phase, limit, pending, backlog, toCome, lock, pc, restore, first, seen,
                    budget, owner, residue, runs, sets, faults>>
    BY <1>4 DEF ClaimNothing, control, local, history, bounds
  <2>2. runner' \in {"poll", "gate", "job"}
    BY <1>0, <1>4 DEF ClaimNothing
  <2> QED
    BY <2>1, <2>2 DEF TypeOK
<1>5. CASE FinishJob
  <2>1. UNCHANGED <<phase, limit, pending, toCome, lock, pc, restore, first, seen, budget, owner,
                    residue, runs, sets, faults>>
    BY <1>5 DEF FinishJob, control, local, history, bounds
  <2>2. runner' \in {"poll", "gate", "job"}
    BY <1>0, <1>5 DEF FinishJob
  <2>3. backlog' \in Nat
    BY <1>0, <1>5 DEF FinishJob
  <2> QED
    BY <2>1, <2>2, <2>3 DEF TypeOK
<1>6. CASE GiveBack
  <2>1. UNCHANGED <<phase, limit, backlog, toCome, lock, pc, restore, first, seen, budget, owner,
                    residue, runs, sets>>
    BY <1>6 DEF GiveBack, control, local, history
  <2>2. runner' \in {"poll", "gate", "job"}
    BY <1>0, <1>6 DEF GiveBack
  <2>3. pending' \in Nat
    BY <1>0, <1>6 DEF GiveBack
  <2>4. faults' \in Nat
    BY <1>0, <1>6, FaultType DEF GiveBack
  <2> QED
    BY <2>1, <2>2, <2>3, <2>4 DEF TypeOK
<1>7. CASE Embed
  <2>1. UNCHANGED <<phase, limit, pending, runner, toCome, lock, pc, restore, first, seen, budget,
                    owner, residue, runs, sets, faults>>
    BY <1>7 DEF Embed, control, local, history, bounds
  <2>2. backlog' \in Nat
    BY <1>0, <1>7 DEF Embed
  <2> QED
    BY <2>1, <2>2 DEF TypeOK
<1>8. ASSUME NEW n \in Budgets, SetRunLimit(n) PROVE TypeOK'
  <2>1. UNCHANGED <<phase, pending, runner, backlog, toCome, lock, pc, restore, first, seen, runs,
                    faults>>
    BY <1>8 DEF SetRunLimit, queue, local
  <2>2. limit' \in Limits
    BY <1>0, <1>8, BudgetsAssumption DEF SetRunLimit, BudgetsAssumption, Limits
  <2>3. budget' \in Limits
    BY <1>0, <1>8, BudgetsAssumption DEF SetRunLimit, BudgetsAssumption, Limits
  <2>4. owner' \in {"operator", "run"}
    BY <1>0, <1>8 DEF SetRunLimit, TypeOK
  <2>5. residue' \in BOOLEAN
    BY <1>0, <1>8 DEF SetRunLimit, TypeOK
  <2>6. sets' \in Nat
    BY <1>0, <1>8 DEF SetRunLimit
  <2> QED
    BY <2>1, <2>2, <2>3, <2>4, <2>5, <2>6 DEF TypeOK
<1>9. ASSUME NEW c \in Coordinators, Start(c) PROVE TypeOK'
  <2>1. UNCHANGED <<phase, limit, pending, runner, backlog, toCome, lock, restore, first, seen,
                    budget, owner, residue, sets, faults>>
    BY <1>9 DEF Start, control, queue, local, history
  <2>2. runs' \in Nat
    BY <1>0, <1>9 DEF Start
  <2>3. pc' \in [Coordinators -> Places]
    <3>1. GoTo(c, "lock")
      BY <1>9 DEF Start
    <3>2. {"lock"} \subseteq Places
      BY DEF Places, Body, Cleanup
    <3> QED
      BY <1>0, <3>1, <3>2, GoToType
  <2> QED
    BY <2>1, <2>2, <2>3 DEF TypeOK
<1>10. ASSUME NEW c \in Coordinators, TryBatchLock(c) PROVE TypeOK'
  <2>1. UNCHANGED <<phase, limit, pending, runner, backlog, toCome, first, seen, budget, owner,
                    residue, runs, sets, faults>>
    BY <1>10 DEF TryBatchLock, control, queue, history, bounds
  <2>2. lock' \in Coordinators \cup {NoOne}
    BY <1>0, <1>10 DEF TryBatchLock, TypeOK
  <2>3. pc' \in [Coordinators -> Places]
    <3>1. GoTo(c, "read") \/ GoTo(c, "off")
      BY <1>10 DEF TryBatchLock
    <3>2. {"read", "off"} \subseteq Places
      BY DEF Places, Body, Cleanup
    <3> QED
      BY <1>0, <3>1, <3>2, GoToType
  <2>4. restore' \in [Coordinators -> Limits]
    BY <1>0, <1>10 DEF TryBatchLock, RestoreLimitFor, Limits, NoLimit
  <2> QED
    BY <2>1, <2>2, <2>3, <2>4 DEF TypeOK
<1>11. ASSUME NEW c \in Coordinators, GetPipelinePhase(c) PROVE TypeOK'
  <2>1. UNCHANGED <<phase, limit, pending, runner, backlog, toCome, lock, restore, seen, budget,
                    owner, residue, runs, sets, faults>>
    BY <1>11 DEF GetPipelinePhase, control, queue, history, bounds
  <2>2. first' \in [Coordinators -> Phases]
    BY <1>0, <1>11 DEF GetPipelinePhase
  <2>3. pc' \in [Coordinators -> Places]
    <3>1. GoTo(c, "swap")
      BY <1>11 DEF GetPipelinePhase
    <3>2. {"swap"} \subseteq Places
      BY DEF Places, Body, Cleanup
    <3> QED
      BY <1>0, <3>1, <3>2, GoToType
  <2> QED
    BY <2>1, <2>2, <2>3 DEF TypeOK
<1>12. ASSUME NEW c \in Coordinators, SwapRunLimit(c) PROVE TypeOK'
  <2>1. UNCHANGED <<phase, pending, runner, backlog, toCome, lock, first, seen, residue, runs,
                    sets, faults>>
    BY <1>12 DEF SwapRunLimit, queue, bounds
  <2>2. restore' \in [Coordinators -> Limits]
    BY <1>0, <1>12 DEF SwapRunLimit, RestoreLimitFor, Limits, NoLimit
  <2>3. limit' \in Limits
    BY <1>0, <1>12 DEF SwapRunLimit, Spend, Parked, Limits, PutBack, NoLimit
  <2>4. owner' \in {"operator", "run"}
    BY <1>0, <1>12 DEF SwapRunLimit, TypeOK
  <2>5. budget' \in Limits
    BY <1>0, <1>12 DEF SwapRunLimit, Spend, Limits, NoLimit
  <2>6. pc' \in [Coordinators -> Places]
    <3>1. AfterSwap(c) \in Places /\ GoTo(c, AfterSwap(c))
      BY <1>12 DEF SwapRunLimit, AfterSwap, Places, Body
    <3> QED
      BY <1>0, <3>1, GoToType
  <2> QED
    BY <2>1, <2>2, <2>3, <2>4, <2>5, <2>6 DEF TypeOK
<1>13. ASSUME NEW c \in Coordinators, SwapFails(c) PROVE TypeOK'
  <2>1. UNCHANGED <<phase, pending, runner, backlog, toCome, lock, restore, first, seen, residue,
                    runs, sets>>
    BY <1>13 DEF SwapFails, queue, local
  <2>2. limit' \in Limits
    BY <1>0, <1>13 DEF SwapFails, Spend, Parked, Limits, PutBack, NoLimit
  <2>3. owner' \in {"operator", "run"}
    BY <1>0, <1>13 DEF SwapFails, TypeOK
  <2>4. budget' \in Limits
    BY <1>0, <1>13 DEF SwapFails, Spend, Limits, NoLimit
  <2>5. pc' \in [Coordinators -> Places]
    <3>1. AfterSwap(c) \in Places /\ GoTo(c, AfterSwap(c))
      BY <1>13 DEF SwapFails, AfterSwap, Places, Body
    <3> QED
      BY <1>0, <3>1, GoToType
  <2>6. faults' \in Nat
    BY <1>0, <1>13, FaultType DEF SwapFails
  <2> QED
    BY <2>1, <2>2, <2>3, <2>4, <2>5, <2>6 DEF TypeOK
<1>14. ASSUME NEW c \in Coordinators, ResumeZero(c) PROVE TypeOK'
  <2>1. UNCHANGED <<phase, pending, runner, backlog, toCome, lock, restore, first, seen, budget,
                    residue, runs, sets, faults>>
    BY <1>14 DEF ResumeZero, queue, local, bounds
  <2>2. limit' \in Limits
    BY <1>0, <1>14 DEF ResumeZero, Spend, Parked, Limits, PutBack, NoLimit
  <2>3. owner' \in {"operator", "run"}
    BY <1>0, <1>14 DEF ResumeZero, TypeOK
  <2>4. pc' \in [Coordinators -> Places]
    <3>1. GoTo(c, "resumeAnalyze")
      BY <1>14 DEF ResumeZero
    <3>2. {"resumeAnalyze"} \subseteq Places
      BY DEF Places, Body, Cleanup
    <3> QED
      BY <1>0, <3>1, <3>2, GoToType
  <2> QED
    BY <2>1, <2>2, <2>3, <2>4 DEF TypeOK
<1>15. ASSUME NEW c \in Coordinators, ResumeAnalyze(c) PROVE TypeOK'
  <2>1. UNCHANGED <<limit, pending, runner, backlog, toCome, lock, restore, first, seen, budget,
                    owner, residue, runs, sets, faults>>
    BY <1>15 DEF ResumeAnalyze, queue, local, history, bounds
  <2>2. phase' \in Phases
    BY <1>0, <1>15 DEF ResumeAnalyze, Phases, RestingPhase
  <2>3. pc' \in [Coordinators -> Places]
    <3>1. GoTo(c, "drain")
      BY <1>15 DEF ResumeAnalyze
    <3>2. {"drain"} \subseteq Places
      BY DEF Places, Body, Cleanup
    <3> QED
      BY <1>0, <3>1, <3>2, GoToType
  <2> QED
    BY <2>1, <2>2, <2>3 DEF TypeOK
<1>16. ASSUME NEW c \in Coordinators, Drained(c) PROVE TypeOK'
  <2>1. UNCHANGED <<phase, limit, pending, runner, backlog, toCome, lock, restore, first, seen,
                    budget, owner, residue, runs, sets, faults>>
    BY <1>16 DEF Drained, control, queue, local, history, bounds
  <2>2. pc' \in [Coordinators -> Places]
    <3>1. GoTo(c, "check")
      BY <1>16 DEF Drained
    <3>2. {"check"} \subseteq Places
      BY DEF Places, Body, Cleanup
    <3> QED
      BY <1>0, <3>1, <3>2, GoToType
  <2> QED
    BY <2>1, <2>2 DEF TypeOK
<1>17. ASSUME NEW c \in Coordinators, Check(c) PROVE TypeOK'
  <2>1. UNCHANGED <<phase, limit, pending, runner, backlog, toCome, lock, restore, first, seen,
                    budget, owner, residue, runs, sets, faults>>
    BY <1>17 DEF Check, control, queue, local, history, bounds
  <2>2. pc' \in [Coordinators -> Places]
    <3>1. GoTo(c, "lookup") \/ GoTo(c, "games")
      BY <1>17 DEF Check
    <3>2. {"lookup", "games"} \subseteq Places
      BY DEF Places, Body, Cleanup
    <3> QED
      BY <1>0, <3>1, <3>2, GoToType
  <2> QED
    BY <2>1, <2>2 DEF TypeOK
<1>18. ASSUME NEW c \in Coordinators, GamesOver(c) PROVE TypeOK'
  <2>1. UNCHANGED <<phase, limit, pending, runner, backlog, toCome, lock, restore, first, seen,
                    budget, owner, residue, runs, sets, faults>>
    BY <1>18 DEF GamesOver, control, queue, local, history, bounds
  <2>2. pc' \in [Coordinators -> Places]
    <3>1. GoTo(c, "setA")
      BY <1>18 DEF GamesOver
    <3>2. {"setA"} \subseteq Places
      BY DEF Places, Body, Cleanup
    <3> QED
      BY <1>0, <3>1, <3>2, GoToType
  <2> QED
    BY <2>1, <2>2 DEF TypeOK
<1>19. ASSUME NEW c \in Coordinators, SetTranscribe(c) PROVE TypeOK'
  <2>1. UNCHANGED <<limit, pending, runner, backlog, toCome, lock, restore, first, seen, budget,
                    owner, residue, runs, sets, faults>>
    BY <1>19 DEF SetTranscribe, queue, local, history, bounds
  <2>2. phase' \in Phases
    BY <1>0, <1>19 DEF SetTranscribe, Phases, RestingPhase
  <2>3. pc' \in [Coordinators -> Places]
    <3>1. GoTo(c, "setN")
      BY <1>19 DEF SetTranscribe
    <3>2. {"setN"} \subseteq Places
      BY DEF Places, Body, Cleanup
    <3> QED
      BY <1>0, <3>1, <3>2, GoToType
  <2> QED
    BY <2>1, <2>2, <2>3 DEF TypeOK
<1>20. ASSUME NEW c \in Coordinators, SetBatchLimit(c) PROVE TypeOK'
  <2>1. UNCHANGED <<phase, pending, runner, backlog, toCome, lock, restore, first, seen, budget,
                    residue, runs, sets, faults>>
    BY <1>20 DEF SetBatchLimit, queue, local, bounds
  <2>2. limit' \in Limits
    BY <1>0, <1>20 DEF SetBatchLimit, Spend, Parked, Limits, PutBack, NoLimit
  <2>3. owner' \in {"operator", "run"}
    BY <1>0, <1>20 DEF SetBatchLimit, TypeOK
  <2>4. pc' \in [Coordinators -> Places]
    <3>1. GoTo(c, "pollCounts")
      BY <1>20 DEF SetBatchLimit
    <3>2. {"pollCounts"} \subseteq Places
      BY DEF Places, Body, Cleanup
    <3> QED
      BY <1>0, <3>1, <3>2, GoToType
  <2> QED
    BY <2>1, <2>2, <2>3, <2>4 DEF TypeOK
<1>21. ASSUME NEW c \in Coordinators, PollCounts(c) PROVE TypeOK'
  <2>1. UNCHANGED <<phase, limit, pending, runner, backlog, toCome, lock, restore, first, budget,
                    owner, residue, runs, sets, faults>>
    BY <1>21 DEF PollCounts, control, queue, history, bounds
  <2>2. seen' \in [Coordinators -> [pending : Nat, claimed : {0, 1}]]
    BY <1>0, <1>21 DEF PollCounts, Claimed
  <2>3. pc' \in [Coordinators -> Places]
    <3>1. GoTo(c, "pollLimit")
      BY <1>21 DEF PollCounts
    <3>2. {"pollLimit"} \subseteq Places
      BY DEF Places, Body, Cleanup
    <3> QED
      BY <1>0, <3>1, <3>2, GoToType
  <2> QED
    BY <2>1, <2>2, <2>3 DEF TypeOK
<1>22. ASSUME NEW c \in Coordinators, PollLimit(c) PROVE TypeOK'
  <2>1. UNCHANGED <<phase, limit, pending, runner, backlog, toCome, lock, restore, first, seen,
                    budget, owner, residue, runs, sets, faults>>
    BY <1>22 DEF PollLimit, control, queue, local, history, bounds
  <2>2. pc' \in [Coordinators -> Places]
    <3>1. GoTo(c, "setB") \/ GoTo(c, "pollCounts")
      BY <1>22 DEF PollLimit
    <3>2. {"setB", "pollCounts"} \subseteq Places
      BY DEF Places, Body, Cleanup
    <3> QED
      BY <1>0, <3>1, <3>2, GoToType
  <2> QED
    BY <2>1, <2>2 DEF TypeOK
<1>23. ASSUME NEW c \in Coordinators, SetAnalyze(c) PROVE TypeOK'
  <2>1. UNCHANGED <<limit, pending, runner, backlog, toCome, lock, restore, first, seen, budget,
                    owner, residue, runs, sets, faults>>
    BY <1>23 DEF SetAnalyze, queue, local, history, bounds
  <2>2. phase' \in Phases
    BY <1>0, <1>23 DEF SetAnalyze, Phases, RestingPhase
  <2>3. pc' \in [Coordinators -> Places]
    <3>1. GoTo(c, "drain")
      BY <1>23 DEF SetAnalyze
    <3>2. {"drain"} \subseteq Places
      BY DEF Places, Body, Cleanup
    <3> QED
      BY <1>0, <3>1, <3>2, GoToType
  <2> QED
    BY <2>1, <2>2, <2>3 DEF TypeOK
<1>24. ASSUME NEW c \in Coordinators, Interrupt(c) PROVE TypeOK'
  <2>1. UNCHANGED <<phase, limit, pending, runner, backlog, toCome, lock, restore, first, seen,
                    budget, owner, residue, runs, sets, faults>>
    BY <1>24 DEF Interrupt, control, queue, local, history, bounds
  <2>2. pc' \in [Coordinators -> Places]
    <3>1. GoTo(c, "lookup")
      BY <1>24 DEF Interrupt
    <3>2. {"lookup"} \subseteq Places
      BY DEF Places, Body, Cleanup
    <3> QED
      BY <1>0, <3>1, <3>2, GoToType
  <2> QED
    BY <2>1, <2>2 DEF TypeOK
<1>25. ASSUME NEW c \in Coordinators, Lookup(c) PROVE TypeOK'
  <2>1. UNCHANGED <<phase, limit, pending, runner, backlog, toCome, lock, restore, first, seen,
                    budget, owner, runs, sets>>
    BY <1>25 DEF Lookup, control, queue, local
  <2>2. pc' \in [Coordinators -> Places]
    <3>1. GoTo(c, "release") \/ GoTo(c, "restorePhase")
      BY <1>25 DEF Lookup
    <3>2. {"release", "restorePhase"} \subseteq Places
      BY DEF Places, Body, Cleanup
    <3> QED
      BY <1>0, <3>1, <3>2, GoToType
  <2>3. faults' \in Nat
    <3>1. faults' = faults \/ Fault("lookup_fails")
      BY <1>25 DEF Lookup
    <3> QED
      BY <1>0, <3>1, FaultType
  <2>4. residue' \in BOOLEAN
    BY <1>0, <1>25 DEF Lookup, TypeOK
  <2> QED
    BY <2>1, <2>2, <2>3, <2>4 DEF TypeOK
<1>26. ASSUME NEW c \in Coordinators, RestorePhase(c) PROVE TypeOK'
  <2>1. UNCHANGED <<limit, pending, runner, backlog, toCome, lock, restore, first, seen, budget,
                    owner, runs, sets>>
    BY <1>26 DEF RestorePhase, queue, local
  <2>2. phase' \in Phases
    BY <1>0, <1>26 DEF RestorePhase, Phases, RestingPhase
  <2>3. residue' \in BOOLEAN
    BY <1>0, <1>26 DEF RestorePhase, TypeOK
  <2>4. pc' \in [Coordinators -> Places]
    <3>1. GoTo(c, "restoreLimit")
      BY <1>26 DEF RestorePhase
    <3>2. {"restoreLimit"} \subseteq Places
      BY DEF Places, Body, Cleanup
    <3> QED
      BY <1>0, <3>1, <3>2, GoToType
  <2>5. faults' \in Nat
    <3>1. faults' = faults \/ Fault("restore_fails")
      BY <1>26 DEF RestorePhase
    <3> QED
      BY <1>0, <3>1, FaultType
  <2> QED
    BY <2>1, <2>2, <2>3, <2>4, <2>5 DEF TypeOK
<1>27. ASSUME NEW c \in Coordinators, RestoreLimit(c) PROVE TypeOK'
  <2>1. UNCHANGED <<phase, pending, runner, backlog, toCome, lock, restore, first, seen, budget,
                    runs, sets>>
    BY <1>27 DEF RestoreLimit, queue, local
  <2>2. limit' \in Limits
    BY <1>0, <1>27 DEF RestoreLimit, Spend, Parked, Limits, PutBack, NoLimit
  <2>3. owner' \in {"operator", "run"}
    BY <1>0, <1>27 DEF RestoreLimit, TypeOK
  <2>4. residue' \in BOOLEAN
    BY <1>0, <1>27 DEF RestoreLimit, TypeOK
  <2>5. pc' \in [Coordinators -> Places]
    <3>1. GoTo(c, "release")
      BY <1>27 DEF RestoreLimit
    <3>2. {"release"} \subseteq Places
      BY DEF Places, Body, Cleanup
    <3> QED
      BY <1>0, <3>1, <3>2, GoToType
  <2>6. faults' \in Nat
    <3>1. faults' = faults \/ Fault("restore_fails")
      BY <1>27 DEF RestoreLimit
    <3> QED
      BY <1>0, <3>1, FaultType
  <2> QED
    BY <2>1, <2>2, <2>3, <2>4, <2>5, <2>6 DEF TypeOK
<1>28. ASSUME NEW c \in Coordinators, Release(c) PROVE TypeOK'
  <2>1. UNCHANGED <<phase, limit, pending, runner, backlog, toCome, restore, first, seen, budget,
                    owner, residue, runs, sets, faults>>
    BY <1>28 DEF Release, control, queue, local, history, bounds
  <2>2. lock' \in Coordinators \cup {NoOne}
    BY <1>0, <1>28 DEF Release, TypeOK
  <2>3. pc' \in [Coordinators -> Places]
    <3>1. GoTo(c, "off")
      BY <1>28 DEF Release
    <3>2. {"off"} \subseteq Places
      BY DEF Places, Body, Cleanup
    <3> QED
      BY <1>0, <3>1, <3>2, GoToType
  <2> QED
    BY <2>1, <2>2, <2>3 DEF TypeOK
<1>29. ASSUME NEW c \in Coordinators, Crash(c) PROVE TypeOK'
  <2>1. UNCHANGED <<phase, limit, pending, runner, backlog, toCome, restore, first, seen, budget,
                    owner, runs, sets>>
    BY <1>29 DEF Crash, control, queue, local
  <2>2. lock' \in Coordinators \cup {NoOne}
    BY <1>0, <1>29 DEF Crash, TypeOK
  <2>3. residue' \in BOOLEAN
    BY <1>0, <1>29 DEF Crash, TypeOK
  <2>4. pc' \in [Coordinators -> Places]
    <3>1. GoTo(c, "off")
      BY <1>29 DEF Crash
    <3>2. {"off"} \subseteq Places
      BY DEF Places, Body, Cleanup
    <3> QED
      BY <1>0, <3>1, <3>2, GoToType
  <2>5. faults' \in Nat
    BY <1>0, <1>29, FaultType DEF Crash
  <2> QED
    BY <2>1, <2>2, <2>3, <2>4, <2>5 DEF TypeOK
<1>30. ASSUME NEW c \in Coordinators, Drop(c) PROVE TypeOK'
  <2>1. UNCHANGED <<phase, limit, pending, runner, backlog, toCome, pc, restore, first, seen,
                    budget, owner, residue, runs, sets>>
    BY <1>30 DEF Drop, control, queue, local, history
  <2>2. lock' \in Coordinators \cup {NoOne}
    BY <1>0, <1>30 DEF Drop, TypeOK
  <2>3. faults' \in Nat
    BY <1>0, <1>30, FaultType DEF Drop
  <2> QED
    BY <2>1, <2>2, <2>3 DEF TypeOK
<1>31. CASE UNCHANGED vars
  BY <1>31 DEF vars, control, queue, local, history, bounds, TypeOK
<1> QED
  BY <1>1, <1>2, <1>3, <1>4, <1>5, <1>6, <1>7, <1>8, <1>9, <1>10, <1>11, <1>12, <1>13, <1>14,
     <1>15, <1>16, <1>17, <1>18, <1>19, <1>20, <1>21, <1>22, <1>23, <1>24, <1>25, <1>26, <1>27,
     <1>28, <1>29, <1>30, <1>31 DEF Next, Coordinate, Advance, Restores, Work

\* In every reachable state every variable has its type.
THEOREM TypeCorrect == Spec => []TypeOK
<1>1. Init => TypeOK
  <2> SUFFICES ASSUME Init PROVE TypeOK
    OBVIOUS
  <2>1. /\ phase \in Phases /\ limit \in Limits /\ budget \in Limits
        /\ pending \in Nat /\ backlog \in Nat /\ toCome \in Nat
        /\ runs \in Nat /\ sets \in Nat /\ faults \in Nat
    BY BoundsAssumption DEF Init, BoundsAssumption, Phases, Limits, NoLimit
  <2>2. pc \in [Coordinators -> Places] /\ restore \in [Coordinators -> Limits]
    BY DEF Init, Places, Limits, NoLimit
  <2>3. first \in [Coordinators -> Phases]
    BY DEF Init, Phases
  <2>4. seen \in [Coordinators -> [pending : Nat, claimed : {0, 1}]]
    BY DEF Init
  <2> QED
    BY <2>1, <2>2, <2>3, <2>4 DEF Init, TypeOK
<1> QED
  BY <1>1, StepType, PTL DEF Spec

-----------------------------------------------------------------------------
(* What a coordinator's step touches.                                      *)

\* A step of one coordinator leaves the place of every other one alone.
LEMMA OthersStay == ASSUME NEW c \in Coordinators, NEW place, GoTo(c, place), TypeOK
                    PROVE  /\ pc'[c] = place
                           /\ \A d \in Coordinators : d # c => pc'[d] = pc[d]
BY DEF GoTo, TypeOK

\* What is not a coordinator's step moves no coordinator.
Surroundings == Work \/ GiveBack \/ Embed \/ Enqueue \/ \E n \in Budgets : SetRunLimit(n)

LEMMA SurroundingsStay == Surroundings => UNCHANGED <<phase, lock, pc, restore, first>>
BY DEF Surroundings, Work, PassGate, Claim, ClaimNothing, FinishJob, GiveBack, Embed, Enqueue,
       SetRunLimit, control, local, history, bounds, queue

-----------------------------------------------------------------------------
(* A run under way holds the lock.                                         *)

LockInv == \A c \in Coordinators : InRun(c) => lock = c

\* A step inside a run that does not touch the lock keeps LockInv.
LEMMA LockStays == ASSUME LockInv, TypeOK, NEW c \in Coordinators, InRun(c), UNCHANGED lock,
                          NEW place, GoTo(c, place)
                   PROVE  LockInv'
BY OthersStay DEF LockInv, InRun

\* A step that ends the run of the holder keeps LockInv.
LEMMA LockFreed == ASSUME LockInv, TypeOK, NEW c \in Coordinators, InRun(c), GoTo(c, "off")
                   PROVE  LockInv'
<1>1. \A d \in Coordinators : d # c => ~InRun(d)
  BY DEF LockInv
<1>2. \A d \in Coordinators : ~InRun(d)'
  BY <1>1, OthersStay DEF InRun
<1> QED
  BY <1>2 DEF LockInv

\* Every step keeps LockInv, as long as no session breaks.
LEMMA StepLock == ASSUME "drop" \notin Env, TypeOK, LockInv, [Next]_vars PROVE LockInv'
<1>1. CASE Surroundings
  BY <1>1, SurroundingsStay DEF LockInv, InRun
<1>2. ASSUME NEW c \in Coordinators, Start(c) PROVE LockInv'
  <2>1. GoTo(c, "lock") /\ UNCHANGED lock
    BY <1>2 DEF Start
  <2> QED
    BY <2>1, OthersStay DEF LockInv, InRun
<1>3. ASSUME NEW c \in Coordinators, TryBatchLock(c) PROVE LockInv'
  <2>1. CASE lock = NoOne
    <3>1. lock' = c /\ GoTo(c, "read")
      BY <1>3, <2>1 DEF TryBatchLock, LockFree
    <3>2. \A d \in Coordinators : ~InRun(d)
      BY <2>1, NoOneAssumption DEF LockInv, NoOneAssumption
    <3> QED
      BY <3>1, <3>2, OthersStay DEF LockInv, InRun
  <2>2. CASE lock # NoOne
    <3>1. UNCHANGED lock /\ GoTo(c, "off")
      BY <1>3, <2>2 DEF TryBatchLock, LockFree
    <3> QED
      BY <3>1, OthersStay DEF LockInv, InRun
  <2> QED
    BY <2>1, <2>2
<1>4. ASSUME NEW c \in Coordinators, Release(c) \/ Crash(c) PROVE LockInv'
  <2>1. InRun(c) /\ GoTo(c, "off")
    BY <1>4 DEF Release, Crash, InRun
  <2> QED
    BY <2>1, LockFreed
<1>5. ASSUME NEW c \in Coordinators, GetPipelinePhase(c) PROVE LockInv'
  <2>1. InRun(c) /\ UNCHANGED lock /\ GoTo(c, "swap")
    BY <1>5 DEF GetPipelinePhase, InRun
  <2> QED
    BY <2>1, LockStays
<1>6. ASSUME NEW c \in Coordinators, SwapRunLimit(c) PROVE LockInv'
  <2>1. InRun(c) /\ UNCHANGED lock /\ GoTo(c, AfterSwap(c))
    BY <1>6 DEF SwapRunLimit, InRun
  <2> QED
    BY <2>1, LockStays
<1>7. ASSUME NEW c \in Coordinators, SwapFails(c) PROVE LockInv'
  <2>1. InRun(c) /\ UNCHANGED lock /\ GoTo(c, AfterSwap(c))
    BY <1>7 DEF SwapFails, InRun
  <2> QED
    BY <2>1, LockStays
<1>8. ASSUME NEW c \in Coordinators, ResumeZero(c) PROVE LockInv'
  <2>1. InRun(c) /\ UNCHANGED lock /\ GoTo(c, "resumeAnalyze")
    BY <1>8 DEF ResumeZero, InRun
  <2> QED
    BY <2>1, LockStays
<1>9. ASSUME NEW c \in Coordinators, ResumeAnalyze(c) PROVE LockInv'
  <2>1. InRun(c) /\ UNCHANGED lock /\ GoTo(c, "drain")
    BY <1>9 DEF ResumeAnalyze, InRun
  <2> QED
    BY <2>1, LockStays
<1>10. ASSUME NEW c \in Coordinators, Drained(c) PROVE LockInv'
  <2>1. InRun(c) /\ UNCHANGED lock /\ GoTo(c, "check")
    BY <1>10 DEF Drained, InRun
  <2> QED
    BY <2>1, LockStays
<1>11. ASSUME NEW c \in Coordinators, Check(c) PROVE LockInv'
  <2>1. InRun(c) /\ UNCHANGED lock /\ (GoTo(c, "lookup") \/ GoTo(c, "games"))
    BY <1>11 DEF Check, InRun
  <2> QED
    BY <2>1, LockStays
<1>12. ASSUME NEW c \in Coordinators, GamesOver(c) PROVE LockInv'
  <2>1. InRun(c) /\ UNCHANGED lock /\ GoTo(c, "setA")
    BY <1>12 DEF GamesOver, InRun
  <2> QED
    BY <2>1, LockStays
<1>13. ASSUME NEW c \in Coordinators, SetTranscribe(c) PROVE LockInv'
  <2>1. InRun(c) /\ UNCHANGED lock /\ GoTo(c, "setN")
    BY <1>13 DEF SetTranscribe, InRun
  <2> QED
    BY <2>1, LockStays
<1>14. ASSUME NEW c \in Coordinators, SetBatchLimit(c) PROVE LockInv'
  <2>1. InRun(c) /\ UNCHANGED lock /\ GoTo(c, "pollCounts")
    BY <1>14 DEF SetBatchLimit, InRun
  <2> QED
    BY <2>1, LockStays
<1>15. ASSUME NEW c \in Coordinators, PollCounts(c) PROVE LockInv'
  <2>1. InRun(c) /\ UNCHANGED lock /\ GoTo(c, "pollLimit")
    BY <1>15 DEF PollCounts, InRun
  <2> QED
    BY <2>1, LockStays
<1>16. ASSUME NEW c \in Coordinators, PollLimit(c) PROVE LockInv'
  <2>1. InRun(c) /\ UNCHANGED lock /\ (GoTo(c, "setB") \/ GoTo(c, "pollCounts"))
    BY <1>16 DEF PollLimit, InRun
  <2> QED
    BY <2>1, LockStays
<1>17. ASSUME NEW c \in Coordinators, SetAnalyze(c) PROVE LockInv'
  <2>1. InRun(c) /\ UNCHANGED lock /\ GoTo(c, "drain")
    BY <1>17 DEF SetAnalyze, InRun
  <2> QED
    BY <2>1, LockStays
<1>18. ASSUME NEW c \in Coordinators, Interrupt(c) PROVE LockInv'
  <2>1. InRun(c) /\ UNCHANGED lock /\ GoTo(c, "lookup")
    BY <1>18 DEF Interrupt, InRun, Body
  <2> QED
    BY <2>1, LockStays
<1>19. ASSUME NEW c \in Coordinators, Lookup(c) PROVE LockInv'
  <2>1. InRun(c) /\ UNCHANGED lock /\ (GoTo(c, "release") \/ GoTo(c, "restorePhase"))
    BY <1>19 DEF Lookup, InRun
  <2> QED
    BY <2>1, LockStays
<1>20. ASSUME NEW c \in Coordinators, RestorePhase(c) PROVE LockInv'
  <2>1. InRun(c) /\ UNCHANGED lock /\ GoTo(c, "restoreLimit")
    BY <1>20 DEF RestorePhase, InRun
  <2> QED
    BY <2>1, LockStays
<1>21. ASSUME NEW c \in Coordinators, RestoreLimit(c) PROVE LockInv'
  <2>1. InRun(c) /\ UNCHANGED lock /\ GoTo(c, "release")
    BY <1>21 DEF RestoreLimit, InRun
  <2> QED
    BY <2>1, LockStays
<1>22. ASSUME NEW c \in Coordinators, Drop(c) PROVE LockInv'
  BY <1>22 DEF Drop, Fault
<1>23. CASE UNCHANGED vars
  BY <1>23 DEF vars, LockInv, InRun
<1> QED
  BY <1>1, <1>2, <1>3, <1>4, <1>5, <1>6, <1>7, <1>8, <1>9, <1>10, <1>11, <1>12, <1>13, <1>14,
     <1>15, <1>16, <1>17, <1>18, <1>19, <1>20, <1>21, <1>22, <1>23 DEF Next, Coordinate,
     Advance, Restores, Surroundings

\* As long as no session breaks, a run under way holds the lock.
LEMMA RunsHoldLock == ASSUME "drop" \notin Env PROVE Spec => []LockInv
<1>1. Init => LockInv
  BY DEF Init, LockInv, InRun
<1>2. TypeOK /\ LockInv /\ [Next]_vars => LockInv'
  BY StepLock
<1> QED
  BY <1>1, <1>2, TypeCorrect, PTL DEF Spec

\* A coordinator that writes the control row is in its run.
LEMMA WritersRun == ASSUME NEW c \in Coordinators, Coordinate(c), control' # control
                    PROVE  InRun(c)
<1>1. ~Start(c) /\ ~TryBatchLock(c)
  BY DEF Start, TryBatchLock
<1>2. CASE Interrupt(c) \/ Crash(c) \/ Drop(c)
  BY <1>2 DEF Interrupt, Crash, Drop
<1> QED
  BY <1>1, <1>2 DEF Coordinate, Advance, Restores, InRun, GetPipelinePhase, SwapRunLimit,
     SwapFails, ResumeZero, ResumeAnalyze, Drained, Check, GamesOver, SetTranscribe,
     SetBatchLimit, PollCounts, PollLimit, SetAnalyze, Lookup, RestorePhase, RestoreLimit,
     Release

\* A step moves at most the coordinator that takes it.
LEMMA MoverActs == ASSUME TypeOK, NEW c \in Coordinators, NEW e \in Coordinators, Coordinate(e),
                          pc'[c] # pc[c]
                   PROVE  c = e
<1>1. CASE Drop(e)
  BY <1>1 DEF Drop
<1>2. CASE ~Drop(e)
  <2>1. \E place \in Places \cup {AfterSwap(e), "lookup"} : GoTo(e, place)
    BY <1>2 DEF Coordinate, Advance, Restores, Places, Body, Cleanup, Start, TryBatchLock,
       GetPipelinePhase, SwapRunLimit, SwapFails, ResumeZero, ResumeAnalyze, Drained, Check,
       GamesOver, SetTranscribe, SetBatchLimit, PollCounts, PollLimit, SetAnalyze, Interrupt,
       Lookup, RestorePhase, RestoreLimit, Release, Crash
  <2> QED
    BY <2>1, OthersStay
<1> QED
  BY <1>1, <1>2

\* As long as no session that holds the lock breaks, no coordinator writes the
\* control row while another one's run is under way, whatever crashes or fails.
THEOREM OnlyOneDrives == ASSUME "drop" \notin Env PROVE Spec => OneDriver
<1> DEFINE A == \A c \in Coordinators :
                  pc'[c] # pc[c] /\ control' # control
                    => \A d \in Coordinators \ {c} : ~InRun(d)
<1>1. ASSUME TypeOK, LockInv, Next PROVE A
  <2> SUFFICES ASSUME NEW c \in Coordinators, pc'[c] # pc[c], control' # control,
                      NEW d \in Coordinators \ {c}
               PROVE  ~InRun(d)
    OBVIOUS
  <2>1. ~Surroundings
    BY SurroundingsStay
  <2>2. PICK e \in Coordinators : Coordinate(e)
    BY <1>1, <2>1 DEF Next, Surroundings
  <2>3. InRun(c)
    BY <1>1, <2>2, MoverActs, WritersRun
  <2> QED
    BY <1>1, <2>3 DEF LockInv
<1>2. TypeOK /\ LockInv /\ [Next]_vars => [A]_vars
  BY <1>1
<1> QED
  BY <1>2, TypeCorrect, RunsHoldLock, PTL DEF Spec, OneDriver

-----------------------------------------------------------------------------
(* The phase is put back.                                                  *)

\* A coordinator that may still set the phase, and will put it back.
Driving(c) == pc[c] \in Body \cup {"lookup", "restorePhase"}

\* A phase other than idle has someone to put it back, or was left by a run
\* that was cut off.
PhaseInv == phase = "idle" \/ residue \/ \E c \in Coordinators : Driving(c)

\* A step of a coordinator that was not driving leaves the one that is.
LEMMA DriverStays == ASSUME TypeOK, PhaseInv, NEW c \in Coordinators, NEW place, GoTo(c, place),
                            UNCHANGED <<phase, residue>>, ~Driving(c)
                     PROVE  PhaseInv'
BY OthersStay DEF PhaseInv, Driving

\* A step of a coordinator that drives on keeps PhaseInv.
LEMMA DrivesOn == ASSUME TypeOK, NEW c \in Coordinators,
                         NEW place \in Body \cup {"lookup", "restorePhase"}, GoTo(c, place)
                  PROVE  PhaseInv'
BY OthersStay DEF PhaseInv, Driving

\* Every step keeps PhaseInv.
LEMMA StepPhase == ASSUME TypeOK, PhaseInv, [Next]_vars PROVE PhaseInv'
<1>1. CASE Work \/ GiveBack \/ Embed \/ Enqueue
  <2>1. UNCHANGED <<phase, pc, residue>>
    BY <1>1 DEF Work, PassGate, Claim, ClaimNothing, FinishJob, GiveBack, Embed, Enqueue,
                control, history
  <2> QED
    BY <2>1 DEF PhaseInv, Driving
<1>2. ASSUME NEW n \in Budgets, SetRunLimit(n) PROVE PhaseInv'
  <2>1. UNCHANGED <<phase, pc>>
    BY <1>2 DEF SetRunLimit
  <2>2. residue => residue' \/ phase = "idle"
    BY <1>2 DEF SetRunLimit, TypeOK
  <2> QED
    BY <2>1, <2>2 DEF PhaseInv, Driving
<1>3. ASSUME NEW c \in Coordinators, Start(c) PROVE PhaseInv'
  <2>1. GoTo(c, "lock") /\ UNCHANGED <<phase, residue>> /\ ~Driving(c)
    BY <1>3 DEF Start, control, history, Driving, Body
  <2> QED
    BY <2>1, DriverStays
<1>4. ASSUME NEW c \in Coordinators, TryBatchLock(c) PROVE PhaseInv'
  <2>1. (GoTo(c, "read") \/ GoTo(c, "off")) /\ UNCHANGED <<phase, residue>> /\ ~Driving(c)
    BY <1>4 DEF TryBatchLock, control, history, Driving, Body
  <2> QED
    BY <2>1, DriverStays
<1>5. ASSUME NEW c \in Coordinators, GetPipelinePhase(c) PROVE PhaseInv'
  <2>1. GoTo(c, "swap") /\ UNCHANGED <<phase, residue>> /\ ~Driving(c)
    BY <1>5 DEF GetPipelinePhase, control, history, Driving, Body
  <2> QED
    BY <2>1, DriverStays
<1>6. ASSUME NEW c \in Coordinators, Release(c) PROVE PhaseInv'
  <2>1. GoTo(c, "off") /\ UNCHANGED <<phase, residue>> /\ ~Driving(c)
    BY <1>6 DEF Release, control, history, Driving, Body
  <2> QED
    BY <2>1, DriverStays
<1>7. ASSUME NEW c \in Coordinators, SwapRunLimit(c) PROVE PhaseInv'
  <2>1. AfterSwap(c) \in Body /\ GoTo(c, AfterSwap(c))
    BY <1>7 DEF SwapRunLimit, AfterSwap, Body
  <2> QED
    BY <2>1, DrivesOn
<1>8. ASSUME NEW c \in Coordinators, SwapFails(c) PROVE PhaseInv'
  <2>1. AfterSwap(c) \in Body /\ GoTo(c, AfterSwap(c))
    BY <1>8 DEF SwapFails, AfterSwap, Body
  <2> QED
    BY <2>1, DrivesOn
<1>9. ASSUME NEW c \in Coordinators, ResumeZero(c) PROVE PhaseInv'
  <2>1. {"resumeAnalyze"} \subseteq Body \cup {"lookup"} /\ GoTo(c, "resumeAnalyze")
    BY <1>9 DEF ResumeZero, Body
  <2> QED
    BY <2>1, DrivesOn
<1>10. ASSUME NEW c \in Coordinators, ResumeAnalyze(c) PROVE PhaseInv'
  <2>1. {"drain"} \subseteq Body \cup {"lookup"} /\ GoTo(c, "drain")
    BY <1>10 DEF ResumeAnalyze, Body
  <2> QED
    BY <2>1, DrivesOn
<1>11. ASSUME NEW c \in Coordinators, Drained(c) PROVE PhaseInv'
  <2>1. {"check"} \subseteq Body \cup {"lookup"} /\ GoTo(c, "check")
    BY <1>11 DEF Drained, Body
  <2> QED
    BY <2>1, DrivesOn
<1>12. ASSUME NEW c \in Coordinators, Check(c) PROVE PhaseInv'
  <2>1. {"lookup", "games"} \subseteq Body \cup {"lookup"} /\ (GoTo(c, "lookup") \/ GoTo(c, "games"))
    BY <1>12 DEF Check, Body
  <2> QED
    BY <2>1, DrivesOn
<1>13. ASSUME NEW c \in Coordinators, GamesOver(c) PROVE PhaseInv'
  <2>1. {"setA"} \subseteq Body \cup {"lookup"} /\ GoTo(c, "setA")
    BY <1>13 DEF GamesOver, Body
  <2> QED
    BY <2>1, DrivesOn
<1>14. ASSUME NEW c \in Coordinators, SetTranscribe(c) PROVE PhaseInv'
  <2>1. {"setN"} \subseteq Body \cup {"lookup"} /\ GoTo(c, "setN")
    BY <1>14 DEF SetTranscribe, Body
  <2> QED
    BY <2>1, DrivesOn
<1>15. ASSUME NEW c \in Coordinators, SetBatchLimit(c) PROVE PhaseInv'
  <2>1. {"pollCounts"} \subseteq Body \cup {"lookup"} /\ GoTo(c, "pollCounts")
    BY <1>15 DEF SetBatchLimit, Body
  <2> QED
    BY <2>1, DrivesOn
<1>16. ASSUME NEW c \in Coordinators, PollCounts(c) PROVE PhaseInv'
  <2>1. {"pollLimit"} \subseteq Body \cup {"lookup"} /\ GoTo(c, "pollLimit")
    BY <1>16 DEF PollCounts, Body
  <2> QED
    BY <2>1, DrivesOn
<1>17. ASSUME NEW c \in Coordinators, PollLimit(c) PROVE PhaseInv'
  <2>1. {"setB", "pollCounts"} \subseteq Body \cup {"lookup"} /\ (GoTo(c, "setB") \/ GoTo(c, "pollCounts"))
    BY <1>17 DEF PollLimit, Body
  <2> QED
    BY <2>1, DrivesOn
<1>18. ASSUME NEW c \in Coordinators, SetAnalyze(c) PROVE PhaseInv'
  <2>1. {"drain"} \subseteq Body \cup {"lookup"} /\ GoTo(c, "drain")
    BY <1>18 DEF SetAnalyze, Body
  <2> QED
    BY <2>1, DrivesOn
<1>19. ASSUME NEW c \in Coordinators, Interrupt(c) PROVE PhaseInv'
  <2>1. {"lookup"} \subseteq Body \cup {"lookup"} /\ GoTo(c, "lookup")
    BY <1>19 DEF Interrupt, Body
  <2> QED
    BY <2>1, DrivesOn
<1>20. ASSUME NEW c \in Coordinators, Lookup(c) PROVE PhaseInv'
  <2>1. residue' = TRUE \/ GoTo(c, "restorePhase")
    BY <1>20 DEF Lookup
  <2>2. CASE residue' = TRUE
    BY <2>2 DEF PhaseInv
  <2>3. CASE GoTo(c, "restorePhase")
    BY <2>3, DrivesOn
  <2> QED
    BY <2>1, <2>2, <2>3
<1>21. ASSUME NEW c \in Coordinators, RestorePhase(c) PROVE PhaseInv'
  <2>1. phase' = "idle" \/ residue' = TRUE
    BY <1>21 DEF RestorePhase, RestingPhase
  <2> QED
    BY <2>1 DEF PhaseInv
<1>22. ASSUME NEW c \in Coordinators, RestoreLimit(c) PROVE PhaseInv'
  <2>1. GoTo(c, "release") /\ UNCHANGED phase /\ ~Driving(c)
    BY <1>22 DEF RestoreLimit, Driving, Body
  <2>2. residue' = TRUE \/ UNCHANGED residue
    BY <1>22 DEF RestoreLimit
  <2>3. CASE residue' = TRUE
    BY <2>3 DEF PhaseInv
  <2>4. CASE UNCHANGED residue
    BY <2>1, <2>4, DriverStays
  <2> QED
    BY <2>2, <2>3, <2>4
<1>23. ASSUME NEW c \in Coordinators, Crash(c) PROVE PhaseInv'
  <2>1. CASE pc[c] \in Body \cup Cleanup
    BY <1>23, <2>1 DEF Crash, PhaseInv
  <2>2. CASE pc[c] \notin Body \cup Cleanup
    <3>1. GoTo(c, "off") /\ UNCHANGED phase /\ ~Driving(c)
      BY <1>23, <2>2 DEF Crash, control, Driving, Cleanup
    <3>2. residue' = residue
      BY <1>23, <2>2 DEF Crash, TypeOK
    <3> QED
      BY <3>1, <3>2, DriverStays
  <2> QED
    BY <2>1, <2>2
<1>24. ASSUME NEW c \in Coordinators, Drop(c) PROVE PhaseInv'
  BY <1>24 DEF Drop, control, history, PhaseInv, Driving
<1>25. CASE UNCHANGED vars
  BY <1>25 DEF vars, control, history, PhaseInv, Driving
<1> QED
  BY <1>1, <1>2, <1>3, <1>4, <1>5, <1>6, <1>7, <1>8, <1>9, <1>10, <1>11, <1>12, <1>13, <1>14,
     <1>15, <1>16, <1>17, <1>18, <1>19, <1>20, <1>21, <1>22, <1>23, <1>24, <1>25 DEF Next,
     Coordinate, Advance, Restores

\* A phase other than idle has a coordinator to put it back, or was left by a
\* run that was cut off or gave way to a successor.
LEMMA PhaseInvariant == Spec => []PhaseInv
<1>1. Init => PhaseInv
  BY DEF Init, PhaseInv
<1>2. TypeOK /\ PhaseInv /\ [Next]_vars => PhaseInv'
  BY StepPhase
<1> QED
  BY <1>1, <1>2, TypeCorrect, PTL DEF Spec

\* Whatever crashes, fails or breaks, between runs the pipeline is idle, unless
\* the last run was cut off before it put the phase back or left that to a
\* successor.
THEOREM IdleBetweenRuns == Spec => []QuietIsIdle
<1>1. PhaseInv => QuietIsIdle
  BY DEF PhaseInv, QuietIsIdle, Quiet, InRun, Driving, Body
<1> QED
  BY <1>1, PhaseInvariant, PTL

-----------------------------------------------------------------------------
(* The operator's budget.                                                  *)

\* What no run meets: a crash, a failed cleanup, a broken session, a signal
\* before the budget is taken.
Undisturbed == {"crash", "restore_fails", "drop", "early"} \cap Env = {}

Owns(c) == pc[c] \in Body \cup Cleanup

\* Outside the runs the row holds the operator's budget; a run holds it in
\* restoreLimit, and then a limit that still counts as the operator's is 0.
BudgetInv ==
  /\ residue = FALSE
  /\ ~Owned => owner = "operator" /\ limit = budget
  /\ Owned /\ owner = "operator" => limit = 0
  /\ \A c \in Coordinators :
       /\ Owns(c) => restore[c] = budget
       /\ pc[c] \in {"read", "swap"} => restore[c] = NoLimit
       /\ pc[c] = "swap" => first[c] = "idle"

\* A step that moves a coordinator without entering or leaving the part of a
\* run that owns the budget, and touches no budget, keeps BudgetInv.
LEMMA BudgetStays ==
  ASSUME TypeOK, BudgetInv, NEW c \in Coordinators, NEW place, GoTo(c, place),
         UNCHANGED <<limit, restore, first, budget, owner, residue>>,
         (pc[c] \in Body \cup Cleanup) <=> (place \in Body \cup Cleanup),
         place \notin {"read", "swap"}
  PROVE  BudgetInv'
<1>1. \A d \in Coordinators : Owns(d)' <=> Owns(d)
  BY OthersStay DEF Owns
<1>2. Owned' <=> Owned
  BY <1>1 DEF Owned, Owns
<1>3. \A d \in Coordinators : pc'[d] \in {"read", "swap"} => pc'[d] = pc[d]
  BY OthersStay
<1> QED
  BY <1>1, <1>2, <1>3 DEF BudgetInv

\* A step inside a run that writes a limit of the run's own keeps BudgetInv.
LEMMA BudgetParked ==
  ASSUME TypeOK, BudgetInv, NEW c \in Coordinators, NEW place \in Body, GoTo(c, place),
         pc[c] \in Body, owner' = "run", UNCHANGED <<restore, first, budget, residue>>
  PROVE  BudgetInv'
<1>1. \A d \in Coordinators : Owns(d)' <=> Owns(d)
  BY OthersStay DEF Owns
<1>2. Owned'
  BY OthersStay DEF Owned
<1>3. \A d \in Coordinators : pc'[d] \in {"read", "swap"} => pc'[d] = pc[d]
  BY OthersStay DEF Body
<1> QED
  BY <1>1, <1>2, <1>3 DEF BudgetInv

\* A run that holds the lock is the only one.
LEMMA RunsAlone == ASSUME LockInv, NEW c \in Coordinators, InRun(c),
                          NEW d \in Coordinators, InRun(d)
                   PROVE  d = c
BY DEF LockInv

\* A coordinator that takes the budget over holds it exactly.
LEMMA BudgetTaken ==
  ASSUME TypeOK, LockInv, BudgetInv, NEW c \in Coordinators, pc[c] = "swap",
         NEW place \in Body, GoTo(c, place), restore'[c] = budget',
         owner' = "run" \/ limit' = 0, UNCHANGED residue
  PROVE  BudgetInv'
<1>1. \A d \in Coordinators : d # c => ~InRun(d)'
  BY OthersStay, RunsAlone DEF InRun
<1>2. pc'[c] = place /\ place \in Body
  BY OthersStay
<1>3. Owned'
  BY <1>2 DEF Owned
<1>4. \A d \in Coordinators : Owns(d)' => d = c
  BY <1>1 DEF Owns, InRun, Body, Cleanup
<1>5. \A d \in Coordinators : pc'[d] \notin {"read", "swap"}
  BY <1>1, <1>2 DEF InRun, Body
<1> QED
  BY <1>3, <1>4, <1>5 DEF BudgetInv

\* Every step of an undisturbed run keeps BudgetInv.
LEMMA StepBudget == ASSUME Undisturbed, TypeOK, LockInv, PhaseInv, BudgetInv, [Next]_vars
                    PROVE  BudgetInv'
<1>0. \A kind \in {"crash", "restore_fails", "drop", "early"} : ~Fault(kind) /\ kind \notin Env
  BY DEF Undisturbed, Fault
<1>1. CASE PassGate \/ ClaimNothing \/ FinishJob \/ GiveBack \/ Embed \/ Enqueue
  <2>1. UNCHANGED <<limit, pc, restore, first, budget, owner, residue>>
    BY <1>1 DEF PassGate, ClaimNothing, FinishJob, GiveBack, Embed, Enqueue,
                control, local, history
  <2> QED
    BY <2>1 DEF BudgetInv, Owned, Owns
<1>2. CASE Claim
  <2>1. UNCHANGED <<pc, restore, first, owner, residue>> /\ limit # 0 /\ limit' = Spend(limit)
        /\ budget' = IF owner = "operator" THEN Spend(budget) ELSE budget
    BY <1>2 DEF Claim, local
  <2>2. CASE Owned
    <3>1. budget' = budget /\ owner # "operator"
      BY <2>1, <2>2 DEF BudgetInv
    <3> QED
      BY <2>1, <2>2, <3>1 DEF BudgetInv, Owned, Owns
  <2>3. CASE ~Owned
    <3>1. budget' = limit' /\ owner = "operator"
      BY <2>1, <2>3 DEF BudgetInv
    <3>2. \A c \in Coordinators : ~Owns(c)'
      BY <2>1, <2>3 DEF Owned, Owns
    <3> QED
      BY <2>1, <2>3, <3>1, <3>2 DEF BudgetInv, Owned, Owns
  <2> QED
    BY <2>2, <2>3
<1>3. ASSUME NEW n \in Budgets, SetRunLimit(n) PROVE BudgetInv'
  <2>1. UNCHANGED <<pc, restore, first>> /\ limit' = n
    BY <1>3 DEF SetRunLimit, local
  <2>2. CASE Owned
    <3>1. owner' = "run" /\ UNCHANGED <<budget, residue>>
      BY <1>3, <2>2 DEF SetRunLimit
    <3> QED
      BY <2>1, <2>2, <3>1 DEF BudgetInv, Owned, Owns
  <2>3. CASE ~Owned
    <3>1. owner' = "operator" /\ budget' = n /\ residue' = FALSE
      BY <1>3, <2>3 DEF SetRunLimit, BudgetInv
    <3>2. \A c \in Coordinators : ~Owns(c)'
      BY <2>1, <2>3 DEF Owned, Owns
    <3> QED
      BY <2>1, <2>3, <3>1, <3>2 DEF BudgetInv, Owned, Owns
  <2> QED
    BY <2>2, <2>3
<1>4. ASSUME NEW c \in Coordinators, TryBatchLock(c) PROVE BudgetInv'
  <2>1. UNCHANGED <<limit, first, budget, owner, residue>> /\ pc[c] = "lock"
    BY <1>4 DEF TryBatchLock, control, history
  <2>2. CASE lock = NoOne
    <3>1. GoTo(c, "read") /\ restore' = [restore EXCEPT ![c] = NoLimit]
      BY <1>4, <2>2 DEF TryBatchLock, LockFree
    <3>2. restore'[c] = NoLimit /\ \A d \in Coordinators : d # c => restore'[d] = restore[d]
      BY <3>1 DEF TypeOK
    <3>3. pc'[c] = "read" /\ \A d \in Coordinators : d # c => pc'[d] = pc[d]
      BY <3>1, OthersStay
    <3>4. ~Owns(c) /\ ~Owns(c)'
      BY <2>1, <3>3 DEF Owns, Body, Cleanup
    <3>5. \A d \in Coordinators : Owns(d)' <=> Owns(d)
      BY <3>3, <3>4 DEF Owns
    <3>6. Owned' <=> Owned
      BY <3>5 DEF Owned, Owns
    <3> QED
      BY <2>1, <3>2, <3>3, <3>4, <3>5, <3>6 DEF BudgetInv
  <2>3. CASE lock # NoOne
    <3>1. GoTo(c, "off") /\ UNCHANGED restore
      BY <1>4, <2>3 DEF TryBatchLock, LockFree
    <3> QED
      BY <2>1, <3>1, BudgetStays DEF Body, Cleanup
  <2> QED
    BY <2>2, <2>3
<1>5. ASSUME NEW c \in Coordinators, GetPipelinePhase(c) PROVE BudgetInv'
  <2>1. /\ UNCHANGED <<limit, restore, budget, owner, residue>> /\ pc[c] = "read"
        /\ GoTo(c, "swap") /\ first' = [first EXCEPT ![c] = phase]
    BY <1>5 DEF GetPipelinePhase, control, history
  <2>2. phase = "idle"
    <3>1. \A d \in Coordinators : ~Driving(d)
      BY <2>1, RunsAlone DEF InRun, Driving, Body
    <3> QED
      BY <3>1 DEF PhaseInv, BudgetInv
  <2>3. first'[c] = "idle" /\ \A d \in Coordinators : d # c => first'[d] = first[d]
    BY <2>1, <2>2 DEF TypeOK
  <2>4. pc'[c] = "swap" /\ \A d \in Coordinators : d # c => pc'[d] = pc[d]
    BY <2>1, OthersStay
  <2>5. ~Owns(c) /\ ~Owns(c)'
    BY <2>1, <2>4 DEF Owns, Body, Cleanup
  <2>6. \A d \in Coordinators : Owns(d)' <=> Owns(d)
    BY <2>4, <2>5 DEF Owns
  <2>7. Owned' <=> Owned
    BY <2>6 DEF Owned, Owns
  <2> QED
    BY <2>1, <2>3, <2>4, <2>5, <2>6, <2>7 DEF BudgetInv
<1>6. ASSUME NEW c \in Coordinators, SwapRunLimit(c) PROVE BudgetInv'
  <2>1. /\ pc[c] = "swap" /\ GoTo(c, AfterSwap(c)) /\ AfterSwap(c) \in Body
        /\ limit' = 0 /\ UNCHANGED residue
        /\ restore' = [restore EXCEPT ![c] = RestoreLimitFor(c)]
        /\ budget' = IF residue \/ budget = 0 THEN NoLimit ELSE budget
    BY <1>6 DEF SwapRunLimit, Parked, AfterSwap, Body
  <2>2. ~Owned
    BY <2>1, RunsAlone DEF Owned, InRun, Body, Cleanup
  <2>3. limit = budget /\ residue = FALSE /\ first[c] = "idle"
    BY <2>1, <2>2 DEF BudgetInv
  <2>4. restore'[c] = budget'
    BY <2>1, <2>3 DEF RestoreLimitFor, TypeOK
  <2> QED
    BY <2>1, <2>4, BudgetTaken
<1>7. ASSUME NEW c \in Coordinators, SwapFails(c) PROVE BudgetInv'
  <2>1. /\ pc[c] = "swap" /\ GoTo(c, AfterSwap(c)) /\ AfterSwap(c) \in Body
        /\ owner' = "run" /\ budget' = NoLimit /\ UNCHANGED <<restore, residue>>
    BY <1>7 DEF SwapFails, AfterSwap, Body, local
  <2>2. restore'[c] = budget'
    BY <2>1 DEF BudgetInv
  <2> QED
    BY <2>1, <2>2, BudgetTaken
<1>8. ASSUME NEW c \in Coordinators, ResumeZero(c) PROVE BudgetInv'
  <2>1. /\ GoTo(c, "resumeAnalyze") /\ {pc[c], "resumeAnalyze"} \subseteq Body
        /\ owner' = "run" /\ UNCHANGED <<restore, first, budget, residue>>
    BY <1>8 DEF ResumeZero, Body, local
  <2> QED
    BY <2>1, BudgetParked
<1>9. ASSUME NEW c \in Coordinators, SetBatchLimit(c) PROVE BudgetInv'
  <2>1. /\ GoTo(c, "pollCounts") /\ {pc[c], "pollCounts"} \subseteq Body
        /\ owner' = "run" /\ UNCHANGED <<restore, first, budget, residue>>
    BY <1>9 DEF SetBatchLimit, Body, local
  <2> QED
    BY <2>1, BudgetParked
<1>10. ASSUME NEW c \in Coordinators, RestoreLimit(c) PROVE BudgetInv'
  <2>1. /\ pc[c] = "restoreLimit" /\ GoTo(c, "release")
        /\ limit' = restore[c] /\ owner' = "operator"
        /\ UNCHANGED <<restore, first, budget, residue>>
    BY <1>0, <1>10 DEF RestoreLimit, PutBack, local
  <2>2. limit' = budget'
    BY <2>1 DEF BudgetInv, Owns, Cleanup
  <2>3. pc'[c] = "release" /\ \A d \in Coordinators : d # c => pc'[d] = pc[d] /\ ~InRun(d)
    BY <2>1, OthersStay, RunsAlone DEF InRun
  <2>4. \A d \in Coordinators : ~Owns(d)' /\ pc'[d] \notin {"read", "swap"}
    BY <2>3 DEF Owns, InRun, Body, Cleanup
  <2>5. ~Owned'
    BY <2>4 DEF Owned, Owns
  <2> QED
    BY <2>1, <2>2, <2>4, <2>5 DEF BudgetInv
<1>11. ASSUME NEW c \in Coordinators, Start(c) PROVE BudgetInv'
  <2>1. /\ pc[c] \notin Body \cup Cleanup /\ "lock" \notin Body \cup Cleanup
        /\ GoTo(c, "lock")
        /\ UNCHANGED <<limit, restore, first, budget, owner, residue>>
    BY <1>11 DEF Start, Body, Cleanup, control, local, history
  <2> QED
    BY <2>1, BudgetStays
<1>12. ASSUME NEW c \in Coordinators, ResumeAnalyze(c) PROVE BudgetInv'
  <2>1. /\ {pc[c], "drain"} \subseteq Body \cup Cleanup
        /\ GoTo(c, "drain")
        /\ UNCHANGED <<limit, restore, first, budget, owner, residue>>
    BY <1>12 DEF ResumeAnalyze, Body, Cleanup, control, local, history
  <2> QED
    BY <2>1, BudgetStays
<1>13. ASSUME NEW c \in Coordinators, Drained(c) PROVE BudgetInv'
  <2>1. /\ {pc[c], "check"} \subseteq Body \cup Cleanup
        /\ GoTo(c, "check")
        /\ UNCHANGED <<limit, restore, first, budget, owner, residue>>
    BY <1>13 DEF Drained, Body, Cleanup, control, local, history
  <2> QED
    BY <2>1, BudgetStays
<1>14. ASSUME NEW c \in Coordinators, Check(c) PROVE BudgetInv'
  <2>1. /\ {pc[c], "lookup", "games"} \subseteq Body \cup Cleanup
        /\ (GoTo(c, "lookup") \/ GoTo(c, "games"))
        /\ UNCHANGED <<limit, restore, first, budget, owner, residue>>
    BY <1>14 DEF Check, Body, Cleanup, control, local, history
  <2> QED
    BY <2>1, BudgetStays
<1>15. ASSUME NEW c \in Coordinators, GamesOver(c) PROVE BudgetInv'
  <2>1. /\ {pc[c], "setA"} \subseteq Body \cup Cleanup
        /\ GoTo(c, "setA")
        /\ UNCHANGED <<limit, restore, first, budget, owner, residue>>
    BY <1>15 DEF GamesOver, Body, Cleanup, control, local, history
  <2> QED
    BY <2>1, BudgetStays
<1>16. ASSUME NEW c \in Coordinators, SetTranscribe(c) PROVE BudgetInv'
  <2>1. /\ {pc[c], "setN"} \subseteq Body \cup Cleanup
        /\ GoTo(c, "setN")
        /\ UNCHANGED <<limit, restore, first, budget, owner, residue>>
    BY <1>16 DEF SetTranscribe, Body, Cleanup, control, local, history
  <2> QED
    BY <2>1, BudgetStays
<1>17. ASSUME NEW c \in Coordinators, PollCounts(c) PROVE BudgetInv'
  <2>1. /\ {pc[c], "pollLimit"} \subseteq Body \cup Cleanup
        /\ GoTo(c, "pollLimit")
        /\ UNCHANGED <<limit, restore, first, budget, owner, residue>>
    BY <1>17 DEF PollCounts, Body, Cleanup, control, local, history
  <2> QED
    BY <2>1, BudgetStays
<1>18. ASSUME NEW c \in Coordinators, PollLimit(c) PROVE BudgetInv'
  <2>1. /\ {pc[c], "setB", "pollCounts"} \subseteq Body \cup Cleanup
        /\ (GoTo(c, "setB") \/ GoTo(c, "pollCounts"))
        /\ UNCHANGED <<limit, restore, first, budget, owner, residue>>
    BY <1>18 DEF PollLimit, Body, Cleanup, control, local, history
  <2> QED
    BY <2>1, BudgetStays
<1>19. ASSUME NEW c \in Coordinators, SetAnalyze(c) PROVE BudgetInv'
  <2>1. /\ {pc[c], "drain"} \subseteq Body \cup Cleanup
        /\ GoTo(c, "drain")
        /\ UNCHANGED <<limit, restore, first, budget, owner, residue>>
    BY <1>19 DEF SetAnalyze, Body, Cleanup, control, local, history
  <2> QED
    BY <2>1, BudgetStays
<1>20. ASSUME NEW c \in Coordinators, Release(c) PROVE BudgetInv'
  <2>1. /\ pc[c] \notin Body \cup Cleanup /\ "off" \notin Body \cup Cleanup
        /\ GoTo(c, "off")
        /\ UNCHANGED <<limit, restore, first, budget, owner, residue>>
    BY <1>20 DEF Release, Body, Cleanup, control, local, history
  <2> QED
    BY <2>1, BudgetStays
<1>21. ASSUME NEW c \in Coordinators, Interrupt(c) PROVE BudgetInv'
  <2>1. /\ pc[c] \in Body /\ GoTo(c, "lookup") /\ "lookup" \in Cleanup
        /\ UNCHANGED <<limit, restore, first, budget, owner, residue>>
    BY <1>0, <1>21 DEF Interrupt, Cleanup, control, local, history
  <2> QED
    BY <2>1, BudgetStays
<1>22. ASSUME NEW c \in Coordinators, Lookup(c) PROVE BudgetInv'
  <2>1. lock = c
    BY <1>22 DEF Lookup, LockInv, InRun
  <2>2. /\ {pc[c], "restorePhase"} \subseteq Cleanup /\ GoTo(c, "restorePhase")
        /\ UNCHANGED <<limit, restore, first, budget, owner, residue>>
    BY <1>22, <2>1 DEF Lookup, Successor, Cleanup, control, local, history
  <2> QED
    BY <2>2, BudgetStays
<1>23. ASSUME NEW c \in Coordinators, RestorePhase(c) PROVE BudgetInv'
  <2>1. /\ {pc[c], "restoreLimit"} \subseteq Cleanup /\ GoTo(c, "restoreLimit")
        /\ UNCHANGED <<limit, restore, first, budget, owner>> /\ residue' = FALSE
    BY <1>0, <1>23 DEF RestorePhase, Cleanup, local
  <2>2. UNCHANGED residue
    BY <2>1 DEF BudgetInv
  <2> QED
    BY <2>1, <2>2, BudgetStays
<1>24. ASSUME NEW c \in Coordinators, Crash(c) \/ Drop(c) PROVE BudgetInv'
  BY <1>0, <1>24 DEF Crash, Drop
<1>25. CASE UNCHANGED vars
  BY <1>25 DEF vars, control, local, history, BudgetInv, Owned, Owns
<1> QED
  BY <1>1, <1>2, <1>3, <1>4, <1>5, <1>6, <1>7, <1>8, <1>9, <1>10, <1>11, <1>12, <1>13, <1>14,
     <1>15, <1>16, <1>17, <1>18, <1>19, <1>20, <1>21, <1>22, <1>23, <1>24, <1>25 DEF Next,
     Coordinate, Advance, Restores, Work

\* As long as no coordinator dies, loses its session, fails its cleanup or is
\* stopped before it has taken the budget over, the row holds between runs
\* exactly what is left of the operator's budget.
THEOREM BudgetSurvivesRuns == ASSUME Undisturbed PROVE Spec => []BudgetKept
<1>1. Init => BudgetInv
  BY DEF Init, BudgetInv, Owned, Owns, Body, Cleanup
<1>2. "drop" \notin Env
  BY DEF Undisturbed
<1>3. TypeOK /\ LockInv /\ PhaseInv /\ BudgetInv /\ [Next]_vars => BudgetInv'
  BY StepBudget
<1>4. BudgetInv => BudgetKept
  BY DEF BudgetInv, BudgetKept
<1> QED
  BY <1>1, <1>2, <1>3, <1>4, TypeCorrect, RunsHoldLock, PhaseInvariant, PTL DEF Spec
=============================================================================
