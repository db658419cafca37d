--------------------------- MODULE JobQueueProofs ---------------------------
(***************************************************************************)
(* Proofs about JobQueue, for any sets of jobs and runners, any windows,   *)
(* any retry cap and any environment: typing, what the columns of a job    *)
(* row owe each other, and that the queue implements JobLifecycle.         *)
(*                                                                         *)
(* The row properties are proved along the edges a row can take: every     *)
(* step moves every row along one edge (RowEdges), and no edge breaks the  *)
(* inductive invariant RowInv (EdgeKeeps).                                 *)
(***************************************************************************)
EXTENDS JobQueue, TLAPS

-----------------------------------------------------------------------------
(* Typing.                                                                 *)

\* A job context stays one when a field takes a value of its type.
LEMMA CtxType == ASSUME NEW r \in Runners, TypeOK
                 PROVE  /\ ctx[r] \in Contexts
                        /\ ctx[r].job \in Jobs \cup {NoJob}
                        /\ ctx[r].done \in Nat /\ ctx[r].tries \in Nat
                        /\ ctx[r].lost \in BOOLEAN /\ ctx[r].saves \in BOOLEAN
  BY DEF TypeOK, Contexts

\* A field of a context replaced by a value of its type: heartbeat flag, tries,
\* finished windows; and the empty context is one.
LEMMA CtxFields == ASSUME NEW c \in Contexts
                   PROVE  /\ \A b \in BOOLEAN : [c EXCEPT !.lost = b] \in Contexts
                          /\ \A n \in Nat : [c EXCEPT !.tries = n] \in Contexts
                          /\ \A n \in Nat, b \in BOOLEAN :
                               [c EXCEPT !.done = n, !.saves = b] \in Contexts
                          /\ NoCtx \in Contexts
  BY DEF Contexts, NoCtx

\* One runner's context replaced by another leaves all contexts typed.
LEMMA CtxUpdate == ASSUME NEW r \in Runners, NEW c \in Contexts, TypeOK
                   PROVE  [ctx EXCEPT ![r] = c] \in [Runners -> Contexts]
  BY DEF TypeOK

\* Leaving the job.
LEMMA LeaveJobType == ASSUME NEW r \in Runners, TypeOK, LeaveJob(r)
                      PROVE  (ctx \in [Runners -> Contexts])'
<1>1. ctx' = [ctx EXCEPT ![r] = NoCtx]
  BY DEF LeaveJob
<1>2. NoCtx \in Contexts
  BY DEF NoCtx, Contexts
<1> QED
  BY <1>1, <1>2, CtxUpdate

\* A write that does not reach the server costs a fault and nothing else.
LEMMA NotLandedType == ASSUME TypeOK, NotLanded PROVE (faults \in Nat)'
  BY DEF NotLanded, Fault, TypeOK

\* Joining the heartbeat thread, or leaving it behind.
LEMMA JoinBeatType == ASSUME NEW r \in Runners, TypeOK, JoinBeat(r)
                      PROVE  /\ (lateBeat \in [Runners -> Jobs \cup {NoJob}])'
                             /\ (faults \in Nat)'
<1>1. ctx[r].job \in Jobs \cup {NoJob}
  BY CtxType
<1>2. CASE lateBeat' = lateBeat /\ NoFault
  BY <1>2 DEF NoFault, TypeOK
<1>3. CASE /\ Fault("late_beat")
           /\ lateBeat' = [lateBeat EXCEPT ![r] = ctx[r].job]
  BY <1>1, <1>3 DEF Fault, TypeOK
<1> QED
  BY <1>2, <1>3 DEF JoinBeat

\* One more try of the final write.
LEMMA SpendTryType == ASSUME NEW r \in Runners, TypeOK, SpendTry(r)
                      PROVE  (ctx \in [Runners -> Contexts])'
<1>1. ctx' = [ctx EXCEPT ![r] = [ctx[r] EXCEPT !.tries = ctx[r].tries + 1]]
  BY DEF SpendTry
<1>2. ctx[r].tries + 1 \in Nat
  BY CtxType
<1>3. [ctx[r] EXCEPT !.tries = ctx[r].tries + 1] \in Contexts
  BY <1>2, CtxFields, CtxType
<1> QED
  BY <1>1, <1>3, CtxUpdate

\* Rows put back to pending, and rows failed.
LEMMA RowTypes == ASSUME TypeOK
                  PROVE  /\ \A S : Repend(S) =>
                              /\ (status \in [Jobs -> Statuses])'
                              /\ (holder \in [Jobs -> Runners \cup {NoRunner}])'
                              /\ (stale \in [Jobs -> BOOLEAN])'
                         /\ \A j : FailRow(j) =>
                              /\ (status \in [Jobs -> Statuses])'
                              /\ (holder \in [Jobs -> Runners \cup {NoRunner}])'
                              /\ (stale \in [Jobs -> BOOLEAN])'
  BY DEF TypeOK, Repend, FailRow, Statuses

\* The initial tables and processes have their types.
LEMMA InitType == Init => TypeOK
<1> SUFFICES ASSUME Init PROVE TypeOK
  OBVIOUS
<1>1. status \in [Jobs -> Statuses]
  BY DEF Init, Statuses
<1>2. /\ holder \in [Jobs -> Runners \cup {NoRunner}]
      /\ transcript \in [Jobs -> Runners \cup {NoRunner}]
      /\ metrics \in [Jobs -> Runners \cup {NoRunner}]
  BY DEF Init
<1>3. attempts \in [Jobs -> 0..MaxAttempts] /\ faults \in Nat /\ ops \in Nat
  BY BoundsAssumption DEF Init, BoundsAssumption
<1>4. pc \in [Runners -> Steps]
  BY DEF Init, Steps
<1>5. ctx \in [Runners -> Contexts]
  BY DEF Init, NoCtx, Contexts
<1>6. ckpt \in [Runners -> [Jobs -> Nat]] /\ burnt \in [Runners -> Nat]
  BY DEF Init
<1>7. /\ stale \in [Jobs -> BOOLEAN]
      /\ hold \in [Runners -> {"none", "backoff", "share"}]
      /\ stopping \in [Runners -> BOOLEAN]
      /\ lateBeat \in [Runners -> Jobs \cup {NoJob}]
  BY DEF Init
<1> QED
  BY <1>1, <1>2, <1>3, <1>4, <1>5, <1>6, <1>7 DEF Init, TypeOK

\* Every step of Control keeps the types, action by action.
LEMMA ControlType == ASSUME TypeOK, Control PROVE TypeOK'
<1>1. ASSUME NEW j \in Jobs, Enqueue(j) PROVE TypeOK'
  <2>1. UNCHANGED <<holder, attempts, stale, transcript, metrics,
        paused, offGpu, runLimit, sweep, pc, ctx, ckpt, hold,
        stopping, lateBeat, shareUp, burnt, faults, ops>>
    BY <1>1 DEF Enqueue, db, ctl, host
  <2>2. (status \in [Jobs -> Statuses])'
    BY <1>1 DEF TypeOK, Enqueue, Statuses, db, host
  <2> QED
    BY <2>1, <2>2 DEF TypeOK
<1>2. ASSUME NEW j \in Jobs, GoStale(j) PROVE TypeOK'
  <2>1. UNCHANGED <<status, holder, attempts, transcript, metrics,
        paused, offGpu, runLimit, sweep, pc, ctx, ckpt, hold,
        stopping, lateBeat, shareUp, burnt, faults, ops>>
    BY <1>2 DEF GoStale, db, ctl, host
  <2>2. (stale \in [Jobs -> BOOLEAN])'
    BY <1>2 DEF TypeOK, GoStale, db, host
  <2> QED
    BY <2>1, <2>2 DEF TypeOK
<1>3. ASSUME NEW j \in Jobs, Requeue(j) PROVE TypeOK'
  <2>1. UNCHANGED <<paused, offGpu, runLimit, sweep, pc, ctx, ckpt,
        hold, stopping, lateBeat, shareUp, burnt, faults>>
    BY <1>3 DEF Requeue, Operate, Repend, DropResults, db, ctl, host
  <2>2. (status \in [Jobs -> Statuses])'
    BY <1>3 DEF TypeOK, Requeue, Operate, Repend, DropResults, Statuses, db, host
  <2>3. (holder \in [Jobs -> Runners \cup {NoRunner}])'
    BY <1>3 DEF TypeOK, Requeue, Operate, Repend, DropResults, db, host
  <2>4. (attempts \in [Jobs -> 0..MaxAttempts])'
    BY <1>3, BoundsAssumption DEF TypeOK, Requeue, Operate, Repend, DropResults,
       BoundsAssumption, Claimable, Refund, db, host
  <2>5. (stale \in [Jobs -> BOOLEAN])'
    BY <1>3 DEF TypeOK, Requeue, Operate, Repend, DropResults, db, host
  <2>6. (transcript \in [Jobs -> Runners \cup {NoRunner}])'
    BY <1>3 DEF TypeOK, Requeue, Operate, Repend, DropResults, db, host
  <2>7. (metrics \in [Jobs -> Runners \cup {NoRunner}])'
    BY <1>3 DEF TypeOK, Requeue, Operate, Repend, DropResults
  <2>8. (ops \in Nat)'
    BY <1>3 DEF TypeOK, Requeue, Operate, Repend, DropResults
  <2> QED
    BY <2>1, <2>2, <2>3, <2>4, <2>5, <2>6, <2>7, <2>8 DEF TypeOK
<1>4. ASSUME SweepReset PROVE TypeOK'
  <2>1. UNCHANGED <<attempts, transcript, metrics, paused, offGpu,
        runLimit, pc, ctx, ckpt, hold, stopping, lateBeat, shareUp,
        burnt, faults, ops>>
    BY <1>4 DEF SweepReset, Repend, db, ctl, host
  <2>2. (status \in [Jobs -> Statuses])'
    BY <1>4 DEF TypeOK, SweepReset, Repend, Statuses, db, host
  <2>3. (holder \in [Jobs -> Runners \cup {NoRunner}])'
    BY <1>4 DEF TypeOK, SweepReset, Repend, db, host
  <2>4. (stale \in [Jobs -> BOOLEAN])'
    BY <1>4 DEF TypeOK, SweepReset, Repend, db, host
  <2>5. (sweep \in {"reset", "fail"})'
    BY <1>4 DEF TypeOK, SweepReset, Repend
  <2> QED
    BY <2>1, <2>2, <2>3, <2>4, <2>5 DEF TypeOK
<1>5. ASSUME SweepFail PROVE TypeOK'
  <2>1. UNCHANGED <<holder, attempts, transcript, metrics, paused,
        offGpu, runLimit, pc, ctx, ckpt, hold, stopping, lateBeat,
        shareUp, burnt, faults, ops>>
    BY <1>5 DEF SweepFail, db, ctl, host
  <2>2. (status \in [Jobs -> Statuses])'
    BY <1>5 DEF TypeOK, SweepFail, Statuses, db, host
  <2>3. (stale \in [Jobs -> BOOLEAN])'
    BY <1>5 DEF TypeOK, SweepFail, db, host
  <2>4. (sweep \in {"reset", "fail"})'
    BY <1>5 DEF TypeOK, SweepFail
  <2> QED
    BY <2>1, <2>2, <2>3, <2>4 DEF TypeOK
<1>6. ASSUME NEW b \in BOOLEAN, SetPaused(b) PROVE TypeOK'
  <2>1. UNCHANGED <<status, holder, attempts, stale, transcript,
        metrics, offGpu, runLimit, sweep, pc, ctx, ckpt, hold,
        stopping, lateBeat, shareUp, burnt, faults>>
    BY <1>6 DEF SetPaused, Operate, db, ctl, host
  <2>2. (paused \in BOOLEAN)'
    BY <1>6 DEF TypeOK, SetPaused, Operate, ctl
  <2>3. (ops \in Nat)'
    BY <1>6 DEF TypeOK, SetPaused, Operate
  <2> QED
    BY <2>1, <2>2, <2>3 DEF TypeOK
<1>7. ASSUME NEW n \in 0..MaxRun \cup {Unlimited}, SetRunLimit(n) PROVE TypeOK'
  <2>1. UNCHANGED <<status, holder, attempts, stale, transcript,
        metrics, paused, offGpu, sweep, pc, ctx, ckpt, hold, stopping,
        lateBeat, shareUp, burnt, faults>>
    BY <1>7 DEF SetRunLimit, Operate, db, ctl, host
  <2>2. (runLimit \in Nat \cup {Unlimited})'
    BY <1>7, BoundsAssumption DEF TypeOK, SetRunLimit, Operate, BoundsAssumption,
       GateOpen, ctl
  <2>3. (ops \in Nat)'
    BY <1>7 DEF TypeOK, SetRunLimit, Operate
  <2> QED
    BY <2>1, <2>2, <2>3 DEF TypeOK
<1>8. ASSUME TakeGpu PROVE TypeOK'
  <2>1. UNCHANGED <<status, holder, attempts, stale, transcript,
        metrics, paused, runLimit, sweep, pc, ctx, ckpt, hold,
        stopping, lateBeat, shareUp, burnt, faults, ops>>
    BY <1>8 DEF TakeGpu, db, ctl, host
  <2>2. (offGpu \in BOOLEAN)'
    BY <1>8 DEF TypeOK, TakeGpu, ctl
  <2> QED
    BY <2>1, <2>2 DEF TypeOK
<1>9. ASSUME ReturnGpu PROVE TypeOK'
  <2>1. UNCHANGED <<status, holder, attempts, stale, transcript,
        metrics, paused, runLimit, sweep, pc, ctx, ckpt, hold,
        stopping, lateBeat, shareUp, burnt, faults, ops>>
    BY <1>9 DEF ReturnGpu, db, ctl, host
  <2>2. (offGpu \in BOOLEAN)'
    BY <1>9 DEF TypeOK, ReturnGpu, ctl
  <2> QED
    BY <2>1, <2>2 DEF TypeOK
<1>10. ASSUME ShareDown PROVE TypeOK'
  <2>1. UNCHANGED <<status, holder, attempts, stale, transcript,
        metrics, paused, offGpu, runLimit, sweep, pc, ctx, ckpt, hold,
        stopping, lateBeat, ops>>
    BY <1>10 DEF ShareDown, Fault, db, ctl, host
  <2>2. (shareUp \in BOOLEAN)'
    BY <1>10 DEF TypeOK, ShareDown, Fault
  <2>3. (burnt \in [Runners -> Nat])'
    BY <1>10 DEF TypeOK, ShareDown, Fault
  <2>4. (faults \in Nat)'
    BY <1>10 DEF TypeOK, ShareDown, Fault
  <2> QED
    BY <2>1, <2>2, <2>3, <2>4 DEF TypeOK
<1>11. ASSUME ShareBack PROVE TypeOK'
  <2>1. UNCHANGED <<status, holder, attempts, stale, transcript,
        metrics, paused, offGpu, runLimit, sweep, pc, ctx, ckpt, hold,
        stopping, lateBeat, burnt, faults, ops>>
    BY <1>11 DEF ShareBack, db, ctl, host
  <2>2. (shareUp \in BOOLEAN)'
    BY <1>11 DEF TypeOK, ShareBack
  <2> QED
    BY <2>1, <2>2 DEF TypeOK
<1> QED
  BY <1>1, <1>2, <1>3, <1>4, <1>5, <1>6, <1>7, <1>8, <1>9, <1>10, <1>11 DEF Control

\* Every step of Process keeps the types, action by action.
LEMMA ProcessType == ASSUME NEW r \in Runners, TypeOK, Process(r) PROVE TypeOK'
<1>1. ASSUME Boot(r) PROVE TypeOK'
  <2>1. UNCHANGED <<status, holder, attempts, stale, transcript,
        metrics, paused, offGpu, runLimit, sweep, ctx, ckpt, hold,
        stopping, lateBeat, shareUp, faults, ops>>
    BY <1>1 DEF Boot, db, ctl, host
  <2>2. (pc \in [Runners -> Steps])'
    BY <1>1 DEF TypeOK, Boot, Steps
  <2>3. (burnt \in [Runners -> Nat])'
    BY <1>1 DEF TypeOK, Boot
  <2> QED
    BY <2>1, <2>2, <2>3 DEF TypeOK
<1>2. ASSUME Crash(r) PROVE TypeOK'
  <2>1. UNCHANGED <<status, holder, attempts, stale, transcript,
        metrics, paused, offGpu, runLimit, sweep, ckpt, shareUp,
        burnt, ops>>
    BY <1>2 DEF Crash, Fault, Die, db, ctl, host
  <2>2. (pc \in [Runners -> Steps])'
    BY <1>2 DEF TypeOK, Crash, Fault, Die, Steps
  <2>3. (ctx \in [Runners -> Contexts])'
    BY <1>2 DEF TypeOK, Crash, Fault, Die, Contexts, NoCtx, ResumeAt, Chunked
  <2>4. (hold \in [Runners -> {"none", "backoff", "share"}])'
    BY <1>2 DEF TypeOK, Crash, Fault, Die, HoldFor
  <2>5. (stopping \in [Runners -> BOOLEAN])'
    BY <1>2 DEF TypeOK, Crash, Fault, Die
  <2>6. (lateBeat \in [Runners -> Jobs \cup {NoJob}])'
    BY <1>2 DEF TypeOK, Crash, Fault, Die, db, host
  <2>7. (faults \in Nat)'
    BY <1>2 DEF TypeOK, Crash, Fault, Die
  <2> QED
    BY <2>1, <2>2, <2>3, <2>4, <2>5, <2>6, <2>7 DEF TypeOK
<1>3. ASSUME Stop(r) PROVE TypeOK'
  <2>1. UNCHANGED <<status, holder, attempts, stale, transcript,
        metrics, paused, offGpu, runLimit, sweep, pc, ctx, ckpt, hold,
        lateBeat, shareUp, burnt, ops>>
    BY <1>3 DEF Stop, Fault, db, ctl, host
  <2>2. (stopping \in [Runners -> BOOLEAN])'
    BY <1>3 DEF TypeOK, Stop, Fault
  <2>3. (faults \in Nat)'
    BY <1>3 DEF TypeOK, Stop, Fault
  <2> QED
    BY <2>1, <2>2, <2>3 DEF TypeOK
<1>4. ASSUME Exit(r) PROVE TypeOK'
  <2>1. UNCHANGED <<status, holder, attempts, stale, transcript,
        metrics, paused, offGpu, runLimit, sweep, ckpt, shareUp,
        burnt, ops>>
    BY <1>4 DEF Exit, NoFault, Die, db, ctl, host
  <2>2. (pc \in [Runners -> Steps])'
    BY <1>4 DEF TypeOK, Exit, NoFault, Die, Steps
  <2>3. (ctx \in [Runners -> Contexts])'
    BY <1>4 DEF TypeOK, Exit, NoFault, Die, Contexts, NoCtx, ResumeAt, Chunked
  <2>4. (hold \in [Runners -> {"none", "backoff", "share"}])'
    BY <1>4 DEF TypeOK, Exit, NoFault, Die, HoldFor
  <2>5. (stopping \in [Runners -> BOOLEAN])'
    BY <1>4 DEF TypeOK, Exit, NoFault, Die
  <2>6. (lateBeat \in [Runners -> Jobs \cup {NoJob}])'
    BY <1>4 DEF TypeOK, Exit, NoFault, Die, db, host
  <2>7. (faults \in Nat)'
    BY <1>4 DEF TypeOK, Exit, NoFault, Die
  <2> QED
    BY <2>1, <2>2, <2>3, <2>4, <2>5, <2>6, <2>7 DEF TypeOK
<1> QED
  BY <1>1, <1>2, <1>3, <1>4 DEF Process

\* Every step of Cycle keeps the types, action by action.
LEMMA CycleType == ASSUME NEW r \in Runners, TypeOK, Cycle(r) PROVE TypeOK'
<1>1. ASSUME Gate(r) PROVE TypeOK'
  <2>1. UNCHANGED <<status, holder, attempts, stale, transcript,
        metrics, paused, offGpu, runLimit, sweep, ctx, ckpt, hold,
        stopping, lateBeat, shareUp, burnt, faults, ops>>
    BY <1>1 DEF Gate, db, ctl, host
  <2>2. (pc \in [Runners -> Steps])'
    BY <1>1 DEF TypeOK, Gate, Steps
  <2> QED
    BY <2>1, <2>2 DEF TypeOK
<1>2. ASSUME HoldEnds(r) PROVE TypeOK'
  <2>1. UNCHANGED <<status, holder, attempts, stale, transcript,
        metrics, paused, offGpu, runLimit, sweep, pc, ctx, ckpt,
        stopping, lateBeat, shareUp, burnt, faults, ops>>
    BY <1>2 DEF HoldEnds, db, ctl, host
  <2>2. (hold \in [Runners -> {"none", "backoff", "share"}])'
    BY <1>2 DEF TypeOK, HoldEnds, HoldFor
  <2> QED
    BY <2>1, <2>2 DEF TypeOK
<1>3. ASSUME ClaimNothing(r) PROVE TypeOK'
  <2>1. UNCHANGED <<status, holder, attempts, stale, transcript,
        metrics, paused, offGpu, runLimit, sweep, ctx, ckpt, hold,
        stopping, lateBeat, shareUp, burnt, faults, ops>>
    BY <1>3 DEF ClaimNothing, db, ctl, host
  <2>2. (pc \in [Runners -> Steps])'
    BY <1>3 DEF TypeOK, ClaimNothing, Steps
  <2> QED
    BY <2>1, <2>2 DEF TypeOK
<1>4. ASSUME NEW j \in Jobs, Claim(r, j) PROVE TypeOK'
  <2>1. UNCHANGED <<transcript, metrics, paused, offGpu, sweep, ckpt,
        hold, stopping, lateBeat, shareUp, burnt, faults, ops>>
    BY <1>4 DEF Claim, TakeRow, SpendRun, StartJob, db, ctl, host
  <2>2. (status \in [Jobs -> Statuses])'
    BY <1>4 DEF TypeOK, Claim, TakeRow, SpendRun, StartJob, Statuses, db, host
  <2>3. (holder \in [Jobs -> Runners \cup {NoRunner}])'
    BY <1>4 DEF TypeOK, Claim, TakeRow, SpendRun, StartJob, db, host
  <2>4. (attempts \in [Jobs -> 0..MaxAttempts])'
    BY <1>4, BoundsAssumption DEF TypeOK, Claim, TakeRow, SpendRun, StartJob,
       BoundsAssumption, Claimable, Refund, db, host
  <2>5. (stale \in [Jobs -> BOOLEAN])'
    BY <1>4 DEF TypeOK, Claim, TakeRow, SpendRun, StartJob, db, host
  <2>6. (runLimit \in Nat \cup {Unlimited})'
    BY <1>4, BoundsAssumption DEF TypeOK, Claim, TakeRow, SpendRun, StartJob,
       BoundsAssumption, GateOpen, ctl
  <2>7. (pc \in [Runners -> Steps])'
    BY <1>4 DEF TypeOK, Claim, TakeRow, SpendRun, StartJob, Steps
  <2>8. (ctx \in [Runners -> Contexts])'
    BY <1>4 DEF TypeOK, Claim, TakeRow, SpendRun, StartJob, Contexts, NoCtx, ResumeAt,
       Chunked
  <2> QED
    BY <2>1, <2>2, <2>3, <2>4, <2>5, <2>6, <2>7, <2>8 DEF TypeOK
<1>5. ASSUME NEW j \in Jobs, ClaimReplyLost(r, j) PROVE TypeOK'
  <2>1. UNCHANGED <<transcript, metrics, paused, offGpu, sweep, ctx,
        ckpt, hold, stopping, lateBeat, shareUp, burnt, ops>>
    BY <1>5 DEF ClaimReplyLost, TakeRow, SpendRun, Fault, db, ctl, host
  <2>2. (status \in [Jobs -> Statuses])'
    BY <1>5 DEF TypeOK, ClaimReplyLost, TakeRow, SpendRun, Fault, Statuses, db, host
  <2>3. (holder \in [Jobs -> Runners \cup {NoRunner}])'
    BY <1>5 DEF TypeOK, ClaimReplyLost, TakeRow, SpendRun, Fault, db, host
  <2>4. (attempts \in [Jobs -> 0..MaxAttempts])'
    BY <1>5, BoundsAssumption DEF TypeOK, ClaimReplyLost, TakeRow, SpendRun, Fault,
       BoundsAssumption, Claimable, Refund, db, host
  <2>5. (stale \in [Jobs -> BOOLEAN])'
    BY <1>5 DEF TypeOK, ClaimReplyLost, TakeRow, SpendRun, Fault, db, host
  <2>6. (runLimit \in Nat \cup {Unlimited})'
    BY <1>5, BoundsAssumption DEF TypeOK, ClaimReplyLost, TakeRow, SpendRun, Fault,
       BoundsAssumption, GateOpen, ctl
  <2>7. (pc \in [Runners -> Steps])'
    BY <1>5 DEF TypeOK, ClaimReplyLost, TakeRow, SpendRun, Fault, Steps
  <2>8. (faults \in Nat)'
    BY <1>5 DEF TypeOK, ClaimReplyLost, TakeRow, SpendRun, Fault
  <2> QED
    BY <2>1, <2>2, <2>3, <2>4, <2>5, <2>6, <2>7, <2>8 DEF TypeOK
<1>6. ASSUME NEW j \in Jobs, ClaimUngated(r, j) PROVE TypeOK'
  <2>1. UNCHANGED <<transcript, metrics, paused, offGpu, runLimit,
        sweep, ckpt, hold, stopping, lateBeat, shareUp, burnt, ops>>
    BY <1>6 DEF ClaimUngated, TakeRow, StartJob, Fault, db, ctl, host
  <2>2. (status \in [Jobs -> Statuses])'
    BY <1>6 DEF TypeOK, ClaimUngated, TakeRow, StartJob, Fault, Statuses, db, host
  <2>3. (holder \in [Jobs -> Runners \cup {NoRunner}])'
    BY <1>6 DEF TypeOK, ClaimUngated, TakeRow, StartJob, Fault, db, host
  <2>4. (attempts \in [Jobs -> 0..MaxAttempts])'
    BY <1>6, BoundsAssumption DEF TypeOK, ClaimUngated, TakeRow, StartJob, Fault,
       BoundsAssumption, Claimable, Refund, db, host
  <2>5. (stale \in [Jobs -> BOOLEAN])'
    BY <1>6 DEF TypeOK, ClaimUngated, TakeRow, StartJob, Fault, db, host
  <2>6. (pc \in [Runners -> Steps])'
    BY <1>6 DEF TypeOK, ClaimUngated, TakeRow, StartJob, Fault, Steps
  <2>7. (ctx \in [Runners -> Contexts])'
    BY <1>6 DEF TypeOK, ClaimUngated, TakeRow, StartJob, Fault, Contexts, NoCtx, ResumeAt,
       Chunked
  <2>8. (faults \in Nat)'
    BY <1>6 DEF TypeOK, ClaimUngated, TakeRow, StartJob, Fault
  <2> QED
    BY <2>1, <2>2, <2>3, <2>4, <2>5, <2>6, <2>7, <2>8 DEF TypeOK
<1> QED
  BY <1>1, <1>2, <1>3, <1>4, <1>5, <1>6 DEF Cycle

\* Every step of Beat keeps the types, action by action.
LEMMA BeatType == ASSUME NEW r \in Runners, TypeOK, Beat(r) PROVE TypeOK'
<1>1. ASSUME Heartbeat(r) PROVE TypeOK'
  <2>1. UNCHANGED <<status, holder, attempts, transcript, metrics,
        paused, offGpu, runLimit, sweep, pc, ckpt, hold, stopping,
        lateBeat, shareUp, burnt, faults, ops>>
    BY <1>1 DEF Heartbeat, db, ctl, host
  <2>2. (stale \in [Jobs -> BOOLEAN])'
    BY <1>1 DEF TypeOK, Heartbeat, db, host
  <2>3. (ctx \in [Runners -> Contexts])'
    <3>1. CASE UNCHANGED ctx
      BY <3>1 DEF TypeOK
    <3>2. CASE ctx' = [ctx EXCEPT ![r] = [ctx[r] EXCEPT !.lost = TRUE]]
      BY <3>2, CtxFields, CtxType, CtxUpdate
    <3> QED
      BY <1>1, <3>1, <3>2 DEF Heartbeat
  <2> QED
    BY <2>1, <2>2, <2>3 DEF TypeOK
<1>2. ASSUME LateHeartbeat(r) PROVE TypeOK'
  <2>1. UNCHANGED <<status, holder, attempts, stale, transcript,
        metrics, paused, offGpu, runLimit, sweep, pc, ckpt, hold,
        stopping, shareUp, burnt, faults, ops>>
    BY <1>2 DEF LateHeartbeat, db, ctl, host
  <2>2. (ctx \in [Runners -> Contexts])'
    <3> DEFINE late == ctx[r].lost \/ ctx[r].job = lateBeat[r]
    <3>1. ctx' = [ctx EXCEPT ![r] = [ctx[r] EXCEPT !.lost = late]]
      BY <1>2 DEF LateHeartbeat
    <3>2. late \in BOOLEAN
      BY CtxType
    <3> HIDE DEF late
    <3> QED
      BY <3>1, <3>2, CtxFields, CtxType, CtxUpdate
  <2>3. (lateBeat \in [Runners -> Jobs \cup {NoJob}])'
    BY <1>2 DEF TypeOK, LateHeartbeat, db, host
  <2> QED
    BY <2>1, <2>2, <2>3 DEF TypeOK
<1> QED
  BY <1>1, <1>2 DEF Beat

\* Every step of Work keeps the types, action by action.
LEMMA WorkType == ASSUME NEW r \in Runners, TypeOK, Work(r) PROVE TypeOK'
<1>1. ASSUME Window(r) PROVE TypeOK'
  <2>1. UNCHANGED <<status, holder, attempts, stale, transcript,
        metrics, paused, offGpu, runLimit, sweep, hold, stopping,
        lateBeat, shareUp, burnt, ops>>
    BY <1>1 DEF Window, LeaveJob, Fault, NoFault, db, ctl, host
  <2>2. (pc \in [Runners -> Steps])'
    <3>1. \E p \in Steps : pc' = [pc EXCEPT ![r] = p]
      BY <1>1 DEF Window, LeaveJob, Steps
    <3> QED
      BY <3>1 DEF TypeOK
  <2>3. (ctx \in [Runners -> Contexts])'
    <3>1. CASE LeaveJob(r)
      BY <3>1, LeaveJobType
    <3>2. ASSUME NEW saved \in BOOLEAN,
                 ctx' = [ctx EXCEPT ![r].done = ctx[r].done + 1, ![r].saves = saved]
          PROVE  (ctx \in [Runners -> Contexts])'
      <4>1. ctx' = [ctx EXCEPT ![r] = [ctx[r] EXCEPT !.done = ctx[r].done + 1,
                                                     !.saves = saved]]
        BY <3>2, CtxType DEF TypeOK
      <4>2. ctx[r].done + 1 \in Nat
        BY CtxType
      <4>3. [ctx[r] EXCEPT !.done = ctx[r].done + 1, !.saves = saved] \in Contexts
        BY <4>2, CtxType, CtxFields
      <4> QED
        BY <4>1, <4>3, CtxUpdate
    <3> QED
      BY <1>1, <3>1, <3>2 DEF Window
  <2>4. (ckpt \in [Runners -> [Jobs -> Nat]])'
    <3>1. ctx[r].done + 1 \in Nat
      BY CtxType
    <3>2. \/ ckpt' = ckpt
          \/ ckpt' = [ckpt EXCEPT ![r][ctx[r].job] = ctx[r].done + 1]
      BY <1>1 DEF Window
    <3> QED
      BY <3>1, <3>2 DEF TypeOK
  <2>5. (faults \in Nat)'
    BY <1>1 DEF TypeOK, Window, LeaveJob, Fault, NoFault
  <2> QED
    BY <2>1, <2>2, <2>3, <2>4, <2>5 DEF TypeOK
<1>2. ASSUME Abort(r) PROVE TypeOK'
  <2>1. UNCHANGED <<status, holder, attempts, stale, transcript,
        metrics, paused, offGpu, runLimit, sweep, ctx, ckpt, hold,
        stopping, lateBeat, shareUp, burnt, faults, ops>>
    BY <1>2 DEF Abort, db, ctl, host
  <2>2. (pc \in [Runners -> Steps])'
    BY <1>2 DEF TypeOK, Abort, Steps
  <2> QED
    BY <2>1, <2>2 DEF TypeOK
<1>3. ASSUME TransientError(r) PROVE TypeOK'
  <2>1. UNCHANGED <<status, holder, attempts, stale, transcript,
        metrics, paused, offGpu, runLimit, sweep, ctx, ckpt, hold,
        stopping, lateBeat, shareUp, faults, ops>>
    BY <1>3 DEF TransientError, db, ctl, host
  <2>2. (pc \in [Runners -> Steps])'
    BY <1>3 DEF TypeOK, TransientError, Steps
  <2>3. (burnt \in [Runners -> Nat])'
    BY <1>3 DEF TypeOK, TransientError
  <2> QED
    BY <2>1, <2>2, <2>3 DEF TypeOK
<1>4. ASSUME PermanentError(r) PROVE TypeOK'
  <2>1. UNCHANGED <<status, holder, attempts, stale, transcript,
        metrics, paused, offGpu, runLimit, sweep, ctx, ckpt, hold,
        stopping, lateBeat, shareUp, burnt, faults, ops>>
    BY <1>4 DEF PermanentError, db, ctl, host
  <2>2. (pc \in [Runners -> Steps])'
    BY <1>4 DEF TypeOK, PermanentError, Steps
  <2> QED
    BY <2>1, <2>2 DEF TypeOK
<1>5. ASSUME SkipWrite(r) PROVE TypeOK'
  <2>1. UNCHANGED <<status, holder, attempts, stale, transcript,
        metrics, paused, offGpu, runLimit, sweep, ctx, ckpt, hold,
        stopping, lateBeat, shareUp, burnt, faults, ops>>
    BY <1>5 DEF SkipWrite, db, ctl, host
  <2>2. (pc \in [Runners -> Steps])'
    BY <1>5 DEF TypeOK, SkipWrite, Steps
  <2> QED
    BY <2>1, <2>2 DEF TypeOK
<1>6. ASSUME MarkDone(r) PROVE TypeOK'
  <2>1. UNCHANGED <<holder, attempts, metrics, paused, offGpu,
        runLimit, sweep, ckpt, hold, stopping, lateBeat, shareUp,
        burnt, ops>>
    BY <1>6 DEF MarkDone, SpendTry, Fault, NoFault, db, ctl, host
  <2>2. (status \in [Jobs -> Statuses])'
    BY <1>6 DEF TypeOK, MarkDone, SpendTry, Fault, NoFault, Statuses, db, host
  <2>3. (stale \in [Jobs -> BOOLEAN])'
    BY <1>6 DEF TypeOK, MarkDone, SpendTry, Fault, NoFault, db, host
  <2>4. (transcript \in [Jobs -> Runners \cup {NoRunner}])'
    BY <1>6 DEF TypeOK, MarkDone, SpendTry, Fault, NoFault, db, host
  <2>5. (pc \in [Runners -> Steps])'
    BY <1>6 DEF TypeOK, MarkDone, SpendTry, Fault, NoFault, Steps
  <2>6. (ctx \in [Runners -> Contexts])'
    BY <1>6, SpendTryType DEF MarkDone, TypeOK
  <2>7. (faults \in Nat)'
    BY <1>6 DEF TypeOK, MarkDone, SpendTry, Fault, NoFault
  <2> QED
    BY <2>1, <2>2, <2>3, <2>4, <2>5, <2>6, <2>7 DEF TypeOK
<1>7. ASSUME MarkDoneRefused(r) PROVE TypeOK'
  <2>1. UNCHANGED <<status, holder, attempts, stale, transcript,
        metrics, paused, offGpu, runLimit, sweep, ctx, ckpt, hold,
        stopping, lateBeat, shareUp, burnt, faults, ops>>
    BY <1>7 DEF MarkDoneRefused, db, ctl, host
  <2>2. (pc \in [Runners -> Steps])'
    BY <1>7 DEF TypeOK, MarkDoneRefused, Steps
  <2> QED
    BY <2>1, <2>2 DEF TypeOK
<1>8. ASSUME ReadStatus(r) PROVE TypeOK'
  <2>1. UNCHANGED <<status, holder, attempts, stale, transcript,
        metrics, paused, offGpu, runLimit, sweep, ckpt, hold,
        stopping, shareUp, burnt, ops>>
    BY <1>8 DEF ReadStatus, LeaveJob, JoinBeat, Fault, NoFault, db, ctl, host
  <2>2. (pc \in [Runners -> Steps])'
    <3>1. \E p \in Steps : pc' = [pc EXCEPT ![r] = p]
      BY <1>8 DEF ReadStatus, LeaveJob, Steps
    <3> QED
      BY <3>1 DEF TypeOK
  <2>3. (ctx \in [Runners -> Contexts])'
    BY <1>8, LeaveJobType DEF ReadStatus, TypeOK
  <2>4. (lateBeat \in [Runners -> Jobs \cup {NoJob}])'
    BY <1>8, JoinBeatType DEF ReadStatus, TypeOK
  <2>5. (faults \in Nat)'
    BY <1>8, JoinBeatType DEF ReadStatus, NoFault, TypeOK
  <2> QED
    BY <2>1, <2>2, <2>3, <2>4, <2>5 DEF TypeOK
<1>9. ASSUME WriteError(r) PROVE TypeOK'
  <2>1. UNCHANGED <<status, holder, attempts, stale, transcript,
        metrics, paused, offGpu, runLimit, sweep, ckpt, hold,
        stopping, lateBeat, shareUp, burnt, ops>>
    BY <1>9 DEF WriteError, SpendTry, Fault, db, ctl, host
  <2>2. (pc \in [Runners -> Steps])'
    BY <1>9 DEF TypeOK, WriteError, SpendTry, Fault, Steps
  <2>3. (ctx \in [Runners -> Contexts])'
    BY <1>9, SpendTryType DEF WriteError
  <2>4. (faults \in Nat)'
    BY <1>9 DEF TypeOK, WriteError, SpendTry, Fault
  <2> QED
    BY <2>1, <2>2, <2>3, <2>4 DEF TypeOK
<1>10. ASSUME DropCheckpoint(r) PROVE TypeOK'
  <2>1. UNCHANGED <<status, holder, attempts, stale, transcript,
        metrics, paused, offGpu, runLimit, sweep, ctx, hold, stopping,
        lateBeat, shareUp, burnt, faults, ops>>
    BY <1>10 DEF DropCheckpoint, db, ctl, host
  <2>2. (ckpt \in [Runners -> [Jobs -> Nat]])'
    BY <1>10 DEF TypeOK, DropCheckpoint, db, host
  <2>3. (pc \in [Runners -> Steps])'
    BY <1>10 DEF TypeOK, DropCheckpoint, Steps
  <2> QED
    BY <2>1, <2>2, <2>3 DEF TypeOK
<1>11. ASSUME WriteMetrics(r) PROVE TypeOK'
  <2>1. UNCHANGED <<status, holder, attempts, stale, transcript,
        paused, offGpu, runLimit, sweep, ckpt, hold, stopping,
        lateBeat, shareUp, burnt, ops>>
    BY <1>11 DEF WriteMetrics, LeaveJob, Fault, NoFault, db, ctl, host
  <2>2. (metrics \in [Jobs -> Runners \cup {NoRunner}])'
    BY <1>11 DEF TypeOK, WriteMetrics, LeaveJob, Fault, NoFault
  <2>3. (pc \in [Runners -> Steps])'
    BY <1>11 DEF TypeOK, WriteMetrics, LeaveJob, Fault, NoFault, Steps
  <2>4. (ctx \in [Runners -> Contexts])'
    BY <1>11 DEF TypeOK, WriteMetrics, LeaveJob, Fault, NoFault, Contexts, NoCtx,
       ResumeAt, Chunked
  <2>5. (faults \in Nat)'
    BY <1>11 DEF TypeOK, WriteMetrics, LeaveJob, Fault, NoFault
  <2> QED
    BY <2>1, <2>2, <2>3, <2>4, <2>5 DEF TypeOK
<1>12. ASSUME Release(r) PROVE TypeOK'
  <2>1. UNCHANGED <<transcript, metrics, paused, offGpu, runLimit,
        sweep, ckpt, hold, stopping, shareUp, burnt, ops>>
    BY <1>12 DEF Release, LeaveJob, JoinBeat, Repend, NotLanded, Fault, NoFault, db, ctl,
       host
  <2>2. (status \in [Jobs -> Statuses])'
    BY <1>12, RowTypes DEF Release, NotLanded, db, TypeOK
  <2>3. (holder \in [Jobs -> Runners \cup {NoRunner}])'
    BY <1>12, RowTypes DEF Release, NotLanded, db, TypeOK
  <2>4. (attempts \in [Jobs -> 0..MaxAttempts])'
    <3>1. \/ UNCHANGED attempts
          \/ attempts' = [attempts EXCEPT ![ctx[r].job] = Refund(attempts[ctx[r].job])]
      BY <1>12 DEF Release, NotLanded, db
    <3>2. \A n \in 0..MaxAttempts : Refund(n) \in 0..MaxAttempts
      BY BoundsAssumption DEF BoundsAssumption, Refund
    <3> QED
      BY <3>1, <3>2 DEF TypeOK
  <2>5. (stale \in [Jobs -> BOOLEAN])'
    BY <1>12, RowTypes DEF Release, NotLanded, db, TypeOK
  <2>6. (pc \in [Runners -> Steps])'
    BY <1>12 DEF TypeOK, Release, LeaveJob, JoinBeat, Repend, NotLanded, Fault, NoFault,
       Steps
  <2>7. (ctx \in [Runners -> Contexts])'
    BY <1>12, LeaveJobType DEF Release
  <2>8. (lateBeat \in [Runners -> Jobs \cup {NoJob}])'
    <3>1. JoinBeat(r) \/ UNCHANGED lateBeat
      BY <1>12 DEF Release
    <3>2. CASE UNCHANGED lateBeat
      BY <3>2 DEF TypeOK
    <3> QED
      BY <3>1, <3>2, JoinBeatType
  <2>9. (faults \in Nat)'
    <3>1. JoinBeat(r) \/ NotLanded
      BY <1>12 DEF Release
    <3> QED
      BY <3>1, JoinBeatType, NotLandedType
  <2> QED
    BY <2>1, <2>2, <2>3, <2>4, <2>5, <2>6, <2>7, <2>8, <2>9 DEF TypeOK
<1>13. ASSUME ReleaseTransient(r) PROVE TypeOK'
  <2>1. UNCHANGED <<attempts, transcript, metrics, paused, offGpu,
        runLimit, sweep, ckpt, stopping, shareUp, burnt, ops>>
    BY <1>13 DEF ReleaseTransient, LeaveJob, JoinBeat, FailRow, Repend, NotLanded, Fault,
       NoFault, db, ctl, host
  <2>2. (status \in [Jobs -> Statuses])'
    BY <1>13, RowTypes DEF ReleaseTransient, NotLanded, db, TypeOK
  <2>3. (holder \in [Jobs -> Runners \cup {NoRunner}])'
    BY <1>13, RowTypes DEF ReleaseTransient, NotLanded, db, TypeOK
  <2>4. (stale \in [Jobs -> BOOLEAN])'
    BY <1>13, RowTypes DEF ReleaseTransient, NotLanded, db, TypeOK
  <2>5. (pc \in [Runners -> Steps])'
    BY <1>13 DEF TypeOK, ReleaseTransient, LeaveJob, JoinBeat, FailRow, Repend, NotLanded,
       Fault, NoFault, Steps
  <2>6. (ctx \in [Runners -> Contexts])'
    BY <1>13, LeaveJobType DEF ReleaseTransient
  <2>7. (lateBeat \in [Runners -> Jobs \cup {NoJob}])'
    <3>1. JoinBeat(r) \/ UNCHANGED lateBeat
      BY <1>13 DEF ReleaseTransient
    <3>2. CASE UNCHANGED lateBeat
      BY <3>2 DEF TypeOK
    <3> QED
      BY <3>1, <3>2, JoinBeatType
  <2>8. (hold \in [Runners -> {"none", "backoff", "share"}])'
    BY <1>13 DEF TypeOK, ReleaseTransient, LeaveJob, JoinBeat, FailRow, Repend, NotLanded,
       Fault, NoFault, HoldFor
  <2>9. (faults \in Nat)'
    <3>1. JoinBeat(r) \/ NotLanded
      BY <1>13 DEF ReleaseTransient
    <3> QED
      BY <3>1, JoinBeatType, NotLandedType
  <2> QED
    BY <2>1, <2>2, <2>3, <2>4, <2>5, <2>6, <2>7, <2>8, <2>9 DEF TypeOK
<1>14. ASSUME MarkFailed(r) PROVE TypeOK'
  <2>1. UNCHANGED <<holder, attempts, transcript, metrics, paused,
        offGpu, runLimit, sweep, hold, stopping, shareUp, burnt, ops>>
    BY <1>14 DEF MarkFailed, LeaveJob, JoinBeat, FailRow, NotLanded, Fault, NoFault, db,
       ctl, host
  <2>2. (status \in [Jobs -> Statuses])'
    BY <1>14, RowTypes DEF MarkFailed, NotLanded, db, TypeOK
  <2>3. (stale \in [Jobs -> BOOLEAN])'
    BY <1>14, RowTypes DEF MarkFailed, NotLanded, db, TypeOK
  <2>4. (pc \in [Runners -> Steps])'
    BY <1>14 DEF TypeOK, MarkFailed, LeaveJob, JoinBeat, FailRow, NotLanded, Fault,
       NoFault, Steps
  <2>5. (ctx \in [Runners -> Contexts])'
    BY <1>14, LeaveJobType DEF MarkFailed
  <2>6. (lateBeat \in [Runners -> Jobs \cup {NoJob}])'
    <3>1. JoinBeat(r) \/ UNCHANGED lateBeat
      BY <1>14 DEF MarkFailed
    <3>2. CASE UNCHANGED lateBeat
      BY <3>2 DEF TypeOK
    <3> QED
      BY <3>1, <3>2, JoinBeatType
  <2>7. (ckpt \in [Runners -> [Jobs -> Nat]])'
    BY <1>14 DEF TypeOK, MarkFailed, LeaveJob, JoinBeat, FailRow, NotLanded, Fault,
       NoFault, db, host
  <2>8. (faults \in Nat)'
    <3>1. JoinBeat(r) \/ NotLanded
      BY <1>14 DEF MarkFailed
    <3> QED
      BY <3>1, JoinBeatType, NotLandedType
  <2> QED
    BY <2>1, <2>2, <2>3, <2>4, <2>5, <2>6, <2>7, <2>8 DEF TypeOK
<1> QED
  BY <1>1, <1>2, <1>3, <1>4, <1>5, <1>6, <1>7, <1>8, <1>9, <1>10, <1>11, <1>12, <1>13,
     <1>14 DEF Work

\* A step that changes nothing keeps the types.
LEMMA StutterType == TypeOK /\ UNCHANGED vars => TypeOK'
  BY DEF TypeOK, vars, db, ctl, host

\* Every step of the queue keeps the types.
LEMMA StepType == TypeOK /\ [Next]_vars => TypeOK'
<1> SUFFICES ASSUME TypeOK, [Next]_vars PROVE TypeOK'
  OBVIOUS
<1>1. CASE Control
  BY <1>1, ControlType
<1>2. ASSUME NEW r \in Runners, Process(r) \/ Cycle(r) \/ Beat(r) \/ Work(r)
      PROVE  TypeOK'
  BY <1>2, ProcessType, CycleType, BeatType, WorkType
<1>3. CASE UNCHANGED vars
  BY <1>3, StutterType
<1> QED
  BY <1>1, <1>2, <1>3 DEF Next

\* In every reachable state every column, process and counter has its type:
\* in particular no job is ever claimed past the retry cap.
THEOREM TypeCorrect == Spec => []TypeOK
  BY InitType, StepType, PTL DEF Spec

-----------------------------------------------------------------------------
(* The edges of a row.                                                     *)

Same(j) == <<status[j], holder[j], attempts[j], transcript[j]>>' =
           <<status[j], holder[j], attempts[j], transcript[j]>>

Submitted(j) ==
  /\ status[j] = "absent" /\ status'[j] = "pending"
  /\ <<holder[j], attempts[j], transcript[j]>>' = <<holder[j], attempts[j], transcript[j]>>

Taken(j) ==
  /\ status[j] = "pending" /\ status'[j] = "claimed"
  /\ holder'[j] \in Runners /\ attempts'[j] = attempts[j] + 1
  /\ transcript'[j] = transcript[j]

GivenBack(j) ==
  /\ status[j] = "claimed" /\ status'[j] = "pending"
  /\ holder'[j] = NoRunner /\ transcript'[j] = transcript[j]
  /\ \/ attempts'[j] = attempts[j] /\ ~LastAttempt(j)
     \/ attempts'[j] = Refund(attempts[j])

Failed(j) ==
  /\ status[j] = "claimed" /\ status'[j] = "failed"
  /\ <<holder[j], attempts[j], transcript[j]>>' = <<holder[j], attempts[j], transcript[j]>>

Finished(j) ==
  /\ status[j] = "claimed" /\ status'[j] = "done"
  /\ transcript'[j] = IF transcript[j] = NoRunner THEN holder[j] ELSE transcript[j]
  /\ <<holder[j], attempts[j]>>' = <<holder[j], attempts[j]>>

Redone(j) ==
  /\ status[j] # "absent" /\ status'[j] = "pending"
  /\ holder'[j] = NoRunner /\ attempts'[j] = 0 /\ transcript'[j] = NoRunner

Edge(j) ==
  \/ Same(j) \/ Submitted(j) \/ Taken(j) \/ GivenBack(j) \/ Failed(j) \/ Finished(j)
  \/ Redone(j)

\* The inductive invariant of the rows.  The parts need each other: a
\* refunded release leaves the row below the cap only because a claim spent
\* an attempt.
RowInv == DoneHasTranscript /\ NoStrandedPending /\ ClaimHasHolder

\* Every step of Control moves every row along an edge.
LEMMA ControlEdges == ASSUME TypeOK, Control
                  PROVE  \A k \in Jobs : Edge(k)
<1>1. ASSUME NEW j \in Jobs, Enqueue(j) PROVE \A k \in Jobs : Edge(k)
  BY <1>1 DEF TypeOK, Edge, Same, Submitted, Enqueue, db
<1>2. ASSUME NEW j \in Jobs, GoStale(j) PROVE \A k \in Jobs : Edge(k)
  BY <1>2 DEF Edge, Same, GoStale, db
<1>3. ASSUME NEW j \in Jobs, Requeue(j) PROVE \A k \in Jobs : Edge(k)
  BY <1>3 DEF TypeOK, Edge, Same, Redone, Requeue, Repend, DropResults, db
<1>4. ASSUME SweepReset PROVE \A k \in Jobs : Edge(k)
  BY <1>4 DEF TypeOK, Edge, Same, GivenBack, SweepReset, Repend, Expired, db
<1>5. ASSUME SweepFail PROVE \A k \in Jobs : Edge(k)
  BY <1>5 DEF TypeOK, Edge, Same, Failed, SweepFail, Expired, LastAttempt, db
<1>6. ASSUME NEW b \in BOOLEAN, SetPaused(b) PROVE \A k \in Jobs : Edge(k)
  BY <1>6 DEF Edge, Same, SetPaused, Operate, db
<1>7. ASSUME NEW n \in 0..MaxRun \cup {Unlimited}, SetRunLimit(n) PROVE \A k \in Jobs : Edge(k)
  BY <1>7 DEF Edge, Same, SetRunLimit, Operate, db
<1>8. ASSUME TakeGpu PROVE \A k \in Jobs : Edge(k)
  BY <1>8 DEF Edge, Same, TakeGpu, db
<1>9. ASSUME ReturnGpu PROVE \A k \in Jobs : Edge(k)
  BY <1>9 DEF Edge, Same, ReturnGpu, db
<1>10. ASSUME ShareDown PROVE \A k \in Jobs : Edge(k)
  BY <1>10 DEF Edge, Same, ShareDown, Fault, db
<1>11. ASSUME ShareBack PROVE \A k \in Jobs : Edge(k)
  BY <1>11 DEF Edge, Same, ShareBack, db
<1> QED
  BY <1>1, <1>2, <1>3, <1>4, <1>5, <1>6, <1>7, <1>8, <1>9, <1>10, <1>11 DEF Control

\* Every step of Process moves every row along an edge.
LEMMA ProcessEdges == ASSUME NEW r \in Runners, TypeOK, Process(r)
                  PROVE  \A k \in Jobs : Edge(k)
<1>1. ASSUME Boot(r) PROVE \A k \in Jobs : Edge(k)
  BY <1>1 DEF Edge, Same, Boot, db
<1>2. ASSUME Crash(r) PROVE \A k \in Jobs : Edge(k)
  BY <1>2 DEF Edge, Same, Crash, Fault, Die, db
<1>3. ASSUME Stop(r) PROVE \A k \in Jobs : Edge(k)
  BY <1>3 DEF Edge, Same, Stop, Fault, db
<1>4. ASSUME Exit(r) PROVE \A k \in Jobs : Edge(k)
  BY <1>4 DEF Edge, Same, Exit, NoFault, Die, db
<1> QED
  BY <1>1, <1>2, <1>3, <1>4 DEF Process

\* Every step of Cycle moves every row along an edge.
LEMMA CycleEdges == ASSUME NEW r \in Runners, TypeOK, Cycle(r)
                PROVE  \A k \in Jobs : Edge(k)
<1>1. ASSUME Gate(r) PROVE \A k \in Jobs : Edge(k)
  BY <1>1 DEF Edge, Same, Gate, db
<1>2. ASSUME HoldEnds(r) PROVE \A k \in Jobs : Edge(k)
  BY <1>2 DEF Edge, Same, HoldEnds, db
<1>3. ASSUME ClaimNothing(r) PROVE \A k \in Jobs : Edge(k)
  BY <1>3 DEF Edge, Same, ClaimNothing, db
<1>4. ASSUME NEW j \in Jobs, Claim(r, j) PROVE \A k \in Jobs : Edge(k)
  BY <1>4 DEF TypeOK, Edge, Same, Taken, Claim, TakeRow, Claimable, db
<1>5. ASSUME NEW j \in Jobs, ClaimReplyLost(r, j) PROVE \A k \in Jobs : Edge(k)
  BY <1>5 DEF TypeOK, Edge, Same, Taken, ClaimReplyLost, TakeRow, Claimable, db
<1>6. ASSUME NEW j \in Jobs, ClaimUngated(r, j) PROVE \A k \in Jobs : Edge(k)
  BY <1>6 DEF TypeOK, Edge, Same, Taken, ClaimUngated, TakeRow, Claimable, db
<1> QED
  BY <1>1, <1>2, <1>3, <1>4, <1>5, <1>6 DEF Cycle

\* Every step of Beat moves every row along an edge.
LEMMA BeatEdges == ASSUME NEW r \in Runners, TypeOK, Beat(r)
               PROVE  \A k \in Jobs : Edge(k)
<1>1. ASSUME Heartbeat(r) PROVE \A k \in Jobs : Edge(k)
  BY <1>1 DEF Edge, Same, Heartbeat, db
<1>2. ASSUME LateHeartbeat(r) PROVE \A k \in Jobs : Edge(k)
  BY <1>2 DEF Edge, Same, LateHeartbeat, db
<1> QED
  BY <1>1, <1>2 DEF Beat

\* Every step of Work moves every row along an edge.
LEMMA WorkEdges == ASSUME NEW r \in Runners, TypeOK, Work(r)
               PROVE  \A k \in Jobs : Edge(k)
<1>1. ASSUME Window(r) PROVE \A k \in Jobs : Edge(k)
  <2>1. UNCHANGED db
    BY <1>1 DEF Window
  <2> QED
    BY <2>1 DEF Edge, Same, db
<1>2. ASSUME Abort(r) PROVE \A k \in Jobs : Edge(k)
  BY <1>2 DEF Edge, Same, Abort, db
<1>3. ASSUME TransientError(r) PROVE \A k \in Jobs : Edge(k)
  BY <1>3 DEF Edge, Same, TransientError, db
<1>4. ASSUME PermanentError(r) PROVE \A k \in Jobs : Edge(k)
  BY <1>4 DEF Edge, Same, PermanentError, db
<1>5. ASSUME SkipWrite(r) PROVE \A k \in Jobs : Edge(k)
  BY <1>5 DEF Edge, Same, SkipWrite, db
<1>6. ASSUME MarkDone(r) PROVE \A k \in Jobs : Edge(k)
  BY <1>6 DEF TypeOK, Edge, Same, Finished, MarkDone, Held, db
<1>7. ASSUME MarkDoneRefused(r) PROVE \A k \in Jobs : Edge(k)
  BY <1>7 DEF Edge, Same, MarkDoneRefused, db
<1>8. ASSUME ReadStatus(r) PROVE \A k \in Jobs : Edge(k)
  <2>1. UNCHANGED db
    BY <1>8 DEF ReadStatus
  <2> QED
    BY <2>1 DEF Edge, Same, db
<1>9. ASSUME WriteError(r) PROVE \A k \in Jobs : Edge(k)
  <2>1. UNCHANGED db
    BY <1>9 DEF WriteError
  <2> QED
    BY <2>1 DEF Edge, Same, db
<1>10. ASSUME DropCheckpoint(r) PROVE \A k \in Jobs : Edge(k)
  BY <1>10 DEF Edge, Same, DropCheckpoint, db
<1>11. ASSUME WriteMetrics(r) PROVE \A k \in Jobs : Edge(k)
  <2>1. UNCHANGED db
    BY <1>11 DEF WriteMetrics
  <2> QED
    BY <2>1 DEF Edge, Same, db
<1>12. ASSUME Release(r) PROVE \A k \in Jobs : Edge(k)
  <2>1. CASE UNCHANGED db
    BY <2>1 DEF Edge, Same, db
  <2>2. CASE ~UNCHANGED db
    <3> DEFINE j == ctx[r].job
    <3>1. /\ Held(r, j) /\ Repend({j}) /\ UNCHANGED transcript
          /\ attempts' = [attempts EXCEPT ![j] = Refund(@)]
      BY <1>12, <2>2 DEF Release, NotLanded
    <3> QED
      BY <3>1 DEF TypeOK, Edge, Same, GivenBack, Repend, Held
  <2> QED
    BY <2>1, <2>2
<1>13. ASSUME ReleaseTransient(r) PROVE \A k \in Jobs : Edge(k)
  <2> DEFINE j == ctx[r].job
  <2>1. ASSUME ~UNCHANGED db
        PROVE  /\ Held(r, j) /\ UNCHANGED <<attempts, transcript>>
               /\ IF LastAttempt(j) THEN FailRow(j) ELSE Repend({j})
    BY <1>13, <2>1 DEF ReleaseTransient, NotLanded
  <2>2. CASE UNCHANGED db
    BY <2>2 DEF Edge, Same, db
  <2>3. CASE Held(r, j) /\ UNCHANGED <<attempts, transcript>> /\ FailRow(j)
    BY <2>3 DEF TypeOK, Edge, Same, Failed, FailRow, Held
  <2>4. CASE Held(r, j) /\ UNCHANGED <<attempts, transcript>> /\ ~LastAttempt(j) /\ Repend({j})
    BY <2>4 DEF TypeOK, Edge, Same, GivenBack, Repend, Held
  <2> QED
    BY <2>1, <2>2, <2>3, <2>4
<1>14. ASSUME MarkFailed(r) PROVE \A k \in Jobs : Edge(k)
  BY <1>14 DEF TypeOK, Edge, Same, Failed, MarkFailed, FailRow, NotLanded, Held, db
<1> QED
  BY <1>1, <1>2, <1>3, <1>4, <1>5, <1>6, <1>7, <1>8, <1>9, <1>10, <1>11, <1>12, <1>13,
     <1>14 DEF Work

\* Every step of the queue moves every row along one edge.
LEMMA RowEdges == TypeOK /\ [Next]_vars => \A j \in Jobs : Edge(j)
<1> SUFFICES ASSUME TypeOK, [Next]_vars PROVE \A j \in Jobs : Edge(j)
  OBVIOUS
<1>1. CASE Control
  BY <1>1, ControlEdges
<1>2. ASSUME NEW r \in Runners, Process(r) \/ Cycle(r) \/ Beat(r) \/ Work(r)
      PROVE  \A j \in Jobs : Edge(j)
  BY <1>2, ProcessEdges, CycleEdges, BeatEdges, WorkEdges
<1>3. CASE UNCHANGED vars
  BY <1>3 DEF vars, db, Edge, Same
<1> QED
  BY <1>1, <1>2, <1>3 DEF Next

\* An edge of every row keeps the row invariant.
LEMMA EdgeKeeps == ASSUME TypeOK, RowInv, \A j \in Jobs : Edge(j)
                   PROVE  RowInv'
<1> SUFFICES ASSUME NEW j \in Jobs
             PROVE  /\ (status[j] = "done" <=> transcript[j] # NoRunner)'
                    /\ (status[j] = "pending" => attempts[j] < MaxAttempts)'
                    /\ (status[j] = "claimed" => holder[j] # NoRunner /\ attempts[j] > 0)'
                    /\ (status[j] \in {"absent", "pending"} => holder[j] = NoRunner)'
                    /\ (status[j] = "absent" => attempts[j] = 0)'
  BY DEF RowInv, DoneHasTranscript, NoStrandedPending, ClaimHasHolder
<1>1. /\ status[j] = "done" <=> transcript[j] # NoRunner
      /\ status[j] = "pending" => attempts[j] < MaxAttempts
      /\ status[j] = "claimed" => holder[j] # NoRunner /\ attempts[j] > 0
      /\ status[j] \in {"absent", "pending"} => holder[j] = NoRunner
      /\ status[j] = "absent" => attempts[j] = 0
  BY DEF RowInv, DoneHasTranscript, NoStrandedPending, ClaimHasHolder
<1>2. /\ status[j] \in Statuses /\ attempts[j] \in 0..MaxAttempts
      /\ MaxAttempts \in Nat \ {0}
  BY BoundsAssumption DEF TypeOK, BoundsAssumption
<1>3. CASE Same(j)
  BY <1>1, <1>3 DEF Same
<1>4. CASE Submitted(j)
  BY <1>1, <1>2, <1>4 DEF Submitted
<1>5. CASE Taken(j)
  BY <1>1, <1>2, <1>5, RunnersAssumption DEF Taken, RunnersAssumption
<1>6. CASE GivenBack(j)
  BY <1>1, <1>2, <1>6 DEF GivenBack, LastAttempt, Refund
<1>7. CASE Failed(j)
  BY <1>1, <1>7 DEF Failed
<1>8. CASE Finished(j)
  BY <1>1, <1>8 DEF Finished
<1>9. CASE Redone(j)
  BY <1>2, <1>9 DEF Redone
<1> QED
  BY <1>3, <1>4, <1>5, <1>6, <1>7, <1>8, <1>9 DEF Edge

\* The row invariant holds initially: every row is absent.
LEMMA InitRow == Init => RowInv
  BY DEF Init, RowInv, DoneHasTranscript, NoStrandedPending, ClaimHasHolder

\* The row invariant holds in every reachable state.
THEOREM RowCorrect == Spec => []RowInv
<1>1. TypeOK /\ RowInv /\ [Next]_vars => RowInv'
  BY RowEdges, EdgeKeeps
<1> QED
  BY <1>1, InitRow, TypeCorrect, PTL DEF Spec

\* A job is done exactly when its transcript is stored, whatever claims are
\* lost, replies dropped or jobs requeued.
THEOREM DoneMeansStored == Spec => []DoneHasTranscript
<1>1. RowInv => DoneHasTranscript
  BY DEF RowInv
<1> QED
  BY <1>1, RowCorrect, PTL

\* No row waits at the attempt cap, where nothing would ever claim it.
THEOREM NothingStranded == Spec => []NoStrandedPending
<1>1. RowInv => NoStrandedPending
  BY DEF RowInv
<1> QED
  BY <1>1, RowCorrect, PTL

\* A claimed row has a holder and spent an attempt; a waiting row has none.
THEOREM ClaimsHaveHolders == Spec => []ClaimHasHolder
<1>1. RowInv => ClaimHasHolder
  BY DEF RowInv
<1> QED
  BY <1>1, RowCorrect, PTL

-----------------------------------------------------------------------------
(* A lost claim writes nothing.                                            *)

\* A runner between jobs has no job in its context.
IdleHasNoJob == \A r \in Runners : pc[r] \in {"down", "idle", "gated"} => ctx[r].job = NoJob
\* Every step of Process keeps IdleHasNoJob.
LEMMA ProcessIdle == ASSUME NEW r \in Runners, TypeOK, IdleHasNoJob, Process(r)
                 PROVE  IdleHasNoJob'
<1>1. ASSUME Boot(r) PROVE IdleHasNoJob'
  BY <1>1 DEF TypeOK, Contexts, NoCtx, IdleHasNoJob, Boot
<1>2. ASSUME Crash(r) PROVE IdleHasNoJob'
  BY <1>2 DEF TypeOK, Contexts, NoCtx, IdleHasNoJob, Crash, Die
<1>3. ASSUME Stop(r) PROVE IdleHasNoJob'
  BY <1>3 DEF TypeOK, Contexts, NoCtx, IdleHasNoJob, Stop
<1>4. ASSUME Exit(r) PROVE IdleHasNoJob'
  BY <1>4 DEF TypeOK, Contexts, NoCtx, IdleHasNoJob, Exit, Die
<1> QED
  BY <1>1, <1>2, <1>3, <1>4 DEF Process

\* Every step of Cycle keeps IdleHasNoJob.
LEMMA CycleIdle == ASSUME NEW r \in Runners, TypeOK, IdleHasNoJob, Cycle(r)
               PROVE  IdleHasNoJob'
<1>1. ASSUME Gate(r) PROVE IdleHasNoJob'
  BY <1>1 DEF TypeOK, Contexts, NoCtx, IdleHasNoJob, Gate
<1>2. ASSUME HoldEnds(r) PROVE IdleHasNoJob'
  BY <1>2 DEF TypeOK, Contexts, NoCtx, IdleHasNoJob, HoldEnds
<1>3. ASSUME ClaimNothing(r) PROVE IdleHasNoJob'
  BY <1>3 DEF TypeOK, Contexts, NoCtx, IdleHasNoJob, ClaimNothing
<1>4. ASSUME NEW j \in Jobs, Claim(r, j) PROVE IdleHasNoJob'
  BY <1>4 DEF TypeOK, Contexts, NoCtx, IdleHasNoJob, Claim, StartJob
<1>5. ASSUME NEW j \in Jobs, ClaimReplyLost(r, j) PROVE IdleHasNoJob'
  BY <1>5 DEF TypeOK, Contexts, NoCtx, IdleHasNoJob, ClaimReplyLost
<1>6. ASSUME NEW j \in Jobs, ClaimUngated(r, j) PROVE IdleHasNoJob'
  BY <1>6 DEF TypeOK, Contexts, NoCtx, IdleHasNoJob, ClaimUngated, StartJob
<1> QED
  BY <1>1, <1>2, <1>3, <1>4, <1>5, <1>6 DEF Cycle

\* Every step of Beat keeps IdleHasNoJob.
LEMMA BeatIdle == ASSUME NEW r \in Runners, TypeOK, IdleHasNoJob, Beat(r)
              PROVE  IdleHasNoJob'
<1>1. ASSUME Heartbeat(r) PROVE IdleHasNoJob'
  <2>1. /\ pc' = pc
        /\ ctx' = ctx \/ ctx' = [ctx EXCEPT ![r] = [ctx[r] EXCEPT !.lost = TRUE]]
    BY <1>1 DEF Heartbeat
  <2>2. [ctx[r] EXCEPT !.lost = TRUE].job = ctx[r].job
    BY DEF TypeOK, Contexts
  <2>3. \A q \in Runners : ctx'[q].job = ctx[q].job
    BY <2>1, <2>2 DEF TypeOK
  <2> QED
    BY <2>1, <2>3 DEF IdleHasNoJob
<1>2. ASSUME LateHeartbeat(r) PROVE IdleHasNoJob'
  BY <1>2 DEF TypeOK, Contexts, NoCtx, IdleHasNoJob, LateHeartbeat
<1> QED
  BY <1>1, <1>2 DEF Beat

\* Every step of Work keeps IdleHasNoJob.
LEMMA WorkIdle == ASSUME NEW r \in Runners, TypeOK, IdleHasNoJob, Work(r)
              PROVE  IdleHasNoJob'
<1>1. ASSUME Window(r) PROVE IdleHasNoJob'
  <2>1. \/ LeaveJob(r)
        \/ /\ \A q \in Runners \ {r} : pc'[q] = pc[q] /\ ctx'[q] = ctx[q]
           /\ pc'[r] \in {"write", "release", "work"}
    BY <1>1 DEF Window, TypeOK
  <2>2. CASE LeaveJob(r)
    BY <2>2 DEF LeaveJob, NoCtx, IdleHasNoJob, TypeOK
  <2> QED
    BY <2>1, <2>2 DEF IdleHasNoJob
<1>2. ASSUME Abort(r) PROVE IdleHasNoJob'
  BY <1>2 DEF TypeOK, Contexts, NoCtx, IdleHasNoJob, Abort
<1>3. ASSUME TransientError(r) PROVE IdleHasNoJob'
  BY <1>3 DEF TypeOK, Contexts, NoCtx, IdleHasNoJob, TransientError
<1>4. ASSUME PermanentError(r) PROVE IdleHasNoJob'
  BY <1>4 DEF TypeOK, Contexts, NoCtx, IdleHasNoJob, PermanentError
<1>5. ASSUME SkipWrite(r) PROVE IdleHasNoJob'
  BY <1>5 DEF TypeOK, Contexts, NoCtx, IdleHasNoJob, SkipWrite
<1>6. ASSUME MarkDone(r) PROVE IdleHasNoJob'
  BY <1>6 DEF TypeOK, Contexts, NoCtx, IdleHasNoJob, MarkDone, SpendTry
<1>7. ASSUME MarkDoneRefused(r) PROVE IdleHasNoJob'
  BY <1>7 DEF TypeOK, Contexts, NoCtx, IdleHasNoJob, MarkDoneRefused
<1>8. ASSUME ReadStatus(r) PROVE IdleHasNoJob'
  BY <1>8 DEF TypeOK, Contexts, NoCtx, IdleHasNoJob, ReadStatus, LeaveJob
<1>9. ASSUME WriteError(r) PROVE IdleHasNoJob'
  BY <1>9 DEF TypeOK, Contexts, NoCtx, IdleHasNoJob, WriteError, SpendTry
<1>10. ASSUME DropCheckpoint(r) PROVE IdleHasNoJob'
  BY <1>10 DEF TypeOK, Contexts, NoCtx, IdleHasNoJob, DropCheckpoint
<1>11. ASSUME WriteMetrics(r) PROVE IdleHasNoJob'
  BY <1>11 DEF TypeOK, Contexts, NoCtx, IdleHasNoJob, WriteMetrics, LeaveJob
<1>12. ASSUME Release(r) PROVE IdleHasNoJob'
  BY <1>12 DEF TypeOK, Contexts, NoCtx, IdleHasNoJob, Release, LeaveJob
<1>13. ASSUME ReleaseTransient(r) PROVE IdleHasNoJob'
  BY <1>13 DEF TypeOK, Contexts, NoCtx, IdleHasNoJob, ReleaseTransient, LeaveJob
<1>14. ASSUME MarkFailed(r) PROVE IdleHasNoJob'
  BY <1>14 DEF TypeOK, Contexts, NoCtx, IdleHasNoJob, MarkFailed, LeaveJob
<1> QED
  BY <1>1, <1>2, <1>3, <1>4, <1>5, <1>6, <1>7, <1>8, <1>9, <1>10, <1>11, <1>12, <1>13,
     <1>14 DEF Work

\* Every step of the queue keeps IdleHasNoJob.
LEMMA StepIdle == TypeOK /\ IdleHasNoJob /\ [Next]_vars => IdleHasNoJob'
<1> SUFFICES ASSUME TypeOK, IdleHasNoJob, [Next]_vars PROVE IdleHasNoJob'
  OBVIOUS
<1>1. CASE Control
  <2>1. UNCHANGED <<pc, ctx>>
    BY <1>1 DEF Control, Enqueue, GoStale, Requeue, SweepReset, SweepFail,
                SetPaused,
                SetRunLimit, TakeGpu, ReturnGpu, ShareDown, ShareBack
  <2> QED
    BY <2>1 DEF IdleHasNoJob
<1>2. ASSUME NEW r \in Runners, Process(r) \/ Cycle(r) \/ Beat(r) \/ Work(r)
      PROVE  IdleHasNoJob'
  BY <1>2, ProcessIdle, CycleIdle, BeatIdle, WorkIdle
<1>3. CASE UNCHANGED vars
  BY <1>3 DEF vars, IdleHasNoJob
<1> QED
  BY <1>1, <1>2, <1>3 DEF Next

\* In every reachable state a runner between jobs has no job.
LEMMA IdleCorrect == Spec => []IdleHasNoJob
<1>1. Init => IdleHasNoJob
  BY DEF Init, IdleHasNoJob, NoCtx
<1> QED
  BY <1>1, StepIdle, TypeCorrect, PTL DEF Spec

\* What a runner's own step is: its program counter or its context moves.
Moves(r) == <<pc[r], ctx[r]>>' # <<pc[r], ctx[r]>>

\* A step of Process under a lost claim leaves the row alone.
LEMMA ProcessLost == ASSUME NEW q \in Runners, NEW r \in Runners, NEW j \in Jobs,
                        TypeOK, IdleHasNoJob, Process(q),
                        ctx[r].job = j, ~Held(r, j), Moves(r)
                 PROVE  Same(j)
<1>1. ASSUME Boot(q) PROVE Same(j)
  BY <1>1 DEF Same, Boot, db
<1>2. ASSUME Crash(q) PROVE Same(j)
  BY <1>2 DEF Same, Crash, Fault, Die, db
<1>3. ASSUME Stop(q) PROVE Same(j)
  BY <1>3 DEF Same, Stop, Fault, db
<1>4. ASSUME Exit(q) PROVE Same(j)
  BY <1>4 DEF Same, Exit, NoFault, Die, db
<1> QED
  BY <1>1, <1>2, <1>3, <1>4 DEF Process

\* A step of Cycle under a lost claim leaves the row alone.
LEMMA CycleLost == ASSUME NEW q \in Runners, NEW r \in Runners, NEW j \in Jobs,
                      TypeOK, IdleHasNoJob, Cycle(q),
                      ctx[r].job = j, ~Held(r, j), Moves(r)
               PROVE  Same(j)
<1>1. ASSUME Gate(q) PROVE Same(j)
  BY <1>1 DEF Same, Gate, db
<1>2. ASSUME HoldEnds(q) PROVE Same(j)
  BY <1>2 DEF Same, HoldEnds, db
<1>3. ASSUME ClaimNothing(q) PROVE Same(j)
  BY <1>3 DEF Same, ClaimNothing, db
<1>4. ASSUME NEW k \in Jobs, Claim(q, k) PROVE Same(j)
  BY <1>4, JobsAssumption DEF TypeOK, Moves, IdleHasNoJob, JobsAssumption, Claim, TakeRow,
     StartJob, Same
<1>5. ASSUME NEW k \in Jobs, ClaimReplyLost(q, k) PROVE Same(j)
  BY <1>5, JobsAssumption DEF TypeOK, Moves, IdleHasNoJob, JobsAssumption, ClaimReplyLost,
     TakeRow, Same
<1>6. ASSUME NEW k \in Jobs, ClaimUngated(q, k) PROVE Same(j)
  BY <1>6, JobsAssumption DEF TypeOK, Moves, IdleHasNoJob, JobsAssumption, ClaimUngated,
     TakeRow, StartJob, Same
<1> QED
  BY <1>1, <1>2, <1>3, <1>4, <1>5, <1>6 DEF Cycle

\* A step of Beat under a lost claim leaves the row alone.
LEMMA BeatLost == ASSUME NEW q \in Runners, NEW r \in Runners, NEW j \in Jobs,
                     TypeOK, IdleHasNoJob, Beat(q),
                     ctx[r].job = j, ~Held(r, j), Moves(r)
              PROVE  Same(j)
<1>1. ASSUME Heartbeat(q) PROVE Same(j)
  BY <1>1 DEF Same, Heartbeat, db
<1>2. ASSUME LateHeartbeat(q) PROVE Same(j)
  BY <1>2 DEF Same, LateHeartbeat, db
<1> QED
  BY <1>1, <1>2 DEF Beat

\* A step of Work under a lost claim leaves the row alone.
LEMMA WorkLost == ASSUME NEW q \in Runners, NEW r \in Runners, NEW j \in Jobs,
                     TypeOK, IdleHasNoJob, Work(q),
                     ctx[r].job = j, ~Held(r, j), Moves(r)
              PROVE  Same(j)
<1>1. ASSUME Window(q) PROVE Same(j)
  BY <1>1 DEF Same, Window, LeaveJob, Fault, NoFault, db
<1>2. ASSUME Abort(q) PROVE Same(j)
  BY <1>2 DEF Same, Abort, db
<1>3. ASSUME TransientError(q) PROVE Same(j)
  BY <1>3 DEF Same, TransientError, db
<1>4. ASSUME PermanentError(q) PROVE Same(j)
  BY <1>4 DEF Same, PermanentError, db
<1>5. ASSUME SkipWrite(q) PROVE Same(j)
  BY <1>5 DEF Same, SkipWrite, db
<1>6. ASSUME MarkDone(q) PROVE Same(j)
  BY <1>6 DEF TypeOK, Moves, Held, MarkDone, SpendTry, Same, db
<1>7. ASSUME MarkDoneRefused(q) PROVE Same(j)
  BY <1>7 DEF Same, MarkDoneRefused, db
<1>8. ASSUME ReadStatus(q) PROVE Same(j)
  BY <1>8 DEF Same, ReadStatus, LeaveJob, JoinBeat, Fault, NoFault, db
<1>9. ASSUME WriteError(q) PROVE Same(j)
  BY <1>9 DEF Same, WriteError, SpendTry, Fault, db
<1>10. ASSUME DropCheckpoint(q) PROVE Same(j)
  BY <1>10 DEF Same, DropCheckpoint, db
<1>11. ASSUME WriteMetrics(q) PROVE Same(j)
  BY <1>11 DEF Same, WriteMetrics, LeaveJob, Fault, NoFault, db
<1>12. ASSUME Release(q) PROVE Same(j)
  BY <1>12 DEF TypeOK, Moves, Held, Release, LeaveJob, Repend, NotLanded, Same, db
<1>13. ASSUME ReleaseTransient(q) PROVE Same(j)
  BY <1>13 DEF TypeOK, Moves, Held, ReleaseTransient, LeaveJob, FailRow, Repend,
     NotLanded, Same, db
<1>14. ASSUME MarkFailed(q) PROVE Same(j)
  BY <1>14 DEF TypeOK, Moves, Held, MarkFailed, LeaveJob, FailRow, NotLanded, Same, db
<1> QED
  BY <1>1, <1>2, <1>3, <1>4, <1>5, <1>6, <1>7, <1>8, <1>9, <1>10, <1>11, <1>12, <1>13,
     <1>14 DEF Work

\* A runner whose claim was swept or requeued never changes the row again,
\* whatever it still does with the job it thinks is its own.
THEOREM LostClaimsWriteNothing == Spec => LostClaimWritesNothing
<1> DEFINE A == \A r \in Runners : \A j \in Jobs :
                  ctx[r].job = j /\ ~(status[j] = "claimed" /\ holder[j] = r)
                  /\ <<pc[r], ctx[r]>>' # <<pc[r], ctx[r]>>
                    => <<status[j], holder[j], attempts[j], transcript[j]>>' =
                       <<status[j], holder[j], attempts[j], transcript[j]>>
<1>1. ASSUME TypeOK, IdleHasNoJob, Next PROVE A
  <2> SUFFICES ASSUME NEW r \in Runners, NEW j \in Jobs,
                      ctx[r].job = j, ~Held(r, j), Moves(r)
               PROVE  Same(j)
    BY DEF Moves, Same, Held
  <2>1. CASE Control
    BY <1>1, <2>1 DEF Moves, Control, Enqueue, GoStale, Requeue, SweepReset, SweepFail,
                SetPaused,
                SetRunLimit, TakeGpu, ReturnGpu, ShareDown, ShareBack
  <2>2. ASSUME NEW q \in Runners, Process(q) \/ Cycle(q) \/ Beat(q) \/ Work(q)
        PROVE  Same(j)
    BY <1>1, <2>2, ProcessLost, CycleLost, BeatLost, WorkLost
  <2> QED
    BY <1>1, <2>1, <2>2 DEF Next
<1>2. TypeOK /\ IdleHasNoJob /\ [Next]_vars => [A]_vars
  BY <1>1
<1> QED
  BY <1>2, TypeCorrect, IdleCorrect, PTL DEF Spec, LostClaimWritesNothing


-----------------------------------------------------------------------------
(* The queue implements the job lifecycle.                                 *)

\* A step that leaves the rows alone is a stutter of the lifecycle.
LEMMA StutterMaps == UNCHANGED <<status, holder, transcript>> => UNCHANGED Lifecycle!lifecycle
  BY DEF Lifecycle!lifecycle, Owner

\* A step that touches one row, along an edge, is a step of the lifecycle.
LEMMA OneRowMaps ==
  ASSUME TypeOK, RowInv, TypeOK', NEW j, \A k \in Jobs : k # j => Same(k),
         \A k \in Jobs : Edge(k)
  PROVE  [Lifecycle!Next]_(Lifecycle!lifecycle)
<1>1. CASE \A k \in Jobs : Same(k)
  <2>1. UNCHANGED <<status, holder, transcript>>
    BY <1>1 DEF TypeOK, Same
  <2> QED
    BY <2>1, StutterMaps
<1>2. CASE j \in Jobs
  <2>1. /\ status' = [status EXCEPT ![j] = status'[j]]
        /\ transcript' = [transcript EXCEPT ![j] = transcript'[j]]
        /\ Owner' = [Owner EXCEPT ![j] = Owner'[j]]
        /\ Owner' = [k \in Jobs |-> IF k \in {j} THEN Owner'[j] ELSE Owner[k]]
        /\ status' = [k \in Jobs |-> IF k \in {j} THEN status'[j] ELSE status[k]]
    <3>1. \A k \in Jobs : k # j => /\ status'[k] = status[k] /\ holder'[k] = holder[k]
                                  /\ transcript'[k] = transcript[k]
      BY DEF Same
    <3>2. \A k \in Jobs : k # j => Owner'[k] = Owner[k]
      BY <3>1 DEF Owner
    <3>3. Owner = [k \in Jobs |-> Owner[k]] /\ Owner' = [k \in Jobs |-> Owner'[k]]
      BY DEF Owner
    <3>4. status' = [status EXCEPT ![j] = status'[j]]
      BY <3>1 DEF TypeOK
    <3>5. transcript' = [transcript EXCEPT ![j] = transcript'[j]]
      BY <3>1 DEF TypeOK
    <3>6. Owner' = [Owner EXCEPT ![j] = Owner'[j]]
      BY <3>2, <3>3
    <3>7. Owner' = [k \in Jobs |-> IF k \in {j} THEN Owner'[j] ELSE Owner[k]]
      BY <3>2, <3>3
    <3>8. status' = [k \in Jobs |-> IF k \in {j} THEN status'[j] ELSE status[k]]
      BY <3>1 DEF TypeOK
    <3> QED
      BY <3>4, <3>5, <3>6, <3>7, <3>8
  <2>2. /\ Owner[j] = IF status[j] = "claimed" THEN holder[j] ELSE NoRunner
        /\ Owner'[j] = IF status'[j] = "claimed" THEN holder'[j] ELSE NoRunner
    BY <1>2 DEF Owner
  <2>u. ASSUME Owner'[j] = Owner[j] PROVE UNCHANGED Owner
    BY <2>1, <2>u DEF Owner
  <2>t. ASSUME transcript'[j] = transcript[j] PROVE UNCHANGED transcript
    BY <2>1, <2>t DEF TypeOK
  <2>3. CASE Submitted(j)
    <3>1. Lifecycle!Submit(j)
      BY <2>1, <2>2, <2>3, <2>u, <2>t DEF Submitted, Lifecycle!Submit
    <3> QED
      BY <1>2, <3>1 DEF Lifecycle!Next
  <2>4. CASE Taken(j)
    <3>1. Lifecycle!Take(j, holder'[j]) /\ holder'[j] \in Runners
      BY <2>1, <2>2, <2>4, <2>t DEF Taken, Lifecycle!Take
    <3> QED
      BY <1>2, <3>1 DEF Lifecycle!Next
  <2>5. CASE GivenBack(j)
    <3>1. Lifecycle!GiveBack({j})
      BY <2>1, <2>2, <2>5, <2>t DEF GivenBack, Lifecycle!GiveBack
    <3> QED
      BY <1>2, <3>1 DEF Lifecycle!Next
  <2>6. CASE Failed(j)
    <3>1. Lifecycle!Fail({j})
      BY <2>1, <2>2, <2>6, <2>t DEF Failed, Lifecycle!Fail
    <3> QED
      BY <1>2, <3>1 DEF Lifecycle!Next
  <2>7. CASE Finished(j)
    <3>1. transcript[j] = NoRunner
      BY <1>2, <2>7 DEF RowInv, DoneHasTranscript, Finished
    <3>2. Lifecycle!Finish(j)
      BY <2>1, <2>2, <2>7, <3>1 DEF Finished, Lifecycle!Finish
    <3> QED
      BY <1>2, <3>2 DEF Lifecycle!Next
  <2>8. CASE Redone(j)
    <3>1. Lifecycle!Redo(j)
      BY <2>1, <2>2, <2>8 DEF Redone, Lifecycle!Redo
    <3> QED
      BY <1>2, <3>1 DEF Lifecycle!Next
  <2>9. CASE Same(j)
    BY <1>1, <1>2, <2>9
  <2> QED
    BY <1>2, <2>3, <2>4, <2>5, <2>6, <2>7, <2>8, <2>9 DEF Edge
<1> QED
  BY <1>1, <1>2

\* The two UPDATEs of the sweep give back, and fail, several rows at once.
LEMMA SweepMaps == ASSUME TypeOK, SweepReset \/ SweepFail
                   PROVE  [Lifecycle!Next]_(Lifecycle!lifecycle)
<1>1. CASE SweepReset
  <2> DEFINE S == {k \in Jobs : Expired(k) /\ ~LastAttempt(k)}
  <2>1. \A k \in S : k \in Jobs /\ status[k] = "claimed"
    BY DEF Expired
  <2>2. /\ status' = [k \in Jobs |-> IF k \in S THEN "pending" ELSE status[k]]
        /\ holder' = [k \in Jobs |-> IF k \in S THEN NoRunner ELSE holder[k]]
        /\ transcript' = transcript
    BY <1>1 DEF SweepReset, Repend
  <2> HIDE DEF S
  <2>3. Owner' = [k \in Jobs |-> IF k \in S THEN NoRunner ELSE Owner[k]]
    BY <2>2 DEF Owner
  <2>4. Lifecycle!GiveBack(S)
    BY <2>1, <2>2, <2>3 DEF Lifecycle!GiveBack
  <2> QED
    BY <2>1, <2>4 DEF Lifecycle!Next
<1>2. CASE SweepFail
  <2> DEFINE S == {k \in Jobs : Expired(k) /\ LastAttempt(k)}
  <2>1. \A k \in S : k \in Jobs /\ status[k] = "claimed"
    BY DEF Expired
  <2>2. /\ status' = [k \in Jobs |-> IF k \in S THEN "failed" ELSE status[k]]
        /\ holder' = holder
        /\ transcript' = transcript
    BY <1>2 DEF SweepFail
  <2> HIDE DEF S
  <2>3. Owner' = [k \in Jobs |-> IF k \in S THEN NoRunner ELSE Owner[k]]
    BY <2>2 DEF Owner
  <2>4. Lifecycle!Fail(S)
    BY <2>1, <2>2, <2>3 DEF Lifecycle!Fail
  <2> QED
    BY <2>1, <2>4 DEF Lifecycle!Next
<1> QED
  BY <1>1, <1>2

\* Every step of Control but the sweep's touches at most one row.
LEMMA ControlOneRow == ASSUME TypeOK, Control, ~SweepReset, ~SweepFail
                   PROVE  \E i : \A k \in Jobs : k # i => Same(k)
<1>1. ASSUME NEW j \in Jobs, Enqueue(j)
      PROVE  \E i : \A k \in Jobs : k # i => Same(k)
  <2> \A k \in Jobs : k # j => Same(k)
    BY <1>1 DEF TypeOK, Same, Enqueue, db
  <2> QED
    OBVIOUS
<1>2. ASSUME NEW j \in Jobs, GoStale(j)
      PROVE  \E i : \A k \in Jobs : k # i => Same(k)
  BY <1>2 DEF Same, GoStale, db
<1>3. ASSUME NEW j \in Jobs, Requeue(j)
      PROVE  \E i : \A k \in Jobs : k # i => Same(k)
  <2> \A k \in Jobs : k # j => Same(k)
    BY <1>3 DEF TypeOK, Same, Requeue, Repend, DropResults, db
  <2> QED
    OBVIOUS
<1>4. ASSUME NEW b \in BOOLEAN, SetPaused(b)
      PROVE  \E i : \A k \in Jobs : k # i => Same(k)
  BY <1>4 DEF Same, SetPaused, Operate, db
<1>5. ASSUME NEW n \in 0..MaxRun \cup {Unlimited}, SetRunLimit(n)
      PROVE  \E i : \A k \in Jobs : k # i => Same(k)
  BY <1>5 DEF Same, SetRunLimit, Operate, db
<1>6. ASSUME TakeGpu
      PROVE  \E i : \A k \in Jobs : k # i => Same(k)
  BY <1>6 DEF Same, TakeGpu, db
<1>7. ASSUME ReturnGpu
      PROVE  \E i : \A k \in Jobs : k # i => Same(k)
  BY <1>7 DEF Same, ReturnGpu, db
<1>8. ASSUME ShareDown
      PROVE  \E i : \A k \in Jobs : k # i => Same(k)
  BY <1>8 DEF Same, ShareDown, Fault, db
<1>9. ASSUME ShareBack
      PROVE  \E i : \A k \in Jobs : k # i => Same(k)
  BY <1>9 DEF Same, ShareBack, db
<1> QED
  BY <1>1, <1>2, <1>3, <1>4, <1>5, <1>6, <1>7, <1>8, <1>9 DEF Control

\* Every step of Process touches at most one row.
LEMMA ProcessOneRow == ASSUME NEW r \in Runners, TypeOK, Process(r)
                   PROVE  \E i : \A k \in Jobs : k # i => Same(k)
<1>1. ASSUME Boot(r)
      PROVE  \E i : \A k \in Jobs : k # i => Same(k)
  BY <1>1 DEF Same, Boot, db
<1>2. ASSUME Crash(r)
      PROVE  \E i : \A k \in Jobs : k # i => Same(k)
  BY <1>2 DEF Same, Crash, Fault, Die, db
<1>3. ASSUME Stop(r)
      PROVE  \E i : \A k \in Jobs : k # i => Same(k)
  BY <1>3 DEF Same, Stop, Fault, db
<1>4. ASSUME Exit(r)
      PROVE  \E i : \A k \in Jobs : k # i => Same(k)
  BY <1>4 DEF Same, Exit, NoFault, Die, db
<1> QED
  BY <1>1, <1>2, <1>3, <1>4 DEF Process

\* Every step of Cycle touches at most one row.
LEMMA CycleOneRow == ASSUME NEW r \in Runners, TypeOK, Cycle(r)
                 PROVE  \E i : \A k \in Jobs : k # i => Same(k)
<1>1. ASSUME Gate(r)
      PROVE  \E i : \A k \in Jobs : k # i => Same(k)
  BY <1>1 DEF Same, Gate, db
<1>2. ASSUME HoldEnds(r)
      PROVE  \E i : \A k \in Jobs : k # i => Same(k)
  BY <1>2 DEF Same, HoldEnds, db
<1>3. ASSUME ClaimNothing(r)
      PROVE  \E i : \A k \in Jobs : k # i => Same(k)
  BY <1>3 DEF Same, ClaimNothing, db
<1>4. ASSUME NEW j \in Jobs, Claim(r, j)
      PROVE  \E i : \A k \in Jobs : k # i => Same(k)
  <2> \A k \in Jobs : k # j => Same(k)
    BY <1>4 DEF TypeOK, Same, Claim, TakeRow, db
  <2> QED
    OBVIOUS
<1>5. ASSUME NEW j \in Jobs, ClaimReplyLost(r, j)
      PROVE  \E i : \A k \in Jobs : k # i => Same(k)
  <2> \A k \in Jobs : k # j => Same(k)
    BY <1>5 DEF TypeOK, Same, ClaimReplyLost, TakeRow, db
  <2> QED
    OBVIOUS
<1>6. ASSUME NEW j \in Jobs, ClaimUngated(r, j)
      PROVE  \E i : \A k \in Jobs : k # i => Same(k)
  <2> \A k \in Jobs : k # j => Same(k)
    BY <1>6 DEF TypeOK, Same, ClaimUngated, TakeRow, db
  <2> QED
    OBVIOUS
<1> QED
  BY <1>1, <1>2, <1>3, <1>4, <1>5, <1>6 DEF Cycle

\* Every step of Beat touches at most one row.
LEMMA BeatOneRow == ASSUME NEW r \in Runners, TypeOK, Beat(r)
                PROVE  \E i : \A k \in Jobs : k # i => Same(k)
<1>1. ASSUME Heartbeat(r)
      PROVE  \E i : \A k \in Jobs : k # i => Same(k)
  BY <1>1 DEF Same, Heartbeat, db
<1>2. ASSUME LateHeartbeat(r)
      PROVE  \E i : \A k \in Jobs : k # i => Same(k)
  BY <1>2 DEF Same, LateHeartbeat, db
<1> QED
  BY <1>1, <1>2 DEF Beat

\* Every step of Work touches at most one row.
LEMMA WorkOneRow == ASSUME NEW r \in Runners, TypeOK, Work(r)
                PROVE  \E i : \A k \in Jobs : k # i => Same(k)
<1>1. ASSUME Window(r)
      PROVE  \E i : \A k \in Jobs : k # i => Same(k)
  BY <1>1 DEF Same, Window, LeaveJob, Fault, NoFault, db
<1>2. ASSUME Abort(r)
      PROVE  \E i : \A k \in Jobs : k # i => Same(k)
  BY <1>2 DEF Same, Abort, db
<1>3. ASSUME TransientError(r)
      PROVE  \E i : \A k \in Jobs : k # i => Same(k)
  BY <1>3 DEF Same, TransientError, db
<1>4. ASSUME PermanentError(r)
      PROVE  \E i : \A k \in Jobs : k # i => Same(k)
  BY <1>4 DEF Same, PermanentError, db
<1>5. ASSUME SkipWrite(r)
      PROVE  \E i : \A k \in Jobs : k # i => Same(k)
  BY <1>5 DEF Same, SkipWrite, db
<1>6. ASSUME MarkDone(r)
      PROVE  \E i : \A k \in Jobs : k # i => Same(k)
  <2> \A k \in Jobs : k # ctx[r].job => Same(k)
    BY <1>6 DEF TypeOK, Same, MarkDone, db
  <2> QED
    OBVIOUS
<1>7. ASSUME MarkDoneRefused(r)
      PROVE  \E i : \A k \in Jobs : k # i => Same(k)
  BY <1>7 DEF Same, MarkDoneRefused, db
<1>8. ASSUME ReadStatus(r)
      PROVE  \E i : \A k \in Jobs : k # i => Same(k)
  BY <1>8 DEF Same, ReadStatus, LeaveJob, JoinBeat, Fault, NoFault, db
<1>9. ASSUME WriteError(r)
      PROVE  \E i : \A k \in Jobs : k # i => Same(k)
  BY <1>9 DEF Same, WriteError, SpendTry, Fault, db
<1>10. ASSUME DropCheckpoint(r)
      PROVE  \E i : \A k \in Jobs : k # i => Same(k)
  BY <1>10 DEF Same, DropCheckpoint, db
<1>11. ASSUME WriteMetrics(r)
      PROVE  \E i : \A k \in Jobs : k # i => Same(k)
  BY <1>11 DEF Same, WriteMetrics, LeaveJob, Fault, NoFault, db
<1>12. ASSUME Release(r)
      PROVE  \E i : \A k \in Jobs : k # i => Same(k)
  <2> \A k \in Jobs : k # ctx[r].job => Same(k)
    <3>1. CASE UNCHANGED db
      BY <3>1 DEF Same, db
    <3>2. CASE ~UNCHANGED db
      <4>1. /\ Repend({ctx[r].job}) /\ UNCHANGED transcript
            /\ attempts' = [attempts EXCEPT ![ctx[r].job] = Refund(@)]
        BY <1>12, <3>2 DEF Release, NotLanded
      <4> QED
        BY <4>1 DEF TypeOK, Same, Repend
    <3> QED
      BY <3>1, <3>2
  <2> QED
    OBVIOUS
<1>13. ASSUME ReleaseTransient(r)
      PROVE  \E i : \A k \in Jobs : k # i => Same(k)
  <2> \A k \in Jobs : k # ctx[r].job => Same(k)
    <3> DEFINE j == ctx[r].job
    <3>1. \/ UNCHANGED db
          \/ UNCHANGED <<attempts, transcript>> /\ (FailRow(j) \/ Repend({j}))
      BY <1>13 DEF ReleaseTransient, NotLanded
    <3>2. CASE UNCHANGED db
      BY <3>2 DEF Same, db
    <3>3. CASE UNCHANGED <<attempts, transcript>> /\ FailRow(j)
      BY <3>3 DEF TypeOK, Same, FailRow
    <3>4. CASE UNCHANGED <<attempts, transcript>> /\ Repend({j})
      BY <3>4 DEF TypeOK, Same, Repend
    <3> QED
      BY <3>1, <3>2, <3>3, <3>4
  <2> QED
    OBVIOUS
<1>14. ASSUME MarkFailed(r)
      PROVE  \E i : \A k \in Jobs : k # i => Same(k)
  <2> \A k \in Jobs : k # ctx[r].job => Same(k)
    BY <1>14 DEF TypeOK, Same, MarkFailed, FailRow, NotLanded, db
  <2> QED
    OBVIOUS
<1> QED
  BY <1>1, <1>2, <1>3, <1>4, <1>5, <1>6, <1>7, <1>8, <1>9, <1>10, <1>11, <1>12, <1>13,
     <1>14 DEF Work

\* The tables start as the lifecycle starts.
LEMMA InitMaps == Init => Lifecycle!Init
  BY DEF Init, Owner, Lifecycle!Init

\* Every step of the queue is a step of the lifecycle or leaves it alone.
LEMMA StepMaps == TypeOK /\ RowInv /\ [Next]_vars => [Lifecycle!Next]_(Lifecycle!lifecycle)
<1> SUFFICES ASSUME TypeOK, RowInv, [Next]_vars
             PROVE  [Lifecycle!Next]_(Lifecycle!lifecycle)
  OBVIOUS
<1>1. TypeOK' /\ \A k \in Jobs : Edge(k)
  BY StepType, RowEdges
<1>2. CASE SweepReset \/ SweepFail
  BY <1>2, SweepMaps
<1>3. CASE Control /\ ~SweepReset /\ ~SweepFail
  BY <1>1, <1>3, ControlOneRow, OneRowMaps
<1>4. ASSUME NEW r \in Runners, Process(r) \/ Cycle(r) \/ Beat(r) \/ Work(r)
      PROVE  [Lifecycle!Next]_(Lifecycle!lifecycle)
  BY <1>1, <1>4, ProcessOneRow, CycleOneRow, BeatOneRow, WorkOneRow, OneRowMaps
<1>5. CASE UNCHANGED vars
  BY <1>5, StutterMaps DEF vars, db
<1> QED
  BY <1>2, <1>3, <1>4, <1>5 DEF Next

\* The queue implements the lifecycle: runners, sweep and operator together
\* never finish a job twice, finish it without its holder's transcript, or
\* reopen it other than by a requeue.
THEOREM QueueImplementsLifecycle == Spec => ImplementsLifecycle
  BY InitMaps, StepMaps, TypeCorrect, RowCorrect, PTL DEF Spec, ImplementsLifecycle,
     Lifecycle!Spec

-----------------------------------------------------------------------------
(* The claim gate.                                                         *)

\* No step but a claim makes a pending row claimed.
LEMMA ClaimOnly ==
  ASSUME TypeOK, [Next]_vars, NEW j \in Jobs, status[j] = "pending", status'[j] = "claimed"
  PROVE  \E r \in Runners : Claim(r, j) \/ ClaimReplyLost(r, j) \/ ClaimUngated(r, j)
<1> USE DEF TypeOK
<1>1. ~Control
  <2>1. ~SweepReset /\ ~SweepFail
    BY DEF SweepReset, SweepFail, Repend
  <2>2. ASSUME NEW k \in Jobs, Enqueue(k) \/ Requeue(k) PROVE FALSE
    BY <2>2 DEF Enqueue, Requeue, Repend
  <2>3. ASSUME NEW k \in Jobs, GoStale(k) PROVE FALSE
    BY <2>3 DEF GoStale
  <2>4. ASSUME NEW b \in BOOLEAN, SetPaused(b) PROVE FALSE
    BY <2>4 DEF SetPaused, db
  <2>5. ASSUME NEW n \in 0..MaxRun \cup {Unlimited}, SetRunLimit(n) PROVE FALSE
    BY <2>5 DEF SetRunLimit, db
  <2>6. ~TakeGpu /\ ~ReturnGpu /\ ~ShareDown /\ ~ShareBack
    BY DEF TakeGpu, ReturnGpu, ShareDown, ShareBack, db
  <2> QED
    BY <2>1, <2>2, <2>3, <2>4, <2>5, <2>6 DEF Control
<1>2. ASSUME NEW r \in Runners, Process(r) PROVE FALSE
  BY <1>2 DEF Process, Boot, Crash, Stop, Exit, Die, db
<1>3. ASSUME NEW r \in Runners, Cycle(r)
      PROVE  Claim(r, j) \/ ClaimReplyLost(r, j) \/ ClaimUngated(r, j)
  <2>1. ~(Gate(r) \/ HoldEnds(r) \/ ClaimNothing(r))
    BY DEF Gate, HoldEnds, ClaimNothing, db
  <2>2. PICK i \in Jobs : Claim(r, i) \/ ClaimReplyLost(r, i) \/ ClaimUngated(r, i)
    BY <1>3, <2>1 DEF Cycle
  <2>3. status' = [status EXCEPT ![i] = "claimed"]
    BY <2>2 DEF Claim, ClaimReplyLost, ClaimUngated, TakeRow
  <2> QED
    BY <2>2, <2>3
<1>4. ASSUME NEW r \in Runners, Beat(r) PROVE FALSE
  BY <1>4 DEF Beat, Heartbeat, LateHeartbeat, db
<1>5. ASSUME NEW r \in Runners, Work(r) PROVE FALSE
  <2>1. status'[j] \in {"pending", "done", "failed"}
    <3>1. CASE MarkDone(r)
      BY <3>1 DEF MarkDone
    <3>2. CASE Release(r)
      <4>1. UNCHANGED status \/ Repend({ctx[r].job})
        BY <3>2 DEF Release, NotLanded, db
      <4> QED
        BY <4>1 DEF Repend
    <3>3. CASE ReleaseTransient(r)
      <4>1. UNCHANGED status \/ Repend({ctx[r].job}) \/ FailRow(ctx[r].job)
        BY <3>3 DEF ReleaseTransient, NotLanded, db
      <4> QED
        BY <4>1 DEF Repend, FailRow
    <3>4. CASE MarkFailed(r)
      BY <3>4 DEF MarkFailed, FailRow, NotLanded, db
    <3> QED
      BY <1>5, <3>1, <3>2, <3>3, <3>4 DEF Work, Window, Abort, TransientError, PermanentError,
         SkipWrite, MarkDoneRefused, ReadStatus, WriteError, DropCheckpoint, WriteMetrics, db
  <2> QED
    BY <2>1
<1>6. CASE UNCHANGED vars
  BY <1>6 DEF vars, db
<1> QED
  BY <1>1, <1>2, <1>3, <1>4, <1>5, <1>6 DEF Next

\* ClaimsAreGated: whatever else happens, a row is claimed only while the
\* pipeline is not paused, and a bounded run pays for each claim (_claim_job
\* under the control row's lock) - as long as the control row can be read.
THEOREM EveryClaimIsGated == "no_control" \notin Env /\ Spec => ClaimsAreGated
<1>1. ASSUME "no_control" \notin Env, TypeOK, [Next]_vars,
             NEW j \in Jobs, status[j] = "pending" /\ status'[j] = "claimed"
      PROVE  /\ ~paused
             /\ \/ runLimit = Unlimited /\ runLimit' = Unlimited
                \/ runLimit # Unlimited /\ runLimit > 0 /\ runLimit' + 1 = runLimit
  <2>1. PICK r \in Runners : Claim(r, j) \/ ClaimReplyLost(r, j)
    BY <1>1, ClaimOnly DEF ClaimUngated, Fault
  <2>2. GateOpen /\ SpendRun
    BY <2>1 DEF Claim, ClaimReplyLost
  <2> QED
    BY <1>1, <2>2 DEF GateOpen, SpendRun, TypeOK
<1>2. ASSUME "no_control" \notin Env
      PROVE  TypeOK /\ [Next]_vars =>
               [\A j \in Jobs : status[j] = "pending" /\ status'[j] = "claimed"
                  => /\ ~paused
                     /\ \/ runLimit = Unlimited /\ runLimit' = Unlimited
                        \/ runLimit # Unlimited /\ runLimit > 0 /\ runLimit' + 1 = runLimit]_vars
  BY <1>1, <1>2
<1>3. CASE "no_control" \notin Env
  <2>1. TypeOK /\ [Next]_vars =>
          [\A j \in Jobs : status[j] = "pending" /\ status'[j] = "claimed"
             => /\ ~paused
                /\ \/ runLimit = Unlimited /\ runLimit' = Unlimited
                   \/ runLimit # Unlimited /\ runLimit > 0 /\ runLimit' + 1 = runLimit]_vars
    BY <1>2, <1>3
  <2> QED
    BY <2>1, TypeCorrect, PTL DEF Spec, ClaimsAreGated
<1>4. CASE ~("no_control" \notin Env)
  BY <1>4
<1> QED
  BY <1>3, <1>4

-----------------------------------------------------------------------------
(* An outage of the books share.                                           *)

\* A runner that burned its attempt is down, on its way to the hold, or held
\* until the share answers.
OutageInv ==
  \A r \in Runners :
    /\ burnt[r] \in {0, 1}
    /\ burnt[r] = 1 /\ ~shareUp => \/ pc[r] \in {"down", "share"}
                                   \/ pc[r] = "idle" /\ hold[r] = "share"

\* What every step but five does to it: nothing, or one runner's own step from
\* a place where it has not burned, or is held.
LEMMA OutageStep == TypeOK /\ OutageInv /\ [Next]_vars => OutageInv'
<1> SUFFICES ASSUME TypeOK, OutageInv, [Next]_vars PROVE OutageInv'
  OBVIOUS
<1> DEFINE Kept == UNCHANGED <<burnt, shareUp, pc, hold>>
<1>0. ASSUME Kept PROVE OutageInv'
  BY <1>0 DEF OutageInv
<1>1. CASE Control
  <2>1. CASE ShareDown
    BY <2>1 DEF ShareDown, OutageInv, TypeOK
  <2>2. CASE ShareBack
    BY <2>2 DEF ShareBack, OutageInv
  <2> QED
    BY <1>0, <1>1, <2>1, <2>2 DEF Control, Enqueue, GoStale, Requeue, SweepReset, SweepFail,
       SetPaused, SetRunLimit, TakeGpu, ReturnGpu
<1>2. ASSUME NEW r \in Runners, Process(r) PROVE OutageInv'
  <2>1. CASE Boot(r)
    BY <2>1 DEF Boot, OutageInv, TypeOK
  <2>2. CASE Crash(r) \/ Exit(r)
    BY <2>2 DEF Crash, Exit, Die, OutageInv, TypeOK
  <2> QED
    BY <1>0, <1>2, <2>1, <2>2 DEF Process, Stop
<1>3. ASSUME NEW r \in Runners, Cycle(r) PROVE OutageInv'
  <2>1. CASE Gate(r)
    BY <2>1 DEF Gate, OutageInv, TypeOK
  <2>2. CASE HoldEnds(r)
    BY <2>2 DEF HoldEnds, OutageInv, TypeOK
  <2>3. CASE ClaimNothing(r)
    BY <2>3 DEF ClaimNothing, OutageInv, TypeOK
  <2>4. ASSUME NEW j \in Jobs, Claim(r, j) \/ ClaimReplyLost(r, j) \/ ClaimUngated(r, j)
        PROVE  OutageInv'
    BY <2>4 DEF Claim, ClaimReplyLost, ClaimUngated, StartJob, OutageInv, TypeOK
  <2> QED
    BY <1>3, <2>1, <2>2, <2>3, <2>4 DEF Cycle
<1>4. ASSUME NEW r \in Runners, Beat(r) PROVE OutageInv'
  BY <1>0, <1>4 DEF Beat, Heartbeat, LateHeartbeat
<1>5. ASSUME NEW r \in Runners, Work(r) PROVE OutageInv'
  <2>1. CASE TransientError(r)
    <3>1. /\ pc[r] = "work" /\ UNCHANGED <<hold, shareUp>>
          /\ \/ ~shareUp /\ pc' = [pc EXCEPT ![r] = "share"]
                /\ burnt' = [burnt EXCEPT ![r] = @ + 1]
             \/ pc' = [pc EXCEPT ![r] = "transient"] /\ UNCHANGED burnt
      BY <2>1 DEF TransientError
    <3>2. burnt[r] = 0 \/ shareUp
      BY <3>1 DEF OutageInv
    <3>3. CASE ~shareUp /\ pc' = [pc EXCEPT ![r] = "share"] /\ burnt' = [burnt EXCEPT ![r] = @ + 1]
      BY <3>1, <3>2, <3>3 DEF OutageInv, TypeOK
    <3>4. CASE pc' = [pc EXCEPT ![r] = "transient"] /\ UNCHANGED burnt
      BY <3>1, <3>2, <3>4 DEF OutageInv, TypeOK
    <3> QED
      BY <3>1, <3>3, <3>4
  <2>2. CASE ReleaseTransient(r)
    <3>1. UNCHANGED <<burnt, shareUp>> /\ pc' = [pc EXCEPT ![r] = "idle"]
          /\ hold' = [hold EXCEPT ![r] = HoldFor(pc[r])] /\ pc[r] \in {"transient", "share"}
      BY <2>2 DEF ReleaseTransient, LeaveJob
    <3> QED
      BY <3>1 DEF OutageInv, TypeOK, HoldFor
  <2>3. ASSUME ~TransientError(r), ~ReleaseTransient(r)
        PROVE  /\ UNCHANGED <<burnt, shareUp, hold>>
               /\ \E p : pc' = [pc EXCEPT ![r] = p]
               /\ pc[r] \notin {"down", "idle", "share"}
    BY <1>5, <2>3 DEF Work, Window, Abort, PermanentError, MayTry, SkipWrite, MarkDone,
       MarkDoneRefused, ReadStatus, WriteError, DropCheckpoint, WriteMetrics, Release, MarkFailed,
       LeaveJob, SpendTry
  <2>4. ASSUME ~TransientError(r), ~ReleaseTransient(r) PROVE OutageInv'
    BY <2>3, <2>4 DEF OutageInv, TypeOK
  <2> QED
    BY <2>1, <2>2, <2>4
<1>6. CASE UNCHANGED vars
  BY <1>0, <1>6 DEF vars
<1> QED
  BY <1>1, <1>2, <1>3, <1>4, <1>5, <1>6 DEF Next

\* OutageBurnsOneAttempt: an outage of the books share costs a runner process
\* one attempt of one job, since the hold that follows a transient release
\* ends only once the share answers (_release_job_transient, the main loop's
\* claim hold), whatever else happens.
THEOREM OutageCostsOne == Spec => []OutageBurnsOneAttempt
<1>1. Init => OutageInv
  BY DEF Init, OutageInv
<1>2. OutageInv => OutageBurnsOneAttempt
  BY DEF OutageInv, OutageBurnsOneAttempt
<1> QED
  BY <1>1, <1>2, OutageStep, TypeCorrect, PTL DEF Spec

-----------------------------------------------------------------------------
(* Stops and yields.                                                       *)

\* The faults and events that may cost an attempt do not happen.
Undisturbed == Env \cap {"stale", "oom", "outage", "db_down", "lost_reply"} = {}

\* A claim has cost one attempt, no runner is about to keep it, and nothing is
\* stale.
RestartInv ==
  /\ shareUp
  /\ \A j \in Jobs : /\ ~stale[j]
                     /\ status[j] = "claimed" => attempts[j] = 1
                     /\ status[j] \in {"pending", "absent"} => attempts[j] = 0
  /\ \A r \in Runners : pc[r] \notin {"transient", "share"}

LEMMA RestartStep == Undisturbed /\ TypeOK /\ RestartInv /\ [Next]_vars => RestartInv'
<1> SUFFICES ASSUME Undisturbed, TypeOK, RestartInv, [Next]_vars PROVE RestartInv'
  OBVIOUS
<1> DEFINE Kept == UNCHANGED <<status, attempts, stale, shareUp, pc>>
<1>0. ASSUME Kept PROVE RestartInv'
  BY <1>0 DEF RestartInv
<1>1. CASE Control
  <2>1. ASSUME NEW j \in Jobs, Enqueue(j) PROVE RestartInv'
    BY <2>1 DEF Enqueue, RestartInv, TypeOK
  <2>2. ASSUME NEW j \in Jobs, Requeue(j) PROVE RestartInv'
    BY <2>2 DEF Requeue, Repend, RestartInv, TypeOK
  <2>3. ~SweepReset
    BY DEF SweepReset, Expired, RestartInv
  <2>4. CASE SweepFail
    BY <2>4 DEF SweepFail, Expired, RestartInv, TypeOK
  <2>5. ~ShareDown /\ ~ShareBack /\ \A j \in Jobs : ~GoStale(j)
    BY DEF Undisturbed, ShareDown, ShareBack, GoStale, Fault, RestartInv
  <2> QED
    BY <1>0, <1>1, <2>1, <2>2, <2>3, <2>4, <2>5
       DEF Control, SetPaused, SetRunLimit, TakeGpu, ReturnGpu, db
<1>2. ASSUME NEW r \in Runners, Process(r) PROVE RestartInv'
  <2>1. /\ UNCHANGED <<status, attempts, stale, shareUp>>
        /\ \E p \in {"idle", "down"} : pc' = pc \/ pc' = [pc EXCEPT ![r] = p]
    BY <1>2 DEF Process, Boot, Crash, Stop, Exit, Die, db
  <2> QED
    BY <2>1 DEF RestartInv, TypeOK
<1>3. ASSUME NEW r \in Runners, Cycle(r) PROVE RestartInv'
  <2>1. CASE Gate(r) \/ HoldEnds(r) \/ ClaimNothing(r)
    <3>1. /\ UNCHANGED db /\ UNCHANGED shareUp
          /\ pc' = pc \/ \E p \in {"idle", "gated"} : pc' = [pc EXCEPT ![r] = p]
      BY <2>1 DEF Gate, HoldEnds, ClaimNothing
    <3>2. UNCHANGED <<status, attempts, stale, shareUp>>
      BY <3>1 DEF db
    <3> QED
      BY <3>1, <3>2 DEF RestartInv, TypeOK
  <2>2. ASSUME NEW j \in Jobs, Claim(r, j) \/ ClaimReplyLost(r, j) \/ ClaimUngated(r, j)
        PROVE  RestartInv'
    <3>1. TakeRow(r, j) /\ shareUp' = shareUp
          /\ (\E p \in {"write", "work", "idle"} : pc' = [pc EXCEPT ![r] = p])
      BY <2>2 DEF Claim, ClaimReplyLost, ClaimUngated, StartJob
    <3> QED
      BY <3>1 DEF TakeRow, Claimable, RestartInv, TypeOK
  <2> QED
    BY <1>3, <2>1, <2>2 DEF Cycle
<1>4. ASSUME NEW r \in Runners, Beat(r) PROVE RestartInv'
  <2>1. CASE Heartbeat(r)
    <3>1. ~ (stale[ctx[r].job] /\ ctx[r].job \in Jobs)
      BY DEF RestartInv
    <3>2. UNCHANGED <<status, attempts, shareUp, pc>>
          /\ (stale' = stale \/ stale' = [stale EXCEPT ![ctx[r].job] = FALSE])
      BY <2>1 DEF Heartbeat
    <3> QED
      BY <3>2 DEF RestartInv, TypeOK
  <2>2. CASE LateHeartbeat(r)
    BY <1>0, <2>2 DEF LateHeartbeat, db
  <2> QED
    BY <1>4, <2>1, <2>2 DEF Beat
<1>5. ASSUME NEW r \in Runners, Work(r) PROVE RestartInv'
  <2>0. ctx[r].job \in Jobs \cup {NoJob}
    BY CtxType
  <2>1. ~TransientError(r) /\ ~WriteError(r) /\ ~ReleaseTransient(r)
    BY DEF Undisturbed, TransientError, WriteError, ReleaseTransient, Fault, RestartInv
  <2>2. CASE MarkDone(r)
    <3>1. /\ UNCHANGED <<attempts, shareUp>> /\ pc' = [pc EXCEPT ![r] = "landed"]
          /\ status' = [status EXCEPT ![ctx[r].job] = "done"]
          /\ stale' = [stale EXCEPT ![ctx[r].job] = FALSE]
      BY <2>2 DEF MarkDone, Fault, Undisturbed
    <3> QED
      BY <3>1 DEF RestartInv, TypeOK
  <2>3. CASE Release(r)
    <3>1. CASE Held(r, ctx[r].job) /\ Repend({ctx[r].job})
               /\ attempts' = [attempts EXCEPT ![ctx[r].job] = Refund(@)]
      <4>1. UNCHANGED shareUp /\ pc' = [pc EXCEPT ![r] = "idle"]
        BY <2>3 DEF Release, LeaveJob
      <4> QED
        BY <3>1, <4>1 DEF Held, Repend, Refund, RestartInv, TypeOK
    <3>2. CASE UNCHANGED db
      <4>1. UNCHANGED shareUp /\ pc' = [pc EXCEPT ![r] = "idle"]
        BY <2>3 DEF Release, LeaveJob
      <4> QED
        BY <3>2, <4>1 DEF db, RestartInv, TypeOK
    <3> QED
      BY <2>3, <3>1, <3>2 DEF Release, NotLanded
  <2>4. CASE MarkFailed(r)
    <3>1. UNCHANGED <<attempts, shareUp>> /\ pc' = [pc EXCEPT ![r] = "idle"]
      BY <2>4 DEF MarkFailed, LeaveJob, NotLanded, db
    <3>2. FailRow(ctx[r].job) \/ UNCHANGED <<status, stale>>
      BY <2>4 DEF MarkFailed, NotLanded, db
    <3> QED
      BY <3>1, <3>2 DEF FailRow, RestartInv, TypeOK
  <2>5. ASSUME ~MarkDone(r), ~Release(r), ~MarkFailed(r)
        PROVE  /\ UNCHANGED <<status, attempts, stale, shareUp>>
               /\ \E p \in {"idle", "write", "release", "work", "fail", "landed", "refused", "metrics"} :
                    pc' = [pc EXCEPT ![r] = p]
    BY <1>5, <2>1, <2>5 DEF Work, Window, Abort, PermanentError, SkipWrite, MarkDoneRefused,
       ReadStatus, DropCheckpoint, WriteMetrics, LeaveJob, db
  <2>6. ASSUME ~MarkDone(r), ~Release(r), ~MarkFailed(r) PROVE RestartInv'
    BY <2>5, <2>6 DEF RestartInv, TypeOK
  <2> QED
    BY <2>2, <2>3, <2>4, <2>6
<1>6. CASE UNCHANGED vars
  BY <1>0, <1>6 DEF vars, db
<1> QED
  BY <1>1, <1>2, <1>3, <1>4, <1>5, <1>6 DEF Next

\* RestartsCostNothing: whatever stops, crashes, yields, pauses and requeues
\* happen, a waiting job has no attempt spent (_release_job's refund).
THEOREM RestartsAreFree == Undisturbed /\ Spec => []RestartsCostNothing
<1>1. Init => RestartInv
  BY DEF Init, RestartInv
<1>2. RestartInv => RestartsCostNothing
  BY DEF RestartInv, RestartsCostNothing
<1>3. CASE Undisturbed
  <2>1. TypeOK /\ RestartInv /\ [Next]_vars => RestartInv'
    BY <1>3, RestartStep
  <2> QED
    BY <1>1, <1>2, <2>1, TypeCorrect, PTL DEF Spec
<1>4. CASE ~Undisturbed
  BY <1>4
<1> QED
  BY <1>3, <1>4
=============================================================================
