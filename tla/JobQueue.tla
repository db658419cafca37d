------------------------------ MODULE JobQueue ------------------------------
(***************************************************************************)
(* The transcription job queue of earmark: the transcription_jobs table,   *)
(* the transcripts and ASR telemetry written when a job completes, the     *)
(* Python ASR runners that claim jobs from it (runner/runner.py), the Go   *)
(* stale-claim sweep and the operator's requeue (internal/db/db.go).       *)
(*                                                                         *)
(* A database transaction is one action.  Everything a runner does between *)
(* two transactions - a window of audio, a wait, a checkpoint file - is an *)
(* action of its own, so that other runners, the sweep and the operator    *)
(* interleave with it, and a runner can die there.                         *)
(***************************************************************************)
EXTENDS Naturals, FiniteSets

CONSTANTS
  Jobs,         \* rows of transcription_jobs that may come to exist
  Runners,      \* runner identities (RUNNER_IDENTITY)
  NoJob,        \* a runner without a job
  NoRunner,     \* claimed_by IS NULL, no transcript, no telemetry
  Windows,      \* audio windows of each job; 1 = the single-pass path
  MaxAttempts,  \* the retry cap, 3 in the code
  DbRetries,    \* RUNNER_RETRY_DB_ATTEMPTS
  Unlimited,    \* run_limit IS NULL
  MaxRun,       \* largest run_limit the operator sets (bound)
  MaxFaults,    \* faults a behaviour may contain (bound)
  MaxOps,       \* operator requeues and control changes (bound)
  Env           \* the kinds of outside events a behaviour may contain (bound)

ASSUME JobsAssumption    == NoJob \notin Jobs
ASSUME RunnersAssumption == NoRunner \notin Runners
ASSUME WindowsAssumption == Windows \in [Jobs -> Nat \ {0}]
ASSUME BoundsAssumption  == /\ MaxAttempts \in Nat \ {0}
                            /\ DbRetries \in Nat
                            /\ MaxRun \in Nat
                            /\ MaxFaults \in Nat
                            /\ MaxOps \in Nat
                            /\ Unlimited \notin Nat

VARIABLES
  status,       \* transcription_jobs.status, "absent" before the row exists
  holder,       \* claimed_by
  attempts,     \* attempts
  stale,        \* updated_at is older than STALE_JOB_TIMEOUT
  transcript,   \* the runner that wrote the job's transcripts row
  metrics,      \* the runner that wrote the ASR slice of its run_metrics row
  paused,       \* runner_control.paused
  offGpu,       \* runner_control asks for the GPU: phase='analyze' or arbiter_yield
  runLimit,     \* runner_control.run_limit
  sweep,        \* where RecoverStaleJobs is: its two UPDATEs commit separately
  pc,           \* what each runner process is doing
  ctx,          \* its job context: memory lost with the process
  ckpt,         \* its host's checkpoint files: windows saved for each job
  hold,         \* why it holds its next claim
  stopping,     \* a stop signal reached it
  lateBeat,     \* a heartbeat thread that outlived its job, about to report a lost claim
  shareUp,      \* the books share answers
  burnt,        \* ghost: attempts each runner burned on the present share outage
  faults,       \* faults left
  ops           \* operator actions left

db   == <<status, holder, attempts, stale, transcript>>
ctl  == <<paused, offGpu, runLimit>>
host == <<ckpt, lateBeat>>
vars == <<db, metrics, ctl, sweep, pc, ctx, host, hold, stopping,
          shareUp, burnt, faults, ops>>

Statuses == {"absent", "pending", "claimed", "done", "failed"}

\* Where a runner is in main(): down, at the top of the cycle, past the GPU
\* gate, transcribing, in _mark_done, after _mark_done matched no row, after
\* the transcript landed, before the telemetry write, or in the handler that
\* releases the job, gives it back after a transient error or fails it.
Steps == {"down", "idle", "gated", "work", "write", "refused", "landed",
          "metrics", "release", "transient", "share", "fail"}

InJob == Steps \ {"down", "idle", "gated"}

\* The job context: the windows finished in memory, whether checkpoints are
\* still being saved, the heartbeat's claim_lost flag and the tries spent in
\* _mark_done_with_retry.
Contexts == [job: Jobs \cup {NoJob}, done: Nat, saves: BOOLEAN,
             lost: BOOLEAN, tries: Nat]
NoCtx == [job |-> NoJob, done |-> 0, saves |-> FALSE, lost |-> FALSE, tries |-> 0]

Chunked(j) == Windows[j] > 1

\* Mutants: the guard without the claimed_by test, and without the status test.
HeldByAnyone(r, j)  == status[j] = "claimed"
HeldOnceByMe(r, j)  == holder[j] = r

\* The guard of every job-row write of a runner.
Held(r, j) == status[j] = "claimed" /\ holder[j] = r

\* _should_park on the control row.
ShouldPark == paused \/ offGpu

Fault(kind) == kind \in Env /\ faults > 0 /\ faults' = faults - 1
NoFault     == faults' = faults
Operate(kind) == kind \in Env /\ ops > 0 /\ ops' = ops - 1

-----------------------------------------------------------------------------
Init ==
  /\ status = [j \in Jobs |-> "absent"]
  /\ holder = [j \in Jobs |-> NoRunner]
  /\ attempts = [j \in Jobs |-> 0]
  /\ stale = [j \in Jobs |-> FALSE]
  /\ transcript = [j \in Jobs |-> NoRunner]
  /\ metrics = [j \in Jobs |-> NoRunner]
  /\ paused = FALSE
  /\ offGpu = FALSE
  /\ runLimit = Unlimited
  /\ sweep = "reset"
  /\ pc = [r \in Runners |-> "down"]
  /\ ctx = [r \in Runners |-> NoCtx]
  /\ ckpt = [r \in Runners |-> [j \in Jobs |-> 0]]
  /\ hold = [r \in Runners |-> "none"]
  /\ stopping = [r \in Runners |-> FALSE]
  /\ lateBeat = [r \in Runners |-> NoJob]
  /\ shareUp = TRUE
  /\ burnt = [r \in Runners |-> 0]
  /\ faults = MaxFaults
  /\ ops = MaxOps

-----------------------------------------------------------------------------
(* The job table: enqueue, staleness, the sweep and the operator.          *)

\* Mutant: off by one at the cap.
LastAttemptLate(j) == attempts[j] > MaxAttempts

LastAttempt(j) == attempts[j] >= MaxAttempts

\* Mutant: claimed_by is not cleared.
RependKeepsHolder(S) ==
  /\ status' = [j \in Jobs |-> IF j \in S THEN "pending" ELSE status[j]]
  /\ stale' = [j \in Jobs |-> IF j \in S THEN FALSE ELSE stale[j]]
  /\ UNCHANGED holder

\* Back to pending, as the sweep, the releases and the requeue write it.
Repend(S) ==
  /\ status' = [j \in Jobs |-> IF j \in S THEN "pending" ELSE status[j]]
  /\ holder' = [j \in Jobs |-> IF j \in S THEN NoRunner ELSE holder[j]]
  /\ stale' = [j \in Jobs |-> IF j \in S THEN FALSE ELSE stale[j]]

\* A new row of transcription_jobs (InsertJobIfAbsent).
Enqueue(j) ==
  /\ status[j] = "absent"
  /\ status' = [status EXCEPT ![j] = "pending"]
  /\ UNCHANGED <<holder, attempts, stale, transcript, metrics, ctl, sweep, pc, ctx,
                 host, hold, stopping, shareUp, burnt, faults, ops>>

\* STALE_JOB_TIMEOUT passes without a write to a claimed row.
GoStale(j) ==
  /\ "stale" \in Env
  /\ status[j] = "claimed" /\ ~stale[j]
  /\ stale' = [stale EXCEPT ![j] = TRUE]
  /\ UNCHANGED <<status, holder, attempts, transcript, metrics, ctl, sweep, pc, ctx,
                 host, hold, stopping, shareUp, burnt, faults, ops>>

\* Mutant: the age test is lost.
ExpiredAnyAge(j) == status[j] = "claimed"

Expired(j) == status[j] = "claimed" /\ stale[j]

\* The first UPDATE of RecoverStaleJobs: below the cap, back to pending.
SweepReset ==
  /\ sweep = "reset"
  /\ \E j \in Jobs : Expired(j)
  /\ Repend({j \in Jobs : Expired(j) /\ ~LastAttempt(j)})
  /\ sweep' = "fail"
  /\ UNCHANGED <<attempts, transcript, metrics, ctl, pc, ctx, host, hold, stopping,
                 shareUp, burnt, faults, ops>>

\* Its second UPDATE, committed on its own: at the cap, failed.  claimed_by
\* stays: only the status moves.
SweepFail ==
  /\ sweep = "fail"
  /\ LET S == {j \in Jobs : Expired(j) /\ LastAttempt(j)}
     IN /\ status' = [j \in Jobs |-> IF j \in S THEN "failed" ELSE status[j]]
        /\ stale' = [j \in Jobs |-> IF j \in S THEN FALSE ELSE stale[j]]
  /\ sweep' = "reset"
  /\ UNCHANGED <<holder, attempts, transcript, metrics, ctl, pc, ctx, host, hold,
                 stopping, shareUp, burnt, faults, ops>>

\* Mutant: only the telemetry goes.
DropTelemetry(j) ==
  /\ metrics' = [metrics EXCEPT ![j] = NoRunner]
  /\ UNCHANGED transcript

DropResults(j) ==
  /\ transcript' = [transcript EXCEPT ![j] = NoRunner]
  /\ metrics' = [metrics EXCEPT ![j] = NoRunner]

\* requeue: one transaction that resets the job whatever its status, deletes
\* its transcript and its run_metrics row.
Requeue(j) ==
  /\ Operate("requeue")
  /\ status[j] # "absent"
  /\ Repend({j})
  /\ attempts' = [attempts EXCEPT ![j] = 0]
  /\ DropResults(j)
  /\ UNCHANGED <<ctl, sweep, pc, ctx, host, hold, stopping, shareUp, burnt, faults>>

\* SetPaused, SetRunLimit: the operator's controls.
SetPaused(b) ==
  /\ Operate("pause")
  /\ paused' = b
  /\ UNCHANGED <<db, metrics, offGpu, runLimit, sweep, pc, ctx, host, hold, stopping,
                 shareUp, burnt, faults>>

SetRunLimit(n) ==
  /\ Operate("limit")
  /\ runLimit' = n
  /\ UNCHANGED <<db, metrics, paused, offGpu, sweep, pc, ctx, host, hold, stopping,
                 shareUp, burnt, faults>>

\* phase or arbiter_yield flips.  Unbounded: the gate may flap forever.
TakeGpu ==
  /\ "park" \in Env /\ ~offGpu /\ offGpu' = TRUE
  /\ UNCHANGED <<db, metrics, paused, runLimit, sweep, pc, ctx, host, hold, stopping,
                 shareUp, burnt, faults, ops>>

ReturnGpu ==
  /\ offGpu /\ offGpu' = FALSE
  /\ UNCHANGED <<db, metrics, paused, runLimit, sweep, pc, ctx, host, hold, stopping,
                 shareUp, burnt, faults, ops>>

ShareDown ==
  /\ Fault("outage")
  /\ shareUp /\ shareUp' = FALSE
  /\ burnt' = [r \in Runners |-> 0]
  /\ UNCHANGED <<db, metrics, ctl, sweep, pc, ctx, host, hold, stopping, ops>>

ShareBack ==
  /\ ~shareUp /\ shareUp' = TRUE
  /\ UNCHANGED <<db, metrics, ctl, sweep, pc, ctx, host, hold, stopping, burnt, faults, ops>>

-----------------------------------------------------------------------------
(* One runner process.                                                     *)

\* The process dies, or ends: memory goes, the host's checkpoints stay.
Die(r) ==
  /\ pc' = [pc EXCEPT ![r] = "down"]
  /\ ctx' = [ctx EXCEPT ![r] = NoCtx]
  /\ hold' = [hold EXCEPT ![r] = "none"]
  /\ stopping' = [stopping EXCEPT ![r] = FALSE]
  /\ lateBeat' = [lateBeat EXCEPT ![r] = NoJob]
  /\ UNCHANGED <<db, metrics, ctl, sweep, ckpt, shareUp, burnt, ops>>

Boot(r) ==
  /\ pc[r] = "down"
  /\ pc' = [pc EXCEPT ![r] = "idle"]
  /\ burnt' = [burnt EXCEPT ![r] = 0]
  /\ UNCHANGED <<db, metrics, ctl, sweep, ctx, host, hold, stopping, shareUp, faults, ops>>

Crash(r) ==
  /\ Fault("crash")
  /\ pc[r] # "down"
  /\ Die(r)

\* SIGTERM: only sets a flag, except while the provider transcribes.
Stop(r) ==
  /\ Fault("stop")
  /\ pc[r] # "down" /\ ~stopping[r]
  /\ stopping' = [stopping EXCEPT ![r] = TRUE]
  /\ UNCHANGED <<db, metrics, ctl, sweep, pc, ctx, host, hold, shareUp, burnt, ops>>

Exit(r) ==
  /\ pc[r] = "idle" /\ stopping[r]
  /\ NoFault
  /\ Die(r)

\* The cycle's GPU gate and claim hold: parked or held, the runner claims
\* nothing this cycle and polls again.
Gate(r) ==
  /\ pc[r] = "idle" /\ ~stopping[r]
  /\ ~ShouldPark
  /\ hold[r] = "none"
  /\ pc' = [pc EXCEPT ![r] = "gated"]
  /\ UNCHANGED <<db, metrics, ctl, sweep, ctx, host, hold, stopping, shareUp, burnt,
                 faults, ops>>

\* The backoff of a transient release runs out; a hold for the books share
\* ends only once the share answers.
HoldEnds(r) ==
  /\ pc[r] = "idle"
  /\ hold[r] = "backoff" \/ (hold[r] = "share" /\ shareUp)
  /\ hold' = [hold EXCEPT ![r] = "none"]
  /\ UNCHANGED <<db, metrics, ctl, sweep, pc, ctx, host, stopping, shareUp, burnt,
                 faults, ops>>

\* Mutant: failed jobs are retried, whatever their attempts.
ClaimableAgain(j) == status[j] \in {"pending", "failed"}

Claimable(j) == status[j] = "pending" /\ attempts[j] < MaxAttempts

\* Mutant: an exhausted run still claims.
GateOpenAtZero == ~paused

GateOpen == ~paused /\ (runLimit # Unlimited => runLimit > 0)

\* _CLAIM_SQL: SKIP LOCKED may pass over older rows, so any claimable row.
TakeRow(r, j) ==
  /\ Claimable(j)
  /\ status' = [status EXCEPT ![j] = "claimed"]
  /\ holder' = [holder EXCEPT ![j] = r]
  /\ attempts' = [attempts EXCEPT ![j] = @ + 1]
  /\ stale' = [stale EXCEPT ![j] = FALSE]

SpendRun == runLimit' = IF runLimit = Unlimited THEN Unlimited ELSE runLimit - 1

\* Mutant: the checkpoint is ignored.
ResumeFromStart(r, j) == 0

ResumeAt(r, j) == ckpt[r][j]

\* A job starts at its checkpoint's next window; with every window saved
\* there is nothing left to transcribe.
StartJob(r, j) ==
  /\ ctx' = [ctx EXCEPT ![r] = [job |-> j, done |-> ResumeAt(r, j), saves |-> Chunked(j),
                                lost |-> FALSE, tries |-> 0]]
  /\ pc' = [pc EXCEPT ![r] = IF ResumeAt(r, j) = Windows[j] THEN "write" ELSE "work"]

\* _claim_job under the control row's lock, the row claimed and the reply seen.
Claim(r, j) ==
  /\ pc[r] = "gated"
  /\ GateOpen
  /\ TakeRow(r, j) /\ SpendRun /\ StartJob(r, j)
  /\ UNCHANGED <<transcript, metrics, paused, offGpu, sweep, host, hold, stopping,
                 shareUp, burnt, faults, ops>>

\* The commit landed but its connection died: the rollback raises, the cycle
\* ends, and nobody works on the claimed row.
ClaimReplyLost(r, j) ==
  /\ Fault("lost_reply")
  /\ pc[r] = "gated"
  /\ GateOpen
  /\ TakeRow(r, j) /\ SpendRun
  /\ pc' = [pc EXCEPT ![r] = "idle"]
  /\ UNCHANGED <<transcript, metrics, paused, offGpu, sweep, ctx, host, hold, stopping,
                 shareUp, burnt, ops>>

\* The control row cannot be read or locked: _claim_one, ungated.
ClaimUngated(r, j) ==
  /\ Fault("no_control")
  /\ pc[r] = "gated"
  /\ TakeRow(r, j) /\ StartJob(r, j)
  /\ UNCHANGED <<transcript, metrics, ctl, sweep, host, hold, stopping, shareUp, burnt, ops>>

\* Gate closed since, or no row to claim.
ClaimNothing(r) ==
  /\ pc[r] = "gated"
  /\ ~GateOpen \/ ~\E j \in Jobs : Claimable(j)
  /\ pc' = [pc EXCEPT ![r] = "idle"]
  /\ UNCHANGED <<db, metrics, ctl, sweep, ctx, host, hold, stopping, shareUp, burnt,
                 faults, ops>>

-----------------------------------------------------------------------------
(* The job's heartbeat thread.                                             *)

Beating(r) == pc[r] \in InJob

\* One stamp of the heartbeat thread: it keeps a row this runner holds fresh;
\* a row that is no longer its own sets claim_lost and ends the thread.
Heartbeat(r) ==
  LET j == ctx[r].job IN
  /\ Beating(r) /\ ~ctx[r].lost
  /\ IF Held(r, j)
       THEN stale[j] /\ stale' = [stale EXCEPT ![j] = FALSE] /\ UNCHANGED ctx
       ELSE ctx' = [ctx EXCEPT ![r].lost = TRUE] /\ UNCHANGED stale
  /\ UNCHANGED <<status, holder, attempts, transcript, metrics, ctl, sweep, pc, host, hold,
                 stopping, shareUp, burnt, faults, ops>>

\* A thread that join(timeout=5) left behind reports at last: it compares the
\* active job's id with its own, not the claim it was started for.
LateHeartbeat(r) ==
  /\ lateBeat[r] # NoJob
  /\ ctx' = [ctx EXCEPT ![r].lost = @ \/ (ctx[r].job = lateBeat[r])]
  /\ lateBeat' = [lateBeat EXCEPT ![r] = NoJob]
  /\ UNCHANGED <<db, metrics, ctl, sweep, pc, ckpt, hold, stopping, shareUp, burnt,
                 faults, ops>>

\* The job's finally block: the context goes, back to the top of the cycle.
LeaveJob(r) ==
  /\ pc' = [pc EXCEPT ![r] = "idle"]
  /\ ctx' = [ctx EXCEPT ![r] = NoCtx]

\* Once the row is given up the thread is joined - or it has just found the
\* row no longer claimed, hangs, and is left behind.
JoinBeat(r) ==
  \/ lateBeat' = lateBeat /\ NoFault
  \/ /\ Fault("late_beat")
     /\ ~ctx[r].lost
     /\ lateBeat' = [lateBeat EXCEPT ![r] = ctx[r].job]

-----------------------------------------------------------------------------
(* Transcribing, window by window.                                         *)

\* Mutant: yield whether or not the window was saved.
YieldAnyway(saved) == ShouldPark

YieldNow(saved) == saved /\ ShouldPark

\* One finished window, in the order of _transcribe_chunked: save the
\* checkpoint (a failed save turns saving off), stop if the claim was lost,
\* yield the GPU - only with a durable checkpoint - or go on.
Window(r) ==
  LET j    == ctx[r].job
      n    == ctx[r].done + 1
      more == n < Windows[j]
  IN
  /\ pc[r] = "work" /\ ~stopping[r]
  /\ \E saved \in BOOLEAN :
       /\ saved => ctx[r].saves
       /\ IF ctx[r].saves /\ ~saved THEN Fault("save_fails") ELSE NoFault
       /\ ckpt' = IF saved THEN [ckpt EXCEPT ![r][j] = n] ELSE ckpt
       /\ IF more /\ ctx[r].lost
            THEN LeaveJob(r)
            ELSE /\ ctx' = [ctx EXCEPT ![r].done = n, ![r].saves = saved]
                 /\ pc' = [pc EXCEPT ![r] =
                             IF ~more THEN "write"
                             ELSE IF YieldNow(saved) THEN "release" ELSE "work"]
  /\ UNCHANGED <<db, metrics, ctl, sweep, lateBeat, hold, stopping, shareUp, burnt, ops>>

\* The stop signal aborts the transcription, or the wait before a retry of
\* the final write.
Abort(r) ==
  /\ stopping[r]
  /\ pc[r] = "work" \/ (pc[r] = "write" /\ ctx[r].tries > 0)
  /\ pc' = [pc EXCEPT ![r] = "release"]
  /\ UNCHANGED <<db, metrics, ctl, sweep, ctx, host, hold, stopping, shareUp, burnt,
                 faults, ops>>

\* A transient failure whose retries in place ran out: an I/O error while the
\* books share is down, or a CUDA OOM or a timeout.
TransientError(r) ==
  /\ pc[r] = "work" /\ ~stopping[r]
  /\ \/ /\ ~shareUp
        /\ pc' = [pc EXCEPT ![r] = "share"]
        /\ burnt' = [burnt EXCEPT ![r] = @ + 1]
     \/ /\ "oom" \in Env
        /\ pc' = [pc EXCEPT ![r] = "transient"]
        /\ UNCHANGED burnt
  /\ UNCHANGED <<db, metrics, ctl, sweep, ctx, host, hold, stopping, shareUp, faults, ops>>

\* _retry_wait between two tries of the final write watches the stop signal.
MayTry(r) == pc[r] = "write" /\ (ctx[r].tries = 0 \/ ~stopping[r])

\* A permanent failure: bad audio, or a constraint violation in _mark_done.
PermanentError(r) ==
  /\ "bad_audio" \in Env
  /\ (pc[r] = "work" /\ ~stopping[r]) \/ MayTry(r)
  /\ pc' = [pc EXCEPT ![r] = "fail"]
  /\ UNCHANGED <<db, metrics, ctl, sweep, ctx, host, hold, stopping, shareUp, burnt,
                 faults, ops>>

-----------------------------------------------------------------------------
(* Writing the transcript: _mark_done_with_retry.                          *)

\* On a retry, a job already done means the earlier commit landed.
AlreadyDone(r) == ctx[r].tries > 0 /\ status[ctx[r].job] = "done"

SkipWrite(r) ==
  /\ MayTry(r) /\ AlreadyDone(r)
  /\ pc' = [pc EXCEPT ![r] = "landed"]
  /\ UNCHANGED <<db, metrics, ctl, sweep, ctx, host, hold, stopping, shareUp, burnt,
                 faults, ops>>

\* One more try spent; past the budget the error goes to the main loop.
SpendTry(r) ==
  /\ ctx' = [ctx EXCEPT ![r].tries = @ + 1]
  /\ pc' = [pc EXCEPT ![r] = IF ctx[r].tries + 1 > DbRetries THEN "transient" ELSE "write"]

\* The guarded transaction: INSERT the transcript unless one is there, UPDATE
\* the job to done.  The commit's reply may be lost.
MarkDone(r) ==
  LET j == ctx[r].job IN
  /\ MayTry(r) /\ ~AlreadyDone(r)
  /\ Held(r, j)
  /\ transcript' = [transcript EXCEPT ![j] = IF @ = NoRunner THEN r ELSE @]
  /\ status' = [status EXCEPT ![j] = "done"]
  /\ stale' = [stale EXCEPT ![j] = FALSE]
  /\ \/ NoFault /\ pc' = [pc EXCEPT ![r] = "landed"] /\ UNCHANGED ctx
     \/ Fault("lost_reply") /\ SpendTry(r)
  /\ UNCHANGED <<holder, attempts, metrics, ctl, sweep, host, hold, stopping, shareUp,
                 burnt, ops>>

\* The UPDATE matches no row: everything is rolled back.
MarkDoneRefused(r) ==
  /\ MayTry(r) /\ ~AlreadyDone(r)
  /\ ~Held(r, ctx[r].job)
  /\ pc' = [pc EXCEPT ![r] = "refused"]
  /\ UNCHANGED <<db, metrics, ctl, sweep, ctx, host, hold, stopping, shareUp, burnt,
                 faults, ops>>

\* After the rollback the status is read: done counts as success, anything
\* else is _ClaimLost, which leaves the row and the checkpoint alone.
ReadStatus(r) ==
  /\ pc[r] = "refused"
  /\ IF status[ctx[r].job] = "done"
       THEN pc' = [pc EXCEPT ![r] = "landed"] /\ UNCHANGED <<ctx, lateBeat>> /\ NoFault
       ELSE LeaveJob(r) /\ JoinBeat(r)
  /\ UNCHANGED <<db, metrics, ctl, sweep, ckpt, hold, stopping, shareUp, burnt, ops>>

\* The connection fails before anything landed.
WriteError(r) ==
  /\ Fault("db_down")
  /\ MayTry(r) \/ pc[r] = "refused"
  /\ SpendTry(r)
  /\ UNCHANGED <<db, metrics, ctl, sweep, host, hold, stopping, shareUp, burnt, ops>>

\* The checkpoint goes once the transcript is in.
DropCheckpoint(r) ==
  /\ pc[r] = "landed"
  /\ ckpt' = [ckpt EXCEPT ![r][ctx[r].job] = 0]
  /\ pc' = [pc EXCEPT ![r] = "metrics"]
  /\ UNCHANGED <<db, metrics, ctl, sweep, ctx, lateBeat, hold, stopping, shareUp, burnt,
                 faults, ops>>

\* _write_run_metrics: an upsert keyed on the job, after the commit,
\* swallowing any error.
WriteMetrics(r) ==
  /\ pc[r] = "metrics"
  /\ \/ NoFault /\ metrics' = [metrics EXCEPT ![ctx[r].job] = r]
     \/ Fault("db_down") /\ UNCHANGED metrics
  /\ LeaveJob(r)
  /\ UNCHANGED <<db, ctl, sweep, host, hold, stopping, shareUp, burnt, ops>>

-----------------------------------------------------------------------------
(* Giving the job up.                                                      *)

\* A job-row write that cannot land even on a fresh connection leaves the row
\* to the sweep.
NotLanded == Fault("db_down") /\ UNCHANGED db

\* Mutant: a release costs the attempt.
KeepAttempt(n) == n

Refund(n) == IF n > 0 THEN n - 1 ELSE 0

\* _release_job: pending again, the attempt refunded.
Release(r) ==
  LET j == ctx[r].job IN
  /\ pc[r] = "release"
  /\ \/ /\ Held(r, j)
        /\ Repend({j})
        /\ attempts' = [attempts EXCEPT ![j] = Refund(@)]
        /\ UNCHANGED transcript
        /\ JoinBeat(r)
     \/ ~Held(r, j) /\ UNCHANGED db /\ JoinBeat(r)
     \/ NotLanded /\ UNCHANGED lateBeat
  /\ LeaveJob(r)
  /\ UNCHANGED <<metrics, ctl, sweep, ckpt, hold, stopping, shareUp, burnt, ops>>

\* Mutant: the share is not waited for.
HoldBackoff(step) == "backoff"

HoldFor(step) == IF step = "share" THEN "share" ELSE "backoff"

\* The UPDATE that fails a job; claimed_by stays.
FailRow(j) ==
  /\ status' = [status EXCEPT ![j] = "failed"]
  /\ stale' = [stale EXCEPT ![j] = FALSE]
  /\ UNCHANGED holder

\* _release_job_transient: the attempt kept; the last attempt fails the job.
\* The next claim is held, for an I/O error until the share answers.
ReleaseTransient(r) ==
  LET j == ctx[r].job IN
  /\ pc[r] \in {"transient", "share"}
  /\ \/ /\ Held(r, j)
        /\ IF LastAttempt(j) THEN FailRow(j) ELSE Repend({j})
        /\ UNCHANGED <<attempts, transcript>>
        /\ JoinBeat(r)
     \/ ~Held(r, j) /\ UNCHANGED db /\ JoinBeat(r)
     \/ NotLanded /\ UNCHANGED lateBeat
  /\ hold' = [hold EXCEPT ![r] = HoldFor(pc[r])]
  /\ LeaveJob(r)
  /\ UNCHANGED <<metrics, ctl, sweep, ckpt, stopping, shareUp, burnt, ops>>

\* _mark_failed, then the checkpoint goes whether or not the write landed.
MarkFailed(r) ==
  LET j == ctx[r].job IN
  /\ pc[r] = "fail"
  /\ \/ /\ Held(r, j)
        /\ FailRow(j)
        /\ UNCHANGED <<attempts, transcript>>
        /\ JoinBeat(r)
     \/ ~Held(r, j) /\ UNCHANGED db /\ JoinBeat(r)
     \/ NotLanded /\ UNCHANGED lateBeat
  /\ ckpt' = [ckpt EXCEPT ![r][j] = 0]
  /\ LeaveJob(r)
  /\ UNCHANGED <<metrics, ctl, sweep, hold, stopping, shareUp, burnt, ops>>

-----------------------------------------------------------------------------
Control ==
  \/ \E j \in Jobs : Enqueue(j) \/ GoStale(j) \/ Requeue(j)
  \/ SweepReset \/ SweepFail
  \/ \E b \in BOOLEAN : SetPaused(b)
  \/ \E n \in 0..MaxRun \cup {Unlimited} : SetRunLimit(n)
  \/ TakeGpu \/ ReturnGpu \/ ShareDown \/ ShareBack

Process(r) == Boot(r) \/ Crash(r) \/ Stop(r) \/ Exit(r)

Cycle(r) ==
  \/ Gate(r) \/ HoldEnds(r) \/ ClaimNothing(r)
  \/ \E j \in Jobs : Claim(r, j) \/ ClaimReplyLost(r, j) \/ ClaimUngated(r, j)

Beat(r) == Heartbeat(r) \/ LateHeartbeat(r)

Work(r) ==
  \/ Window(r) \/ Abort(r) \/ TransientError(r) \/ PermanentError(r)
  \/ SkipWrite(r) \/ MarkDone(r) \/ MarkDoneRefused(r) \/ ReadStatus(r) \/ WriteError(r)
  \/ DropCheckpoint(r) \/ WriteMetrics(r)
  \/ Release(r) \/ ReleaseTransient(r) \/ MarkFailed(r)

Next ==
  \/ Control
  \/ \E r \in Runners : Process(r) \/ Cycle(r) \/ Beat(r) \/ Work(r)

Spec == Init /\ [][Next]_vars

\* The worker's sweep runs every five minutes; a service manager restarts a
\* runner; a runner keeps polling and finishes what it started; the games
\* that took the GPU, and an outage of the share, end; a claim nobody works
\* under grows old.  A gate that keeps flapping is seen open by some poll,
\* hence the strong fairness of Gate.
Abandoned(j) == \A r \in Runners : ctx[r].job = j => ~Held(r, j)

Fairness ==
  /\ WF_vars(SweepReset) /\ WF_vars(SweepFail)
  /\ WF_vars(ReturnGpu) /\ WF_vars(ShareBack)
  /\ \A j \in Jobs : WF_vars(Abandoned(j) /\ GoStale(j))
  /\ \A r \in Runners :
       /\ WF_vars(Boot(r)) /\ WF_vars(Exit(r)) /\ WF_vars(HoldEnds(r))
       /\ SF_vars(Gate(r))
       /\ WF_vars(ClaimNothing(r) \/ \E j \in Jobs : Claim(r, j))
       /\ WF_vars(Work(r))

FairSpec == Spec /\ Fairness

-----------------------------------------------------------------------------
(* Properties.                                                             *)

\* Every variable keeps to its type: the shape of the tables and processes.
TypeOK ==
  /\ status \in [Jobs -> Statuses]
  /\ holder \in [Jobs -> Runners \cup {NoRunner}]
  /\ attempts \in [Jobs -> 0..MaxAttempts]
  /\ stale \in [Jobs -> BOOLEAN]
  /\ transcript \in [Jobs -> Runners \cup {NoRunner}]
  /\ metrics \in [Jobs -> Runners \cup {NoRunner}]
  /\ paused \in BOOLEAN /\ offGpu \in BOOLEAN
  /\ runLimit \in Nat \cup {Unlimited}
  /\ sweep \in {"reset", "fail"}
  /\ pc \in [Runners -> Steps]
  /\ ctx \in [Runners -> Contexts]
  /\ ckpt \in [Runners -> [Jobs -> Nat]]
  /\ hold \in [Runners -> {"none", "backoff", "share"}]
  /\ stopping \in [Runners -> BOOLEAN]
  /\ lateBeat \in [Runners -> Jobs \cup {NoJob}]
  /\ shareUp \in BOOLEAN
  /\ burnt \in [Runners -> Nat]
  /\ faults \in Nat /\ ops \in Nat

\* A job is done exactly when its transcript is stored: _mark_done writes both
\* or neither, a lost claim rolls both back, and a requeue takes both away.
DoneHasTranscript == \A j \in Jobs : status[j] = "done" <=> transcript[j] # NoRunner

\* No row is ever left pending at the attempt cap, where neither a claim nor
\* the sweep would pick it up again (the transient release's own reason).
NoStrandedPending == \A j \in Jobs : status[j] = "pending" => attempts[j] < MaxAttempts

\* A claim has a holder and spent an attempt; a row that waits has no holder.
\* What the columns of a row owe each other after any mix of the writers.
ClaimHasHolder == \A j \in Jobs :
  /\ status[j] = "claimed" => holder[j] # NoRunner /\ attempts[j] > 0
  /\ status[j] \in {"absent", "pending"} => holder[j] = NoRunner
  /\ status[j] = "absent" => attempts[j] = 0

\* A runner whose claim was swept or requeued never touches the row again,
\* whatever it still does: finish, release, fail, retry a write.
LostClaimWritesNothing ==
  [][\A r \in Runners : \A j \in Jobs :
       ctx[r].job = j /\ ~(status[j] = "claimed" /\ holder[j] = r)
       /\ <<pc[r], ctx[r]>>' # <<pc[r], ctx[r]>>
         => <<status[j], holder[j], attempts[j], transcript[j]>>' =
            <<status[j], holder[j], attempts[j], transcript[j]>>]_vars

\* A fresh claim is ended only by the runner working under it or by the
\* operator: neither the sweep nor another runner takes it.
FreshClaimIsSafe ==
  [][\A j \in Jobs : \A r \in Runners :
       Held(r, j) /\ ~stale[j] /\ ~Held(r, j)'
         => ops' < ops \/ (ctx[r].job = j /\ <<pc[r], ctx[r]>>' # <<pc[r], ctx[r]>>)]_vars

\* A claim is taken only while the pipeline is not paused, and a bounded run
\* pays for every claim, so N claims is what a run of N gets - as long as the
\* control row can be read.
ClaimsAreGated ==
  [][\A j \in Jobs : status[j] = "pending" /\ status'[j] = "claimed"
       => /\ ~paused
          /\ \/ runLimit = Unlimited /\ runLimit' = Unlimited
             \/ runLimit # Unlimited /\ runLimit > 0 /\ runLimit' + 1 = runLimit]_vars

\* A mid-job yield loses no finished window: the job is given back only when
\* the checkpoint on this host holds everything transcribed so far.
YieldKeepsWindows ==
  [][\A r \in Runners :
       pc[r] = "work" /\ pc'[r] = "release" /\ ~stopping[r]
         => ckpt'[r][ctx[r].job] = ctx[r].done + 1]_vars

\* An outage of the books share costs each runner process one attempt of one
\* job, not an attempt of every queued job.
OutageBurnsOneAttempt == \A r \in Runners : burnt[r] <= 1

\* Stops and GPU yields are not the job's fault: with no other disturbance a
\* waiting job never has an attempt spent.
RestartsCostNothing == \A j \in Jobs : status[j] = "pending" => attempts[j] = 0

\* With the pipeline open from some point on, every enqueued job is in the end
\* done or failed, however the GPU gate flaps and claims are lost.
EveryJobSettles ==
  <>[]GateOpen => <>[](\A j \in Jobs : status[j] \in {"absent", "done", "failed"})

\* The log line of _mark_done for a job found already done, "an earlier
\* commit of this very write landed": success means the transcript is ours.
SuccessIsMine == \A r \in Runners :
  pc[r] = "landed" /\ status[ctx[r].job] = "done" => transcript[ctx[r].job] = r

\* A run_metrics row never describes a transcript that a requeue deleted.
NoMetricsOfDeletedTranscript ==
  \A j \in Jobs : metrics[j] # NoRunner => transcript[j] # NoRunner

\* claim_lost is set when the row is no longer claimed by this runner.
ClaimLostIsTrue == \A r \in Runners :
  ctx[r].job # NoJob /\ ctx[r].lost => ~Held(r, ctx[r].job)

-----------------------------------------------------------------------------
(* The queue implements the lifecycle it promises: the job's row is its    *)
(* phase, claimed_by is its owner while it is claimed, the transcript its  *)
(* result.                                                                 *)
Owner == [j \in Jobs |-> IF status[j] = "claimed" THEN holder[j] ELSE NoRunner]

Lifecycle == INSTANCE JobLifecycle
               WITH Workers <- Runners, Nobody <- NoRunner,
                    phase <- status, owner <- Owner, result <- transcript

\* Every behaviour of the queue is one of the lifecycle: runners, sweep and
\* operator together never finish a job twice, finish it without its holder's
\* transcript, or reopen it other than by a requeue.
ImplementsLifecycle == Lifecycle!Spec
=============================================================================
