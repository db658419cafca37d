-------------------------- MODULE BatchCoordinator --------------------------
(***************************************************************************)
(* `earmark batch`: the coordinator that drives runner_control through      *)
(* transcribe and analyze phases, under one advisory lock, and puts the    *)
(* operator's run budget back when it ends (internal/batch/batch.go,       *)
(* internal/db/batchlock.go, the run_limit and phase writes of             *)
(* internal/db/db.go).                                                     *)
(*                                                                         *)
(* Every statement a coordinator sends is one action, so another           *)
(* coordinator, the runner, the worker or the operator may act between any *)
(* two of them: the status poll is two actions, because it reads the job   *)
(* counts and the run budget in two statements.                            *)
(***************************************************************************)
EXTENDS Integers, FiniteSets

CONSTANTS
  Coordinators,  \* processes that may run `earmark batch`
  NoOne,         \* nobody
  BatchSize,     \* --batch-size
  Budgets,       \* run limits the operator sets
  MaxJobs,       \* jobs that may be enqueued (bound)
  MaxRuns,       \* coordinator runs that may start (bound)
  MaxSets,       \* limits the operator may set (bound)
  MaxFaults,     \* faults a behaviour may contain (bound)
  Env            \* the kinds of faults a behaviour may contain (bound)

NoLimit == -1  \* run_limit NULL

ASSUME NoOneAssumption   == NoOne \notin Coordinators
ASSUME SizeAssumption    == BatchSize \in Nat \ {0}
ASSUME BudgetsAssumption == Budgets \subseteq Nat \cup {NoLimit}
ASSUME BoundsAssumption  == {MaxJobs, MaxRuns, MaxSets, MaxFaults} \subseteq Nat

VARIABLES
  phase,    \* runner_control.phase
  limit,    \* runner_control.run_limit
  pending,  \* jobs waiting
  runner,   \* the ASR runner: polling, past its gate, or in a job
  backlog,  \* transcripts without chunks
  lock,     \* the session that holds the batch lock
  pc,       \* where each coordinator is in Run
  restore,  \* each coordinator's restoreLimit
  first,    \* the phase each coordinator found
  seen,     \* the job counts of each coordinator's last poll
  budget,   \* the operator's run budget (history)
  owner,    \* whose budget the row holds, the operator's or a run's (history)
  residue,  \* a run ended and left its values in the row (history)
  toCome,   \* jobs still to be enqueued
  runs,     \* coordinator runs still to start
  sets,     \* limits the operator may still set
  faults    \* faults left

control == <<phase, limit>>
queue   == <<pending, runner, backlog, toCome>>
local   == <<restore, first, seen>>
history == <<budget, owner, residue>>
bounds  == <<runs, sets, faults>>
vars == <<control, queue, lock, pc, local, history, bounds>>

Phases == {"idle", "transcribe", "analyze"}
Limits == Nat \cup {NoLimit}

\* The places of a run that owns the run budget, then of its cleanup.
Body    == {"resumeZero", "resumeAnalyze", "drain", "check", "games", "setA", "setN",
            "pollCounts", "pollLimit", "setB"}
Cleanup == {"lookup", "restorePhase", "restoreLimit"}
Places  == {"off", "lock", "read", "swap", "release"} \cup Body \cup Cleanup

InRun(c) == pc[c] \notin {"off", "lock"}
Owned    == \E c \in Coordinators : pc[c] \in Body \cup Cleanup
Quiet    == \A c \in Coordinators : ~InRun(c)
Claimed  == IF runner = "job" THEN 1 ELSE 0

Fault(kind) == kind \in Env /\ faults > 0 /\ faults' = faults - 1

GoTo(c, place) == pc' = [pc EXCEPT ![c] = place]

\* Mutant: no limit is counted down, too.
SpendAlways(l) == l - 1

\* A job claimed under a budget uses one unit of it.
Spend(l) == IF l = NoLimit THEN NoLimit ELSE l - 1

Init ==
  /\ phase = "idle" /\ limit = NoLimit
  /\ pending = 0 /\ runner = "poll" /\ backlog = 0
  /\ lock = NoOne
  /\ pc = [c \in Coordinators |-> "off"]
  /\ restore = [c \in Coordinators |-> NoLimit]
  /\ first = [c \in Coordinators |-> "idle"]
  /\ seen = [c \in Coordinators |-> [pending |-> 0, claimed |-> 0]]
  /\ budget = NoLimit /\ owner = "operator" /\ residue = FALSE
  /\ toCome = MaxJobs /\ runs = MaxRuns /\ sets = MaxSets /\ faults = MaxFaults

-----------------------------------------------------------------------------
(* The rest of the pipeline.                                               *)

Enqueue ==
  /\ toCome > 0
  /\ toCome' = toCome - 1 /\ pending' = pending + 1
  /\ UNCHANGED <<control, runner, backlog, lock, pc, local, history, bounds>>

\* The runner's GPU gate lets it go on to claim outside the analyze phase.
PassGate ==
  /\ runner = "poll" /\ phase # "analyze"
  /\ runner' = "gate"
  /\ UNCHANGED <<control, pending, backlog, toCome, lock, pc, local, history, bounds>>

\* The claim: gated on run_limit and decrementing it in the same transaction.
Claim ==
  /\ runner = "gate"
  /\ limit # 0 /\ pending > 0
  /\ runner' = "job" /\ pending' = pending - 1
  /\ limit' = Spend(limit)
  /\ budget' = IF owner = "operator" THEN Spend(budget) ELSE budget
  /\ UNCHANGED <<phase, backlog, toCome, lock, pc, local, owner, residue, bounds>>

ClaimNothing ==
  /\ runner = "gate"
  /\ limit = 0 \/ pending = 0
  /\ runner' = "poll"
  /\ UNCHANGED <<control, pending, backlog, toCome, lock, pc, local, history, bounds>>

\* The job ends with a transcript, or for good without one.
FinishJob ==
  /\ runner = "job"
  /\ runner' = "poll"
  /\ backlog' \in {backlog, backlog + 1}
  /\ UNCHANGED <<control, pending, toCome, lock, pc, local, history, bounds>>

\* The job goes back to the queue: released, yielded, or swept after the runner
\* died.  The unit of run_limit it took stays spent.
GiveBack ==
  /\ runner = "job" /\ Fault("give_back")
  /\ runner' = "poll" /\ pending' = pending + 1
  /\ UNCHANGED <<control, backlog, toCome, lock, pc, local, history, runs, sets>>

\* The worker embeds a transcript, not in the transcribe phase.
Embed ==
  /\ backlog > 0 /\ phase # "transcribe"
  /\ backlog' = backlog - 1
  /\ UNCHANGED <<control, pending, runner, toCome, lock, pc, local, history, bounds>>

\* The operator sets or clears a bounded run; while a coordinator owns the
\* budget, what it sets lasts until the coordinator writes next.
SetRunLimit(n) ==
  /\ sets > 0
  /\ sets' = sets - 1
  /\ limit' = n
  /\ IF Owned THEN owner' = "run" /\ UNCHANGED <<budget, residue>>
              ELSE /\ budget' = n /\ owner' = "operator"
                   /\ residue' = (residue /\ phase # "idle")
  /\ UNCHANGED <<phase, queue, lock, pc, local, runs, faults>>

-----------------------------------------------------------------------------
(* Taking the lock and the run budget.                                     *)

Start(c) ==
  /\ pc[c] = "off" /\ runs > 0
  /\ runs' = runs - 1
  /\ GoTo(c, "lock")
  /\ UNCHANGED <<control, queue, lock, local, history, sets, faults>>

\* Mutant: the loser goes on.
FreeOrNot == TRUE

LockFree == lock = NoOne

\* pg_try_advisory_lock: does not wait; the loser ends without a trace.
TryBatchLock(c) ==
  /\ pc[c] = "lock"
  /\ IF LockFree
     THEN /\ lock' = c /\ GoTo(c, "read")
          /\ restore' = [restore EXCEPT ![c] = NoLimit]
     ELSE GoTo(c, "off") /\ UNCHANGED <<lock, restore>>
  /\ UNCHANGED <<control, queue, first, seen, history, bounds>>

GetPipelinePhase(c) ==
  /\ pc[c] = "read"
  /\ first' = [first EXCEPT ![c] = phase]
  /\ GoTo(c, "swap")
  /\ UNCHANGED <<control, queue, lock, restore, seen, history, bounds>>

AfterSwap(c) == IF first[c] = "analyze" THEN "resumeZero" ELSE "check"

\* The budget the exit puts back: what was left of the operator's, unless it
\* was spent or belongs to an interrupted run.
RestoreLimitFor(c) == IF first[c] # "idle" \/ limit = 0 THEN NoLimit ELSE limit

\* Mutant: the old limit is read, and stays.
NotParked == limit

Parked == 0

\* SwapRunLimit under the row lock of the claim: read the old limit, park the
\* runner at 0.
SwapRunLimit(c) ==
  /\ pc[c] = "swap"
  /\ restore' = [restore EXCEPT ![c] = RestoreLimitFor(c)]
  /\ limit' = Parked
  /\ owner' = IF limit' = limit THEN owner ELSE "run"
  /\ budget' = IF residue \/ budget = 0 THEN NoLimit ELSE budget
  /\ GoTo(c, AfterSwap(c))
  /\ UNCHANGED <<phase, queue, lock, first, seen, residue, bounds>>

\* The swap fails, or its answer is lost: the run goes on and will restore
\* an unlimited budget.
SwapFails(c) ==
  /\ pc[c] = "swap" /\ Fault("swap_fails")
  /\ limit' \in {limit, 0}
  /\ budget' = NoLimit
  /\ GoTo(c, AfterSwap(c))
  /\ owner' = "run"
  /\ UNCHANGED <<phase, queue, lock, local, residue, runs, sets>>

-----------------------------------------------------------------------------
(* The batches.                                                            *)

\* An interrupted analyze phase is finished first.
ResumeZero(c) ==
  /\ pc[c] = "resumeZero"
  /\ limit' = 0 /\ owner' = "run"
  /\ GoTo(c, "resumeAnalyze")
  /\ UNCHANGED <<phase, queue, lock, local, budget, residue, bounds>>

ResumeAnalyze(c) ==
  /\ pc[c] = "resumeAnalyze"
  /\ phase' = "analyze"
  /\ GoTo(c, "drain")
  /\ UNCHANGED <<limit, queue, lock, local, history, bounds>>

\* waitForAnalyzeDrained sees the backlog at zero.  The eval backlog counts
\* some of the same transcripts.
Drained(c) ==
  /\ pc[c] = "drain" /\ backlog = 0
  /\ GoTo(c, "check")
  /\ UNCHANGED <<control, queue, lock, local, history, bounds>>

\* Another batch, if jobs are left.
Check(c) ==
  /\ pc[c] = "check"
  /\ GoTo(c, IF pending = 0 /\ Claimed = 0 THEN "lookup" ELSE "games")
  /\ UNCHANGED <<control, queue, lock, local, history, bounds>>

\* No game holds the card, or the arbiter does not answer.
GamesOver(c) ==
  /\ pc[c] = "games"
  /\ GoTo(c, "setA")
  /\ UNCHANGED <<control, queue, lock, local, history, bounds>>

SetTranscribe(c) ==
  /\ pc[c] = "setA"
  /\ phase' = "transcribe"
  /\ GoTo(c, "setN")
  /\ UNCHANGED <<limit, queue, lock, local, history, bounds>>

SetBatchLimit(c) ==
  /\ pc[c] = "setN"
  /\ limit' = BatchSize /\ owner' = "run"
  /\ GoTo(c, "pollCounts")
  /\ UNCHANGED <<phase, queue, lock, local, budget, residue, bounds>>

\* GetServiceStatus, the job counts.
PollCounts(c) ==
  /\ pc[c] = "pollCounts"
  /\ seen' = [seen EXCEPT ![c] = [pending |-> pending, claimed |-> Claimed]]
  /\ GoTo(c, "pollLimit")
  /\ UNCHANGED <<control, queue, lock, restore, first, history, bounds>>

\* Mutant: a queue that ran dry does not end the phase.
BudgetSpentOnly(c) == seen[c].claimed = 0 /\ limit = 0

TranscribeDone(c) == seen[c].claimed = 0 /\ (limit = 0 \/ seen[c].pending = 0)

\* GetServiceStatus, the control row; then transcribeDone on both readings.
PollLimit(c) ==
  /\ pc[c] = "pollLimit"
  /\ GoTo(c, IF TranscribeDone(c) THEN "setB" ELSE "pollCounts")
  /\ UNCHANGED <<control, queue, lock, local, history, bounds>>

SetAnalyze(c) ==
  /\ pc[c] = "setB"
  /\ phase' = "analyze"
  /\ GoTo(c, "drain")
  /\ UNCHANGED <<limit, queue, lock, local, history, bounds>>

\* The run is cut short: a signal, a failed statement, a failed lock check, a
\* transcribe phase without progress, or --max-batches.
Interrupt(c) ==
  /\ pc[c] \in {"read", "swap"} \cup Body
  /\ pc[c] \in {"read", "swap"} => "early" \in Env
  /\ GoTo(c, "lookup")
  /\ UNCHANGED <<control, queue, lock, local, history, bounds>>

-----------------------------------------------------------------------------
(* The cleanup, on every exit.                                             *)

\* Another session holds the lock.
Successor(c) == lock \notin {c, NoOne}

\* A successor owns the row by now: leave it to that one's restore.  No clear
\* answer: restore.
Lookup(c) ==
  /\ pc[c] = "lookup"
  /\ \/ Successor(c) /\ GoTo(c, "release") /\ residue' = TRUE /\ UNCHANGED faults
     \/ ~Successor(c) /\ GoTo(c, "restorePhase") /\ UNCHANGED <<residue, faults>>
     \/ Fault("lookup_fails") /\ GoTo(c, "restorePhase") /\ UNCHANGED residue
  /\ UNCHANGED <<control, queue, lock, local, budget, owner, runs, sets>>

\* Mutant: the phase is left as it is.
KeptPhase == phase

RestingPhase == "idle"

RestorePhase(c) ==
  /\ pc[c] = "restorePhase"
  /\ \/ phase' = RestingPhase /\ residue' = FALSE /\ UNCHANGED faults
     \/ Fault("restore_fails") /\ residue' = TRUE /\ UNCHANGED phase
  /\ GoTo(c, "restoreLimit")
  /\ UNCHANGED <<limit, queue, lock, local, budget, owner, runs, sets>>

\* Mutant: the runner is left parked, as earlier versions did.
LeftParked(c) == 0

PutBack(c) == restore[c]

RestoreLimit(c) ==
  /\ pc[c] = "restoreLimit"
  /\ \/ limit' = PutBack(c) /\ owner' = "operator" /\ UNCHANGED <<residue, faults>>
     \/ Fault("restore_fails") /\ residue' = TRUE /\ UNCHANGED <<limit, owner>>
  /\ GoTo(c, "release")
  /\ UNCHANGED <<phase, queue, lock, local, budget, runs, sets>>

Release(c) ==
  /\ pc[c] = "release"
  /\ lock' = IF lock = c THEN NoOne ELSE lock
  /\ GoTo(c, "off")
  /\ UNCHANGED <<control, queue, local, history, bounds>>

\* The process dies, and its session with it.
Crash(c) ==
  /\ InRun(c) /\ Fault("crash")
  /\ lock' = IF lock = c THEN NoOne ELSE lock
  /\ residue' = (residue \/ pc[c] \in Body \cup Cleanup)
  /\ GoTo(c, "off")
  /\ UNCHANGED <<control, queue, local, budget, owner, runs, sets>>

\* The connection that holds the lock breaks; nobody is told.
Drop(c) ==
  /\ lock = c /\ Fault("drop")
  /\ lock' = NoOne
  /\ UNCHANGED <<control, queue, pc, local, history, runs, sets>>

-----------------------------------------------------------------------------
Restores(c) == RestorePhase(c) \/ RestoreLimit(c)

Advance(c) ==
  \/ TryBatchLock(c) \/ GetPipelinePhase(c) \/ SwapRunLimit(c) \/ ResumeZero(c)
  \/ ResumeAnalyze(c) \/ Drained(c) \/ Check(c) \/ GamesOver(c) \/ SetTranscribe(c)
  \/ SetBatchLimit(c) \/ PollCounts(c) \/ PollLimit(c) \/ SetAnalyze(c)
  \/ Lookup(c) \/ Restores(c) \/ Release(c)

Coordinate(c) == Start(c) \/ Advance(c) \/ Interrupt(c) \/ SwapFails(c) \/ Crash(c) \/ Drop(c)

Work == PassGate \/ Claim \/ ClaimNothing \/ FinishJob

Next ==
  \/ \E c \in Coordinators : Coordinate(c)
  \/ Work \/ GiveBack \/ Embed \/ Enqueue
  \/ \E n \in Budgets : SetRunLimit(n)

Spec == Init /\ [][Next]_vars

\* Every coordinator keeps going, games end, and the runner and the worker
\* keep working; nothing fair interrupts a run.
FairSpec ==
  /\ Spec
  /\ \A c \in Coordinators : WF_vars(Advance(c))
  /\ WF_vars(Work) /\ WF_vars(Embed)

-----------------------------------------------------------------------------
(* Properties.                                                             *)

\* Every variable keeps to its type.
TypeOK ==
  /\ phase \in Phases /\ limit \in Limits
  /\ pending \in Nat /\ backlog \in Nat /\ toCome \in Nat
  /\ runner \in {"poll", "gate", "job"}
  /\ lock \in Coordinators \cup {NoOne}
  /\ pc \in [Coordinators -> Places]
  /\ restore \in [Coordinators -> Limits]
  /\ first \in [Coordinators -> Phases]
  /\ seen \in [Coordinators -> [pending : Nat, claimed : {0, 1}]]
  /\ budget \in Limits /\ owner \in {"operator", "run"} /\ residue \in BOOLEAN
  /\ runs \in Nat /\ sets \in Nat /\ faults \in Nat

\* No coordinator writes the control row while another one's run is under way.
OneDriver ==
  [][\A c \in Coordinators :
       pc'[c] # pc[c] /\ control' # control => \A d \in Coordinators \ {c} : ~InRun(d)]_vars

\* Between runs the row holds exactly what is left of the operator's budget:
\* no claim is refunded or lost across a run, a spent budget or one left by an
\* interrupted run becomes unlimited.
BudgetKept == ~Owned /\ ~residue => limit = budget

\* Between runs the pipeline is idle, unless the last run was cut off before it
\* could put the phase back, or left that to a successor.
QuietIsIdle == Quiet /\ ~residue => phase = "idle"

\* A run that leaves the row to a successor leaves it to one whose own restore
\* is yet to come.
SuccessorRestores ==
  [][\A c \in Coordinators :
       pc[c] = "lookup" /\ pc'[c] = "release"
         => \E d \in Coordinators \ {c} :
              InRun(d) /\ pc[d] \notin {"restoreLimit", "release"}]_vars

\* Every run ends, and without help from a timeout or a signal.
RunsEnd == \A c \in Coordinators : InRun(c) ~> ~InRun(c)

\* Runs never keep the queue from draining: it does, unless the operator's own
\* budget is spent.
QueueDrains == []<>(pending = 0 \/ (Quiet /\ budget = 0))

\* The transcribe phase ends only when no job is being transcribed.
PhaseAEndsDone ==
  [][\A c \in Coordinators : pc[c] = "pollLimit" /\ pc'[c] = "setB" => Claimed = 0]_vars
=============================================================================
