------------------------------ MODULE GpuGate ------------------------------
(***************************************************************************)
(* How one runner steps off the GPU and says so: the control row's request *)
(* (paused, phase, arbiter_yield), the runner's gate between jobs          *)
(* (_gate_gpu), the provider that moves its models one after the other     *)
(* (park, unpark), the stamp runner_gpu_parked, and the Go worker whose    *)
(* judge wants the same card (runner/runner.py, internal/worker/worker.go).*)
(*                                                                         *)
(* Reading the request, moving a model and stamping are separate actions:  *)
(* the request changes, the worker works and the process dies between      *)
(* them.                                                                   *)
(***************************************************************************)
EXTENDS Naturals, FiniteSets

CONSTANTS
  Parts,      \* models of the provider, moved in this order: ASR, then diarizer
  MaxFaults,  \* faults a behaviour may contain (bound)
  Env         \* the kinds of faults a behaviour may contain (bound)

ASSUME PartsAssumption  == Parts \in Nat \ {0}
ASSUME FaultsAssumption == MaxFaults \in Nat

VARIABLES
  paused,   \* runner_control.paused
  phase,    \* runner_control.phase
  yield,    \* runner_control.arbiter_yield
  stamp,    \* runner_control.runner_gpu_parked
  pc,       \* where the runner is in its cycle
  moved,    \* models the park or unpark under way has moved
  onGpu,    \* models that hold GPU memory
  parked,   \* the provider's _parked flag
  worker,   \* the Go worker: polling, or busy in a cycle that may judge
  torn,     \* the kinds of move that raised since the process started
  faults    \* faults left

request == <<paused, phase, yield>>
vars == <<request, stamp, pc, moved, onGpu, parked, worker, torn, faults>>

All == 1..Parts

Fault(kind) == kind \in Env /\ faults > 0 /\ faults' = faults - 1

\* _should_park.
ShouldPark == paused \/ phase = "analyze" \/ yield

Init ==
  /\ paused = FALSE /\ phase = "idle" /\ yield = FALSE
  /\ stamp = "null"
  /\ pc = "down"
  /\ moved = 0
  /\ onGpu = {}
  /\ parked = FALSE
  /\ worker = "poll"
  /\ torn = {}
  /\ faults = MaxFaults

-----------------------------------------------------------------------------
(* The request: the operator, the batch coordinator, the arbiter.          *)

SetPaused(b) ==
  /\ paused' = b
  /\ UNCHANGED <<phase, yield, stamp, pc, moved, onGpu, parked, worker, faults, torn>>

SetPhase(p) ==
  /\ phase' = p
  /\ UNCHANGED <<paused, yield, stamp, pc, moved, onGpu, parked, worker, faults, torn>>

SetYield(b) ==
  /\ yield' = b
  /\ UNCHANGED <<paused, phase, stamp, pc, moved, onGpu, parked, worker, faults, torn>>

-----------------------------------------------------------------------------
(* The runner.                                                             *)

\* The process starts: the models load straight onto the GPU, before any
\* look at the request.
Load ==
  /\ pc = "down"
  /\ pc' = "poll" /\ onGpu' = All /\ parked' = FALSE /\ torn' = {}
  /\ UNCHANGED <<request, stamp, moved, worker, faults>>

\* The process dies; the driver takes its memory back, the stamp stays.
Crash ==
  /\ Fault("crash")
  /\ pc # "down"
  /\ pc' = "down" /\ onGpu' = {} /\ parked' = FALSE /\ moved' = 0
  /\ UNCHANGED <<request, stamp, worker, torn>>

\* Mutant: a parked model stays parked.
GateNeverUnparks ==
  IF ShouldPark \/ parked THEN IF parked THEN "parked" ELSE "parking" ELSE "active"

\* park and unpark do nothing when the flag says the models are already there.
GateStep ==
  IF ShouldPark THEN IF parked THEN "parked" ELSE "parking"
                ELSE IF parked THEN "unparking" ELSE "active"

\* The gate reads the request.
ReadGate ==
  /\ pc = "poll"
  /\ pc' = GateStep
  /\ moved' = 0
  /\ UNCHANGED <<request, stamp, onGpu, parked, worker, faults, torn>>

\* Mutant: off by one.
OneTooMany(n) == n > Parts

AllMoved(n) == n = Parts

\* One model more off the card; after the last, the flag.
ParkOne ==
  /\ pc = "parking"
  /\ onGpu' = onGpu \ {moved + 1}
  /\ moved' = moved + 1
  /\ IF AllMoved(moved + 1) THEN pc' = "parked" /\ parked' = TRUE
                           ELSE UNCHANGED <<pc, parked>>
  /\ UNCHANGED <<request, stamp, worker, faults, torn>>

UnparkOne ==
  /\ pc = "unparking"
  /\ onGpu' = onGpu \cup {moved + 1}
  /\ moved' = moved + 1
  /\ IF AllMoved(moved + 1) THEN pc' = "active" /\ parked' = FALSE
                           ELSE UNCHANGED <<pc, parked>>
  /\ UNCHANGED <<request, stamp, worker, faults, torn>>

\* Mutant: a failed move is taken for done.
FaultIgnored == IF pc = "parking" THEN "parked" ELSE "active"

AfterFault == "failed"

\* Moving a model raises.  Models moved before stay where they are, and a move
\* onto the card that raises half-way (out of memory) holds what it got.
MoveFails ==
  /\ \/ /\ pc = "parking" /\ Fault("park_fails")
        /\ torn' = torn \cup {"park"} /\ UNCHANGED onGpu
     \/ /\ pc = "unparking" /\ Fault("unpark_fails")
        /\ torn' = torn \cup {"unpark"}
        /\ onGpu' \in {onGpu, onGpu \cup {moved + 1}}
  /\ pc' = AfterFault
  /\ UNCHANGED <<request, stamp, moved, parked, worker>>

\* Mutant: only a change is stamped.
StampOnce == stamp # "null" /\ pc # "failed"

StampSkipped == FALSE

\* _stamp_gpu_parked: the outcome, best effort.  Only an active runner goes on
\* to claim.
Stamp ==
  /\ pc \in {"parked", "active", "failed"}
  /\ \/ /\ stamp' = IF StampSkipped THEN stamp
                    ELSE IF pc = "parked" THEN "parked" ELSE "on"
        /\ UNCHANGED faults
     \/ Fault("stamp_fails") /\ UNCHANGED stamp
  /\ pc' = IF pc = "active" THEN "claim" ELSE "poll"
  /\ UNCHANGED <<request, moved, onGpu, parked, worker, torn>>

\* A job is claimed, or there is none (or claiming is gated).
Claim ==
  /\ pc = "claim"
  /\ pc' \in {"job", "poll"}
  /\ UNCHANGED <<request, stamp, moved, onGpu, parked, worker, faults, torn>>

\* The job ends: finished, failed, or given back between windows.
JobEnds ==
  /\ pc = "job"
  /\ pc' = "poll"
  /\ UNCHANGED <<request, stamp, moved, onGpu, parked, worker, faults, torn>>

-----------------------------------------------------------------------------
(* The Go worker.                                                          *)

\* A cycle that embeds and judges begins unless the pipeline is paused or in
\* the transcribe phase.
WorkerStarts ==
  /\ worker = "poll"
  /\ ~paused /\ phase # "transcribe"
  /\ worker' = "work"
  /\ UNCHANGED <<request, stamp, pc, moved, onGpu, parked, faults, torn>>

WorkerEnds ==
  /\ worker = "work"
  /\ worker' = "poll"
  /\ UNCHANGED <<request, stamp, pc, moved, onGpu, parked, faults, torn>>

-----------------------------------------------------------------------------
Request ==
  \/ \E b \in BOOLEAN : SetPaused(b) \/ SetYield(b)
  \/ \E p \in {"idle", "transcribe", "analyze"} : SetPhase(p)

Cycle == Load \/ ReadGate \/ ParkOne \/ UnparkOne \/ Stamp \/ Claim \/ JobEnds

Next == Request \/ Cycle \/ Crash \/ MoveFails \/ WorkerStarts \/ WorkerEnds

Spec == Init /\ [][Next]_vars

\* The runner keeps polling, its moves end, and its jobs end.
FairSpec == Spec /\ WF_vars(Cycle \/ MoveFails)

-----------------------------------------------------------------------------
(* Properties.                                                             *)

\* Every variable keeps to its type.
TypeOK ==
  /\ paused \in BOOLEAN /\ yield \in BOOLEAN
  /\ phase \in {"idle", "transcribe", "analyze"}
  /\ stamp \in {"null", "parked", "on"}
  /\ pc \in {"down", "poll", "parking", "unparking", "parked", "active", "failed",
             "claim", "job"}
  /\ moved \in 0..Parts
  /\ onGpu \subseteq All
  /\ parked \in BOOLEAN
  /\ worker \in {"poll", "work"}
  /\ torn \subseteq {"park", "unpark"}
  /\ faults \in Nat

\* True is only ever published after a park that succeeded: when the stamp
\* turns to parked, no model holds GPU memory, unless an unpark of this process
\* has raised half-way (_gate_gpu).
AckedParkIsReal ==
  [][stamp' = "parked" => stamp = "parked" \/ onGpu = {} \/ "unpark" \in torn]_vars

\* A job runs with every model on the card, unless a park of this process has
\* raised half-way: a runner whose models could not be brought back claims
\* nothing (_gate_gpu, main).
JobsRunOnGpu == pc \in {"claim", "job"} => onGpu = All \/ "park" \in torn

\* The two without their exceptions, as the contract and the provider's
\* interface state them.
AckedParkIsTrue == [][stamp' = "parked" => stamp = "parked" \/ onGpu = {}]_vars
NeverHalfMoved  == pc \in {"claim", "job"} => onGpu = All

\* A request to step off that stands is in the end acknowledged, for good,
\* whatever failed or restarted on the way.
RequestIsAcked ==
  <>[]ShouldPark => <>[](stamp = "parked" /\ (onGpu = {} \/ "unpark" \in torn))

\* Once the card is free for good, the runner keeps coming back to claim.
GateReopens == <>[]~ShouldPark => []<>(pc = "claim")

\* The contract's meaning of the stamp: true says the models are off the GPU.
StampMeansFree == stamp = "parked" => onGpu = {}

\* In the analyze phase the card holds the judge or the ASR model, never both.
OneModelAtATime == ~(phase = "analyze" /\ worker = "work" /\ onGpu # {})
=============================================================================
