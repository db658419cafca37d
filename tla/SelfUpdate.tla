----------------------------- MODULE SelfUpdate -----------------------------
(***************************************************************************)
(* The ASR runner's self-update: an operator asks for a version in the      *)
(* runner_control row, and the runner, between two jobs, fetches it, checks *)
(* it, swaps its own file, records the version and re-executes itself.  It  *)
(* may be killed before any step; its service manager starts it again.      *)
(***************************************************************************)
EXTENDS Naturals

CONSTANTS
  Versions,   \* the tags an operator may ask for
  Broken,     \* those whose runner.py does not pass --self-check
  First,      \* the tag the runner was deployed with
  MaxAsks, MaxFaults, MaxDeaths   \* bounds

VARIABLES
  control,  \* runner_control: desired_runner_version, runner_update_state
  disk,     \* runner.py, runner.py.new, VERSION
  me,       \* the process: the code it runs, the version it reports, its place
  held,     \* the versions runner.py has been (history)
  asks, tries, faults, deaths

vars == <<control, disk, me, held, asks, tries, faults, deaths>>

None == "none"
Down == [pc |-> "down", code |-> None, says |-> None, target |-> None]

\* _read_runner_version: the VERSION file wins over the deployed tag.
Boot(d) == [pc |-> "poll", code |-> d.file, says |-> IF d.version = None THEN First ELSE d.version, target |-> None]

Init ==
  /\ control = [desired |-> None, state |-> "idle"]
  /\ disk = [file |-> First, new |-> None, version |-> None]
  /\ me = Boot(disk)
  /\ held = {First} /\ asks = 0 /\ tries = 0 /\ faults = MaxFaults /\ deaths = MaxDeaths

Fault == faults > 0 /\ faults' = faults - 1
Goto(pc) == me' = [me EXCEPT !.pc = pc]

-----------------------------------------------------------------------------
(* The operator (SetDesiredRunnerVersion, ClearRunnerUpdate).              *)

Ask(v) ==
  /\ asks < MaxAsks /\ asks' = asks + 1
  /\ control' = [desired |-> v, state |-> "requested"]
  /\ UNCHANGED <<held, disk, me, tries, faults, deaths>>

Clear ==
  /\ control.desired # None
  /\ control' = [desired |-> None, state |-> "idle"]
  /\ UNCHANGED <<disk, me, held, asks, tries, faults, deaths>>

\* handleRunnerUpdate: an empty version clears the request.
RunnerUpdate(v) == IF v = None THEN Clear ELSE Ask(v)

-----------------------------------------------------------------------------
(* The runner, between two jobs.                                           *)

InFlight == {"requested", "updating"}

\* Mutant: an update under way is taken up again.
TakeUp(desired, state) == desired \notin {None, me.says} /\ state \in InFlight

\* _should_self_update.
ShouldSelfUpdate(desired, state) == desired \notin {None, me.says} /\ state = "requested"

\* _maybe_self_update: the row is read once.  The analyze phase defers an update.
Poll ==
  /\ me.pc = "poll"
  /\ \/ /\ control.desired # None /\ control.desired = me.says /\ control.state \in InFlight
        /\ Goto("stamp")
     \/ /\ ShouldSelfUpdate(control.desired, control.state)
        /\ me' = [me EXCEPT !.pc = "begin", !.target = control.desired]
  /\ UNCHANGED <<control, disk, held, asks, tries, faults, deaths>>

\* _set_update_state: whatever the row says by now; a failed write is ignored.
SetState(state, next) ==
  /\ Goto(next)
  /\ \/ control' = [control EXCEPT !.state = state] /\ UNCHANGED faults
     \/ Fault /\ UNCHANGED control
  /\ UNCHANGED <<disk, held, asks, tries, deaths>>

Stamp == me.pc = "stamp" /\ SetState("success", "poll")
Begin == me.pc = "begin" /\ SetState("updating", "fetch")
Fail  == me.pc = "fail" /\ SetState("failed", "poll")

\* The candidate is written beside the file; or the fetch fails.
Fetch ==
  /\ me.pc = "fetch" /\ tries' = tries + 1
  /\ \/ disk' = [disk EXCEPT !.new = me.target] /\ Goto("check") /\ UNCHANGED faults
     \/ Fault /\ Goto("fail") /\ UNCHANGED disk
  /\ UNCHANGED <<control, held, asks, deaths>>

Check ==
  /\ me.pc = "check"
  /\ \/ disk.new \notin Broken /\ Goto("swap") /\ UNCHANGED disk
     \/ disk.new \in Broken /\ Goto("fail") /\ disk' = [disk EXCEPT !.new = None]
  /\ UNCHANGED <<control, held, asks, tries, faults, deaths>>

\* Mutant: the version is recorded before the file is swapped.
RecordFirst(pc) == IF pc = "swap" THEN "version" ELSE "file"

\* Which file each step writes.
Writes(pc) == IF pc = "swap" THEN "file" ELSE "version"

\* The two last steps: os.replace, then the VERSION file, whose loss only warns.
Install ==
  /\ me.pc \in {"swap", "record"}
  /\ \/ /\ disk' = IF Writes(me.pc) = "file" THEN [disk EXCEPT !.file = disk.new, !.new = None]
                   ELSE [disk EXCEPT !.version = me.target]
        /\ Goto(IF me.pc = "swap" THEN "record" ELSE "exec") /\ UNCHANGED faults
     \/ /\ Fault
        /\ disk' = [disk EXCEPT !.new = None]
        /\ Goto(IF me.pc = "swap" THEN "fail" ELSE "exec")
  /\ held' = held \cup {disk'.file}
  /\ UNCHANGED <<control, asks, tries, deaths>>

\* _reexec.
Exec ==
  /\ me.pc = "exec"
  /\ me' = Boot(disk)
  /\ UNCHANGED <<control, disk, held, asks, tries, faults, deaths>>

Die ==
  /\ me.pc # "down" /\ deaths > 0 /\ deaths' = deaths - 1
  /\ me' = Down
  /\ UNCHANGED <<control, disk, held, asks, tries, faults>>

Restart ==
  /\ me.pc = "down"
  /\ me' = Boot(disk)
  /\ UNCHANGED <<control, disk, held, asks, tries, faults, deaths>>

Next ==
  \/ \E v \in Versions \cup {None} : RunnerUpdate(v)
  \/ Poll \/ Stamp \/ Begin \/ Fail \/ Fetch \/ Check \/ Install \/ Exec \/ Die \/ Restart

Spec == Init /\ [][Next]_vars

-----------------------------------------------------------------------------
(* Properties.                                                             *)

\* No version loops: a runner tries an update once for each time it was asked,
\* and once more for each write of its state that was lost, through every
\* restart, refused candidate and version that reports itself wrongly.
TriedAsAsked == tries <= asks + (MaxFaults - faults)

\* The version reported, on which success is decided, is one the file has held,
\* wherever the runner was killed: no update is closed as a success before it
\* was swapped in.  (A lost write of VERSION leaves an older one.)
NeverReportedEarly == me.says \in held \cup {None}

\* A request stands until it is tried: no write of the runner about an earlier
\* one turns it into "success" or "failed".
RequestStands ==
  control.state \in {"success", "failed"} /\ me.pc = "poll" => control.desired \in {me.says, me.target}
=============================================================================
