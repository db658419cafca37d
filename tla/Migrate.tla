------------------------------ MODULE Migrate -------------------------------
(***************************************************************************)
(* Schema migrations (internal/db/migrate.go): every process that opens the *)
(* database brings it to the latest version its build knows, under a        *)
(* session advisory lock held around everything goose does.                 *)
(*                                                                         *)
(* Two services start together, of builds that may differ, beside a pod of  *)
(* an earmark older than goose.  A migration fails at its lock timeout or   *)
(* at the deadline and rolls back; a process dies, and its session with it; *)
(* both start again.  goose is external: it lists what is pending once,     *)
(* refuses a version below the database's, and commits each migration with  *)
(* its version row.                                                         *)
(***************************************************************************)
EXTENDS Integers, Sequences, Functions

CONSTANTS
  Procs,     \* the processes that migrate
  Versions,  \* [Procs -> the numbered migrations of its build], 1 apart
  Objects,   \* what the baseline guarantees to exist
  Firsts,    \* what of it the database may have to begin with
  OldKnows,  \* what of it an old pod creates
  MaxStarts, MaxFaults, MaxOld

VARIABLES
  held,      \* schemaInitLockKey: its holder, or "none"
  have,      \* the baseline objects there are
  applied,   \* goose_db_version, in commit order
  proc,      \* each process: pc, the migrations pending
  reran,     \* the baseline ran though nothing was missing
  starts, faults, olds

vars == <<held, have, applied, proc, reran, starts, faults, olds>>

Init ==
  /\ held = "none" /\ have \in Firsts /\ applied = <<>> /\ reran = FALSE
  /\ proc = [p \in Procs |-> [pc |-> "down", todo |-> {}]]
  /\ starts = MaxStarts /\ faults = MaxFaults /\ olds = MaxOld

Goto(p, pc) == proc' = [proc EXCEPT ![p].pc = pc]

\* migrateTo: the dedicated connections.
Connect(p) ==
  /\ proc[p].pc \in {"down", "failed", "up"} /\ starts > 0
  /\ starts' = starts - 1 /\ Goto(p, "lock")
  /\ UNCHANGED <<held, have, applied, reran, faults, olds>>

\* Mutant: a try-lock's loser goes on without it.
TryLock(p) == TRUE

\* pg_advisory_lock waits.
Granted(p) == held = "none"

Lock(p) ==
  /\ proc[p].pc = "lock" /\ Granted(p)
  /\ held' = p /\ Goto(p, "list")
  /\ UNCHANGED <<have, applied, reran, starts, faults, olds>>

Mine(p) == {1} \cup Versions[p]

\* Mutant: goose.WithAllowOutofOrder.
AnyOrder(p) == TRUE

\* Without WithAllowOutofOrder.
InOrder(p) == \A v \in Mine(p) \ Range(applied) : \A w \in Range(applied) : w < v

\* provider.UpTo: what is pending, once.
List(p) ==
  /\ proc[p].pc = "list"
  /\ proc' = [proc EXCEPT ![p] =
       IF InOrder(p) THEN [pc |-> "apply", todo |-> Mine(p) \ Range(applied)]
       ELSE [pc |-> "fail", todo |-> {}]]
  /\ UNCHANGED <<held, have, applied, reran, starts, faults, olds>>

\* inspectLegacySchema: transcription_jobs is the first table the old code made.
LegacyPresent == have # {}
Missing       == Objects \ have

\* Mutant: a database of the old code is taken to be whole.
StampAny == IF ~LegacyPresent THEN "create" ELSE "stamp"

\* decideBaseline.
Baseline ==
  CASE ~LegacyPresent -> "create"
    [] LegacyPresent /\ Missing # {} -> "catch-up"
    [] OTHER -> "stamp"

\* One migration, the lowest pending, in goose's transaction.
Apply(p) ==
  /\ proc[p].pc = "apply"
  /\ \E v \in proc[p].todo :
       LET ddl == v = 1 /\ Baseline # "stamp" IN
       /\ \A w \in proc[p].todo : v <= w
       /\ proc' = [proc EXCEPT ![p].todo = @ \ {v}]
       /\ applied' = Append(applied, v)
       /\ have' = IF ddl THEN Objects ELSE have
       /\ reran' = (reran \/ (ddl /\ Missing = {}))
  /\ UNCHANGED <<held, starts, faults, olds>>

\* It times out on a table lock or at the deadline, and rolls back.
Fail(p) ==
  /\ proc[p].pc \in {"lock", "list", "apply"} /\ faults > 0
  /\ faults' = faults - 1
  /\ Goto(p, IF proc[p].pc = "lock" THEN "failed" ELSE "fail")
  /\ UNCHANGED <<held, have, applied, reran, starts, olds>>

\* The unlock, detached from the context, and the connections' close.
Unlock(p) ==
  /\ proc[p].pc = "fail" \/ (proc[p].pc = "apply" /\ proc[p].todo = {})
  /\ held' = IF held = p THEN "none" ELSE held
  /\ Goto(p, IF proc[p].pc = "fail" THEN "failed" ELSE "up")
  /\ UNCHANGED <<have, applied, reran, starts, faults, olds>>

\* Its session ends with the process.
Die(p) ==
  /\ proc[p].pc \notin {"down", "failed", "up"} /\ faults > 0
  /\ faults' = faults - 1 /\ Goto(p, "down")
  /\ held' = IF held = p THEN "none" ELSE held
  /\ UNCHANGED <<have, applied, reran, starts, olds>>

\* An earmark before goose boots: its DDL in one transaction, under the same
\* lock, all of it idempotent.
OldBoot ==
  /\ olds > 0 /\ held = "none"
  /\ olds' = olds - 1 /\ have' = have \cup OldKnows
  /\ UNCHANGED <<held, applied, proc, reran, starts, faults>>

Next ==
  \/ \E p \in Procs : Connect(p) \/ Lock(p) \/ List(p) \/ Apply(p) \/ Fail(p) \/ Unlock(p) \/ Die(p)
  \/ OldBoot

Spec == Init /\ [][Next]_vars

-----------------------------------------------------------------------------
(* Properties.                                                              *)

\* Each migration is committed once and none below one that is in, whichever
\* processes start, fail and die together.
HistoryAscends == \A i \in 1 .. Len(applied) - 1 : applied[i] < applied[i + 1]

\* Version 1 stands for the whole baseline, whatever the database had, and its
\* DDL never runs on a database that lacked nothing.
BaselineIsWhole == /\ 1 \in Range(applied) => Objects \subseteq have
                   /\ ~reran

\* A process that serves has every migration of its build in.
ServesItsSchema == \A p \in Procs : proc[p].pc = "up" => Mine(p) \subseteq Range(applied)

\* The lock is never left behind by a process that is not migrating.
LockIsLive == held # "none" => proc[held].pc \notin {"down", "failed", "up", "lock"}

=============================================================================
