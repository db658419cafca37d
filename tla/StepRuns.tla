------------------------------ MODULE StepRuns ------------------------------
(***************************************************************************)
(* The live progress of an ad-hoc run (internal/runs): a process counts in *)
(* memory, one writer goroutine records its row in step_runs, and readers   *)
(* derive from the row's heartbeat whether the process is still there.      *)
(*                                                                         *)
(* Time is counted in heartbeats (30 s).  A write that timed out may still  *)
(* land, at any later time.  The caps on a list's length are left out.      *)
(***************************************************************************)
EXTENDS Naturals, Sequences

CONSTANTS
  Runs,                       \* the processes; each runs one step
  MaxItems, MaxFaults, MaxTime,  \* bounds: items done, failed writes, heartbeats
  StaleAfter, AbandonAfter    \* heartbeats

VARIABLES
  rec,     \* each process's recorder
  rows,    \* step_runs
  clock,
  late,    \* writes that timed out and may still land
  reader,  \* one dashboard request
  faults

vars == <<rec, rows, clock, late, reader, faults>>

Ids == DOMAIN rows

\* id 0 is not inserted yet; kick wakes the writer for a change; missed counts
\* the store calls that failed in a row.
Fresh == [on |-> FALSE, id |-> 0, done |-> 0, kick |-> FALSE, ended |-> "no", abandoned |-> FALSE,
          last |-> 0, missed |-> 0, pc |-> "idle", final |-> FALSE, p |-> 0]

NoRead == [pc |-> "idle", old |-> {}, active |-> {}, recent |-> {}, link |-> 0]

Init ==
  /\ rec = [r \in Runs |-> Fresh] /\ rows = <<>> /\ clock = 0 /\ late = {}
  /\ reader = NoRead /\ faults = MaxFaults

-----------------------------------------------------------------------------
(* step_runs.                                                              *)

NewRow(r) == [run |-> r, done |-> 0, status |-> "running", beat |-> clock]

\* Mutant: a row is written whatever its status.
AnyRow(id) == id \in Ids

\* Only an open row is written.
OpenRow(id) == id \in Ids /\ rows[id].status = "running"

\* updateStepRunSQL: a heartbeat, or the closing write.
Written(id, p, status) ==
  [rows EXCEPT ![id].done = p, ![id].beat = clock, ![id].status = IF status = "no" THEN @ ELSE status]

Fresher(id, age) == rows[id].status = "running" /\ clock - rows[id].beat <= age

-----------------------------------------------------------------------------
(* The recorder.                                                           *)

Set(r, f) == rec' = [rec EXCEPT ![r] = f]

\* Start, up to the insert's outcome.
Start(r) ==
  /\ ~rec[r].on /\ rec[r].ended = "no"
  /\ Set(r, [rec[r] EXCEPT !.on = TRUE, !.pc = "start", !.last = clock])
  /\ UNCHANGED <<rows, clock, late, reader, faults>>

\* Tick, Progress, Count, Phase, SetTotal, SetRecipe: memory only.
Update(r) ==
  /\ rec[r].on /\ rec[r].pc # "start" /\ rec[r].ended = "no" /\ rec[r].done < MaxItems
  /\ Set(r, [rec[r] EXCEPT !.done = @ + 1, !.kick = TRUE])
  /\ UNCHANGED <<rows, clock, late, reader, faults>>

\* Mutant: a heartbeat that finds nothing new writes nothing.
OnlyNews(r) == rec[r].kick

\* loop: a change, or the ticker, which writes even with nothing new.
Due(r) == rec[r].kick \/ clock > rec[r].last

\* flush, up to the store call.
Flush(r) ==
  /\ rec[r].on /\ rec[r].pc = "idle" /\ rec[r].ended = "no" /\ ~rec[r].abandoned /\ Due(r)
  /\ Set(r, [rec[r] EXCEPT !.pc = IF rec[r].id = 0 THEN "insert" ELSE "write", !.p = rec[r].done,
                           !.kick = FALSE, !.last = clock])
  /\ UNCHANGED <<rows, clock, late, reader, faults>>

\* FinishStatus: the status is Status(err).
Finish(r) ==
  /\ rec[r].on /\ rec[r].pc # "start" /\ rec[r].ended = "no"
  /\ \E status \in {"done", "failed", "cancelled"} : Set(r, [rec[r] EXCEPT !.ended = status])
  /\ UNCHANGED <<rows, clock, late, reader, faults>>

\* Once the writer has stopped, the final state is written.
Close(r) ==
  /\ rec[r].on /\ rec[r].pc = "idle" /\ rec[r].ended # "no"
  /\ Set(r, IF rec[r].abandoned THEN [rec[r] EXCEPT !.on = FALSE]
            ELSE [rec[r] EXCEPT !.pc = IF rec[r].id = 0 THEN "insert" ELSE "write", !.p = rec[r].done,
                                !.final = TRUE])
  /\ UNCHANGED <<rows, clock, late, reader, faults>>

\* StartStepRun answers: a flush or Finish goes on with the row.
Inserted(r) ==
  /\ rec[r].pc \in {"start", "insert"}
  /\ rows' = Append(rows, NewRow(r))
  /\ Set(r, [rec[r] EXCEPT !.id = Len(rows) + 1, !.pc = IF @ = "start" THEN "idle" ELSE "write"])
  /\ UNCHANGED <<clock, late, reader, faults>>

\* Closing is what ends a recorder.
After(r) == IF rec[r].final THEN [rec[r] EXCEPT !.on = FALSE, !.pc = "idle"] ELSE [rec[r] EXCEPT !.pc = "idle"]

Status(r) == IF rec[r].final THEN rec[r].ended ELSE "no"

\* UpdateStepRun and FinishStepRun answer.
Recorded(r) ==
  /\ rec[r].pc = "write"
  /\ IF OpenRow(rec[r].id)
     THEN /\ rows' = Written(rec[r].id, rec[r].p, Status(r))
          /\ Set(r, [After(r) EXCEPT !.missed = 0])
     ELSE /\ Set(r, [After(r) EXCEPT !.abandoned = TRUE]) /\ UNCHANGED rows
  /\ UNCHANGED <<clock, late, reader, faults>>

\* A store call fails or times out: retried on the next heartbeat, but for the last.
Fails(r) ==
  /\ rec[r].pc # "idle" /\ faults > 0 /\ faults' = faults - 1
  /\ \/ UNCHANGED late
     \/ late' = late \cup {[run |-> r, id |-> IF rec[r].pc = "write" THEN rec[r].id ELSE 0,
                            p |-> rec[r].p, status |-> Status(r)]}
  /\ Set(r, [After(r) EXCEPT !.missed = @ + 1])
  /\ UNCHANGED <<rows, clock, reader>>

\* It lands after all, or is lost.
Land(w) ==
  /\ late' = late \ {w}
  /\ rows' = CASE w.id = 0 -> Append(rows, NewRow(w.run))
               [] w.id # 0 /\ OpenRow(w.id) -> Written(w.id, w.p, w.status)
               [] OTHER -> rows
  /\ UNCHANGED <<rec, clock, reader, faults>>

Lose(w) == late' = late \ {w} /\ UNCHANGED <<rec, rows, clock, reader, faults>>

\* The process is killed.
Die(r) ==
  /\ rec[r].on /\ rec[r].ended = "no"
  /\ Set(r, [rec[r] EXCEPT !.on = FALSE, !.ended = "killed", !.pc = "idle"])
  /\ UNCHANGED <<rows, clock, late, reader, faults>>

\* Time passes: no recorder misses its ticker, and a store call is bounded.
Tick ==
  /\ clock < MaxTime /\ clock' = clock + 1
  /\ \A r \in Runs : rec[r].on => rec[r].pc = "idle" /\ rec[r].ended = "no" /\ (rec[r].abandoned \/ ~Due(r))
  /\ UNCHANGED <<rec, rows, late, reader, faults>>

-----------------------------------------------------------------------------
(* A dashboard request: StepRuns' two queries.                             *)

\* What a request must show.
Known == {id \in Ids : rows[id].status = "running" => Fresher(id, AbandonAfter)}

Listed == {id \in Ids : Fresher(id, AbandonAfter)}

\* linkRoleRuns: the newest live run, else the newest stale one.
Link(active) ==
  LET live == {id \in active : Fresher(id, StaleAfter)}
      best == IF live = {} THEN active ELSE live
  IN IF best = {} THEN 0 ELSE CHOOSE id \in best : \A j \in best : j <= id

\* Mutant: the other runs are listed before the active ones.
RecentFirst(pc) == IF pc = "idle" THEN "recent" ELSE "active"

\* Which of its lists a request reads: the active runs first.
Query(pc) == IF pc = "idle" THEN "active" ELSE "recent"

Read ==
  /\ reader.pc \in {"idle", "half"}
  /\ LET old == IF reader.pc = "idle" THEN Known ELSE reader.old IN
     reader' = [reader EXCEPT !.pc = IF @ = "idle" THEN "half" ELSE "done", !.old = old,
                  !.active = IF Query(reader.pc) = "active" THEN Listed ELSE @,
                  !.link = IF Query(reader.pc) = "active" THEN Link(Listed) ELSE @,
                  !.recent = IF Query(reader.pc) = "recent" THEN Ids \ Listed ELSE @]
  /\ UNCHANGED <<rec, rows, clock, late, faults>>

Shown == reader.pc = "done" /\ reader' = NoRead /\ UNCHANGED <<rec, rows, clock, late, faults>>

Next ==
  \/ \E r \in Runs : Start(r) \/ Update(r) \/ Flush(r) \/ Finish(r) \/ Close(r) \/ Inserted(r)
                     \/ Recorded(r) \/ Fails(r) \/ Die(r)
  \/ \E w \in late : Land(w) \/ Lose(w)
  \/ Tick \/ Read \/ Shown

Spec == Init /\ [][Next]_vars

-----------------------------------------------------------------------------
(* Properties.                                                             *)

\* A closed row holds what the run ended with: no heartbeat that was under
\* way, or that timed out earlier, lands on it.
FinalIsFinal ==
  \A id \in Ids : LET row == rows[id] IN
    row.status # "running" => row.status = rec[row.run].ended /\ row.done = rec[row.run].done

\* A run read as stale, that its process still records, has missed as many
\* heartbeats in a row as the verdict stands for.
StaleHasMissed ==
  \A r \in Runs : LET id == rec[r].id IN
    rec[r].on /\ ~rec[r].abandoned /\ id # 0 /\ ~Fresher(id, StaleAfter) /\ rows[id].status = "running"
      => rec[r].missed >= StaleAfter

\* A run that was there when a request began is in one of its lists, even if
\* it ended in between; one silent for longer than AbandonAfter may be missed.
NoneMissed == reader.pc = "done" => reader.old \subseteq reader.active \cup reader.recent

\* What the page of the runs may show.
RunsAreShown == FinalIsFinal /\ StaleHasMissed /\ NoneMissed

\* stepruns.go says: "one step_runs row per ad-hoc batch step".
OneRow == \A i, j \in Ids : rows[i].run = rows[j].run => i = j
=============================================================================
