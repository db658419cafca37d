----------------------------- MODULE StatusPage -----------------------------
(***************************************************************************)
(* The status page and GET /api/v1/status: GetServiceStatus reads the queue *)
(* in one query after another, outside any transaction (internal/db/db.go); *)
(* computePipelineLifecycle, newStatusData and applyLifecycleStateLine make *)
(* of what was read the state line an operator acts on                      *)
(* (internal/mcp/lifecycle.go, dashboard.go, api.go).  Runners, judge,      *)
(* worker and operators go on between any two queries.                      *)
(***************************************************************************)
EXTENDS Naturals, FiniteSets

CONSTANTS
  Tracks,       \* audio files, finitely many
  EvalEnabled,  \* EVAL_IN_PIPELINE
  MaxMoves      \* moves of operators while a page is made (bound)

VARIABLES
  status,   \* transcription_jobs.status, "absent" before the row exists
  judged,   \* run_metrics: eval_finished_at, eval_failed_at or neither
  chunks,   \* the transcript has chunk rows
  at,       \* the next query of the page under way
  got,      \* what its queries returned
  line,     \* the state line of the page that is shown
  asked,    \* tracks with a row when the page was asked for
  touched,  \* tracks sent back to an earlier stage since
  joined,   \* tracks transcribed since
  moves     \* moves of operators since

trackVars == <<status, judged, chunks>>
pageVars  == <<at, got, line, asked>>
sinceVars == <<touched, joined, moves>>
vars == <<trackVars, pageVars, sinceVars>>

Nothing == [pending |-> 0, claimed |-> 0, done |-> 0, backlog |-> 0,
            active |-> FALSE, covered |-> 0]
NoLine  == [label |-> "IDLE", sub |-> "none"]

Init ==
  /\ status = [t \in Tracks |-> "absent"]
  /\ judged = [t \in Tracks |-> "no"]
  /\ chunks = [t \in Tracks |-> FALSE]
  /\ at = "none" /\ got = Nothing /\ line = NoLine
  /\ asked = {} /\ touched = {} /\ joined = {} /\ moves = 0

-----------------------------------------------------------------------------
(* The pipeline goes on.                                                   *)

Moves(t, from, to) ==
  /\ status[t] \in from
  /\ status' = [status EXCEPT ![t] = to]
  /\ UNCHANGED pageVars

Enqueue(t) == Moves(t, {"absent"}, "pending") /\ UNCHANGED <<judged, chunks, sinceVars>>

Claim(t) == Moves(t, {"pending"}, "claimed") /\ UNCHANGED <<judged, chunks, sinceVars>>

\* The transcript and the status in one transaction.
Complete(t) ==
  /\ Moves(t, {"claimed"}, "done")
  /\ joined' = IF at = "none" THEN joined ELSE joined \cup {t}
  /\ UNCHANGED <<judged, chunks, touched, moves>>

GiveUp(t) == Moves(t, {"claimed"}, "failed") /\ UNCHANGED <<judged, chunks, sinceVars>>

\* A release, a transient failure, the sweep of stale claims.
GiveBack(t) == Moves(t, {"claimed"}, "pending") /\ UNCHANGED <<judged, chunks, sinceVars>>

\* The judge's verdict, which stays, or its failure, which `earmark eval` may
\* try again and the pipeline does not.
Judge(t) ==
  /\ status[t] = "done" /\ judged[t] # "yes"
  /\ \E outcome \in {"yes", "failed"} : judged' = [judged EXCEPT ![t] = outcome]
  /\ UNCHANGED <<status, chunks, pageVars, sinceVars>>

Embed(t) ==
  /\ status[t] = "done" /\ ~chunks[t]
  /\ chunks' = [chunks EXCEPT ![t] = TRUE]
  /\ UNCHANGED <<status, judged, pageVars, sinceVars>>

Touches(t) ==
  /\ IF at = "none" THEN UNCHANGED <<touched, moves>>
       ELSE moves < MaxMoves /\ moves' = moves + 1 /\ touched' = touched \cup {t}
  /\ UNCHANGED joined

\* An operator's requeue: the row back to pending, transcript, chunks and
\* metrics gone.
Requeue(t) ==
  /\ Moves(t, {"claimed", "done", "failed"}, "pending")
  /\ judged' = [judged EXCEPT ![t] = "no"]
  /\ chunks' = [chunks EXCEPT ![t] = FALSE]
  /\ Touches(t)

\* ReembedJobs deletes the chunks, nothing else.
Reembed(t) ==
  /\ chunks[t]
  /\ chunks' = [chunks EXCEPT ![t] = FALSE]
  /\ Touches(t)
  /\ UNCHANGED <<status, judged, pageVars>>

-----------------------------------------------------------------------------
(* What the page says of the tracks it read, g, and of what it read        *)
(* elsewhere, e.                                                           *)

Elsewhere ==
  [paused : BOOLEAN, fresh : BOOLEAN, phase : {"idle", "transcribe", "analyze"}, free : BOOLEAN]

\* No coverage of no tracks: 0, which is less than all of them.
Covered(g) == g.done > 0 /\ g.covered >= g.done

\* Mutant: what is not embedded yet is not asked.
QueueDrained(g) == g.pending = 0 /\ g.claimed = 0 /\ (EvalEnabled => Covered(g))

FullyDone(g) ==
  /\ g.pending = 0 /\ g.claimed = 0
  /\ g.backlog = 0
  /\ EvalEnabled => Covered(g)

GPUCommitted(g, e) ==
  e.phase \in {"transcribe", "analyze"} \/ (e.free /\ g.claimed > 0)

\* The first that applies.
Activity(g, e) ==
  CASE e.paused                                        -> "paused"
    [] ~e.paused /\ (g.claimed > 0 \/ e.phase = "transcribe") -> "transcribing"
    [] OTHER ->
       IF e.phase = "analyze" THEN "evaluating"
       ELSE IF g.backlog > 0 THEN "embedding"
       ELSE IF FullyDone(g) /\ ~GPUCommitted(g, e) THEN "idle"
       ELSE IF EvalEnabled /\ ~Covered(g) THEN "evaluating" ELSE "winding-down"

\* What the runner's heartbeat alone says.
BaseLabel(g, e) ==
  CASE e.paused -> "PAUSED"
    [] ~e.paused /\ g.active /\ e.fresh -> "RUNNING"
    [] ~e.paused /\ g.active /\ ~e.fresh /\ g.pending + g.claimed > 0 -> "STALLED"
    [] OTHER -> "IDLE"

WindingDown(g, e) == Activity(g, e) \in {"winding-down", "evaluating"}

\* The state line: its label, and what it adds.
StateLine(g, e) ==
  IF Activity(g, e) = "evaluating" /\ g.pending = 0 /\ g.claimed = 0
    THEN [label |-> "WINDING DOWN", sub |-> "eval"]
  ELSE IF e.phase = "analyze" /\ Activity(g, e) = "evaluating" /\ BaseLabel(g, e) = "IDLE"
    THEN [label |-> "ANALYZING", sub |-> "batch"]
  ELSE IF WindingDown(g, e) /\ BaseLabel(g, e) = "IDLE"
    THEN [label |-> "IDLE", sub |-> "winding"]
  ELSE IF FullyDone(g) /\ ~GPUCommitted(g, e)
    THEN [label |-> BaseLabel(g, e), sub |-> "safe"]
  ELSE [label |-> BaseLabel(g, e), sub |-> "runner"]

-----------------------------------------------------------------------------
(* The queries of one page, in the order of the code.                      *)

With(s)    == {t \in Tracks : status[t] = s}
Backlog    == {t \in Tracks : status[t] = "done" /\ ~chunks[t]}
JudgedDone == {t \in Tracks : status[t] = "done" /\ judged[t] = "yes"}

Begin(step, tracks) ==
  /\ at' = step /\ got' = Nothing /\ line' = NoLine
  /\ asked' = tracks /\ touched' = {} /\ joined' = {} /\ moves' = 0
  /\ UNCHANGED trackVars

Ask == at = "none" /\ Begin("counts", {t \in Tracks : status[t] # "absent"})

Query(here, next) ==
  /\ at = here /\ at' = next
  /\ UNCHANGED <<trackVars, line, asked, sinceVars>>

\* One GROUP BY.
ReadCounts ==
  /\ Query("counts", "backlog")
  /\ got' = [got EXCEPT !.pending = Cardinality(With("pending")),
                        !.claimed = Cardinality(With("claimed")),
                        !.done = Cardinality(With("done"))]

\* Transcripts without chunks, after the counts of transcripts and of chunks.
ReadBacklog ==
  /\ Query("backlog", "runner")
  /\ got' = [got EXCEPT !.backlog = Cardinality(Backlog)]

\* The claimed row updated last, if there is one; the judge's backlog, the last
\* hour's throughput and the control row come before it.
ReadRunner ==
  /\ Query("runner", "coverage")
  /\ got' = [got EXCEPT !.active = With("claimed") # {}]

\* Done tracks with a verdict; the availability, the averages, the library's
\* totals and the segments of the bar come after it.
ReadCoverage ==
  /\ Query("coverage", "render")
  /\ got' = [got EXCEPT !.covered = Cardinality(JudgedDone)]

\* The rest the tracks have no part in, and whoever writes it is not of this
\* module: paused, the age of the claim's heartbeat, the coordinator's phase
\* ("idle" when it cannot be read), and whether the arbiter of the primary
\* server answers that the GPU is free.
Render ==
  /\ at = "render" /\ at' = "shown"
  /\ \E e \in Elsewhere : line' = StateLine(got, e)
  /\ got' = Nothing
  /\ UNCHANGED <<trackVars, asked, sinceVars>>

Leave == at = "shown" /\ Begin("none", {})

\* A query fails: an error page.
Fail == at \notin {"none", "render", "shown"} /\ Begin("none", {})

-----------------------------------------------------------------------------

Pipeline == \E t \in Tracks :
  \/ Enqueue(t) \/ Claim(t) \/ Complete(t) \/ GiveUp(t) \/ GiveBack(t)
  \/ Judge(t) \/ Embed(t) \/ Requeue(t) \/ Reembed(t)

Page ==
  \/ Ask \/ ReadCounts \/ ReadBacklog \/ ReadRunner
  \/ ReadCoverage \/ Render \/ Leave \/ Fail

Next == Pipeline \/ Page

Spec == Init /\ [][Next]_vars

-----------------------------------------------------------------------------
(* Properties.                                                             *)

\* The type invariant of the queue, the control row and a page under way
\* (internal/db/db.go QueueStats).
TypeOK ==
  /\ status \in [Tracks -> {"absent", "pending", "claimed", "done", "failed"}]
  /\ judged \in [Tracks -> {"no", "yes", "failed"}]
  /\ chunks \in [Tracks -> BOOLEAN]
  /\ at \in {"none", "counts", "backlog", "runner", "coverage", "render", "shown"}
  /\ got \in [pending : Nat, claimed : Nat, done : Nat, backlog : Nat,
              active : BOOLEAN, covered : Nat]
  /\ line \in [label : {"PAUSED", "RUNNING", "STALLED", "IDLE", "WINDING DOWN", "ANALYZING"},
               sub : {"none", "eval", "batch", "winding", "safe", "runner"}]
  /\ asked \in SUBSET Tracks /\ touched \in SUBSET Tracks /\ joined \in SUBSET Tracks
  /\ moves \in Nat

Safe == at = "shown" /\ line.sub = "safe"

\* When the page says "safe to walk away", every track that was there when it
\* was asked for, and that nobody sent back meanwhile, has failed or is
\* transcribed and searchable: the backlog is counted after the statuses, so a
\* track that moves on between two queries is missed by neither.
SafeIsSearchable ==
  Safe => \A t \in asked \ touched :
            status[t] = "failed" \/ (status[t] = "done" /\ chunks[t])

\* With the judge in the pipeline, and no track transcribed while the page was
\* made, it also means that every transcribed track has a verdict: the two
\* counts the coverage divides are read apart, and only a newcomer can make up
\* for a track without one.
SafeIsJudged ==
  Safe /\ EvalEnabled /\ joined = {} =>
    \A t \in Tracks : status[t] = "done" => judged[t] = "yes"

\* The state line does not say that a runner is transcribing and that it is
\* safe to walk away (newStatusData: "so the banner is never
\* self-contradictory").  Refuted: the claimed row is read after the counts.
NeverContradicts == Safe => line.label # "RUNNING"

\* With every track failed, or searchable with its judgement tried, the page
\* does not wait for the judge (QueueStats.EvalBacklog: a failed judge run is
\* not retried, "so it is not backlog").  Refuted: the coverage counts verdicts.
FailuresEnd ==
  at = "shown" /\ touched \cup joined = {}
    /\ (\A t \in Tracks : status[t] \in {"absent", "failed"} \/ (judged[t] # "no" /\ chunks[t]))
      => line.label # "WINDING DOWN"
=============================================================================
