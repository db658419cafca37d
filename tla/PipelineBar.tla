---------------------------- MODULE PipelineBar -----------------------------
(***************************************************************************)
(* The widths of the pipeline bar of the status page                        *)
(* (internal/mcp/bar.go computePipelineBar): whole percents of the tracks   *)
(* that have not failed, one segment for each stage, no track invisible.    *)
(***************************************************************************)
EXTENDS Integers

CONSTANT Inputs  \* the counts to explore, functions from segments to Nat

Segments == 1 .. 5  \* pending, claimed, transcribed, judged, embedded
MinPct   == 2

VARIABLES
  count,  \* tracks of each segment
  pct,    \* its width
  next,   \* the segment the loop is at
  doing   \* the loop

vars == <<count, pct, next, doing>>

Total(f)  == f[1] + f[2] + f[3] + f[4] + f[5]
Shown     == {s \in Segments : count[s] > 0}
Remainder == 100 - Total(pct)
Surplus   == Total(pct) - 100

Init ==
  /\ count \in Inputs
  /\ pct = [s \in Segments |-> 0] /\ next = 1 /\ doing = "truncate"

\* No tracks, no bar.
Empty ==
  /\ doing = "truncate" /\ Total(count) = 0
  /\ doing' = "drawn" /\ UNCHANGED <<count, pct, next>>

Truncate ==
  /\ doing = "truncate" /\ Total(count) > 0
  /\ pct' = [s \in Segments |-> (count[s] * 100) \div Total(count)]
  /\ doing' = "handout" /\ UNCHANGED <<count, next>>

\* A point to each segment that has one, round and round from the first.
HandOut ==
  /\ doing = "handout" /\ Remainder > 0
  /\ pct' = IF next \in Shown /\ pct[next] > 0 THEN [pct EXCEPT ![next] = @ + 1] ELSE pct
  /\ next' = (next % 5) + 1
  /\ UNCHANGED <<count, doing>>

\* Mutant: stages without a track are raised too.
FloorAll(s) == IF pct[s] < MinPct THEN MinPct ELSE pct[s]

Floored(s) == IF s \in Shown /\ pct[s] < MinPct THEN MinPct ELSE pct[s]

Raise ==
  /\ doing = "handout" /\ Remainder <= 0
  /\ pct' = [s \in Segments |-> Floored(s)]
  /\ doing' = "reclaim" /\ UNCHANGED <<count, next>>

Reducible == {s \in Shown : pct[s] > MinPct}

\* The first of the largest gives back a point.
Reclaim ==
  /\ doing = "reclaim" /\ Surplus > 0
  /\ \E s \in Reducible :
       /\ \A u \in Reducible : pct[u] < pct[s] \/ (pct[u] = pct[s] /\ s <= u)
       /\ pct' = [pct EXCEPT ![s] = @ - 1]
  /\ UNCHANGED <<count, next, doing>>

Draw ==
  /\ doing = "reclaim" /\ (Surplus <= 0 \/ Reducible = {})
  /\ doing' = "drawn" /\ UNCHANGED <<count, pct, next>>

Next == Empty \/ Truncate \/ HandOut \/ Raise \/ Reclaim \/ Draw

Spec == Init /\ [][Next]_vars

-----------------------------------------------------------------------------
(* Properties.                                                             *)

\* The type invariant of a bar being made.
TypeOK ==
  /\ count \in [Segments -> Nat] /\ pct \in [Segments -> 0 .. 100]
  /\ next \in Segments
  /\ doing \in {"truncate", "handout", "reclaim", "drawn"}

\* The row of a bar that is drawn fills exactly its width, every stage with a
\* track is wide enough to be seen, and one without has no segment: raising
\* many small segments is paid for by the large ones to the point, and by none
\* below the floor.  The round that hands out the points finds a segment to
\* take one, so it ends.
BarIsWhole ==
  /\ doing = "drawn" /\ Shown # {} =>
       /\ Total(pct) = 100
       /\ \A s \in Segments : IF s \in Shown THEN pct[s] >= MinPct ELSE pct[s] = 0
  /\ doing = "handout" => \E s \in Shown : pct[s] > 0

\* A stage with more tracks than another is not drawn narrower.  Refuted: the
\* points the truncation leaves over go round the segments in their order, not,
\* as its comment says, "to largest segment first" (bar.go:97).
WiderIsMore ==
  doing = "drawn" =>
    \A s, u \in Shown : count[s] > count[u] => pct[s] >= pct[u]
=============================================================================
