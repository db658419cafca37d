---------------------------- MODULE DecisionsMC ----------------------------
(* Model-checking values for Decisions.                                    *)
EXTENDS Decisions

\* Two agreeing findings and one that overlaps them with another fix.
Three   == 1 .. 3
TheFix  == <<"x", "y", "x">>
XandY   == {{"x", "y"}}
Of(r, u, m, f, c, n) ==
  [runs |-> r, undos |-> u, moves |-> m, faults |-> f, cap |-> c, atonce |-> n]
Runs    == Permutations(Runners)
\* Two runs at once, with a reviewer; two in turn, with an undo; and one run with
\* every pair of the others.
Slices  == {Of(2, 0, 0, 0, 1, 2), Of(2, 0, 1, 0, 9, 2), Of(2, 1, 0, 0, 9, 1),
            Of(1, 1, 1, 0, 9, 1), Of(1, 1, 0, 1, 9, 1), Of(1, 0, 1, 1, 9, 1)}
Decided == {Of(1, 1, 2, 0, 9, 1)}
=============================================================================
