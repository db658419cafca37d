------------------------- MODULE BatchCoordinatorMC -------------------------
(* Model-checking values for BatchCoordinator.                             *)
EXTENDS BatchCoordinator, TLC

\* The operator clears the limit, or sets a bounded run.
SomeBudgets == {NoLimit, 0, 1, 2}
OneBudget == {2}

\* Runs end on their own terms, interrupted at most after the swap.
Calm == {"swap_fails", "give_back"}
\* Coordinators die or lose their session, cleanups fail.
Crashes == {"crash", "drop", "lookup_fails", "restore_fails", "swap_fails", "early"}
JustCrash == {"crash"}
JustEarly == {"early"}
JustDrop == {"drop"}
Nothing == {}

AnyCoordinator == Permutations(Coordinators)
=============================================================================
