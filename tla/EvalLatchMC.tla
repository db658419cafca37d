---------------------------- MODULE EvalLatchMC ----------------------------
(* Model-checking values for EvalLatch.                                    *)
EXTENDS EvalLatch

CONSTANTS k1, k2, w, e

\* A clean transcript, and one with a finding in its first chunk.
CleanOrOne == {{}, {k1}}
=============================================================================
