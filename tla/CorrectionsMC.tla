--------------------------- MODULE CorrectionsMC ---------------------------
(* Model-checking values for Corrections.                                  *)
EXTENDS Corrections, TLC

CONSTANTS f1, f2, c1, c2

\* Two corrections in one chunk, of the same characters or not, or one in each.
SameChunk == (f1 :> c1) @@ (f2 :> c1)
OneEach   == (f1 :> c1) @@ (f2 :> c2)
Overlap   == {{f1, f2}}
NoClash   == {}

\* Always the same chunks; as many but other ones; fewer.
Stable   == (0 :> {c1, c2})
OneChunk == (0 :> {c1})
Again    == (0 :> {c1}) @@ (1 :> {c1})
Moved    == (0 :> {c1, c2}) @@ (1 :> {c1, c2})
Fewer    == (0 :> {c1, c2}) @@ (1 :> {c1})

Crashes    == {"interrupt", "lost_applied", "rechunk"}
Losses     == {"interrupt", "lost_applied", "lost_stale"}
Overlaps   == {"overlap"}
Early      == {"early"}
PrunedTail == {"tail"}
LostApplied == {"lost_applied"}
LostStale  == {"lost_stale"}
Interrupts == {"interrupt"}

\* Deciders do the same things; so do corrections of one chunk.
Same == Permutations(Deciders) \cup (IF \A f, g \in Findings : ChunkOf[f] = ChunkOf[g]
                                       THEN Permutations(Findings) ELSE {})
=============================================================================
