SPECIFICATION Spec
CONSTANTS
  f1 = f1
  f2 = f2
  c1 = c1
  c2 = c2
  Findings = {f1, f2}
  Chunks = {c1}
  Deciders = {d1, d2}
  ChunkOf <- SameChunk
  Clashing <- NoClash
  Layout <- Again
  MaxFaults = 1
  Env <- Crashes
INVARIANTS AcceptedIsOwed WithdrawnIsOwed AppliedIsServed
PROPERTIES LegalMoves
SYMMETRY Same
CHECK_DEADLOCK FALSE
