SPECIFICATION Spec
CONSTANTS
  f1 = f1
  f2 = f2
  c1 = c1
  c2 = c2
  Findings = {f1, f2}
  Chunks = {c1, c2}
  Deciders = {d1}
  ChunkOf <- SameChunk
  Clashing <- NoClash
  Layout <- Stable
  MaxFaults = 0
  Env <- Overlaps
INVARIANTS AcceptedIsOwed
CHECK_DEADLOCK FALSE
