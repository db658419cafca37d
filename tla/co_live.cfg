SPECIFICATION FairSpec
CONSTANTS
  f1 = f1
  f2 = f2
  c1 = c1
  c2 = c2
  Findings = {f1, f2}
  Chunks = {c1}
  Deciders = {d1}
  ChunkOf <- SameChunk
  Clashing <- Overlap
  Layout <- OneChunk
  MaxFaults = 1
  Env <- Losses
CHECK_DEADLOCK FALSE
PROPERTIES AcceptedSettles
