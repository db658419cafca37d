SPECIFICATION FairSpec
CONSTANTS
  k1 = k1
  k2 = k2
  w = w
  e = e
  Chunks = {k1, k2}
  Worker = w
  Commands = {e}
  Gates = {TRUE, FALSE}
  MaxOps = 1
  MaxFaults = 2
  Flaws <- CleanOrOne
  MaxIds = 2
CHECK_DEADLOCK FALSE
INVARIANTS EmbeddedWasJudged FindingsOnce PassesClose
PROPERTIES Searchable
