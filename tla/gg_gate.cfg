SPECIFICATION FairSpec
CONSTANTS
  Parts = 2
  MaxFaults = 4
  Env = {"crash", "park_fails", "unpark_fails", "stamp_fails"}
INVARIANTS JobsRunOnGpu
PROPERTIES AckedParkIsReal GateReopens
