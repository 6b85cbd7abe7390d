SPECIFICATION FairSpec
CONSTANTS
  Workers = {w1, w2}
  Requests = {r1, r2}
  MaxVersions = 2
  Faults = {"crash", "slow"}
  MaxFaults = 1
INVARIANTS TypeOK ReadyIsEarned 
PROPERTIES EndsAreFinal VersionsEnd
CHECK_DEADLOCK FALSE
