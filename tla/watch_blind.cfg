SPECIFICATION FairSpec
CONSTANTS
  Workers = {w1}
  Jobs = {j1}
  MaxFolders = 2
  MaxChanges = 2
  MaxSearches = 2
  MaxAttempts = 2
  TenantBound = FALSE
  MaxFaults = 0
PROPERTY ScansCatchUp
CHECK_DEADLOCK FALSE
