SPECIFICATION FairSpec
CONSTANTS
  Workers = {w1}
  Clients = {c1}
  MaxPlans = 1
  MaxFaults = 0
PROPERTY RetriesResume
CHECK_DEADLOCK FALSE
