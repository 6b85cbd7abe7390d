SPECIFICATION Spec
CONSTANTS
  Workers = {w1}
  Clients = {c1, c2}
  MaxGenerations = 1
  MaxRequests = 4
  MaxRevisions = 2
  MaxFaults = 0
INVARIANT PublishedUnchanged
SYMMETRY ActorSymmetry
CHECK_DEADLOCK FALSE
