SPECIFICATION Spec
CONSTANTS
  Workers = {w1, w2}
  Dispatchers = {d1}
  Creator = cr
  Cancellers = {}
  Retriers = {r1, r2}
  MaxAttempts = 1
  Faults = {}
  MaxFaults = 0
INVARIANT HandlerExclusion
CHECK_DEADLOCK FALSE
