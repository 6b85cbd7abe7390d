SPECIFICATION Spec
CONSTANTS
  Workers = {w1, w2}
  Dispatchers = {d1}
  Creator = cr
  Cancellers = {c1}
  Retriers = {r1}
  MaxAttempts = 1
  Faults = {"broker_down", "request_dies"}
  MaxFaults = 1
SYMMETRY WorkerSymmetry
INVARIANT HandlerExclusion
PROPERTY CancelIsHonoured
CHECK_DEADLOCK FALSE
