SPECIFICATION Spec
CONSTANTS
  Workers = {w1, w2}
  Dispatchers = {d1}
  Creator = cr
  Cancellers = {}
  Retriers = {}
  MaxAttempts = 2
  Faults = {"crash", "kill", "lost_retry", "lost_message", "broker_down", "publisher_dies", "request_dies", "slow_publisher", "overrun", "stall"}
  MaxFaults = 2
SYMMETRY WorkerSymmetry
INVARIANTS TypeOK OneOwner AttemptsBounded
PROPERTY RefinesFencedJob
CHECK_DEADLOCK FALSE
