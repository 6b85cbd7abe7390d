SPECIFICATION FairSpec
CONSTANTS
  Workers = {w1, w2}
  Dispatchers = {d1}
  Creator = cr
  Cancellers = {}
  Retriers = {}
  MaxAttempts = 2
  Faults = {"crash", "kill", "broker_down", "publisher_dies"}
  MaxFaults = 2
INVARIANT NeverStranded
PROPERTY EventuallySettled
CHECK_DEADLOCK FALSE
