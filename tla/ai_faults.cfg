SPECIFICATION Spec
CONSTANTS
  Jobs = {j1, j2}
  MaxExecutions = 3
  MaxAttempts = 2
  MaxConcurrency = 2
  DailyLimit = 2
  HardBudget = 3
  Reservation = 2
  Costs = {0, 1}
  Faults = {"crash", "slow_provider", "job_overrun", "stall"}
  MaxFaults = 2
SYMMETRY JobSymmetry
INVARIANTS TypeOK  ArtifactsSettled ReservationsRecoverable
PROPERTY SuccessIsFinal
CHECK_DEADLOCK FALSE
