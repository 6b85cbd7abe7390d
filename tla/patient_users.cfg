SPECIFICATION PlatformSpec
CONSTANTS
  Foci = {"outbox", "reports"}
  Workers = {w1, w2}
  Clients = {c1}
  MaxEvents = 4
  MaxAttempts = 2
  Patient = TRUE
  Faults = {"crash", "lost_message"}
  MaxFaults = 2
  Jobs = {j1, j2}
  MaxExecutions = 4
  AgentAttempts = 1
  MaxConcurrency = 1
  DailyLimit = 2
  HardBudget = 4
  Reservation = 2
  Costs = {0, 1}
  AgentFaults = {"crash", "slow_provider", "stall"}
  MaxAgentFaults = 1
  Documents = {d1, d2}
  Artifacts = {a1}
  Exports = {e1}
  Size <- OneByteEach
  Quota = 1
  PurgeBatch = 2
  MaxLeases = 2
  StorageFaults = {"crash", "no_publish", "overrun"}
  MaxStorageFaults = 2
  MaxPlans = 2
  MaxReportFaults = 1
SYMMETRY WorkerSymmetry
INVARIANTS InSyncWhenDelivered DownloadsAreReviewed
PROPERTY SettledStaysSettled
CHECK_DEADLOCK FALSE
