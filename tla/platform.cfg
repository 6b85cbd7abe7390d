SPECIFICATION FairPlatformSpec
CONSTANTS
  Foci = {"outbox", "agents", "uploads", "exports"}
  Workers = {w1, w2}
  Clients = {c1}
  MaxEvents = 2
  MaxAttempts = 2
  Patient = FALSE
  Faults = {"crash", "lost_message", "redelivery", "replay"}
  MaxFaults = 2
  Jobs = {j1, j2}
  MaxExecutions = 4
  AgentAttempts = 1
  MaxConcurrency = 1
  DailyLimit = 2
  HardBudget = 4
  Reservation = 2
  Costs = {0, 1}
  AgentFaults = {"crash", "slow_provider", "stall"}
  MaxAgentFaults = 1
  Documents = {d1, d2}
  Artifacts = {a1}
  Exports = {e1}
  Size <- OneByteEach
  Quota = 1
  PurgeBatch = 2
  MaxLeases = 2
  StorageFaults = {"crash", "no_publish", "overrun"}
  MaxStorageFaults = 2
  MaxPlans = 2
  MaxReportFaults = 1
INVARIANTS ClaimedOnce ConcurrencyKept Readable QuotaKept
PROPERTIES DeliveredIsFinal OutboxDelivers AgentsEnd NothingLingers
CHECK_DEADLOCK FALSE
