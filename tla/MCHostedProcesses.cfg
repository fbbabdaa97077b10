SPECIFICATION ProcessesSpec
CONSTANTS
  j1 = j1
  w1 = w1
  w2 = w2
  c1 = c1
  c2 = c2
  c3 = c3
  k1 = k1
  k2 = k2
  Jobs = {j1}
  Operations = {j1}
  Workers = {w1, w2}
  Tenants <- OneTenant
  Periods <- OnePeriod
  TenantOf <- OneTenantOf
  PeriodOwner <- OnePeriodOwner
  Units <- OneUnit
  Notifies = {j1}
  ResearchUnits <- OneUnitPerPeriod
  QueuedJobs = 1
  MaxGlobalRunning = 4
  MaxFence = 5
  MaxLocalFence = 4
  ConfirmsUsage = FALSE
  FailingReads = {"receipt"}
  MaxDisturbances = 2
  Callers = {c1, c2, c3}
  Stocks = {k1, k2}
  Wants <- CrossedWants
  Single = {c3}
  LimitOf <- TwoButOne
  WindowOf <- OneButTwo
  Lease = 1
  Ttl = 1
  Cooldown = 1
  Delays = {1}
  Pages <- TwoPagesOnce
  MaxTime = 2
SYMMETRY Interchangeable
INVARIANTS
  SettledBeforeAck
  NoBlindProviderRetry
  QuotaKept
  SharedSafely
PROPERTIES
  ImplementsLedger
  LateWorkersAreFenced
CHECK_DEADLOCK FALSE
