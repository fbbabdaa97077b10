SPECIFICATION WorkersSpec
CONSTANTS
  j1 = j1
  w1 = w1
  w2 = w2
  Jobs = {j1}
  Operations = {j1}
  Workers = {w1}
  Tenants <- OneTenant
  Periods <- OnePeriod
  TenantOf <- OneTenantOf
  PeriodOwner <- OnePeriodOwner
  Units <- OneUnit
  Notifies = {j1}
  ResearchUnits <- OneUnitPerPeriod
  QueuedJobs = 1
  MaxGlobalRunning = 4
  MaxFence = 5
  MaxLocalFence = 4
  ConfirmsUsage = TRUE
  FailingReads = {"receipt"}
  MaxDisturbances = 3
INVARIANTS
  UnverifiedIsNotAbsent
CHECK_DEADLOCK FALSE
