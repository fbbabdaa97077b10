SPECIFICATION RestoredSpec
CONSTANTS
  j1 = j1
  j2 = j2
  Jobs = {j1, j2}
  Tenants <- OneTenant
  Periods <- TwoPeriods
  TenantOf <- OneTenantOf
  PeriodOwner <- TwoPeriodsOwner
  Units <- OneUnitEach
  Notifies = {j1, j2}
  ResearchUnits <- OneUnitPerPeriod
  QueuedJobs = 2
  MaxGlobalRunning = 4
  MaxFence = 2
  v1 = v1
  v2 = v2
  Writers = {v1, v2}
  LookupWorks = TRUE
  MaxDeaths = 1
  MaxRestores = 1
SYMMETRY Interchangeable
INVARIANTS
  NoNoticeAnew
CHECK_DEADLOCK FALSE
