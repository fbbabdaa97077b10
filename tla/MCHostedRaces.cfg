SPECIFICATION RacesSpec
CONSTANTS
  s1 = s1
  s2 = s2
  s3 = s3
  i1 = i1
  d1 = d1
  d2 = d2
  Operations <- TwoOperations
  Sessions = {s1, s2, s3}
  OpOf <- ThreeSessions
  Requests = 2
  Reserved = 1
  Budget = 2
  PeriodBudget = 2
  PlanUnits = 2
  Intents = {i1}
  InApp = {}
  Triggers = {i1}
  Senders = {d1, d2}
  Window = 2
  Attempts = 2
  Providers = {"smtp", "fixture", "lookup"}
  MaxCrashes = 1
  j1 = j1
  j2 = j2
  Jobs = {j1, j2}
  Tenants <- TwoTenants
  Periods <- TwoPeriods
  TenantOf <- ByTenant
  PeriodOwner <- ByTenantPeriods
  Units <- UnitAndNone
  Notifies = {j1}
  ResearchUnits <- OneUnitPerPeriod
  QueuedJobs = 1
  MaxGlobalRunning = 1
  MaxFence = 2
SYMMETRY Interchangeable
INVARIANTS
  NothingOverdrawn
  ServedOnce
  ChargedForResults
  MailedAtMostOnce
  ReportsAreTrue
PROPERTIES
  SettledIsFinal
  NoMailAfterDeletion
  TurnsRotate
CHECK_DEADLOCK FALSE
