SPECIFICATION StarvingSpec
CONSTANTS
  o1 = o1
  o2 = o2
  o3 = o3
  x1 = x1
  x2 = x2
  ref1 = ref1
  ref2 = ref2
  r1 = r1
  r2 = r2
  c1 = c1
  c2 = c2
  Orders = {o1}
  OperatorOrders = {}
  Txns = {x1}
  OrderOf <- AllPayFirst
  References = {}
  Refunds = {r1}
  Tenants <- OneTenant
  PayerOf <- OnePayer
  Price = 1
  Months <- OneMonth
  TrialEnd <- NoTrial
  Callers = {c1, c2}
  Workers = {c2}
  OrderIdempotent = FALSE
  ClosesOrders = FALSE
  Cumulative = FALSE
  Consoled = {}
  MaxNow = 0
  v1 = v1
  Writers = {v1}
  LookupWorks = TRUE
  MaxDeaths = 1
  MaxRestores = 1
  i1 = i1
  i2 = i2
  d1 = d1
  Intents = {i1, i2}
  InApp = {}
  Triggers = {}
  Senders = {d1}
  Window = 1
  Attempts = 2
  Providers = {"smtp"}
  MaxCrashes = 0
PROPERTIES
  ExpiredIsSuppressed
CHECK_DEADLOCK FALSE
