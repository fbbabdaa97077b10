SPECIFICATION PeriodSpec
CONSTANTS
  o1 = o1
  o2 = o2
  o3 = o3
  x1 = x1
  x2 = x2
  ref1 = ref1
  ref2 = ref2
  r1 = r1
  r2 = r2
  c1 = c1
  c2 = c2
  Orders = {o1, o2, o3}
  OperatorOrders = {o2, o3}
  Txns = {x1, x2}
  OrderOf <- AllPayFirst
  References = {ref1, ref2}
  Refunds = {}
  Tenants <- OneTenant
  PayerOf <- OnePayer
  Price = 1
  Months <- OneOrTwoMonths
  TrialEnd <- ShortTrial
  Callers = {c1}
  Workers = {}
  OrderIdempotent = TRUE
  ClosesOrders = FALSE
  Cumulative = TRUE
  Consoled = {x1}
  MaxNow = 2
INVARIANTS
  PeriodsDisjoint
  ServiceIsPaidFor
  RevokedWorkStops
CHECK_DEADLOCK FALSE
