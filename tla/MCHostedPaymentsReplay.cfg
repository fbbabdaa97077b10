SPECIFICATION MoneySpec
CONSTANTS
  o1 = o1
  o2 = o2
  o3 = o3
  x1 = x1
  x2 = x2
  ref1 = ref1
  ref2 = ref2
  r1 = r1
  r2 = r2
  c1 = c1
  c2 = c2
  Orders = {o1}
  OperatorOrders = {}
  Txns = {x1}
  OrderOf <- AllPayFirst
  References = {}
  Refunds = {r1}
  Tenants <- OneTenant
  PayerOf <- OnePayer
  Price = 2
  Months <- OneMonth
  TrialEnd <- NoTrial
  Callers = {c1, c2}
  Workers = {c2}
  OrderIdempotent = TRUE
  ClosesOrders = FALSE
  Cumulative = FALSE
  Consoled = {}
  MaxNow = 0
INVARIANTS
  ReleasedOnlyIfRefused
CHECK_DEADLOCK FALSE
