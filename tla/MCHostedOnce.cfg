SPECIFICATION OnceSpec
CONSTANTS
  o1 = o1
  o2 = o2
  o3 = o3
  x1 = x1
  x2 = x2
  ref1 = ref1
  ref2 = ref2
  r1 = r1
  r2 = r2
  c1 = c1
  c2 = c2
  Orders = {o1}
  OperatorOrders = {}
  Txns = {x1}
  OrderOf <- AllPayFirst
  References = {}
  Refunds = {r1, r2}
  Tenants <- OneTenant
  PayerOf <- OnePayer
  Price = 2
  Months <- OneMonth
  TrialEnd <- NoTrial
  Callers = {c1, c2}
  Workers = {}
  OrderIdempotent = FALSE
  ClosesOrders = TRUE
  Cumulative = FALSE
  Consoled = {}
  MaxNow = 0
  w1 = w1
  w2 = w2
  u1 = u1
  Passers = {w1, w2}
  Persons = {u1}
  MaxRuns = 2
  MaxDays = 2
  MaxTakeovers = 2
  MaxFaults = 2
SYMMETRY AlikeOnce
INVARIANTS
  OneProviderOrder
  RefundLedgerHonest
  RefundedNeverServed
  OneObservedRunPerDay
PROPERTIES
  ImplementsPurchase
  PaymentsAreFinal
  SignalsFollowTheLast
CHECK_DEADLOCK FALSE
