SPECIFICATION MCSpec
CONSTANTS
  Subs <- MCSubs
  Plans = {light, full}
  h1 = h1
  h2 = h2
  Hooks = {h1, h2}
  TrialEnd = 2
  Period = 2
  MonthDays = 2
  MonthsShown = 1
  YearDays = 2
  SpanDays = 2
  MailDays = {1}
  Scopes <- MCScopes
  Visits = {v1, v2}
  Prices = {price}
  Customers <- MCCustomers
  Payments <- MCSubs
  Buckets <- MCBuckets
  None = None
  Nothing = Nothing
SYMMETRY MCSymmetry
INVARIANTS
  MirrorFaithful
  AccessKept
  LedgerComplete
  MoneyAddsUp
  NoDeadEnd
  OneCustomer
PROPERTY
  SecondOnlyFromOlderPage
CHECK_DEADLOCK FALSE
