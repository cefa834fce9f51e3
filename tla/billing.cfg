CONSTANTS
  d1 = d1
  d2 = d2
  u1 = u1
  u2 = u2
  b1 = b1
  b2 = b2
  p = p
  q = q
  timer = timer
  manual = manual
  NoBundle = NoBundle
  MonthLength = 1
  Dids = {d1}
  Users = {u1}
  ResellerUsers = {u1}
  Bundles = {b1}
  BundleUser <- OwnB1
  Clerks = {p}
  Editors = {}
  Prices <- Ladder
  Channels = {3}
  Days = {1}
  Topups = {2}
  CallCosts = {1}
  MaxOrders = 1
  MaxCards = 1
  MaxPostings = 3
  Runners = {timer, manual}
  Timer = timer
  MaxNow = 2
  MaxFailures = 1
SPECIFICATION BillingInstance
CHECK_DEADLOCK FALSE
INVARIANTS
  BillingTypeOK
  LedgerBalances
  ChargedPerMonth
PROPERTIES
  RentNeverOverdraws
  DueSettled
