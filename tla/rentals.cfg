CONSTANTS
  d1 = d1
  d2 = d2
  u1 = u1
  u2 = u2
  b1 = b1
  b2 = b2
  p = p
  q = q
  timer = timer
  manual = manual
  NoBundle = NoBundle
  MonthLength = 2
  Dids = {d1, d2}
  Users = {u1, u2}
  ResellerUsers = {u1}
  Bundles = {b1, b2}
  BundleUser <- B1AndB2
  Clerks = {p, q}
  Editors = {q}
  Prices <- FreeSetup
  Channels = {2}
  Days = {1}
  Topups = {}
  CallCosts = {}
  MaxOrders = 2
  MaxCards = 1
  MaxPostings = 0
  Runners = {timer}
  Timer = timer
  MaxNow = 0
  MaxFailures = 0
SPECIFICATION RentalsOnly
SYMMETRY Alike
CHECK_DEADLOCK FALSE
INVARIANTS
  RentalsTypeOK
  DidAgrees
  KycGate
  QuarantineFollowsBlock

  
