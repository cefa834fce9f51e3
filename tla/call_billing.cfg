CONSTANTS
  c1 = c1
  c2 = c2
  k1 = k1
  k2 = k2
  d1 = d1
  d2 = d2
  u1 = u1
  u2 = u2
  NoUser = NoUser
  NoCall = NoCall
  Calls = {c2}
  Keys = {k2}
  Sanitize <- HostOnly
  Dids = {d2}
  Users = {u1, u2}
  DidCap <- OneOnD2
  UserCap <- TwoUncapped
  DidOf <- ToD2
  AudioGroupDids = {d2}
  OpeningBalance <- TwoRich
  MinBalance = 1
  Charges = {0, 2}
  AuthAttempts <- LoneOnce
  CdrAttempts <- LoneTwice
  Sweepers = {}
  AdminCalls = {c2}
  MaxChanges = 2
SPECIFICATION Spec
CHECK_DEADLOCK FALSE
INVARIANTS
  OneChargePerPost
  BilledToTenant
  AckedCallPaid
PROPERTIES
  LedgerImplemented
