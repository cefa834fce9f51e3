CONSTANTS
  c1 = c1
  c2 = c2
  k1 = k1
  k2 = k2
  d1 = d1
  d2 = d2
  u1 = u1
  u2 = u2
  Calls = {c1, c2}
  Keys = {k1, k2}
  Sanitize <- BothHosts
  Dids = {d1}
  Users = {u1}
  DidCap <- OneChannel
  UserCap <- Uncapped
  DidOf <- SameDid
  NoUser = NoUser
  NoCall = NoCall
  AudioGroupDids = {}
  OpeningBalance <- Rich
  MinBalance = 1
  Charges = {0}
  AuthAttempts <- C2Twice
  CdrAttempts <- Once
  Sweepers = {}
  AdminCalls = {}
  MaxChanges = 0
SPECIFICATION Spec
CHECK_DEADLOCK FALSE
INVARIANTS
  CapRespected
  ConcurrencyWithinCap
  CleanAfterAck
