CONSTANTS
  c1 = c1
  c2 = c2
  k1 = k1
  k2 = k2
  d1 = d1
  d2 = d2
  u1 = u1
  u2 = u2
  NoUser = NoUser
  NoCall = NoCall
  Calls = {c1, c2}
  Keys = {c1, k2}
  Sanitize <- MCSanitize
  Dids = {d1}
  Users = {u1}
  DidCap <- TwoOnD1
  UserCap <- CappedAtOne
  DidOf <- SameDid
  AudioGroupDids = {}
  OpeningBalance <- Rich
  MinBalance = 1
  Charges = {0}
  AuthAttempts <- Once
  CdrAttempts <- Once
  Sweepers = {"admin"}
  AdminCalls = {}
  MaxChanges = 0
SPECIFICATION Spec
CHECK_DEADLOCK FALSE
INVARIANTS
  PlaneTypeOK
  ChannelInv
  SetsAgree
  LiveCallHoldsChannel
