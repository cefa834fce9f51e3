CONSTANTS
  i1 = i1
  i2 = i2
  r1 = r1
  r2 = r2
  c1 = c1
  c2 = c2
  g1 = g1
  l1 = l1
  w1 = w1
  w2 = w2
  a1 = a1
  m1 = m1
  m2 = m2
  s1 = s1
  s2 = s2
  Imports = {i1, i2}
  Readers = {r1, r2}
  Forms <- FewForms
  Ranges <- WholeRange
  Numbers = {1, 2}
  NoNumber = 0
  MaxRows = 2
  Buffer = 1
  Deadline = 1
  SlowDb = FALSE
  MayPanic = FALSE
  Clips = {c1, c2}
  NoClip = NoClip
  ClipGroups = {g1}
  NoGroup = NoGroup
  Lines = {l1}
  Desks = {w1, w2}
  Dialogs = {r1}
  MaxName = 2
  BulkSize = 2
  Docs = {c1, c2}
  NoDoc = NoDoc
  FileNames = {a1, s1}
  Erasers = {w1, w2}
  Peers = {a1}
  PeerUser <- OneUser
  Matches = {m1, m2}
  HostOf <- Addresses
  Regens = {w1, w2}
  Keys = {s1, s2}
  BuiltIn = {s1}
  MaxValue = 2
  Requests = {w1, w2}
  Words = {s1, s2}
  NoWord = NoWord
  Boots <- EnvOrNot
  Browsers = {w1, w2}
  ResellerIds = {m1, m2}
  Direct = Direct
  Customers = {c1, c2}
  KeyIds = {a1}
  Calls = {w1, w2}
SPECIFICATION ImportAlone
CHECK_DEADLOCK FALSE
INVARIANTS
  OutlivesReaders
