SPECIFICATION MCSpec
CONSTANTS
  Operator = {o1, o2}
  Peer = {p1, p2, p3}
  MaxSessions = 2
  SessionTTL = 3
  LoginPerPeer = 1
  LoginGlobal = 1
  LoginWindow = 2
  MaxLoginPeers = 3
  LoginSlots = 1
  MaxRequests = 4
  Slots = 1
  FileTTL = 0
  CollectTTL = 1
  CacheTTL = 1
  MaxCalls = 3
  MaxBeside = 0
  Region = {1, 2}
  Name = {1, 2}
  MaxRooms = 3
  MaxOffset = 2
  MaxChanges = 1
  MaxEntries = 4
  Now = 3
  Window = 2
  MaxLimit = 3
INVARIANTS PeerTableBounded AnswersAreDefinite RefreshedAfterCommand SnapshotAgeBounded
  ListsAreComplete OnlyTiesAreSkipped
PROPERTIES SessionsEndForAReason RequestsEnd
