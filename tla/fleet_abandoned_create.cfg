SPECIFICATION Spec
CONSTANTS
  u1 = u1
  u2 = u2
  u3 = u3
  u4 = u4
  k1 = k1
  k2 = k2
  k3 = k3
  Worker = {1}
  Allocation = {1}
  User = {u1, u2}
  Request <- OnePair
  Controller = {c1}
  Boot = {b1}
  MinInstances = 0
  MaxInstances = 1
  RoomsChoice = {1}
  MaxRooms = 1
  HeartbeatTimeout = 1
  LostTimeout = 2
  LaunchTimeout = 1
  AllocationTimeout = 1
  PrepareTimeout = 1
  ReservationTTL = 1
  ReconnectSeconds = 1
  IdleSeconds = 1
  ProviderPollSeconds = 1
  MinLifetimeForAdmission = 1
  LeaseSeconds = 1
  InterruptedAfter = 0
  CreateBackoff = 1
  CreateSpacing = 1
  History = 0
  MaxTries = 1
  RetryDelay <- RetryAtOnce
  TTLs = {0}
  Readings <- HealthyOnly
  RoomReports <- ClosedOrPlaying
  Statuses = {"running"}
  CreateSizes = {}
  PlayerCounts = {}
  Faults = {}
  None = None
INVARIANT NoAbandonedCreate
