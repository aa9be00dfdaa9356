SPECIFICATION ServicesSpec
CONSTANTS
  k1 = k1
  k2 = k2
  p1 = p1
  m1 = m1
  l1 = l1
  \* the queue
  Waiters = {w1, w2, w3}
  Lapis = {l1}
  LapiOf <- AllToOne
  QueueMaxLen = 2
  \* the cursors
  Sessions = {s1, s2}
  Platform = platform
  Pool <- TwoKeys
  SweepThreshold = 2
  MaxSessionCursors = 2
  \* the blocks and the catalog
  Keys = {k1}
  Rapis = {m1}
  NoKey = nokey
  Synthetic = synthetic
  Reqs = {r1, r2}
  TTL = 2
  Credentials = {k1, k2}
  Binding <- AnyKey
  NoRapi = norapi
  Confirmations = 2
  Disturbances = 3
  \* the streams
  ClientFormats <- AllFormats
  TargetFormats <- AllFormats
  CallIdx = {0, 1}
  MaxChunks = 2
  MaxEvents = 4
  MaxAttempts = 2
  \* the definitions
  Backends = {"local", "center"}
  Platforms = {p1, p2}
  Creds = {k1, k2, k3, k4}
  Models = {m1, m2}
  Route = route
  Nil = nil
  Operators = {1, 2}
  FormKeys = 1
  FirstRows <- Stocked
INVARIANTS
  ServicesTypeOK
  QueueCountExact
  PoolCovered
  DeniedOnce TableFollowsMemory
  RecoveryConfirmed AbsenceProven FrozenHasCause
  OneUpstream ContentInOrder ArgsReachTheirCall WellFramed
  PoolsDerived SavedAsAsked
PROPERTIES
  NilOnlyWhenDue ClearedByDeadline EveryWaitReturns
  CursorsBounded EverythingOfferedComesBack PoolGrowsByConsent
CHECK_DEADLOCK FALSE
