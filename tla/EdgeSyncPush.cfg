SPECIFICATION StoreSpec
CONSTANTS
  k1 = k1
  k2 = k2
  a = a
  b = b
  p1 = p1
  p2 = p2
  \* the synchronisation
  Keys = {k1, k2}
  ValsOf <- MCValsOf
  Chain = {k1, k2}
  Absent = absent
  Procs = {p1, p2}
  Poller = p1
  None = none
  FreshRows <- MCFreshRows
  Roles = {"proxy", "management"}
  Disturbances = 3
  \* the upgrade
  s = s
  t = t
  u = u
  v = v
  m = m
  n = n
  x = x
  y = y
  z = z
  OldDatabases <- MCOldDatabases
  NoDb = nodb
  Secrets = {s, t}
  Names = {m, n, x, y, z}
  URLs = {u, v}
  NoToken = notoken
  NoModel = nomodel
  NoURL = nourl
  AddedTokens = {t}
  Faults = 2
CHECK_DEADLOCK FALSE
INVARIANTS NoSelfLock
