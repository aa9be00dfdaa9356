SPECIFICATION Spec
CONSTANTS
  m1 = m1
  m2 = m2
  k1 = k1
  k2 = k2
  r1 = r1
  r2 = r2
  Rapis = {m1}
  Keys = {k1}
  Reqs = {r1}
  PoolOf <- SharedPool
  Manual = {}
  None = none
  DefaultCooldown = 2
  MaxCooldown = 3
  MaxRetryAfter = 1
  FailureCap = 2
  OperatorMoves = {"toggle", "save", "restore", "delete", "judge", "fixkey", "bundle"}
  MaxPending = 1
PROPERTIES DisabledNeverPicked
