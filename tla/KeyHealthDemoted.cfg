SPECIFICATION Spec
CONSTANTS
  k1 = k1
  k2 = k2
  r1 = r1
  r2 = r2
  Keys = {k1}
  Synthetic = synthetic
  Reqs = {r1, r2}
  NoKey = none
  DefaultCooldown = 1
  TimeoutCooldown = 1
  BillingCooldown = 2
  MaxRetryAfter = 1
  OperatorMoves = {"edit", "delete", "probe", "bundle"}
PROPERTIES PermanentNeedsUser
