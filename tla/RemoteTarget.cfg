CONSTANTS
  a = a
  b = b
  u = u
  v = v
  Sessions = {a, b}
  Files <- MCFiles
  Others = {u}
  Locals = {v}
  Clash <- MCClash
  Rewrites = TRUE
  RetryLimit = 2
  MaxCrashes = 1
  MaxFaults = 1
  Shared = Shared
  None = None
SPECIFICATION Spec
PROPERTIES OnlyForward SucceededDelivered Delivers
CHECK_DEADLOCK FALSE
