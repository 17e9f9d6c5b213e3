CONSTANTS
  Runs = {r1, r2, r3}
  Tokens = {t1, t2, t3, t4}
  Inodes = {i1}
  Operators = {op}
  Nothing = Nothing
SPECIFICATION FairLockSpec
PROPERTIES NoForeignRemoval ImplementsMutex LockReturns
CHECK_DEADLOCK FALSE
