CONSTANTS
  Sessions = {1, 2}
  DependsOn <- Independent
  MaxMembers = 2
  MaxRuns <- Once
  Crashes = 1
  Races = {"late_join", "early_stop", "tick"}
  None = None
SPECIFICATION FairSpec
INVARIANTS OneIntegrator StoppedIsResolved
PROPERTIES WaitEnds ClaimSettles
CHECK_DEADLOCK FALSE
