CONSTANTS
  Sessions = {1, 2, 3}
  DependsOn <- SecondNeedsFirst
  MaxMembers = 2
  MaxRuns <- SecondTwice
  Crashes = 0
  Races = {}
  None = None
SPECIFICATION Spec
INVARIANTS NeverTimesOutClaimed OpenClaimHasLeader LandedIsRecorded
CHECK_DEADLOCK FALSE
