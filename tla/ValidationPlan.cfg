CONSTANTS
  a = a
  b = b
  code = code
  doc = doc
  note = note
  task = task
  test = test
  build = build
  lint = lint
  check = check
  Nothing = Nothing
  Sessions = {a, b}
  Own <- MCOwn
  Stacked = {}
  Dirty = {}
  Users = {task, note}
  PathOf <- MCPathOf
  Tiers <- MCTiers
  Source = {test, lint}
  Full = {test, build, check}
  Checks = {test, build, lint, check}
  Failures <- MCFailures
SPECIFICATION PlanSpec
INVARIANTS TargetPasses
CHECK_DEADLOCK FALSE
