CONSTANTS
  h1 = h1
  t1 = t1
  t2 = t2
  Hosts = {h1}
  Endpoints = {}
  Targets = {t1, t2}
  Verdicts <- MCVerdicts
SPECIFICATION LiveSpec
INVARIANTS ReportIsComplete ExitCodeHonest AnchorsComplete NothingOutlivesTheDeadline
PROPERTIES KeepsContract RunEnds
CHECK_DEADLOCK FALSE
