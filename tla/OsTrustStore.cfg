CONSTANTS
  N = 2
  Ceiling <- MCCeiling
  Reserve = 2
  MinBudget = 1
  Deadline = 8
  Paths = 2
  Skews <- MCSkews
  MaxOutput = 1
  MaxTime = 10
SPECIFICATION LiveSpec
INVARIANTS ReserveKept AbortedMeansUnread VerdictsAreInTime AdviceIsRight
PROPERTIES RowsInTurn ReadReturns
CHECK_DEADLOCK FALSE
