SPECIFICATION Spec
CONSTANTS
  Calls = 2
  TimeoutMs = 2
  GraceMs = 1
  MaxTime = 8
INVARIANT OverrunBounded
PROPERTIES ScriptIsHeard AnswersInTurn EveryThreadEnds
CHECK_DEADLOCK FALSE
