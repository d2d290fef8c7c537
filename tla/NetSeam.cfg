CONSTANTS
  Attempts = {a1, a2}
  Endpoints <- MCEndpoints
  Profile <- MCProfile
  Requests <- MCRequests
  ConnectBudget = 1
  TlsBudget = 2
  HttpBudget = 1
  Deadline = 3
  MaxTime = 4
SPECIFICATION LiveSpec
INVARIANT TransportOwned
PROPERTIES OnlyPermittedContacts CauseIsTruthful KeepsContract EveryCallSettles
CHECK_DEADLOCK FALSE
