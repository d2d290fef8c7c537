CONSTANTS
  Attempts = {a1}
  Endpoints <- MCEndpoints
  Profile <- MCProfile
  Requests <- MCRequests
  ConnectBudget = 1
  TlsBudget = 2
  HttpBudget = 1
  Deadline = 2
  MaxTime = 6
CHECK_DEADLOCK FALSE
SPECIFICATION Spec
INVARIANT NoUnhandledRejection
