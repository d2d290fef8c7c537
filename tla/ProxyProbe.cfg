SPECIFICATION Spec
CONSTANTS
  p = "p"
  q = "q"
  Proxies = {"p", "q"}
  Declared <- MCDeclared
  Schemes = {"Basic", "NTLM"}
  Settings <- MCSettings
INVARIANTS EveryEndpointReported ClustersAreTrue RequiredIsLoud AllClearIsEarned
PROPERTIES EachOnce ProbeReturns
CHECK_DEADLOCK FALSE
