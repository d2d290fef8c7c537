SPECIFICATION Spec
CONSTANTS
  p = "p"
  q = "q"
  Proxies = {"p", "q"}
  Declared <- MCDeclared
  Schemes = {"Basic", "NTLM"}
  Settings <- MCSettings
INVARIANT RejectedMeansAnswered
CHECK_DEADLOCK FALSE
