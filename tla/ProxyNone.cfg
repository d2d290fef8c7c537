SPECIFICATION Spec
CONSTANTS
  p = "p"
  q = "q"
  Proxies = {"p", "q"}
  Declared <- MCDeclared
  Schemes = {"Basic", "NTLM"}
  Settings <- MCSettings
INVARIANT NoneMeansNoName
CHECK_DEADLOCK FALSE
