SPECIFICATION Spec
CONSTANTS
  Declared <- MCDeclared
  Resolvers <- MCResolvers
  Workers = 2
  ConnectBudget = 2
  TlsBudget = 1
  HttpBudget = 1
  SlowAfter = 1
  Worlds <- MCWorlds
  MaxTime = 12
INVARIANTS BystandersAreSpared VerdictsAreEarned NamesAgree TimeIsShared
PROPERTIES KeepsContract ProbesReturn
CHECK_DEADLOCK FALSE
