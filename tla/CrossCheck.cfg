SPECIFICATION Spec
CONSTANTS
  Junk = Junk
  Certs <- MCCerts
  Bundled <- MCBundled
  Starred = {"*"}
  Floor = 3
  Tolerated = FALSE
  Targets <- MCTargets
  Required <- MCTargets
  Captures <- MCCaptures
  Runtimes <- MCRuntimes
  Worlds <- MCWorlds
  MaxMatches = 2
  MaxCertificates = 2
CHECK_DEADLOCK FALSE
INVARIANTS PresentIsEarned BlockerIffServed AllClearIsEarned ThrowsOnlyForJunk
PROPERTIES QuietMeansAcceptable PaddingChangesNothing OrderChangesNothing
