SPECIFICATION MCSpec
CONSTANTS
  None = None
  Handlers = {h1, h2}
  MaxCauses = 1
  MaxReason = 1
  Collation <- MCCollation
  MaxChanges = 2
  Sonames = {}
  Asks <- MCAsks
  Targets <- MCTargets
  AllTargets <- MCAllTargets
  Alphabet <- MCAlphabet
  Required <- MCRequired
  Releases <- MCReleases
  Package <- MCPackage
  Builds <- MCBuilds
  System <- MCSystem
  MaxPackages = 3
  Malformed = {"r6"}
  MaxMoves = 2
CHECK_DEADLOCK FALSE
INVARIANTS
    PlanIsSound
    PlannedIsInstalled
PROPERTIES
    DraftKeepsReport
