SPECIFICATION MCSpec
CONSTANTS
  Releases <- MCReleases
  Channels <- MCChannels
  Answers <- MCAnswers
  Configs <- MCConfigs
  PinnedKey = "pinned"
  Stable = "stable"
  Quarantine = "quarantine"
  Locals = {"plain", "foreign"}
  Foreign = {"foreign"}
  Expiring = {"r2"}
  Arch = "x86_64"
  Unserved = {"r7"}
  None = None
  Partial = Partial
  MaxFaults = 2
INVARIANTS ConfigMatchesState
PROPERTIES AcceptsInOrder InstalledAsReviewed CommitCompletes LockDescribesDirectory
