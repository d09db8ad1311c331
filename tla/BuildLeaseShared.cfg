\* Two workers compete for one build; no reviewer leaves.
CONSTANTS
    w1 = w1
    w2 = w2
    x86 = x86
    h1 = h1
    h2 = h2
    area = area
    Workers = {w1, w2}
    Builds = {x86}
    ArchOf <- SharedArch
    Handlers = {h1, h2}
    Reviewers = {}
    LeaseSeconds = 2
    MaxTime = 4
    MaxClaims = 2
    MaxUploads = 1
    NoWorker = NoWorker
    NoKey = NoKey
SYMMETRY SharedSymmetry
CHECK_DEADLOCK FALSE
SPECIFICATION Spec
INVARIANTS
    LeasedByActiveWorker
    ArtifactIsItsOwn
    AckedSuccessDurable
PROPERTIES
    LiveLeaseNotStolen
    ImplementsContract
