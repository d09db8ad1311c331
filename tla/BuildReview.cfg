\* Two reviewers finalize while two builds run, fail, are fenced and retried.
CONSTANTS
    w1 = w1
    w2 = w2
    x86 = x86
    arm = arm
    h1 = h1
    h2 = h2
    area = area
    security = security
    Workers = {w1, w2}
    Builds = {x86, arm}
    ArchOf <- OwnArch
    Handlers = {h1}
    Reviewers = {area, security}
    LeaseSeconds = 1
    MaxTime = 1
    MaxClaims = 3
    MaxUploads = 1
    NoWorker = NoWorker
    NoKey = NoKey
SYMMETRY ReviewerSymmetry
CONSTRAINT WorkersStay
CHECK_DEADLOCK FALSE
SPECIFICATION ReviewSpec
INVARIANTS
    ActiveBuildIsReviewed
    RequestFollowsBuilds
