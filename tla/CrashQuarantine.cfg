\* A library whose removal the graph may refuse; two invocations of the cron
\* trigger, one of which may outlast its lease.
CONSTANTS
    lib2 = lib2
    app1 = app1
    h1 = h1
    c1 = c1
    c2 = c2
    Releases = {lib2, app1}
    NameOf <- Name
    ArchOf <- OneArch
    Binary = {lib2, app1}
    At <- AtOf
    Requires <- NeedsLib
    Threshold = 1
    Handlers = {h1, c1, c2}
    Cron = {c1, c2}
    MaxReports = 1
    Crashing = {lib2}
    Aging = {}
    LeaseOutlasts = FALSE
    MaxAttempts = 2
    MaxIncidents = 1
    NoRelease = NoRelease
CHECK_DEADLOCK FALSE
SPECIFICATION JobFairSpec
PROPERTIES
    JobsSettle
