\* Three versions of a library, the last one a recipe, and a package that
\* requires one of them.
CONSTANTS
    lib1 = lib1
    lib2 = lib2
    lib3 = lib3
    app1 = app1
    h1 = h1
    h2 = h2
    Releases = {lib1, lib2, lib3, app1}
    NameOf <- Name
    ArchOf <- OneArch
    Binary = {lib1, lib2, app1}
    At <- AtOf
    Requires <- NeedsLib
    Threshold = 1
    Handlers = {h1, h2}
    MaxReports = 1
    Crashing = {lib2}
    Aging = {lib1}
    LeaseOutlasts = TRUE
    NoRelease = NoRelease
SYMMETRY HandlerSymmetry
CHECK_DEADLOCK FALSE
SPECIFICATION Spec
INVARIANTS
    StableIsIndexed
PROPERTIES
    DependenciesKept
    MovesAreDecided
