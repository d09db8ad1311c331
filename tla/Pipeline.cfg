SPECIFICATION MCSpec
CONSTANTS
  c1 = c1
  c2 = c2
  e1 = e1
  e2 = e2
  a1 = a1
  m1 = m1
  m2 = m2
  d1 = d1
  d2 = d2
  d3 = d3
  r1 = r1
  None = None
  Neighbours = 1
  CheckLimit = 1
  Starts = {"fresh", "review", "built", "links"}
  Crons = {c1, c2}
  MaxOverlaps = 1
  MaxRequest = 2
  MaxRelease = 3
  MaxGeneration = 3
  MAX_AUTOMATIC_GENERATIONS = 2
  MaxFaults = 2
  SourceKinds = {"git", "archive"}
  MaxRetries = 1
  MaxAttempts = 2
  Callers = {e1, e2}
  Others = {d1, d2, d3}
  Linkers = {m1, m2}
  MaxDepth = 3
  MaxLinks = 3
  Sets = {{c1}, {e1, a1}}
  Auditors = {a1}
  Resolvers = {r1}
  MaxHuman = 2
  MaxEdits = 1
CHECK_DEADLOCK FALSE
INVARIANTS
    RequestsAreSound
PROPERTIES
    ReviewIsCurrent
    ReleaseHandled
