SPECIFICATION MCSpec
CONSTANTS
  w1 = w1
  w2 = w2
  None = None
  Workers = {w1, w2}
  NFiles = 1
  NParts = 2
  MaxAttempt = 2
  MaxFaults = 2
CHECK_DEADLOCK FALSE
INVARIANTS
    UploadsAreReviewed
    NothingLeft
PROPERTIES
    JobEnds
