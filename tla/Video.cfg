SPECIFICATION FairSpec
CONSTANTS
  Kinds <- BothKinds
  N = 2
  MaxRows = 2
  Attempts = 2
  MaxRestarts = 2
  MaxJobs = 3
INVARIANTS SegmentsConsistent
PROPERTIES NeverRemade TaskEnds
CHECK_DEADLOCK FALSE
