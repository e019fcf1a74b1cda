SPECIFICATION FairSpec
CONSTANTS
  None = None  Gone = Gone
  Plans = {q1}
  Modes = {"list", "loop"}
  Items = 2
  Procs = {p1, p2}
  Stalls = TRUE
  MaxCycle = 2
  MaxFaults = 2
INVARIANTS StoppedIsQuiet CyclesConsistent
PROPERTIES NothingLeftBehind
CHECK_DEADLOCK FALSE
