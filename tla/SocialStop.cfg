SPECIFICATION Spec
CONSTANTS
  t1 = t1  t2 = t2  t3 = t3  a1 = a1  p1 = p1  p2 = p2
  None = None  Gone = Gone
  Tasks = {t1, t2}
  Kind <- AllInstagram
  Account <- OneAccount
  Batches = {}
  Procs = {p1, p2}
  Requests = {"stop_all", "takeover"}
  Faults = {"crash", "stall"}
  Attempts = 2  Retries = 0  Limit = 1  LastDay = 1  MaxStops = 1  MaxRequests = 1
SYMMETRY Symmetry
INVARIANTS PostedOnce DailyLimit
CHECK_DEADLOCK FALSE
