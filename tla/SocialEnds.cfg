SPECIFICATION FairSpec
CONSTANTS
  t1 = t1  t2 = t2  t3 = t3  a1 = a1  p1 = p1  p2 = p2
  None = None  Gone = Gone
  Tasks = {t1, t2}
  Kind <- Mixed
  Account <- OneAccount
  Batches = {}
  Procs = {p1}
  Requests = {"cancel", "stop_all", "clear", "takeover"}
  Faults = {"crash", "shutdown"}
  Attempts = 2  Retries = 1  Limit = 1  LastDay = 0  MaxStops = 1  MaxRequests = 1
PROPERTIES HoldsEnd
CHECK_DEADLOCK FALSE
