SPECIFICATION Spec
CONSTANTS
  t1 = t1  t2 = t2  t3 = t3  a1 = a1  p1 = p1  p2 = p2
  None = None  Gone = Gone
  Tasks = {t1, t2, t3}
  Kind <- AllThreads
  Account <- OneAccount
  Batches <- Pair
  Procs = {p1}
  Requests = {"cancel", "clear", "retry"}
  Faults = {"crash", "shutdown"}
  Attempts = 2  Retries = 0  Limit = 3  LastDay = 0  MaxStops = 1  MaxRequests = 1
INVARIANTS RowsConsistent PostsInOrder QuietAfterCancel
PROPERTIES PaidSpec
CHECK_DEADLOCK FALSE
