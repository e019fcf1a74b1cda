SPECIFICATION FairSpec
CONSTANTS
  x1 = x1
  x2 = x2
  p1 = p1
  Threads = {t1, t2}
  Quotes = {q1}
  PaidKeys = {k1}
  MaxFree = 1
  SupplierOrders = {p1}
  Proxies = {x1, x2}
  ProxyOf <- MCOwnProxies
  Events = {e1}
  None = None
  Crashes = FALSE
  Mistakes = FALSE
INVARIANTS
  NoOrphanedHold
PROPERTY
  BoundOrderEnds EventsSettle
CHECK_DEADLOCK FALSE
