SPECIFICATION Spec
CONSTANTS
  x1 = x1
  x2 = x2
  p1 = p1
  Threads = {t1, t2}
  Quotes = {q1, q2}
  PaidKeys = {k1, k2}
  MaxFree = 0
  SupplierOrders = {p1, p2}
  Proxies = {x1, x2}
  ProxyOf <- MCSharedProxy
  Events = {}
  None = None
  Crashes = TRUE
  Mistakes = TRUE
SYMMETRY MCSymmetry
INVARIANTS
  TypeOK
  ExecutedOnce
  SettledWithDelivery
  NeverReleasedBlindly
CHECK_DEADLOCK FALSE
