SPECIFICATION FairSpec
CONSTANTS
  Workers = {w1, w2}
  None = None
  MaxExpiry = 3
  Events = {"crash", "late", "ended"}
INVARIANTS
  ExtensionsPaid
PROPERTY ExtensionCharged
CHECK_DEADLOCK FALSE
