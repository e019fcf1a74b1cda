SPECIFICATION Spec
CONSTANTS
  Workers = {w1, w2}
  None = None
  MaxExpiry = 2
  Events = {"crash", "switch", "reconcile", "admin", "local error", "read rejected", "ended", "overdue"}
SYMMETRY MCSymmetry
INVARIANTS
  TypeOK
  ChargedForExtension
CHECK_DEADLOCK FALSE
