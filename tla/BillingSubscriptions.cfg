SPECIFICATION Spec
CONSTANTS
  u1 = u1
  u2 = u2
  Users = {u1}
  Holds = {h1}
  Orders = {o1, o2, o3}
  Subs = {s1}
  NoSub = NoSub
  Legacy <- MCLegacy
  Welcome = 0
  Extras = {0}
  Rates = {1}
  MaxQty = 1
  Packs = {}
  Bonuses = {}
  MonthChoices = {2}
  MonthlyImages = 1
  Deltas = {}
  MaxCredit = 3
  MaxNow = 2
SYMMETRY MCSymmetry
INVARIANTS
  PeriodsDisjoint
  RevokedStaysRevoked
CHECK_DEADLOCK FALSE
