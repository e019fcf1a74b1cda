SPECIFICATION Spec
CONSTANTS
  u1 = u1
  u2 = u2
  Users = {u1}
  Holds = {h1, h2}
  Orders = {o1}
  Subs = {}
  NoSub = NoSub
  Legacy <- MCLegacy
  Welcome = 1
  Extras = {0, 1}
  Rates = {1}
  MaxQty = 2
  Packs = {2}
  Bonuses = {2}
  MonthChoices = {}
  MonthlyImages = 1
  Deltas <- MCDeltas
  MaxCredit = 3
  MaxNow = 0
SYMMETRY MCSymmetry
INVARIANTS
  TypeOK
  CashWithinCredit
  WalletMatchesLedger
  HoldsAccountedFor
  OrdersAccountedFor
  CashBackedByPayments
  HeldImagesCovered
PROPERTY
  FinishedForever
CHECK_DEADLOCK FALSE
