SPECIFICATION FairSpec
CONSTANTS
  t1 = t1
  Tasks = {t1, t2}
  Kind <- MCKind
  Archive <- MCArchive
  Workers = {w1, w2}
  Clients = {c1, c2}
  Waived = {}
  None = None
  QueueMax = 1
  MaxRestarts = 1
  Faults = TRUE
  KeyReuse = FALSE
INVARIANTS
  TypeOK
  HoldFollowsRow
  ChargedForResult
  StartedOnce
PROPERTIES
  StoppedForGood
  TaskEnds
CHECK_DEADLOCK FALSE
