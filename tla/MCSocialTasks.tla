----------------------------- MODULE MCSocialTasks -----------------------------
(***************************************************************************)
(* Instances of SocialTasks for TLC.                                       *)
(***************************************************************************)
EXTENDS SocialTasks, TLC

CONSTANTS t1, t2, t3, a1, p1, p2

OneAccount == [t \in Tasks |-> a1]
AllThreads == [t \in Tasks |-> "threads"]
Mixed == [t \in Tasks |-> IF t = t2 THEN "comment" ELSE "instagram"]
AllInstagram == [t \in Tasks |-> "instagram"]
Pair == {<<t1, t2>>}
Symmetry == Permutations(Procs)
=============================================================================
