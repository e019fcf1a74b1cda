-------------------------------- MODULE Escrow --------------------------------
(***************************************************************************)
(* What every paid operation of the platform promises its customer: points *)
(* are put on hold before anything is done; the work is done at most once; *)
(* then the points are charged or returned, once and for good, and they    *)
(* are returned only when the work was not done and never will be.  The    *)
(* work may still happen after the charge, because some components charge  *)
(* as soon as a submission can no longer be stopped.                       *)
(***************************************************************************)
CONSTANT Jobs

VARIABLES
  money,  \* what became of the points of a job
  done    \* the irreversible work of a job has happened

vars == <<money, done>>

TypeOK ==
  /\ money \in [Jobs -> {"none", "held", "charged", "returned"}]
  /\ done \in [Jobs -> BOOLEAN]

Init ==
  /\ money = [j \in Jobs |-> "none"]
  /\ done = [j \in Jobs |-> FALSE]

Same(j) == money'[j] = money[j] /\ done'[j] = done[j]
Hold(j) == money[j] = "none" /\ money'[j] = "held" /\ done'[j] = done[j]
Perform(j) == ~done[j] /\ done'[j] /\ money[j] \in {"held", "charged"} /\ money'[j] = money[j]
Charge(j) == money[j] = "held" /\ money'[j] = "charged" /\ done'[j] = done[j]
Return(j) == money[j] = "held" /\ ~done[j] /\ money'[j] = "returned" /\ done'[j] = done[j]

\* One transaction may move several jobs.
Next ==
  /\ \A j \in Jobs : Same(j) \/ Hold(j) \/ Perform(j) \/ Charge(j) \/ Return(j)
  /\ DOMAIN money' = Jobs /\ DOMAIN done' = Jobs

Spec == Init /\ [][Next]_vars
=============================================================================
