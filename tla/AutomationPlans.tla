---------------------------- MODULE AutomationPlans ----------------------------
(***************************************************************************)
(* Automation plans of social_automation_api.py: a plan is a list of items *)
(* for one account, run once ("list") or cycle after cycle ("loop").  Each *)
(* cycle is materialized by one process: it claims the plan with a token,  *)
(* creates one task per item under an id that is a function of plan, cycle *)
(* and item, in transactions of their own and in status 'preparing', and   *)
(* queues them all in the transaction that activates the cycle.  A claim   *)
(* whose lease ran out is taken over, so an old materializer may still be  *)
(* at work when a new one is.  _AUTOMATION_PLAN_LOCK serializes the        *)
(* requests and materializers of one process, not those of two.            *)
(*                                                                         *)
(* What happens to a queued task is the subject of SocialTasks; here it    *)
(* runs and succeeds, fails or is cancelled.                               *)
(***************************************************************************)
EXTENDS Integers, FiniteSets

CONSTANTS
  Plans,       \* plan ids, all of one account
  Modes,       \* a plan's mode: "list", "loop"
  Items,       \* a plan has items 1..Items
  Procs,       \* service processes
  Stalls,      \* TRUE: a materializer may outlive the lease of its claim
  MaxCycle,    \* bound: cycles of a plan
  MaxFaults,   \* bound: crashes and stalls
  None, Gone   \* no claim; the claim of a process that crashed

ASSUME PlanConstants ==
  /\ Modes \subseteq {"list", "loop"}
  /\ Items \in Nat \ {0} /\ MaxCycle \in Nat \ {0} /\ MaxFaults \in Nat
  /\ None \notin Procs /\ Gone \notin Procs /\ None # Gone

VARIABLES
  plan,    \* rows of social_automation_plans
  task,    \* rows of social_automation_tasks: status, and whether 600 s have passed
  mat,     \* what each process does under _AUTOMATION_PLAN_LOCK
  account, \* the row of the account: "on", "disabled" while it is deleted, "deleted"
  faults   \* crashes and stalls so far

vars == <<plan, task, mat, account, faults>>

Cycles == 1..MaxCycle
Tasks == Plans \X Cycles \X (1..Items)
\* _automation_plan_task_id
Id(q, c, k) == <<q, c, k>>
CycleOf(q, c) == {Id(q, c, k) : k \in 1..Items}
TasksOf(q) == {t \in Tasks : t[1] = q}

Active == {"preparing", "queued", "running"}
Final == {"success", "failed", "cancelled"}
Running == {"active", "materializing"}
Stopped == {"paused", "failed", "completed", "cancelled", "deleted"}

Kept == (Running \cup Stopped) \ {"deleted"}

NoPlan == [status |-> "none", mode |-> "list", cycle |-> 0, token |-> None, mcycle |-> 0, fresh |-> FALSE]
NoRow == [status |-> "none", aged |-> FALSE]
Idle == [pc |-> "idle", plan |-> None, cycle |-> 0, k |-> 0, made |-> {}]

Init ==
  /\ plan = [q \in Plans |-> NoPlan]
  /\ task = [t \in Tasks |-> NoRow]
  /\ mat = [p \in Procs |-> Idle]
  /\ account = "on"
  /\ faults = 0

Status(t) == task[t].status
Rows(ts) == {t \in ts : Status(t) \notin {"none", "deleted"}}
Succeeded(q, c) == \A t \in Rows(CycleOf(q, c)) : Status(t) = "success"
Ended(q, c) == \A t \in Rows(CycleOf(q, c)) : Status(t) \in Final
\* The process holds _AUTOMATION_PLAN_LOCK.
Free(p) == mat[p].pc = "idle"
At(p, pc) == mat[p].pc = pc
Unclaimed(r, s) == [r EXCEPT !.status = s, !.token = None, !.mcycle = 0, !.fresh = FALSE]

\* cancel_social_tasks_in_transaction; the points of a task go with its row.
CancelTasks(ts) ==
  task' = [t \in Tasks |-> IF t \in ts /\ Status(t) \in Active
                           THEN [task[t] EXCEPT !.status = "cancelled"] ELSE task[t]]

-----------------------------------------------------------------------------
(* Requests *)

\* create_social_automation_plan: no running plan of the account may do the same
\* work; the check and the INSERT are two transactions.
CreateCheck(p, q) ==
  /\ Free(p) /\ plan[q].status = "none" /\ account # "deleted"
  /\ \A r \in Plans : plan[r].status \notin Running
  /\ \A o \in Procs : mat[o].plan # q
  /\ mat' = [mat EXCEPT ![p] = [Idle EXCEPT !.pc = "insert", !.plan = q]]
  /\ UNCHANGED <<plan, task, account, faults>>
\* The INSERT fails when the account is gone (foreign key).
CreateInsert(p, m) ==
  /\ At(p, "insert")
  /\ plan' = [plan EXCEPT ![mat[p].plan] = IF account = "deleted" THEN @
                                           ELSE [NoPlan EXCEPT !.status = "active", !.mode = m]]
  /\ mat' = [mat EXCEPT ![p] = Idle]
  /\ UNCHANGED <<task, account, faults>>

MutCancelPlan(p, q) ==
  /\ Free(p) /\ plan[q].status \in Kept
  /\ plan' = [plan EXCEPT ![q] = Unclaimed(@, "cancelled")]
  /\ CancelTasks(CycleOf(q, IF plan[q].mcycle > 0 THEN plan[q].mcycle ELSE 1))
  /\ UNCHANGED <<mat, account, faults>>
\* cancel_social_automation_plan
CancelPlan(p, q) ==
  /\ Free(p) /\ plan[q].status \in Kept
  /\ plan' = [plan EXCEPT ![q] = Unclaimed(@, "cancelled")]
  /\ CancelTasks(TasksOf(q))
  /\ UNCHANGED <<mat, account, faults>>

MayDelete(q) ==
  /\ plan[q].status \in Stopped \ {"deleted"}
  /\ \A t \in TasksOf(q) : Status(t) \notin Active
\* delete_social_automation_plans
DeletePlan(p, q) ==
  /\ Free(p) /\ MayDelete(q)
  /\ plan' = [plan EXCEPT ![q] = Unclaimed(@, "deleted")]
  /\ task' = [t \in Tasks |-> IF t \in Rows(TasksOf(q)) THEN [NoRow EXCEPT !.status = "deleted"] ELSE task[t]]
  /\ UNCHANGED <<mat, account, faults>>

\* delete_social_account, without _AUTOMATION_PLAN_LOCK: one transaction disables
\* the account and cancels its tasks, a later one deletes the tasks and the account,
\* and with it the plans (ON DELETE CASCADE).
DisableAccount ==
  /\ account = "on"
  /\ account' = "disabled"
  /\ CancelTasks(Tasks)
  /\ UNCHANGED <<plan, mat, faults>>
DeleteAccount ==
  /\ account = "disabled"
  /\ account' = "deleted"
  /\ task' = [t \in Tasks |-> IF t \in Rows(Tasks) THEN [NoRow EXCEPT !.status = "deleted"] ELSE task[t]]
  /\ plan' = [q \in Plans |-> IF plan[q].status \in Kept THEN Unclaimed(plan[q], "deleted") ELSE plan[q]]
  /\ UNCHANGED <<mat, faults>>

-----------------------------------------------------------------------------
(* _materialize_automation_plan *)

MutTakeover(q) ==
  LET r == plan[q] IN
  CASE r.status = "active" /\ r.cycle = 0 -> 1
    [] r.status = "active" /\ r.cycle > 0 /\ plan[q].mode = "loop"
         /\ Rows(CycleOf(q, r.cycle)) # {} /\ Succeeded(q, r.cycle) -> r.cycle + 1
    [] OTHER -> 0
\* The cycle a claim is for; 0 when there is nothing to materialize.  The branch for
\* an active cycle without rows is left out: rows of a running plan are only deleted
\* with their plan (_reject_clearing_active_plan_tasks, ON DELETE CASCADE).
Claimable(q) ==
  LET r == plan[q] IN
  CASE r.status = "materializing" /\ ~r.fresh -> r.mcycle
    [] r.status = "active" /\ r.cycle = 0 -> 1
    [] r.status = "active" /\ r.cycle > 0 /\ plan[q].mode = "loop"
         /\ Rows(CycleOf(q, r.cycle)) # {} /\ Succeeded(q, r.cycle) -> r.cycle + 1
    [] OTHER -> 0
Claim(p, q) ==
  LET c == Claimable(q) IN
  /\ Free(p) /\ c \in Cycles
  /\ plan' = [plan EXCEPT ![q].status = "materializing", ![q].token = p, ![q].mcycle = c, ![q].fresh = TRUE]
  /\ mat' = [mat EXCEPT ![p] = [pc |-> "item", plan |-> q, cycle |-> c, k |-> 1, made |-> {}]]
  /\ UNCHANGED <<task, account, faults>>
Claimed(p) == plan[mat[p].plan].status = "materializing" /\ plan[mat[p].plan].token = p
\* Before each item: is the claim still ours, and is the row there already?
CheckItem(p) ==
  LET m == mat[p]
      t == Id(m.plan, m.cycle, m.k)
  IN
  /\ At(p, "item") /\ m.k <= Items
  /\ mat' = [mat EXCEPT ![p] =
       IF ~Claimed(p) THEN [m EXCEPT !.pc = "final"]
       ELSE IF t \in Rows(Tasks) THEN [m EXCEPT !.made = @ \cup {t}, !.k = @ + 1]
       ELSE [m EXCEPT !.pc = "create"]]
  /\ UNCHANGED <<plan, task, account, faults>>
\* create_social_task with a trusted id: row, slot and reservation together; it
\* does not look at the plan, and fails when the id is taken or the account gone.
CreateItem(p) ==
  LET m == mat[p]
      t == Id(m.plan, m.cycle, m.k)
  IN
  /\ At(p, "create")
  /\ IF t \in Rows(Tasks) \/ account = "deleted"
     THEN /\ mat' = [mat EXCEPT ![p].pc = "error"]
          /\ UNCHANGED task
     ELSE /\ task' = [task EXCEPT ![t] = [status |-> "preparing", aged |-> FALSE]]
          /\ mat' = [mat EXCEPT ![p] = [m EXCEPT !.pc = "item", !.made = @ \cup {t}, !.k = @ + 1]]
  /\ UNCHANGED <<plan, account, faults>>
\* The items cannot be expanded, or the task is refused: no points, no quota.
Raise(p) ==
  /\ At(p, "item") \/ At(p, "create")
  /\ mat' = [mat EXCEPT ![p].pc = "error"]
  /\ UNCHANGED <<plan, task, account, faults>>

MutCurrent(p) == plan[mat[p].plan].status = "materializing"
\* claim_is_current
Current(p) == Claimed(p) /\ plan[mat[p].plan].mcycle = mat[p].cycle
Finishing(p) == At(p, "final") \/ (At(p, "item") /\ mat[p].k > Items)
\* The transaction that queues the cycle's tasks and activates it; a materializer
\* that lost its claim cancels every task of the cycle instead.
Finish(p) ==
  LET m == mat[p] IN
  /\ Finishing(p) /\ plan[m.plan].status # "deleted"
  /\ IF Current(p)
     THEN /\ task' = [t \in Tasks |-> IF t \in m.made /\ Status(t) = "preparing"
                                      THEN [task[t] EXCEPT !.status = "queued"] ELSE task[t]]
          /\ plan' = [plan EXCEPT ![m.plan] = [Unclaimed(@, "active") EXCEPT !.cycle = m.cycle]]
     ELSE CancelTasks(CycleOf(m.plan, m.cycle)) /\ UNCHANGED plan
  /\ mat' = [mat EXCEPT ![p] = Idle]
  /\ UNCHANGED <<account, faults>>
\* The exception handler; the plan's row may be gone by then.
Fail(p) ==
  LET m == mat[p] IN
  /\ At(p, "error") \/ (Finishing(p) /\ plan[m.plan].status = "deleted")
  /\ CancelTasks(CycleOf(m.plan, m.cycle))
  /\ plan' = IF Claimed(p) THEN [plan EXCEPT ![m.plan] = Unclaimed(@, "paused")] ELSE plan
  /\ mat' = [mat EXCEPT ![p] = Idle]
  /\ UNCHANGED <<account, faults>>

-----------------------------------------------------------------------------
(* _reconcile_social_automation_plans, the sweep and the tasks themselves *)

\* Settles an active plan whose cycle has ended: the UPDATE is guarded by status
\* and cycle, and an ended task stays ended.
Reconcile(q) ==
  LET r == plan[q] IN
  /\ r.status = "active" /\ r.cycle > 0
  /\ Rows(CycleOf(q, r.cycle)) # {} /\ Ended(q, r.cycle)
  /\ IF Succeeded(q, r.cycle)
     THEN plan[q].mode = "list" /\ plan' = [plan EXCEPT ![q].status = "completed"]
     ELSE plan' = [plan EXCEPT ![q].status = IF plan[q].mode = "loop" THEN "paused" ELSE "failed"]
  /\ UNCHANGED <<task, mat, account, faults>>

\* _release_terminal_task_billing_reservations cancels rows that have been in
\* preparation for more than 600 s; a claim lives 180 s.
Age(t) ==
  /\ Status(t) = "preparing" /\ ~task[t].aged
  /\ ~(plan[t[1]].status = "materializing" /\ plan[t[1]].fresh)
  /\ task' = [task EXCEPT ![t].aged = TRUE]
  /\ UNCHANGED <<plan, mat, account, faults>>
SweepStale(t) ==
  /\ Status(t) = "preparing" /\ task[t].aged
  /\ CancelTasks({t})
  /\ UNCHANGED <<plan, mat, account, faults>>

StartTask(t) ==
  /\ Status(t) = "queued"
  /\ task' = [task EXCEPT ![t].status = "running"]
  /\ UNCHANGED <<plan, mat, account, faults>>
EndTask(t, ok) ==
  /\ Status(t) = "running"
  /\ task' = [task EXCEPT ![t].status = IF ok THEN "success" ELSE "failed"]
  /\ UNCHANGED <<plan, mat, account, faults>>
CancelTask(t) ==
  /\ Status(t) \in Active
  /\ CancelTasks({t})
  /\ UNCHANGED <<plan, mat, account, faults>>

\* The process dies; the token in the row is nobody's any more.
Crash(p) ==
  /\ ~Free(p) /\ faults < MaxFaults
  /\ mat' = [mat EXCEPT ![p] = Idle]
  /\ plan' = [q \in Plans |-> IF plan[q].token = p THEN [plan[q] EXCEPT !.token = Gone] ELSE plan[q]]
  /\ faults' = faults + 1
  /\ UNCHANGED <<task, account>>
\* The lease of a claim runs out.
Expire(q) ==
  /\ plan[q].fresh
  /\ \/ plan[q].token = Gone /\ UNCHANGED faults
     \/ plan[q].token # Gone /\ Stalls /\ faults < MaxFaults /\ faults' = faults + 1
  /\ plan' = [plan EXCEPT ![q].fresh = FALSE]
  /\ UNCHANGED <<task, mat, account>>

-----------------------------------------------------------------------------
Materialize(p) ==
  \/ \E q \in Plans : Claim(p, q)
  \/ CheckItem(p) \/ CreateItem(p) \/ Raise(p) \/ Finish(p) \/ Fail(p)
  \/ \E m \in Modes : CreateInsert(p, m)
Work(t) == StartTask(t) \/ \E ok \in BOOLEAN : EndTask(t, ok)
Next ==
  \/ \E p \in Procs, q \in Plans : CreateCheck(p, q) \/ CancelPlan(p, q) \/ DeletePlan(p, q)
  \/ DisableAccount \/ DeleteAccount
  \/ \E p \in Procs : Materialize(p) \/ Crash(p)
  \/ \E q \in Plans : Reconcile(q) \/ Expire(q)
  \/ \E t \in Tasks : Age(t) \/ SweepStale(t) \/ Work(t) \/ CancelTask(t)

Spec == Init /\ [][Next]_vars

\* The worker loop of every process reconciles the plans and sweeps, a queued
\* task is run, and the claim of a dead process runs out.
Fairness ==
  /\ \A p \in Procs : WF_vars(Materialize(p))
  /\ \A q \in Plans : WF_vars(Reconcile(q)) /\ WF_vars(plan[q].token = Gone /\ Expire(q))
  /\ \A t \in Tasks : WF_vars(Age(t)) /\ WF_vars(SweepStale(t)) /\ WF_vars(Work(t))
FairSpec == Spec /\ Fairness

-----------------------------------------------------------------------------
(* Properties *)

\* Type correctness.
TypeOK ==
  /\ plan \in [Plans -> [status : {"none"} \cup Running \cup Stopped, mode : {"list", "loop"}, cycle : 0..MaxCycle,
                         token : Procs \cup {None, Gone}, mcycle : 0..MaxCycle, fresh : BOOLEAN]]
  /\ task \in [Tasks -> [status : {"none", "deleted"} \cup Active \cup Final, aged : BOOLEAN]]
  /\ \A p \in Procs :
       /\ mat[p].pc \in {"idle", "insert", "item", "create", "final", "error"}
       /\ mat[p].plan \in Plans \cup {None} /\ mat[p].cycle \in 0..MaxCycle
       /\ mat[p].k \in 0..(Items + 1) /\ mat[p].made \subseteq Tasks
  /\ account \in {"on", "disabled", "deleted"}
  /\ faults \in 0..MaxFaults

\* A plan that was stopped, by its user, by a failure or by an error while it was
\* materialized, has no task that is waiting or at work.
StoppedIsQuiet ==
  \A q \in Plans : plan[q].status \in Stopped => \A t \in TasksOf(q) : Status(t) \notin {"queued", "running"}

\* No task of a cycle is let go before every task of the cycle before it has
\* succeeded.
CyclesInOrder ==
  \A t \in Tasks : Status(t) \in {"queued", "running"} /\ t[2] > 1
                     => \A k \in 1..Items : Status(Id(t[1], t[2] - 1, k)) = "success"

\* A cycle is activated as a whole: no item of it is missing, even when two
\* materializers shared the work.
CyclesWhole ==
  \A q \in Plans : plan[q].status = "active" /\ plan[q].cycle > 0
                     => \A k \in 1..Items : Status(Id(q, plan[q].cycle, k)) # "none"

\* Cycles are materialized whole and one after the other, and rows keep their types.
CyclesConsistent == TypeOK /\ CyclesInOrder /\ CyclesWhole

\* Preparation is never forever: a crash between two items leaves nothing behind.
PreparationEnds == \A t \in Tasks : Status(t) = "preparing" ~> Status(t) # "preparing"

\* A plan in list mode comes to an end.
PlanEnds == \A q \in Plans : plan[q].status \in Running /\ plan[q].mode = "list" ~> plan[q].status \in Stopped

\* Neither a plan nor a task in preparation is left behind by a crash.
NothingLeftBehind == PreparationEnds /\ PlanEnds
=============================================================================
