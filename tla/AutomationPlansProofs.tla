------------------------- MODULE AutomationPlansProofs -------------------------
(***************************************************************************)
(* Proofs about AutomationPlans for any plans, items, processes, cycles    *)
(* and faults.                                                             *)
(***************************************************************************)
EXTENDS AutomationPlans, TLAPS

-----------------------------------------------------------------------------
(* The inductive invariant *)

PlanRow ==
  [status : {"none"} \cup Running \cup Stopped, mode : {"list", "loop"}, cycle : 0..MaxCycle,
   token : Procs \cup {None, Gone}, mcycle : 0..MaxCycle, fresh : BOOLEAN]
TaskRow == [status : {"none", "deleted"} \cup Active \cup Final, aged : BOOLEAN]
MatRow ==
  [pc : {"idle", "insert", "item", "create", "final", "error"}, plan : Plans \cup {None},
   cycle : 0..MaxCycle, k : 0..(Items + 1), made : SUBSET Tasks]

Tables ==
  /\ plan \in [Plans -> PlanRow] /\ task \in [Tasks -> TaskRow] /\ mat \in [Procs -> MatRow]
  /\ account \in {"on", "disabled", "deleted"} /\ faults \in 0..MaxFaults

\* What a process at work on a plan knows of it.
Making == {"item", "create", "final", "error"}
MatFine(p) ==
  LET m == mat[p] IN
  /\ m.pc = "insert" =>
       /\ m.plan \in Plans /\ plan[m.plan].status = "none"
       /\ \A o \in Procs : o # p /\ mat[o].pc = "insert" => mat[o].plan # m.plan
  /\ m.pc \in Making =>
       /\ m.plan \in Plans /\ m.cycle \in Cycles /\ m.k \in 1..(Items + 1)
       /\ plan[m.plan].status # "none" /\ m.made \subseteq CycleOf(m.plan, m.cycle)
  /\ m.pc = "create" => m.k <= Items
  /\ m.pc \in {"item", "create"} =>
       \A i \in 1..Items : i < m.k => Status(Id(m.plan, m.cycle, i)) # "none"
  /\ m.pc = "final" => ~Claimed(p)

\* A cycle is claimed after the one before it has succeeded.
PlanFine(q) ==
  LET r == plan[q] IN
  /\ r.status = "materializing" =>
       /\ r.mcycle = r.cycle + 1 /\ r.mcycle \in Cycles
       /\ r.cycle > 0 => \A k \in 1..Items : Status(Id(q, r.cycle, k)) = "success"
  /\ r.status = "active" =>
       /\ r.cycle > 0 => \A k \in 1..Items : Status(Id(q, r.cycle, k)) # "none"
       /\ r.cycle > 1 => \A k \in 1..Items : Status(Id(q, r.cycle - 1, k)) = "success"

\* Tasks wait and run in the current cycle of an active plan only.
TaskFine(t) ==
  /\ Status(t) \in {"queued", "running"} => plan[t[1]].status = "active" /\ plan[t[1]].cycle = t[2]
  /\ Status(t) # "none" => plan[t[1]].status # "none"
  /\ Status(t) = "deleted" => plan[t[1]].status = "deleted"

PlanInv ==
  /\ \A p \in Procs : MatFine(p)
  /\ \A q \in Plans : PlanFine(q)
  /\ \A t \in Tasks : TaskFine(t)
Inv == Tables /\ PlanInv

-----------------------------------------------------------------------------
(* Tables and ids *)

LEMMA Numbers ==
  /\ Items \in Nat /\ 1 <= Items /\ MaxCycle \in Nat /\ 1 <= MaxCycle /\ MaxFaults \in Nat
  /\ Modes \subseteq {"list", "loop"} /\ None \notin Procs /\ Gone \notin Procs
<1>1. Items \in Nat \ {0} /\ MaxCycle \in Nat \ {0} /\ MaxFaults \in Nat
  BY PlanConstants, Zenon
<1>2. Modes \subseteq {"list", "loop"} /\ None \notin Procs /\ Gone \notin Procs
  BY PlanConstants, Zenon
<1> QED BY <1>1, <1>2

LEMMA Ids ==
  /\ \A q \in Plans, c \in Cycles, k \in 1..Items :
       Id(q, c, k) \in Tasks /\ Id(q, c, k)[1] = q /\ Id(q, c, k)[2] = c
  /\ \A t \in Tasks : /\ t[1] \in Plans /\ t[2] \in Cycles /\ t[3] \in 1..Items
                      /\ t = Id(t[1], t[2], t[3])
BY DEF Id, Tasks

LEMMA CycleIds ==
  ASSUME NEW q \in Plans, NEW c \in Cycles
  PROVE  /\ CycleOf(q, c) \subseteq Tasks
         /\ \A t \in CycleOf(q, c) : t[1] = q /\ t[2] = c
         /\ \A t \in Tasks : t[1] = q /\ t[2] = c => t \in CycleOf(q, c)
         /\ \A k \in 1..Items : Id(q, c, k) \in CycleOf(q, c)
<1>1. /\ CycleOf(q, c) \subseteq Tasks /\ \A t \in CycleOf(q, c) : t[1] = q /\ t[2] = c
      /\ \A k \in 1..Items : Id(q, c, k) \in CycleOf(q, c)
  BY Ids DEF CycleOf
<1>2. ASSUME NEW t \in Tasks, t[1] = q, t[2] = c PROVE t \in CycleOf(q, c)
  BY <1>2, Ids DEF CycleOf
<1> QED BY <1>1, <1>2

LEMMA Typed ==
  ASSUME Tables
  PROVE  /\ \A q \in Plans : /\ plan[q] \in PlanRow /\ plan[q].cycle \in 0..MaxCycle
                             /\ plan[q].cycle \in Nat /\ plan[q].mcycle \in 0..MaxCycle
         /\ \A t \in Tasks : task[t] \in TaskRow /\ Status(t) \in {"none", "deleted"} \cup Active \cup Final
         /\ \A p \in Procs : mat[p] \in MatRow
BY Numbers DEF Tables, PlanRow, TaskRow, Status

LEMMA Blanks ==
  /\ Idle \in MatRow /\ Idle.pc = "idle" /\ NoPlan \in PlanRow /\ NoRow \in TaskRow
  /\ NoPlan.status = "none" /\ NoRow.status = "none"
BY Numbers DEF Idle, MatRow, NoPlan, PlanRow, NoRow, TaskRow

-----------------------------------------------------------------------------
(* Steps that begin nothing *)

\* Tasks end, start or are deleted with their plan; plans stop; processes return
\* or fail.
TaskCalm(t) ==
  \/ Status(t)' = Status(t)
  \/ Status(t) \in Active /\ Status(t)' \in Final
  \/ Status(t) = "queued" /\ Status(t)' = "running"
  \/ Status(t) # "none" /\ Status(t)' = "deleted" /\ plan'[t[1]].status = "deleted"
PlanCalm(q) ==
  \/ /\ plan'[q].status = plan[q].status /\ plan'[q].cycle = plan[q].cycle
     /\ plan'[q].mcycle = plan[q].mcycle
     /\ plan'[q].token \in Procs => plan'[q].token = plan[q].token
  \/ /\ plan[q].status # "none" /\ plan'[q].status \in Stopped
     /\ plan[q].status = "deleted" => plan'[q].status = "deleted"
     /\ \A t \in TasksOf(q) : Status(t)' \notin {"queued", "running"}
MatCalm(p) ==
  \/ mat'[p] = mat[p] \/ mat'[p] = Idle
  \/ mat[p].pc \in {"item", "create"} /\ mat'[p] = [mat[p] EXCEPT !.pc = "error"]

LEMMA CalmTasks ==
  ASSUME Tables, PlanInv, \A t \in Tasks : TaskCalm(t), \A q \in Plans : PlanCalm(q)
  PROVE  \A t \in Tasks : TaskFine(t)' /\ (Status(t)' = "none" <=> Status(t) = "none")
<1> SUFFICES ASSUME NEW t \in Tasks PROVE TaskFine(t)' /\ (Status(t)' = "none" <=> Status(t) = "none")
  OBVIOUS
<1>0. TaskFine(t) /\ TaskCalm(t) /\ PlanCalm(t[1]) /\ t[1] \in Plans /\ t \in TasksOf(t[1])
  BY Ids DEF PlanInv, TasksOf
<1>1. Status(t)' = "none" <=> Status(t) = "none"
  BY <1>0 DEF TaskCalm, Active, Final
<1>2. Status(t)' \in {"queued", "running"} => Status(t) \in {"queued", "running"}
  BY <1>0 DEF TaskCalm, Final
<1>3. Status(t)' = "deleted" => plan'[t[1]].status = "deleted"
  BY <1>0 DEF TaskCalm, TaskFine, PlanCalm, Final
<1>4. plan[t[1]].status # "none" => plan'[t[1]].status # "none"
  BY <1>0 DEF PlanCalm, Stopped
<1> QED BY <1>0, <1>1, <1>2, <1>3, <1>4 DEF TaskFine, PlanCalm

LEMMA CalmPlans ==
  ASSUME Tables, PlanInv, \A t \in Tasks : TaskCalm(t), \A q \in Plans : PlanCalm(q)
  PROVE  \A q \in Plans : PlanFine(q)'
<1> SUFFICES ASSUME NEW q \in Plans PROVE PlanFine(q)'
  OBVIOUS
<1>0. PlanFine(q) /\ PlanCalm(q)
  BY DEF PlanInv
<1>1. CASE plan'[q].status \in Stopped
  BY <1>1 DEF PlanFine, Stopped
<1>2. CASE plan'[q].status \notin Stopped
  <2>1. /\ plan'[q].status = plan[q].status /\ plan'[q].cycle = plan[q].cycle
        /\ plan'[q].mcycle = plan[q].mcycle
    BY <1>0, <1>2 DEF PlanCalm
  <2>2. ASSUME NEW t \in Tasks, t[1] = q
        PROVE  /\ Status(t) # "none" => Status(t)' # "none"
               /\ Status(t) = "success" => Status(t)' = "success"
    <3>1. plan'[t[1]].status # "deleted"
      BY <1>2, <2>2 DEF Stopped
    <3>2. TaskCalm(t)
      OBVIOUS
    <3> QED BY <3>1, <3>2 DEF TaskCalm, Active, Final
  <2>3. \A c \in Cycles, k \in 1..Items : /\ Status(Id(q, c, k)) # "none" => Status(Id(q, c, k))' # "none"
                                          /\ Status(Id(q, c, k)) = "success" => Status(Id(q, c, k))' = "success"
    BY <2>2, Ids
  <2>4. /\ plan[q].cycle > 0 => plan[q].cycle \in Cycles
        /\ plan[q].cycle > 1 => plan[q].cycle - 1 \in Cycles
    BY Typed, Numbers DEF Cycles
  <2> QED BY <1>0, <2>1, <2>3, <2>4 DEF PlanFine
<1> QED BY <1>1, <1>2

LEMMA CalmMats ==
  ASSUME Tables, PlanInv, \A t \in Tasks : TaskCalm(t), \A q \in Plans : PlanCalm(q),
         \A p \in Procs : MatCalm(p)
  PROVE  \A p \in Procs : MatFine(p)'
<1> SUFFICES ASSUME NEW p \in Procs PROVE MatFine(p)'
  OBVIOUS
<1>0. MatFine(p) /\ MatCalm(p)
  BY DEF PlanInv
<1>1. \A q \in Plans : /\ plan[q].status = "none" <=> plan'[q].status = "none"
                       /\ plan'[q].status = "materializing" /\ plan'[q].token \in Procs
                            => plan[q].status = "materializing" /\ plan[q].token = plan'[q].token
  BY DEF PlanCalm, Stopped
<1>2. \A o \in Procs : mat'[o].pc = "insert" => mat[o].pc = "insert" /\ mat'[o].plan = mat[o].plan
  <2> SUFFICES ASSUME NEW o \in Procs, mat'[o].pc = "insert"
               PROVE  mat[o].pc = "insert" /\ mat'[o].plan = mat[o].plan
    OBVIOUS
  <2>1. MatCalm(o) /\ mat[o] \in MatRow
    BY Typed
  <2>2. [mat[o] EXCEPT !.pc = "error"].pc = "error"
    BY <2>1 DEF MatRow
  <2> QED BY <2>1, <2>2, Blanks DEF MatCalm
<1>3. \A q \in Plans, c \in Cycles, i \in 1..Items :
        Status(Id(q, c, i)) # "none" => Status(Id(q, c, i))' # "none"
  BY CalmTasks, Ids
<1>4. CASE mat'[p] = Idle
  BY <1>4, Blanks DEF MatFine, Making
<1>5. CASE mat'[p] = mat[p]
  <2>1. mat[p].pc = "insert" =>
          /\ mat[p].plan \in Plans /\ plan'[mat[p].plan].status = "none"
          /\ \A o \in Procs : o # p /\ mat'[o].pc = "insert" => mat'[o].plan # mat[p].plan
    BY <1>0, <1>1, <1>2 DEF MatFine
  <2>2. mat[p].pc \in Making => plan'[mat[p].plan].status # "none"
    BY <1>0, <1>1 DEF MatFine
  <2>3. mat[p].pc \in {"item", "create"} =>
          \A i \in 1..Items : i < mat[p].k => Status(Id(mat[p].plan, mat[p].cycle, i))' # "none"
    BY <1>0, <1>3, <1>5 DEF MatFine, Making
  <2>4. mat[p].pc = "final" => ~Claimed(p)'
    <3>1. mat[p].pc = "final" => mat[p].plan \in Plans /\ ~Claimed(p)
      BY <1>0 DEF MatFine, Making
    <3> QED BY <1>1, <1>5, <3>1 DEF Claimed
  <2> QED BY <1>0, <1>5, <2>1, <2>2, <2>3, <2>4 DEF MatFine
<1>6. CASE mat[p].pc \in {"item", "create"} /\ mat'[p] = [mat[p] EXCEPT !.pc = "error"]
  <2>1. /\ mat'[p].pc = "error" /\ mat'[p].plan = mat[p].plan /\ mat'[p].cycle = mat[p].cycle
        /\ mat'[p].k = mat[p].k /\ mat'[p].made = mat[p].made
    BY <1>6, Typed DEF MatRow
  <2>2. /\ mat[p].plan \in Plans /\ mat[p].cycle \in Cycles /\ mat[p].k \in 1..(Items + 1)
        /\ plan[mat[p].plan].status # "none" /\ mat[p].made \subseteq CycleOf(mat[p].plan, mat[p].cycle)
    BY <1>0, <1>6 DEF MatFine, Making
  <2> QED BY <1>1, <2>1, <2>2 DEF MatFine
<1> QED BY <1>0, <1>4, <1>5, <1>6 DEF MatCalm

LEMMA Calm ==
  ASSUME Tables, PlanInv, \A t \in Tasks : TaskCalm(t), \A q \in Plans : PlanCalm(q),
         \A p \in Procs : MatCalm(p)
  PROVE  PlanInv'
BY CalmTasks, CalmPlans, CalmMats DEF PlanInv

LEMMA Cancels ==
  ASSUME Tables, NEW ts, CancelTasks(ts)
  PROVE  /\ task' \in [Tasks -> TaskRow]
         /\ \A t \in Tasks : TaskCalm(t) /\ (Status(t)' \in Active => Status(t)' = Status(t))
         /\ \A t \in Tasks : t \in ts => Status(t)' \notin Active
<1>1. \A t \in Tasks : task[t] \in TaskRow
  BY Typed
<1>2. \A t \in Tasks : [task[t] EXCEPT !.status = "cancelled"] \in TaskRow
                       /\ [task[t] EXCEPT !.status = "cancelled"].status = "cancelled"
  BY <1>1 DEF TaskRow, Final
<1>3. ASSUME NEW t \in Tasks
      PROVE  /\ task'[t] \in TaskRow
             /\ \/ Status(t)' = Status(t) /\ (t \notin ts \/ Status(t) \notin Active)
                \/ Status(t) \in Active /\ Status(t)' = "cancelled"
  BY <1>1, <1>2 DEF CancelTasks, Status
<1>4. task' \in [Tasks -> TaskRow]
  BY <1>3 DEF CancelTasks
<1> QED BY <1>3, <1>4 DEF TaskCalm, Active, Final

LEMMA Unclaims ==
  ASSUME Tables, NEW q \in Plans, NEW s \in Running \cup Stopped
  PROVE  /\ Unclaimed(plan[q], s) \in PlanRow /\ Unclaimed(plan[q], s).status = s
         /\ Unclaimed(plan[q], s).cycle = plan[q].cycle
         /\ Unclaimed(plan[q], s).mode = plan[q].mode
<1>1. plan[q] \in PlanRow /\ 0 \in 0..MaxCycle
  BY Typed, Numbers
<1> QED BY <1>1 DEF Unclaimed, PlanRow

\* Processes and plans that a step leaves alone.
LEMMA Unmoved ==
  /\ mat' = mat => \A p \in Procs : MatCalm(p)
  /\ plan' = plan => \A q \in Plans : PlanCalm(q)
  /\ task' = task => \A t \in Tasks : TaskCalm(t)
BY DEF MatCalm, PlanCalm, TaskCalm, Status

\* Tasks run and end.
LEMMA TaskSteps ==
  ASSUME Inv, NEW t \in Tasks, Age(t) \/ SweepStale(t) \/ Work(t) \/ CancelTask(t)
  PROVE  Inv'
<1>0. UNCHANGED <<plan, mat, account, faults>>
  BY DEF Age, SweepStale, Work, CancelTask, StartTask, EndTask
<1>1. task' \in [Tasks -> TaskRow] /\ \A u \in Tasks : TaskCalm(u)
  <2>1. CASE SweepStale(t) \/ CancelTask(t)
    BY <2>1, Cancels DEF Inv, SweepStale, CancelTask
  <2>2. ASSUME NEW x \in TaskRow, task' = [task EXCEPT ![t] = x],
               \/ x.status = Status(t)
               \/ Status(t) = "queued" /\ x.status = "running"
               \/ Status(t) = "running" /\ x.status \in {"success", "failed"}
        PROVE  task' \in [Tasks -> TaskRow] /\ \A u \in Tasks : TaskCalm(u)
    <3>1. task' \in [Tasks -> TaskRow] /\ task'[t] = x /\ \A u \in Tasks : u # t => task'[u] = task[u]
      BY <2>2 DEF Inv, Tables
    <3> QED BY <2>2, <3>1 DEF TaskCalm, Status, Active, Final
  <2>3. task[t] \in TaskRow
    BY Typed DEF Inv
  <2>4. CASE Age(t)
    <3> DEFINE x == [task[t] EXCEPT !.aged = TRUE]
    <3>1. x \in TaskRow /\ x.status = Status(t)
      BY <2>3 DEF TaskRow, Status
    <3>2. task' = [task EXCEPT ![t] = x]
      BY <2>4 DEF Age
    <3> QED BY <2>2, <3>1, <3>2
  <2>5. CASE Work(t)
    <3>1. PICK st \in {"running", "success", "failed"} :
            /\ task' = [task EXCEPT ![t].status = st]
            /\ IF st = "running" THEN Status(t) = "queued" ELSE Status(t) = "running"
      BY <2>5 DEF Work, StartTask, EndTask
    <3> DEFINE x == [task[t] EXCEPT !.status = st]
    <3>2. x \in TaskRow /\ x.status = st /\ task' = [task EXCEPT ![t] = x]
      BY <2>3, <3>1 DEF TaskRow, Active, Final
    <3> QED BY <2>2, <3>1, <3>2
  <2> QED BY <2>1, <2>4, <2>5
<1>2. PlanInv'
  BY <1>0, <1>1, Calm, Unmoved DEF Inv
<1> QED BY <1>0, <1>1, <1>2 DEF Inv, Tables

\* One plan is stopped.
LEMMA Stops ==
  ASSUME Tables, NEW q \in Plans, plan[q].status # "none", NEW x \in PlanRow,
         plan' = [plan EXCEPT ![q] = x], x.status \in Stopped,
         plan[q].status = "deleted" => x.status = "deleted",
         \A t \in TasksOf(q) : Status(t)' \notin {"queued", "running"}
  PROVE  /\ plan' \in [Plans -> PlanRow] /\ plan'[q] = x
         /\ \A r \in Plans : PlanCalm(r)
<1>1. plan' \in [Plans -> PlanRow] /\ plan'[q] = x /\ \A r \in Plans : r # q => plan'[r] = plan[r]
  BY DEF Tables
<1> QED BY <1>1 DEF PlanCalm

LEMMA RequestSteps ==
  ASSUME Inv, NEW p \in Procs, NEW q \in Plans, CancelPlan(p, q) \/ DeletePlan(p, q)
  PROVE  Inv'
<1>0. UNCHANGED <<mat, account, faults>> /\ Tables /\ PlanInv
  BY DEF CancelPlan, DeletePlan, Inv
<1>1. CASE CancelPlan(p, q)
  <2>1. CancelTasks(TasksOf(q)) /\ plan[q].status \notin {"none", "deleted"}
    BY <1>1 DEF CancelPlan, Kept, Running, Stopped
  <2>2. /\ task' \in [Tasks -> TaskRow] /\ \A t \in Tasks : TaskCalm(t)
        /\ \A t \in TasksOf(q) : Status(t)' \notin {"queued", "running"}
    BY <1>0, <2>1, Cancels DEF TasksOf, Active
  <2> DEFINE x == Unclaimed(plan[q], "cancelled")
  <2>3. x \in PlanRow /\ x.status = "cancelled" /\ "cancelled" \in Stopped
    BY <1>0, Unclaims DEF Stopped
  <2>4. plan' = [plan EXCEPT ![q] = x]
    BY <1>1 DEF CancelPlan
  <2> HIDE DEF x
  <2>5. plan' \in [Plans -> PlanRow] /\ \A r \in Plans : PlanCalm(r)
    BY <1>0, <2>1, <2>2, <2>3, <2>4, Stops
  <2>6. PlanInv'
    BY <1>0, <2>2, <2>5, Calm, Unmoved
  <2> QED BY <1>0, <2>2, <2>5, <2>6 DEF Inv, Tables
<1>2. CASE DeletePlan(p, q)
  <2>1. /\ plan[q].status # "none" /\ \A t \in TasksOf(q) : Status(t) \notin Active
    BY <1>2 DEF DeletePlan, MayDelete, Stopped
  <2> DEFINE x == Unclaimed(plan[q], "deleted")
             y == [NoRow EXCEPT !.status = "deleted"]
  <2>2. x \in PlanRow /\ x.status = "deleted" /\ "deleted" \in Stopped
    BY <1>0, Unclaims DEF Stopped
  <2>3. y \in TaskRow /\ y.status = "deleted"
    BY Blanks DEF TaskRow
  <2>4. /\ plan' = [plan EXCEPT ![q] = x]
        /\ task' = [t \in Tasks |-> IF t \in Rows(TasksOf(q)) THEN y ELSE task[t]]
    BY <1>2 DEF DeletePlan
  <2> HIDE DEF x, y
  <2>5. task' \in [Tasks -> TaskRow]
    BY <1>0, <2>3, <2>4, Typed
  <2>6. \A t \in Tasks : \/ Status(t)' = Status(t)
                         \/ t[1] = q /\ Status(t) # "none" /\ Status(t)' = "deleted"
    BY <2>3, <2>4 DEF Status, Rows, TasksOf
  <2>7. \A t \in TasksOf(q) : Status(t)' \notin {"queued", "running"}
    BY <2>1, <2>6 DEF TasksOf, Active
  <2>8. plan' \in [Plans -> PlanRow] /\ plan'[q] = x /\ \A r \in Plans : PlanCalm(r)
    BY <1>0, <2>1, <2>2, <2>4, <2>7, Stops
  <2>9. \A t \in Tasks : TaskCalm(t)
    BY <2>2, <2>6, <2>8 DEF TaskCalm
  <2>10. PlanInv'
    BY <1>0, <2>8, <2>9, Calm, Unmoved
  <2> QED BY <1>0, <2>5, <2>8, <2>10 DEF Inv, Tables
<1> QED BY <1>1, <1>2

LEMMA AccountSteps ==
  ASSUME Inv, DisableAccount \/ DeleteAccount
  PROVE  Inv'
<1>0. UNCHANGED <<mat, faults>> /\ account' \in {"on", "disabled", "deleted"} /\ Tables /\ PlanInv
  BY DEF DisableAccount, DeleteAccount, Inv
<1>1. CASE DisableAccount
  <2>1. plan' = plan /\ task' \in [Tasks -> TaskRow] /\ \A t \in Tasks : TaskCalm(t)
    BY <1>0, <1>1, Cancels DEF DisableAccount
  <2>2. PlanInv'
    BY <1>0, <2>1, Calm, Unmoved
  <2> QED BY <1>0, <2>1, <2>2 DEF Inv, Tables
<1>2. CASE DeleteAccount
  <2> DEFINE y == [NoRow EXCEPT !.status = "deleted"]
  <2>1. y \in TaskRow /\ y.status = "deleted"
    BY Blanks DEF TaskRow
  <2>2. /\ task' = [t \in Tasks |-> IF t \in Rows(Tasks) THEN y ELSE task[t]]
        /\ plan' = [q \in Plans |-> IF plan[q].status \in Kept THEN Unclaimed(plan[q], "deleted") ELSE plan[q]]
    BY <1>2 DEF DeleteAccount
  <2> HIDE DEF y
  <2>3. \A t \in Tasks : /\ task'[t] \in TaskRow
                         /\ \/ Status(t)' = Status(t) /\ Status(t) \in {"none", "deleted"}
                            \/ Status(t) # "none" /\ Status(t)' = "deleted"
    BY <1>0, <2>1, <2>2, Typed DEF Status, Rows
  <2>4. \A q \in Plans : /\ plan'[q] \in PlanRow
                         /\ \/ plan[q].status \in Kept /\ plan'[q].status = "deleted"
                            \/ plan'[q] = plan[q] /\ plan[q].status \notin Kept
    BY <1>0, <2>2, Typed, Unclaims DEF Stopped
  <2>5. \A q \in Plans : PlanCalm(q)
    <3>1. \A q \in Plans : \A t \in TasksOf(q) : Status(t)' \notin {"queued", "running"}
      BY <2>3 DEF TasksOf
    <3>2. "none" \notin Kept /\ "deleted" \in Stopped
      BY DEF Kept, Running, Stopped
    <3> QED BY <2>4, <3>1, <3>2 DEF PlanCalm
  <2>6. \A t \in Tasks : TaskCalm(t)
    <3> SUFFICES ASSUME NEW t \in Tasks PROVE TaskCalm(t)
      OBVIOUS
    <3>1. TaskFine(t) /\ t[1] \in Plans /\ plan[t[1]] \in PlanRow
      BY <1>0, Ids, Typed DEF PlanInv
    <3>2. Status(t) # "none" => plan'[t[1]].status = "deleted"
      BY <2>4, <3>1 DEF TaskFine, PlanRow, Kept, Running, Stopped
    <3> QED BY <2>3, <3>2 DEF TaskCalm
  <2>7. PlanInv'
    BY <1>0, <2>5, <2>6, Calm, Unmoved
  <2>8. plan' \in [Plans -> PlanRow] /\ task' \in [Tasks -> TaskRow]
    BY <2>2, <2>3, <2>4
  <2> QED BY <1>0, <2>7, <2>8 DEF Inv, Tables
<1> QED BY <1>1, <1>2

LEMMA PlanSteps ==
  ASSUME Inv, NEW q \in Plans, Reconcile(q) \/ Expire(q)
  PROVE  Inv'
<1>0. UNCHANGED <<task, mat, account>> /\ Tables /\ PlanInv /\ plan[q] \in PlanRow
  BY Typed DEF Reconcile, Expire, Inv
<1>1. CASE Reconcile(q)
  <2>1. PICK st \in {"completed", "paused", "failed"} : plan' = [plan EXCEPT ![q].status = st]
    BY <1>1 DEF Reconcile
  <2> DEFINE x == [plan[q] EXCEPT !.status = st]
  <2>2. x \in PlanRow /\ x.status = st /\ st \in Stopped /\ plan' = [plan EXCEPT ![q] = x]
    BY <1>0, <2>1 DEF PlanRow, Stopped
  <2> HIDE DEF x
  <2>3. faults' = faults /\ plan[q].status = "active" /\ plan[q].cycle > 0 /\ Ended(q, plan[q].cycle)
    BY <1>1 DEF Reconcile
  <2>4. \A t \in TasksOf(q) : Status(t)' \notin {"queued", "running"}
    <3> SUFFICES ASSUME NEW t \in TasksOf(q), Status(t) \in {"queued", "running"} PROVE FALSE
      BY <1>0 DEF Status
    <3>1. t \in Tasks /\ t[1] = q
      BY DEF TasksOf
    <3>2. t[2] = plan[q].cycle /\ plan[q].cycle \in Cycles
      BY <1>0, <3>1, Ids DEF PlanInv, TaskFine
    <3>3. t \in Rows(CycleOf(q, plan[q].cycle))
      BY <3>1, <3>2, CycleIds DEF Rows
    <3> QED BY <2>3, <3>3 DEF Ended, Final
  <2>5. plan' \in [Plans -> PlanRow] /\ \A r \in Plans : PlanCalm(r)
    BY <1>0, <2>2, <2>3, <2>4, Stops
  <2>6. PlanInv'
    BY <1>0, <2>5, Calm, Unmoved
  <2> QED BY <1>0, <2>3, <2>5, <2>6 DEF Inv, Tables
<1>2. CASE Expire(q)
  <2> DEFINE x == [plan[q] EXCEPT !.fresh = FALSE]
  <2>1. /\ x \in PlanRow /\ x.status = plan[q].status /\ x.cycle = plan[q].cycle
        /\ x.mcycle = plan[q].mcycle /\ x.token = plan[q].token
    BY <1>0 DEF PlanRow
  <2>2. plan' = [plan EXCEPT ![q] = x] /\ faults' \in 0..MaxFaults
    BY <1>0, <1>2, Numbers DEF Expire, Tables
  <2> HIDE DEF x
  <2>3. plan' \in [Plans -> PlanRow] /\ \A r \in Plans : PlanCalm(r)
    BY <1>0, <2>1, <2>2 DEF PlanCalm, Tables
  <2>4. PlanInv'
    BY <1>0, <2>3, Calm, Unmoved
  <2> QED BY <1>0, <2>2, <2>3, <2>4 DEF Inv, Tables
<1> QED BY <1>1, <1>2

\* A process returns or fails.
LEMMA Returns ==
  ASSUME Tables, NEW p \in Procs,
         \/ mat' = [mat EXCEPT ![p] = Idle]
         \/ mat' = [mat EXCEPT ![p].pc = "error"] /\ mat[p].pc \in {"item", "create"}
  PROVE  mat' \in [Procs -> MatRow] /\ \A o \in Procs : MatCalm(o)
<1>1. CASE mat' = [mat EXCEPT ![p] = Idle]
  BY <1>1, Blanks DEF Tables, MatCalm
<1>2. CASE mat' = [mat EXCEPT ![p].pc = "error"] /\ mat[p].pc \in {"item", "create"}
  <2> DEFINE m == [mat[p] EXCEPT !.pc = "error"]
  <2>1. m \in MatRow
    BY Typed DEF MatRow
  <2>2. mat' = [mat EXCEPT ![p] = m]
    BY <1>2
  <2>3. mat' \in [Procs -> MatRow] /\ mat'[p] = m /\ \A o \in Procs : o # p => mat'[o] = mat[o]
    BY <2>1, <2>2 DEF Tables
  <2> QED BY <1>2, <2>3 DEF MatCalm
<1> QED BY <1>1, <1>2

LEMMA CrashStep ==
  ASSUME Inv, NEW p \in Procs, Crash(p)
  PROVE  Inv'
<1>0. /\ UNCHANGED <<task, account>> /\ Tables /\ PlanInv /\ faults' \in 0..MaxFaults
      /\ mat' = [mat EXCEPT ![p] = Idle]
      /\ plan' = [q \in Plans |-> IF plan[q].token = p THEN [plan[q] EXCEPT !.token = Gone] ELSE plan[q]]
  BY Numbers DEF Crash, Inv, Tables
<1>1. mat' \in [Procs -> MatRow] /\ \A o \in Procs : MatCalm(o)
  BY <1>0, Returns
<1>2. ASSUME NEW q \in Plans PROVE plan'[q] \in PlanRow /\ PlanCalm(q)
  <2>1. plan[q] \in PlanRow
    BY <1>0, Typed
  <2> DEFINE x == [plan[q] EXCEPT !.token = Gone]
  <2>2. /\ x \in PlanRow /\ x.status = plan[q].status /\ x.cycle = plan[q].cycle
        /\ x.mcycle = plan[q].mcycle /\ x.token \notin Procs
    BY <2>1, Numbers DEF PlanRow
  <2>3. plan'[q] = x \/ plan'[q] = plan[q]
    BY <1>0
  <2> HIDE DEF x
  <2> QED BY <2>1, <2>2, <2>3 DEF PlanCalm
<1>3. PlanInv'
  BY <1>0, <1>1, <1>2, Calm, Unmoved
<1>4. plan' \in [Plans -> PlanRow]
  BY <1>0, <1>2
<1> QED BY <1>0, <1>1, <1>3, <1>4 DEF Inv, Tables

LEMMA RaiseStep ==
  ASSUME Inv, NEW p \in Procs, Raise(p)
  PROVE  Inv'
<1>0. /\ UNCHANGED <<plan, task, account, faults>> /\ Tables /\ PlanInv
      /\ mat' = [mat EXCEPT ![p].pc = "error"] /\ mat[p].pc \in {"item", "create"}
  BY DEF Raise, At, Inv
<1>1. mat' \in [Procs -> MatRow] /\ \A o \in Procs : MatCalm(o)
  BY <1>0, Returns
<1>2. PlanInv'
  BY <1>0, <1>1, Calm, Unmoved
<1> QED BY <1>0, <1>1, <1>2 DEF Inv, Tables

LEMMA FailStep ==
  ASSUME Inv, NEW p \in Procs, Fail(p)
  PROVE  Inv'
<1> DEFINE q == mat[p].plan
           c == mat[p].cycle
<1>0. /\ UNCHANGED <<account, faults>> /\ Tables /\ PlanInv /\ CancelTasks(CycleOf(q, c))
      /\ mat' = [mat EXCEPT ![p] = Idle] /\ mat[p].pc \in Making
      /\ plan' = IF Claimed(p) THEN [plan EXCEPT ![q] = Unclaimed(@, "paused")] ELSE plan
  BY DEF Fail, Finishing, At, Making, Inv
<1>1. q \in Plans /\ c \in Cycles /\ mat' \in [Procs -> MatRow] /\ \A o \in Procs : MatCalm(o)
  BY <1>0, Returns DEF PlanInv, MatFine
<1>2. task' \in [Tasks -> TaskRow] /\ \A t \in Tasks : TaskCalm(t)
  BY <1>0, Cancels
<1>3. plan' \in [Plans -> PlanRow] /\ \A r \in Plans : PlanCalm(r)
  <2>1. CASE ~Claimed(p)
    BY <1>0, <2>1, Unmoved DEF Tables
  <2>2. CASE Claimed(p)
    <3> DEFINE x == Unclaimed(plan[q], "paused")
    <3>1. x \in PlanRow /\ x.status = "paused" /\ "paused" \in Stopped
      BY <1>0, <1>1, Unclaims DEF Stopped
    <3>2. plan' = [plan EXCEPT ![q] = x] /\ plan[q].status = "materializing"
      BY <1>0, <2>2 DEF Claimed
    <3> HIDE DEF x
    <3>3. \A t \in TasksOf(q) : Status(t)' \notin {"queued", "running"}
      <4> SUFFICES ASSUME NEW t \in TasksOf(q), Status(t)' \in {"queued", "running"} PROVE FALSE
        OBVIOUS
      <4>1. t \in Tasks /\ t[1] = q
        BY DEF TasksOf
      <4>2. Status(t) = Status(t)'
        BY <1>0, <4>1, Cancels DEF Active
      <4> QED BY <1>0, <3>2, <4>1, <4>2 DEF PlanInv, TaskFine
    <3> QED BY <1>0, <1>1, <3>1, <3>2, <3>3, Stops
  <2> QED BY <2>1, <2>2
<1>4. PlanInv'
  BY <1>0, <1>1, <1>2, <1>3, Calm
<1> QED BY <1>0, <1>1, <1>2, <1>3, <1>4 DEF Inv, Tables

-----------------------------------------------------------------------------
(* Steps that begin or activate something *)

\* A step that makes mat[p] x and spares what the other processes know.
Spares(p, x) ==
  /\ mat' = [mat EXCEPT ![p] = x]
  /\ \A t \in Tasks : Status(t) # "none" => Status(t)' # "none"
  /\ \A q \in Plans : plan[q].status # "none" => plan'[q].status # "none"
  /\ \A q \in Plans, o \in Procs :
       o # p /\ plan'[q].status = "materializing" /\ plan'[q].token = o
         => plan[q].status = "materializing" /\ plan[q].token = o
  /\ \A o \in Procs :
       o # p /\ mat[o].pc = "insert"
         => plan'[mat[o].plan].status = "none" /\ (x.pc = "insert" => x.plan # mat[o].plan)

LEMMA Others ==
  ASSUME Tables, PlanInv, NEW p \in Procs, NEW x \in MatRow, Spares(p, x)
  PROVE  /\ mat' \in [Procs -> MatRow] /\ mat'[p] = x /\ \A o \in Procs : o # p => mat'[o] = mat[o]
         /\ MatFine(p)' => \A o \in Procs : MatFine(o)'
<1>1. mat' \in [Procs -> MatRow] /\ mat'[p] = x /\ \A o \in Procs : o # p => mat'[o] = mat[o]
  BY DEF Tables, Spares
<1>2. ASSUME NEW o \in Procs, o # p PROVE MatFine(o)'
  <2>0. mat'[o] = mat[o] /\ MatFine(o)
    BY <1>1, <1>2 DEF PlanInv
  <2>1. mat[o].pc = "insert" =>
          /\ mat[o].plan \in Plans /\ plan'[mat[o].plan].status = "none"
          /\ \A n \in Procs : n # o /\ mat'[n].pc = "insert" => mat'[n].plan # mat[o].plan
    <3> SUFFICES ASSUME mat[o].pc = "insert"
                 PROVE  /\ mat[o].plan \in Plans /\ plan'[mat[o].plan].status = "none"
                        /\ \A n \in Procs : n # o /\ mat'[n].pc = "insert" => mat'[n].plan # mat[o].plan
      OBVIOUS
    <3>1. mat[o].plan \in Plans /\ plan'[mat[o].plan].status = "none"
      BY <1>2, <2>0 DEF MatFine, Spares
    <3>2. x.pc = "insert" => x.plan # mat[o].plan
      BY <1>2 DEF Spares
    <3>3. \A n \in Procs : n # o /\ mat[n].pc = "insert" => mat[n].plan # mat[o].plan
      BY <2>0 DEF MatFine
    <3> QED BY <1>1, <3>1, <3>2, <3>3
  <2>2. mat[o].pc \in Making => plan'[mat[o].plan].status # "none"
    BY <2>0 DEF MatFine, Making, Spares
  <2>3. mat[o].pc \in {"item", "create"} =>
          \A i \in 1..Items : i < mat[o].k => Status(Id(mat[o].plan, mat[o].cycle, i))' # "none"
    <3> SUFFICES ASSUME mat[o].pc \in {"item", "create"}, NEW i \in 1..Items, i < mat[o].k
                 PROVE  Status(Id(mat[o].plan, mat[o].cycle, i))' # "none"
      OBVIOUS
    <3>1. /\ mat[o].plan \in Plans /\ mat[o].cycle \in Cycles
          /\ Status(Id(mat[o].plan, mat[o].cycle, i)) # "none"
      BY <2>0 DEF MatFine, Making
    <3>2. PICK u \in Tasks : u = Id(mat[o].plan, mat[o].cycle, i)
      BY <3>1, Ids
    <3>3. Status(u)' # "none"
      BY <3>1, <3>2 DEF Spares
    <3> QED BY <2>0, <3>2, <3>3 DEF Id, Status
  <2>4. mat[o].pc = "final" => ~Claimed(o)'
    <3>1. mat[o].pc = "final" => mat[o].plan \in Plans /\ ~Claimed(o)
      BY <2>0 DEF MatFine, Making
    <3> QED BY <1>2, <2>0, <3>1 DEF Claimed, Spares
  <2> QED BY <2>0, <2>1, <2>2, <2>3, <2>4 DEF MatFine
<1> QED BY <1>1, <1>2

\* Plans and tasks that a step leaves alone.
LEMMA LeftAlone ==
  ASSUME PlanInv, plan' = plan, task' = task
  PROVE  (\A q \in Plans : PlanFine(q)') /\ (\A t \in Tasks : TaskFine(t)')
BY DEF PlanInv, PlanFine, TaskFine, Status

LEMMA CreateCheckStep ==
  ASSUME Inv, NEW p \in Procs, NEW q \in Plans, CreateCheck(p, q)
  PROVE  Inv'
<1> DEFINE x == [Idle EXCEPT !.pc = "insert", !.plan = q]
<1>0. /\ UNCHANGED <<plan, task, account, faults>> /\ Tables /\ PlanInv
      /\ plan[q].status = "none" /\ (\A o \in Procs : mat[o].plan # q)
      /\ mat' = [mat EXCEPT ![p] = x]
  BY DEF CreateCheck, Inv
<1>1. x \in MatRow /\ x.pc = "insert" /\ x.plan = q
  BY Blanks DEF MatRow
<1> HIDE DEF x
<1>2. Spares(p, x)
  <2>1. \A t \in Tasks : Status(t)' = Status(t)
    BY <1>0 DEF Status
  <2>2. \A o \in Procs : mat[o].pc = "insert" => plan[mat[o].plan].status = "none"
    BY <1>0 DEF PlanInv, MatFine
  <2> QED BY <1>0, <1>1, <2>1, <2>2 DEF Spares
<1>3. /\ mat' \in [Procs -> MatRow] /\ mat'[p] = x /\ \A o \in Procs : o # p => mat'[o] = mat[o]
      /\ MatFine(p)' => \A o \in Procs : MatFine(o)'
  BY <1>0, <1>1, <1>2, Others
<1>4. MatFine(p)'
  BY <1>0, <1>1, <1>3 DEF MatFine, Making
<1>5. PlanInv'
  BY <1>0, <1>3, <1>4, LeftAlone DEF PlanInv
<1> QED BY <1>0, <1>3, <1>5 DEF Inv, Tables

LEMMA CreateInsertStep ==
  ASSUME Inv, NEW p \in Procs, NEW m \in Modes, CreateInsert(p, m)
  PROVE  Inv'
<1> DEFINE q == mat[p].plan
           r == [NoPlan EXCEPT !.status = "active", !.mode = m]
<1>0. /\ UNCHANGED <<task, account, faults>> /\ Tables /\ PlanInv /\ mat[p].pc = "insert"
      /\ mat' = [mat EXCEPT ![p] = Idle]
      /\ plan' = [plan EXCEPT ![q] = IF account = "deleted" THEN @ ELSE r]
  BY DEF CreateInsert, At, Inv
<1>1. /\ q \in Plans /\ plan[q].status = "none"
      /\ \A o \in Procs : o # p /\ mat[o].pc = "insert" => mat[o].plan # q
  BY <1>0 DEF PlanInv, MatFine
<1>2. r \in PlanRow /\ r.status = "active" /\ r.cycle = 0
  <2>1. NoPlan \in PlanRow /\ NoPlan.cycle = 0 /\ m \in {"list", "loop"} /\ "active" \in Running
    BY Numbers, Blanks DEF NoPlan, Running
  <2> QED BY <2>1 DEF PlanRow
<1> HIDE DEF r
<1>3. CASE account = "deleted"
  <2>1. plan' = plan
    BY <1>0, <1>1, <1>3 DEF Tables
  <2>2. mat' \in [Procs -> MatRow] /\ \A o \in Procs : MatCalm(o)
    BY <1>0, Returns
  <2>3. PlanInv'
    BY <1>0, <2>1, <2>2, Calm, Unmoved
  <2> QED BY <1>0, <2>1, <2>2, <2>3 DEF Inv, Tables
<1>4. CASE account # "deleted"
  <2>1. /\ plan' \in [Plans -> PlanRow] /\ plan'[q] = r
        /\ \A s \in Plans : s # q => plan'[s] = plan[s]
    BY <1>0, <1>1, <1>2, <1>4 DEF Tables
  <2>2. \A t \in Tasks : Status(t)' = Status(t)
    BY <1>0 DEF Status
  <2>3. \A o \in Procs : o # p /\ mat[o].pc = "insert" => plan'[mat[o].plan].status = "none"
    BY <1>0, <1>1, <2>1 DEF PlanInv, MatFine
  <2>4. Spares(p, Idle)
    BY <1>0, <1>2, <2>1, <2>2, <2>3, Blanks DEF Spares
  <2>5. /\ mat' \in [Procs -> MatRow] /\ mat'[p] = Idle
        /\ MatFine(p)' => \A o \in Procs : MatFine(o)'
    BY <1>0, <2>4, Blanks, Others
  <2>6. MatFine(p)'
    BY <2>5, Blanks DEF MatFine, Making
  <2>7. ASSUME NEW s \in Plans PROVE PlanFine(s)'
    <3>1. PlanFine(s)
      BY <1>0 DEF PlanInv
    <3>2. CASE s = q
      BY <1>2, <2>1, <3>2 DEF PlanFine
    <3>3. CASE s # q
      <4>1. plan'[s] = plan[s] /\ task' = task
        BY <1>0, <2>1, <3>3
      <4> QED BY <3>1, <4>1 DEF PlanFine, Status
    <3> QED BY <3>2, <3>3
  <2>8. ASSUME NEW t \in Tasks PROVE TaskFine(t)'
    <3>1. TaskFine(t) /\ t[1] \in Plans
      BY <1>0, Ids DEF PlanInv
    <3> QED BY <1>1, <2>1, <2>2, <3>1 DEF TaskFine
  <2>9. PlanInv'
    BY <2>5, <2>6, <2>7, <2>8 DEF PlanInv
  <2> QED BY <1>0, <2>1, <2>5, <2>9 DEF Inv, Tables
<1> QED BY <1>3, <1>4

\* A plan that may be claimed has nothing waiting or running, and its current cycle
\* has succeeded.
LEMMA ClaimableNext ==
  ASSUME Inv, NEW q \in Plans, Claimable(q) \in Cycles
  PROVE  /\ plan[q].status \in {"active", "materializing"} /\ Claimable(q) = plan[q].cycle + 1
         /\ plan[q].cycle > 0 => \A k \in 1..Items : Status(Id(q, plan[q].cycle, k)) = "success"
         /\ \A t \in Tasks : t[1] = q => Status(t) \notin {"queued", "running"}
<1> DEFINE c == plan[q].cycle
<1>0. /\ Tables /\ PlanInv /\ PlanFine(q) /\ c \in Nat /\ (c > 0 => c \in Cycles) /\ 0 \notin Cycles
      /\ plan[q].fresh \in BOOLEAN
  BY Typed, Numbers DEF Inv, PlanInv, Cycles, PlanRow
<1>1. \A t \in Tasks : t[1] = q /\ Status(t) \in {"queued", "running"} =>
        plan[q].status = "active" /\ t[2] = c /\ c \in Cycles
  BY <1>0, Ids DEF PlanInv, TaskFine
<1>2. CASE plan[q].status = "materializing" /\ ~plan[q].fresh
  <2>1. Claimable(q) = plan[q].mcycle
    BY <1>2 DEF Claimable
  <2> QED BY <1>0, <1>1, <1>2, <2>1 DEF PlanFine
<1>3. CASE plan[q].status = "active" /\ c = 0
  <2>1. Claimable(q) = 1
    BY <1>3 DEF Claimable
  <2> QED BY <1>0, <1>1, <1>3, <2>1
<1>4. CASE /\ plan[q].status = "active" /\ c > 0
           /\ plan[q].mode = "loop" /\ Rows(CycleOf(q, c)) # {} /\ Succeeded(q, c)
  <2>1. Claimable(q) = c + 1
    BY <1>0, <1>4 DEF Claimable
  <2>2. \A t \in Tasks : t[1] = q /\ t[2] = c /\ Status(t) # "none" => Status(t) = "success"
    <3> SUFFICES ASSUME NEW t \in Tasks, t[1] = q, t[2] = c, Status(t) # "none" PROVE Status(t) = "success"
      OBVIOUS
    <3>1. Status(t) # "deleted"
      BY <1>0, <1>4 DEF PlanInv, TaskFine
    <3>2. t \in CycleOf(q, c)
      BY <1>0, <1>4, CycleIds
    <3> QED BY <1>4, <3>1, <3>2 DEF Succeeded, Rows
  <2>3. \A k \in 1..Items : Status(Id(q, c, k)) = "success"
    <3> SUFFICES ASSUME NEW k \in 1..Items PROVE Status(Id(q, c, k)) = "success"
      OBVIOUS
    <3>1. Id(q, c, k) \in Tasks /\ Id(q, c, k)[1] = q /\ Id(q, c, k)[2] = c
      BY <1>0, <1>4, Ids
    <3>2. Status(Id(q, c, k)) # "none"
      BY <1>0, <1>4 DEF PlanFine
    <3> QED BY <2>2, <3>1, <3>2
  <2>4. \A t \in Tasks : t[1] = q => Status(t) \notin {"queued", "running"}
    BY <1>1, <2>2
  <2> QED BY <1>4, <2>1, <2>3, <2>4
<1>5. CASE ~ \/ plan[q].status = "materializing" /\ ~plan[q].fresh
             \/ plan[q].status = "active" /\ c = 0
             \/ /\ plan[q].status = "active" /\ c > 0
                /\ plan[q].mode = "loop" /\ Rows(CycleOf(q, c)) # {} /\ Succeeded(q, c)
  <2>1. Claimable(q) = 0
    BY <1>5 DEF Claimable
  <2> QED BY <1>0, <2>1
<1> QED BY <1>2, <1>3, <1>4, <1>5

LEMMA ClaimStep ==
  ASSUME Inv, NEW p \in Procs, NEW q \in Plans, Claim(p, q)
  PROVE  Inv'
<1> DEFINE c == Claimable(q)
           x == [pc |-> "item", plan |-> q, cycle |-> c, k |-> 1, made |-> {}]
           r == [plan[q] EXCEPT !.status = "materializing", !.token = p, !.mcycle = c, !.fresh = TRUE]
<1>0. /\ UNCHANGED <<task, account, faults>> /\ Tables /\ PlanInv /\ c \in Cycles
      /\ mat' = [mat EXCEPT ![p] = x] /\ plan' = [plan EXCEPT ![q] = r]
      /\ plan[q] \in PlanRow /\ c \in 0..MaxCycle
  <2>1. /\ UNCHANGED <<task, account, faults>> /\ Tables /\ PlanInv /\ c \in Cycles
        /\ mat' = [mat EXCEPT ![p] = x]
        /\ plan' = [plan EXCEPT ![q].status = "materializing", ![q].token = p, ![q].mcycle = c,
                               ![q].fresh = TRUE]
    BY DEF Claim, Inv
  <2>2. plan[q] \in PlanRow /\ c \in 0..MaxCycle
    BY <2>1, Typed, Numbers DEF Cycles
  <2> HIDE DEF c
  <2>3. plan' = [plan EXCEPT ![q] = r]
    BY <2>1, <2>2 DEF Tables
  <2> QED BY <2>1, <2>2, <2>3
<1>1. /\ plan[q].status \in {"active", "materializing"} /\ c = plan[q].cycle + 1
      /\ plan[q].cycle > 0 => \A k \in 1..Items : Status(Id(q, plan[q].cycle, k)) = "success"
      /\ \A t \in Tasks : t[1] = q => Status(t) \notin {"queued", "running"}
  BY <1>0, ClaimableNext
<1> HIDE DEF c
<1>2. /\ x \in MatRow /\ x.pc = "item" /\ x.plan = q /\ x.cycle = c /\ x.k = 1 /\ x.made = {}
      /\ 1 \in 1..(Items + 1) /\ \A i \in 1..Items : ~(i < 1)
  BY <1>0, Numbers DEF MatRow
<1>3. /\ r \in PlanRow /\ r.status = "materializing" /\ r.token = p /\ r.mcycle = c
      /\ r.cycle = plan[q].cycle
  BY <1>0 DEF PlanRow, Running
<1> HIDE DEF x, r
<1>4. /\ plan' \in [Plans -> PlanRow] /\ plan'[q] = r
      /\ \A s \in Plans : s # q => plan'[s] = plan[s]
  BY <1>0, <1>3 DEF Tables
<1>5. \A t \in Tasks : Status(t)' = Status(t)
  BY <1>0 DEF Status
<1>6. Spares(p, x)
  <2>1. \A o \in Procs : mat[o].pc = "insert" => plan'[mat[o].plan].status = "none"
    BY <1>0, <1>1, <1>4 DEF PlanInv, MatFine
  <2> QED BY <1>0, <1>2, <1>3, <1>4, <1>5, <2>1 DEF Spares
<1>7. /\ mat' \in [Procs -> MatRow] /\ mat'[p] = x
      /\ MatFine(p)' => \A o \in Procs : MatFine(o)'
  BY <1>0, <1>2, <1>6, Others
<1>8. MatFine(p)'
  BY <1>0, <1>2, <1>3, <1>4, <1>7 DEF MatFine, Making
<1>9. ASSUME NEW s \in Plans PROVE PlanFine(s)'
  <2>1. PlanFine(s)
    BY <1>0 DEF PlanInv
  <2>2. CASE s # q
    BY <1>0, <1>4, <2>1, <2>2 DEF PlanFine, Status
  <2>3. CASE s = q
    BY <1>0, <1>1, <1>3, <1>4, <2>3 DEF PlanFine, Status
  <2> QED BY <2>2, <2>3
<1>10. ASSUME NEW t \in Tasks PROVE TaskFine(t)'
  <2>1. TaskFine(t) /\ t[1] \in Plans
    BY <1>0, Ids DEF PlanInv
  <2> QED BY <1>1, <1>3, <1>4, <1>5, <2>1 DEF TaskFine
<1>11. PlanInv'
  BY <1>7, <1>8, <1>9, <1>10 DEF PlanInv
<1> QED BY <1>0, <1>4, <1>7, <1>11 DEF Inv, Tables

\* A materializer whose plan and tasks stay as they are moves on.
LEMMA MovesOn ==
  ASSUME Inv, NEW p \in Procs, mat[p].pc \in Making, NEW x \in MatRow, x.pc \in Making,
         mat' = [mat EXCEPT ![p] = x], UNCHANGED <<plan, task, account, faults>>
  PROVE  mat'[p] = x /\ (MatFine(p)' => Inv')
<1>0. Tables /\ PlanInv
  BY DEF Inv
<1>1. Spares(p, x)
  <2>1. \A t \in Tasks : Status(t)' = Status(t)
    BY DEF Status
  <2>2. \A o \in Procs : mat[o].pc = "insert" => plan[mat[o].plan].status = "none"
    BY <1>0 DEF PlanInv, MatFine
  <2>3. x.pc # "insert"
    BY DEF Making
  <2> QED BY <2>1, <2>2, <2>3 DEF Spares
<1>2. /\ mat' \in [Procs -> MatRow] /\ mat'[p] = x
      /\ MatFine(p)' => \A o \in Procs : MatFine(o)'
  BY <1>0, <1>1, Others
<1>3. MatFine(p)' => PlanInv'
  BY <1>0, <1>2, LeftAlone DEF PlanInv
<1> QED BY <1>0, <1>2, <1>3 DEF Inv, Tables

LEMMA CheckItemStep ==
  ASSUME Inv, NEW p \in Procs, CheckItem(p)
  PROVE  Inv'
<1> DEFINE m == mat[p]
           t == Id(m.plan, m.cycle, m.k)
           y == IF ~Claimed(p) THEN [m EXCEPT !.pc = "final"]
                ELSE IF t \in Rows(Tasks) THEN [m EXCEPT !.made = @ \cup {t}, !.k = @ + 1]
                ELSE [m EXCEPT !.pc = "create"]
<1>0. /\ UNCHANGED <<plan, task, account, faults>> /\ Tables /\ PlanInv
      /\ m.pc = "item" /\ m.k <= Items /\ mat' = [mat EXCEPT ![p] = y]
  BY DEF CheckItem, At, Inv
<1>1. /\ m \in MatRow /\ m.plan \in Plans /\ m.cycle \in Cycles /\ m.k \in 1..Items
      /\ plan[m.plan].status # "none" /\ m.made \subseteq CycleOf(m.plan, m.cycle)
      /\ \A i \in 1..Items : i < m.k => Status(Id(m.plan, m.cycle, i)) # "none"
  <2>1. m \in MatRow /\ MatFine(p)
    BY <1>0, Typed DEF PlanInv
  <2> QED BY <1>0, <2>1, Numbers DEF MatFine, Making
<1>2. t \in CycleOf(m.plan, m.cycle) /\ t \in Tasks
  BY <1>1, CycleIds
<1>3. CASE ~Claimed(p)
  <2> DEFINE x == [m EXCEPT !.pc = "final"]
  <2>1. /\ x \in MatRow /\ x.pc = "final" /\ x.plan = m.plan /\ x.cycle = m.cycle /\ x.k = m.k
        /\ x.made = m.made
    BY <1>1 DEF MatRow
  <2>2. mat' = [mat EXCEPT ![p] = x]
    BY <1>0, <1>3
  <2> HIDE DEF x
  <2>3. mat'[p] = x /\ (MatFine(p)' => Inv')
    BY <1>0, <2>1, <2>2, MovesOn DEF Making
  <2>4. ~Claimed(p)'
    BY <1>0, <1>3, <2>1, <2>3 DEF Claimed
  <2>5. /\ x.plan \in Plans /\ x.cycle \in Cycles /\ x.k \in 1..(Items + 1)
        /\ plan[x.plan].status # "none" /\ x.made \subseteq CycleOf(x.plan, x.cycle)
    BY <1>1, <2>1, Numbers
  <2>6. MatFine(p)'
    BY <1>0, <2>1, <2>3, <2>4, <2>5 DEF MatFine
  <2> QED BY <2>3, <2>6
<1>4. CASE Claimed(p) /\ t \in Rows(Tasks)
  <2> DEFINE x == [m EXCEPT !.made = @ \cup {t}, !.k = @ + 1]
  <2>1. m.k + 1 \in 0..(Items + 1) /\ m.made \cup {t} \in SUBSET Tasks
    BY <1>1, <1>2, Numbers DEF MatRow
  <2>2. /\ x \in MatRow /\ x.pc = "item" /\ x.plan = m.plan /\ x.cycle = m.cycle /\ x.k = m.k + 1
        /\ x.made = m.made \cup {t}
    BY <1>0, <1>1, <2>1 DEF MatRow
  <2>3. mat' = [mat EXCEPT ![p] = x]
    BY <1>0, <1>4
  <2> HIDE DEF x
  <2>4. mat'[p] = x /\ (MatFine(p)' => Inv')
    BY <1>0, <2>2, <2>3, MovesOn DEF Making
  <2>5. Status(t) # "none"
    BY <1>4 DEF Rows
  <2>6. \A i \in 1..Items : i < m.k + 1 => Status(Id(m.plan, m.cycle, i)) # "none"
    BY <1>1, <2>5
  <2>7. \A i \in 1..Items : i < x.k => Status(Id(x.plan, x.cycle, i)) # "none"
    BY <2>2, <2>6
  <2>8. /\ x.plan \in Plans /\ x.cycle \in Cycles /\ x.k \in 1..(Items + 1)
        /\ plan[x.plan].status # "none" /\ x.made \subseteq CycleOf(x.plan, x.cycle)
    BY <1>1, <1>2, <2>2, Numbers
  <2>9. MatFine(p)'
    BY <1>0, <2>2, <2>4, <2>7, <2>8 DEF MatFine, Status
  <2> QED BY <2>4, <2>9
<1>5. CASE Claimed(p) /\ t \notin Rows(Tasks)
  <2> DEFINE x == [m EXCEPT !.pc = "create"]
  <2>1. /\ x \in MatRow /\ x.pc = "create" /\ x.plan = m.plan /\ x.cycle = m.cycle /\ x.k = m.k
        /\ x.made = m.made
    BY <1>1 DEF MatRow
  <2>2. mat' = [mat EXCEPT ![p] = x]
    BY <1>0, <1>5
  <2> HIDE DEF x
  <2>3. mat'[p] = x /\ (MatFine(p)' => Inv')
    BY <1>0, <2>1, <2>2, MovesOn DEF Making
  <2>4. \A i \in 1..Items : i < x.k => Status(Id(x.plan, x.cycle, i)) # "none"
    BY <1>1, <2>1
  <2>5. /\ x.k <= Items /\ x.plan \in Plans /\ x.cycle \in Cycles /\ x.k \in 1..(Items + 1)
        /\ plan[x.plan].status # "none" /\ x.made \subseteq CycleOf(x.plan, x.cycle)
    BY <1>1, <2>1, Numbers
  <2>6. MatFine(p)'
    BY <1>0, <2>1, <2>3, <2>4, <2>5 DEF MatFine, Status
  <2> QED BY <2>3, <2>6
<1> QED BY <1>3, <1>4, <1>5

LEMMA CreateItemStep ==
  ASSUME Inv, NEW p \in Procs, CreateItem(p)
  PROVE  Inv'
<1> DEFINE m == mat[p]
           t == Id(m.plan, m.cycle, m.k)
<1>0. UNCHANGED <<plan, account, faults>> /\ Tables /\ PlanInv /\ m.pc = "create"
  BY DEF CreateItem, At, Inv
<1>1. /\ m \in MatRow /\ m.plan \in Plans /\ m.cycle \in Cycles /\ m.k \in 1..Items
      /\ plan[m.plan].status # "none" /\ m.made \subseteq CycleOf(m.plan, m.cycle)
      /\ \A i \in 1..Items : i < m.k => Status(Id(m.plan, m.cycle, i)) # "none"
  <2>1. m \in MatRow /\ MatFine(p)
    BY <1>0, Typed DEF PlanInv
  <2> QED BY <1>0, <2>1, Numbers DEF MatFine, Making
<1>2. t \in CycleOf(m.plan, m.cycle) /\ t \in Tasks /\ t[1] = m.plan
  BY <1>1, CycleIds
<1>3. CASE t \in Rows(Tasks) \/ account = "deleted"
  <2>1. mat' = [mat EXCEPT ![p].pc = "error"] /\ task' = task
    BY <1>3 DEF CreateItem
  <2>2. mat' \in [Procs -> MatRow] /\ \A o \in Procs : MatCalm(o)
    BY <1>0, <2>1, Returns
  <2>3. PlanInv'
    BY <1>0, <2>1, <2>2, Calm, Unmoved
  <2> QED BY <1>0, <2>1, <2>2, <2>3 DEF Inv, Tables
<1>4. CASE ~(t \in Rows(Tasks) \/ account = "deleted")
  <2> DEFINE y == [status |-> "preparing", aged |-> FALSE]
             x == [m EXCEPT !.pc = "item", !.made = @ \cup {t}, !.k = @ + 1]
  <2>1. task' = [task EXCEPT ![t] = y] /\ mat' = [mat EXCEPT ![p] = x]
    BY <1>4 DEF CreateItem
  <2>2. y \in TaskRow /\ y.status = "preparing"
    BY DEF TaskRow, Active
  <2>3. m.k + 1 \in 0..(Items + 1) /\ m.made \cup {t} \in SUBSET Tasks
    BY <1>1, <1>2, Numbers DEF MatRow
  <2>4. /\ x \in MatRow /\ x.pc = "item" /\ x.plan = m.plan /\ x.cycle = m.cycle /\ x.k = m.k + 1
        /\ x.made = m.made \cup {t}
    BY <1>1, <2>3 DEF MatRow
  <2> HIDE DEF x, y
  <2>5. /\ task' \in [Tasks -> TaskRow] /\ task'[t] = y /\ \A u \in Tasks : u # t => task'[u] = task[u]
    BY <1>0, <1>2, <2>1, <2>2 DEF Tables
  <2>6. Status(t) \in {"none", "deleted"} /\ (\A u \in Tasks : u # t => Status(u)' = Status(u))
    BY <1>2, <1>4, <2>5 DEF Rows, Status
  <2>7. task'[t].status = "preparing" /\ \A u \in Tasks : Status(u)' = task'[u].status
    BY <2>2, <2>5 DEF Status
  <2>8. \A u \in Tasks : Status(u) # "none" => Status(u)' # "none"
    BY <2>6, <2>7
  <2>9. Spares(p, x)
    <3>1. \A o \in Procs : mat[o].pc = "insert" => plan[mat[o].plan].status = "none"
      BY <1>0 DEF PlanInv, MatFine
    <3> QED BY <1>0, <2>1, <2>4, <2>8, <3>1 DEF Spares
  <2>10. /\ mat' \in [Procs -> MatRow] /\ mat'[p] = x
         /\ MatFine(p)' => \A o \in Procs : MatFine(o)'
    BY <1>0, <2>4, <2>9, Others
  <2>11. MatFine(p)'
    <3>1. \A i \in 1..Items : i < m.k + 1 => task'[Id(m.plan, m.cycle, i)].status # "none"
      <4> SUFFICES ASSUME NEW i \in 1..Items, i < m.k + 1
                   PROVE  task'[Id(m.plan, m.cycle, i)].status # "none"
        OBVIOUS
      <4>1. CASE i = m.k
        BY <2>7, <4>1
      <4>2. CASE i # m.k
        <5>1. i < m.k
          BY <1>1, <4>2
        <5>2. PICK u \in Tasks : u = Id(m.plan, m.cycle, i)
          BY <1>1, Ids
        <5> QED BY <1>1, <2>7, <2>8, <5>1, <5>2
      <4> QED BY <4>1, <4>2
    <3>2. \A i \in 1..Items : i < x.k => task'[Id(x.plan, x.cycle, i)].status # "none"
      BY <2>4, <3>1
    <3>3. /\ x.plan \in Plans /\ x.cycle \in Cycles /\ x.k \in 1..(Items + 1)
          /\ plan[x.plan].status # "none" /\ x.made \subseteq CycleOf(x.plan, x.cycle)
      BY <1>1, <1>2, <2>4, Numbers
    <3> QED BY <1>0, <2>4, <2>10, <3>2, <3>3 DEF MatFine, Status
  <2>12. ASSUME NEW u \in Tasks PROVE TaskFine(u)'
    <3>1. TaskFine(u) /\ u[1] \in Plans
      BY <1>0, Ids DEF PlanInv
    <3>2. CASE u = t
      BY <1>0, <1>1, <1>2, <2>7, <3>2 DEF TaskFine
    <3>3. CASE u # t
      BY <1>0, <2>6, <3>1, <3>3 DEF TaskFine
    <3> QED BY <3>2, <3>3
  <2>13. ASSUME NEW q \in Plans PROVE PlanFine(q)'
    <3>1. PlanFine(q) /\ plan'[q] = plan[q] /\ plan[q].cycle \in 0..MaxCycle
      BY <1>0, Typed DEF PlanInv
    <3>2. \A u \in Tasks : Status(u) = "success" => Status(u)' = "success"
      BY <2>6
    <3>3. \A c \in Cycles, k \in 1..Items :
            /\ Status(Id(q, c, k)) # "none" => Status(Id(q, c, k))' # "none"
            /\ Status(Id(q, c, k)) = "success" => Status(Id(q, c, k))' = "success"
      BY <2>8, <3>2, Ids
    <3>4. /\ plan[q].cycle > 0 => plan[q].cycle \in Cycles
          /\ plan[q].cycle > 1 => plan[q].cycle - 1 \in Cycles
      BY <3>1, Numbers DEF Cycles
    <3> QED BY <3>1, <3>3, <3>4 DEF PlanFine
  <2>14. PlanInv'
    BY <2>10, <2>11, <2>12, <2>13 DEF PlanInv
  <2> QED BY <1>0, <2>5, <2>10, <2>14 DEF Inv, Tables
<1> QED BY <1>3, <1>4

\* The claim is still held: every item of the cycle has its row, and the cycle before
\* it, the plan's current one, has succeeded.
LEMMA ActivateStep ==
  ASSUME Inv, NEW p \in Procs, Finish(p), Current(p)
  PROVE  Inv'
<1> DEFINE m == mat[p]
           q == m.plan
           r == [Unclaimed(plan[q], "active") EXCEPT !.cycle = m.cycle]
<1>0. /\ UNCHANGED <<account, faults>> /\ Tables /\ PlanInv /\ mat' = [mat EXCEPT ![p] = Idle]
      /\ plan' = [plan EXCEPT ![q] = r]
      /\ task' = [t \in Tasks |-> IF t \in m.made /\ Status(t) = "preparing"
                                  THEN [task[t] EXCEPT !.status = "queued"] ELSE task[t]]
  BY DEF Finish, Inv
<1>1. /\ m.pc = "item" /\ m.k > Items /\ plan[q].status = "materializing"
      /\ plan[q].token = p /\ plan[q].mcycle = m.cycle
  <2>1. MatFine(p)
    BY <1>0 DEF PlanInv
  <2> QED BY <2>1 DEF Finish, Finishing, At, Current, Claimed, MatFine
<1>2. /\ q \in Plans /\ m.cycle \in Cycles /\ m.made \subseteq CycleOf(q, m.cycle)
      /\ \A i \in 1..Items : Status(Id(q, m.cycle, i)) # "none"
  <2>1. MatFine(p) /\ m.k \in 1..(Items + 1)
    BY <1>0, <1>1 DEF PlanInv, MatFine, Making
  <2>2. \A i \in 1..Items : i < m.k
    BY <1>1, <2>1, Numbers
  <2> QED BY <1>1, <2>1, <2>2 DEF MatFine, Making
<1>3. /\ plan[q].cycle \in Nat /\ m.cycle = plan[q].cycle + 1
      /\ plan[q].cycle > 0 => \A k \in 1..Items : Status(Id(q, plan[q].cycle, k)) = "success"
  BY <1>0, <1>1, <1>2, Typed DEF PlanInv, PlanFine
<1>4. r \in PlanRow /\ r.status = "active" /\ r.cycle = m.cycle
  <2>1. Unclaimed(plan[q], "active") \in PlanRow /\ Unclaimed(plan[q], "active").status = "active"
    BY <1>0, <1>2, Unclaims DEF Running
  <2>2. m.cycle \in 0..MaxCycle
    BY <1>2 DEF Cycles
  <2> QED BY <2>1, <2>2 DEF PlanRow
<1> HIDE DEF r
<1>5. /\ plan' \in [Plans -> PlanRow] /\ plan'[q] = r
      /\ \A s \in Plans : s # q => plan'[s] = plan[s]
  BY <1>0, <1>2, <1>4 DEF Tables
<1>6. \A t \in Tasks : /\ task'[t] \in TaskRow
                       /\ \/ Status(t)' = Status(t)
                          \/ t \in m.made /\ Status(t) = "preparing" /\ Status(t)' = "queued"
  <2> SUFFICES ASSUME NEW t \in Tasks
               PROVE  /\ task'[t] \in TaskRow
                      /\ \/ Status(t)' = Status(t)
                         \/ t \in m.made /\ Status(t) = "preparing" /\ Status(t)' = "queued"
    OBVIOUS
  <2> DEFINE y == [task[t] EXCEPT !.status = "queued"]
  <2>1. task[t] \in TaskRow /\ y \in TaskRow /\ y.status = "queued"
    BY <1>0, Typed DEF TaskRow, Active
  <2>2. task'[t] = IF t \in m.made /\ Status(t) = "preparing" THEN y ELSE task[t]
    BY <1>0
  <2> HIDE DEF y
  <2> QED BY <2>1, <2>2 DEF Status
<1>7. task' \in [Tasks -> TaskRow]
  BY <1>0, <1>6
<1>8. \A t \in Tasks : /\ Status(t) # "none" <=> Status(t)' # "none"
                       /\ Status(t) = "success" => Status(t)' = "success"
                       /\ Status(t)' = "deleted" => Status(t) = "deleted"
  BY <1>6
<1>9. Spares(p, Idle)
  <2>1. \A o \in Procs : mat[o].pc = "insert" => plan'[mat[o].plan].status = "none"
    BY <1>0, <1>1, <1>5 DEF PlanInv, MatFine
  <2> QED BY <1>0, <1>4, <1>5, <1>8, <2>1, Blanks DEF Spares
<1>10. /\ mat' \in [Procs -> MatRow] /\ mat'[p] = Idle
       /\ MatFine(p)' => \A o \in Procs : MatFine(o)'
  BY <1>0, <1>9, Blanks, Others
<1>11. MatFine(p)'
  BY <1>10, Blanks DEF MatFine, Making
<1>12. ASSUME NEW t \in Tasks PROVE TaskFine(t)'
  <2>1. TaskFine(t) /\ t[1] \in Plans
    BY <1>0, Ids DEF PlanInv
  <2>2. t \in m.made => t[1] = q /\ t[2] = m.cycle
    BY <1>2, CycleIds
  <2>3. CASE t[1] = q
    BY <1>1, <1>4, <1>5, <1>6, <1>8, <2>1, <2>2, <2>3 DEF TaskFine
  <2>4. CASE t[1] # q
    BY <1>5, <1>6, <2>1, <2>2, <2>4 DEF TaskFine
  <2> QED BY <2>3, <2>4
<1>13. ASSUME NEW s \in Plans PROVE PlanFine(s)'
  <2>1. \A c \in Cycles, k \in 1..Items :
          /\ Status(Id(s, c, k)) # "none" => Status(Id(s, c, k))' # "none"
          /\ Status(Id(s, c, k)) = "success" => Status(Id(s, c, k))' = "success"
    BY <1>8, Ids
  <2>2. CASE s = q
    <3>1. \A c \in Cycles, k \in 1..Items :
            /\ Status(Id(s, c, k)) # "none" => task'[Id(s, c, k)].status # "none"
            /\ Status(Id(s, c, k)) = "success" => task'[Id(s, c, k)].status = "success"
      BY <2>1 DEF Status, Id
    <3>2. \A k \in 1..Items : task'[Id(s, m.cycle, k)].status # "none"
      BY <1>2, <2>2, <3>1
    <3>3. m.cycle > 1 => \A k \in 1..Items : task'[Id(s, m.cycle - 1, k)].status = "success"
      <4>1. m.cycle > 1 => m.cycle - 1 = plan[q].cycle /\ plan[q].cycle > 0 /\ plan[q].cycle \in Cycles
        BY <1>2, <1>3, Numbers DEF Cycles
      <4> QED BY <1>3, <2>2, <3>1, <4>1
    <3>4. plan'[s] = r
      BY <1>5, <2>2
    <3> QED BY <1>4, <3>2, <3>3, <3>4 DEF PlanFine, Status
  <2>3. CASE s # q
    <3>1. PlanFine(s) /\ plan'[s] = plan[s] /\ plan[s].cycle \in 0..MaxCycle
      BY <1>0, <1>5, <2>3, Typed DEF PlanInv
    <3>2. /\ plan[s].cycle > 0 => plan[s].cycle \in Cycles
          /\ plan[s].cycle > 1 => plan[s].cycle - 1 \in Cycles
      BY <3>1, Numbers DEF Cycles
    <3> QED BY <2>1, <3>1, <3>2 DEF PlanFine
  <2> QED BY <2>2, <2>3
<1>14. PlanInv'
  BY <1>10, <1>11, <1>12, <1>13 DEF PlanInv
<1> QED BY <1>0, <1>5, <1>7, <1>10, <1>14 DEF Inv, Tables

LEMMA FinishStep ==
  ASSUME Inv, NEW p \in Procs, Finish(p)
  PROVE  Inv'
<1>1. CASE Current(p)
  BY <1>1, ActivateStep
<1>2. CASE ~Current(p)
  <2>1. /\ UNCHANGED <<plan, account, faults>> /\ Tables /\ PlanInv /\ mat' = [mat EXCEPT ![p] = Idle]
        /\ CancelTasks(CycleOf(mat[p].plan, mat[p].cycle))
    BY <1>2 DEF Finish, Inv
  <2>2. task' \in [Tasks -> TaskRow] /\ \A t \in Tasks : TaskCalm(t)
    BY <2>1, Cancels
  <2>3. mat' \in [Procs -> MatRow] /\ \A o \in Procs : MatCalm(o)
    BY <2>1, Returns
  <2>4. PlanInv'
    BY <2>1, <2>2, <2>3, Calm, Unmoved
  <2> QED BY <2>1, <2>2, <2>3, <2>4 DEF Inv, Tables
<1> QED BY <1>1, <1>2

-----------------------------------------------------------------------------
(* Theorems *)

LEMMA InitLemma == Init => Inv
<1> SUFFICES ASSUME Init PROVE Inv
  OBVIOUS
<1>1. Tables
  BY Blanks, Numbers DEF Init, Tables
<1>2. /\ \A p \in Procs : mat[p] = Idle
      /\ \A q \in Plans : plan[q].status = "none"
      /\ \A t \in Tasks : Status(t) = "none"
  BY Blanks DEF Init, Status
<1>3. \A p \in Procs : MatFine(p)
  BY <1>2, Blanks DEF MatFine, Making
<1>4. \A q \in Plans : PlanFine(q)
  BY <1>2 DEF PlanFine
<1>5. \A t \in Tasks : TaskFine(t)
  BY <1>2 DEF TaskFine
<1> QED BY <1>1, <1>3, <1>4, <1>5 DEF Inv, PlanInv

LEMMA NextLemma == Inv /\ [Next]_vars => Inv'
<1> SUFFICES ASSUME Inv, [Next]_vars PROVE Inv'
  OBVIOUS
<1>1. CASE UNCHANGED vars
  <2>1. UNCHANGED <<plan, task, mat, account, faults>>
    BY <1>1 DEF vars
  <2>2. PlanInv'
    BY <2>1, Calm, Unmoved DEF Inv
  <2> QED BY <2>1, <2>2 DEF Inv, Tables
<1>2. ASSUME NEW p \in Procs, NEW q \in Plans, CreateCheck(p, q) \/ CancelPlan(p, q) \/ DeletePlan(p, q)
      PROVE  Inv'
  BY <1>2, CreateCheckStep, RequestSteps
<1>3. CASE DisableAccount \/ DeleteAccount
  BY <1>3, AccountSteps
<1>4. ASSUME NEW p \in Procs, Materialize(p) \/ Crash(p) PROVE Inv'
  <2>1. ASSUME NEW q \in Plans, Claim(p, q) PROVE Inv'
    BY <2>1, ClaimStep
  <2>2. ASSUME NEW m \in Modes, CreateInsert(p, m) PROVE Inv'
    BY <2>2, CreateInsertStep
  <2> QED BY <1>4, <2>1, <2>2, CheckItemStep, CreateItemStep, RaiseStep, FinishStep, FailStep, CrashStep
          DEF Materialize
<1>5. ASSUME NEW q \in Plans, Reconcile(q) \/ Expire(q) PROVE Inv'
  BY <1>5, PlanSteps
<1>6. ASSUME NEW t \in Tasks, Age(t) \/ SweepStale(t) \/ Work(t) \/ CancelTask(t) PROVE Inv'
  BY <1>6, TaskSteps
<1> QED BY <1>1, <1>2, <1>3, <1>4, <1>5, <1>6 DEF Next

\* A plan that was stopped, by its user, by a failure, by an error while it was
\* materialized or with its account, has no task that is waiting or at work, whatever
\* materializers with a lost claim are still on their way (_materialize_automation_plan,
\* cancel_social_automation_plan, _reconcile_social_automation_plans).
THEOREM StoppedPlansQuiet == Spec => []StoppedIsQuiet
<1>1. Inv => StoppedIsQuiet
  BY Ids DEF Inv, PlanInv, TaskFine, StoppedIsQuiet, Stopped, TasksOf
<1> QED BY <1>1, InitLemma, NextLemma, PTL DEF Spec

\* Rows keep their types; no task of a cycle is queued before every task of the cycle
\* before it has succeeded; and an active cycle lacks none of its items, even when a
\* materializer crashed half-way and others took its claim over.
THEOREM CyclesKeepOrder == Spec => []CyclesConsistent
<1>1. Inv => TypeOK
  BY DEF Inv, Tables, TypeOK, PlanRow, TaskRow, MatRow
<1>2. Inv => CyclesInOrder
  <2> SUFFICES ASSUME Inv, NEW t \in Tasks, Status(t) \in {"queued", "running"}, t[2] > 1, NEW k \in 1..Items
               PROVE  Status(Id(t[1], t[2] - 1, k)) = "success"
    BY DEF CyclesInOrder
  <2>1. plan[t[1]].status = "active" /\ plan[t[1]].cycle = t[2] /\ t[1] \in Plans
    BY Ids DEF Inv, PlanInv, TaskFine
  <2> QED BY <2>1 DEF Inv, PlanInv, PlanFine
<1>3. Inv => CyclesWhole
  BY DEF Inv, PlanInv, PlanFine, CyclesWhole
<1>4. Inv => CyclesConsistent
  BY <1>1, <1>2, <1>3 DEF CyclesConsistent
<1> QED BY <1>4, InitLemma, NextLemma, PTL DEF Spec
=============================================================================
