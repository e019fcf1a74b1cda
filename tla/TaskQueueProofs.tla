--------------------------- MODULE TaskQueueProofs ---------------------------
(***************************************************************************)
(* Proofs about TaskQueue for any number of tasks, workers and requests,   *)
(* any queue limit and any number of restarts.                             *)
(***************************************************************************)
EXTENDS TaskQueue, FiniteSetTheorems, TLAPS

TInv == TypeOK /\ BusyWithTask

Statuses == Active \cup Final \cup NoRow
HoldStates == {"none", "held", "waived", "settled", "released"}

\* What the restart puts into the queue are rows it found, within the queue's limit.
LEMMA PutFits ==
  ASSUME NEW S \in SUBSET Tasks, NEW order \in SetToSeqs(S)
  PROVE  LET put == IF QueueMax = 0 \/ Len(order) <= QueueMax THEN order
                    ELSE SubSeq(order, 1, QueueMax)
         IN put \in Seq(S) /\ (QueueMax > 0 => Len(put) <= QueueMax)
<1>1. Cardinality(S) \in Nat
  BY FS_Subset, FS_CardinalityType, TaskQueueConstants
<1>2. order \in [1 .. Cardinality(S) -> S]
  BY DEF SetToSeqs
<1>3. order \in Seq(S) /\ Len(order) \in Nat
  BY <1>1, <1>2
<1>4. CASE QueueMax = 0 \/ Len(order) <= QueueMax
  BY <1>3, <1>4, TaskQueueConstants
<1>5. CASE ~(QueueMax = 0 \/ Len(order) <= QueueMax)
  <2>1. QueueMax \in Nat /\ QueueMax > 0 /\ QueueMax < Len(order)
    BY <1>3, <1>5, TaskQueueConstants
  <2>2. SubSeq(order, 1, QueueMax) \in Seq(S)
    BY <1>3, <2>1
  <2>3. Len(SubSeq(order, 1, QueueMax)) = QueueMax
    BY <1>3, <2>1
  <2> QED BY <1>5, <2>1, <2>2, <2>3
<1> QED BY <1>4, <1>5

LEMMA TypeInit == Init => TInv
BY TaskQueueConstants
   DEF Init, TInv, TypeOK, BusyWithTask, IdleWorker, IdleClient, Active, Final, NoRow

\* Requests keep the types.
LEMMA TypeRequests ==
  ASSUME TInv, NEW c \in Clients
  PROVE  /\ \A t \in Tasks : Enqueue(c, t) \/ CancelRead(c, t) \/ DeleteRead(c, t) => TInv'
         /\ RequestStep(c) => TInv'
<1> USE DEF TInv, TypeOK, BusyWithTask, Ask, Answer, IdleClient, Active, Final, NoRow
<1>1. ASSUME NEW t \in Tasks, Enqueue(c, t) PROVE TInv'
  BY <1>1 DEF Enqueue
<1>2. ASSUME NEW t \in Tasks, CancelRead(c, t) PROVE TInv'
  BY <1>2 DEF CancelRead
<1>3. ASSUME NEW t \in Tasks, DeleteRead(c, t) PROVE TInv'
  BY <1>3 DEF DeleteRead
<1>4. ASSUME Put(c) PROVE TInv'
  <2>1. client[c].task \in Tasks
    BY <1>4 DEF Put
  <2>2. queue' \in Seq(Tasks) /\ Len(queue') = Len(queue) + 1
    BY <1>4, <2>1 DEF Put
  <2>3. QueueMax > 0 => Len(queue') <= QueueMax
    BY <1>4, <2>2, TaskQueueConstants DEF Put, Room
  <2> QED BY <1>4, <2>2, <2>3 DEF Put
<1>5. ASSUME PutFails(c) PROVE TInv'
  <2>1. client[c].task \in Tasks /\ client' = [client EXCEPT ![c] = IdleClient]
    BY <1>5 DEF PutFails
  <2>2. row' \in [Tasks -> Statuses]
    <3>1. row' = row \/ row' = [row EXCEPT ![client[c].task] = "failed"]
      BY <1>5 DEF PutFails
    <3>2. row \in [Tasks -> Statuses] /\ "failed" \in Statuses
      BY DEF Statuses
    <3> QED BY <2>1, <3>1, <3>2
  <2>3. hold' \in [Tasks -> HoldStates]
    <3>1. hold' = hold \/ hold' = [hold EXCEPT ![client[c].task] = Released(@)]
      BY <1>5 DEF PutFails
    <3>2. hold \in [Tasks -> HoldStates] /\ Released(hold[client[c].task]) \in HoldStates
      BY <2>1 DEF HoldStates, Released
    <3> QED BY <3>1, <3>2
  <2> QED BY <1>5, <2>1, <2>2, <2>3 DEF PutFails, Statuses, HoldStates
<1>6. ASSUME CancelApply(c) PROVE TInv'
  <2>1. client[c].task \in Tasks
    BY <1>6 DEF CancelApply
  <2>2. CASE row[client[c].task] \in NoRow
    <3>1. client' = [client EXCEPT ![c] = IdleClient] /\ UNCHANGED <<row, hold>>
      BY <1>6, <2>2 DEF CancelApply
    <3> QED BY <1>6, <3>1 DEF CancelApply
  <2>3. CASE row[client[c].task] \notin NoRow
    <3>1. row' \in [Tasks -> Statuses]
      <4>1. row' = [row EXCEPT ![client[c].task] = Cancelled(@)]
        BY <1>6, <2>3 DEF CancelApply
      <4>2. row \in [Tasks -> Statuses]
        BY DEF Statuses
      <4> QED BY <2>1, <4>1, <4>2 DEF Cancelled, Statuses
    <3>2. hold' \in [Tasks -> HoldStates]
      <4>1. hold' = [hold EXCEPT ![client[c].task] = Released(@)]
        BY <1>6, <2>3 DEF CancelApply
      <4>2. hold \in [Tasks -> HoldStates]
        BY DEF HoldStates
      <4> QED BY <2>1, <4>1, <4>2 DEF Released, HoldStates
    <3>3. client' = [client EXCEPT ![c] = [pc |-> "signal", task |-> client[c].task]]
      BY <1>6, <2>3 DEF CancelApply
    <3> QED BY <1>6, <2>1, <3>1, <3>2, <3>3 DEF CancelApply, Statuses, HoldStates
  <2> QED BY <2>2, <2>3
<1>7. ASSUME Signal(c) PROVE TInv'
  BY <1>7 DEF Signal
<1>8. ASSUME DeleteApply(c) PROVE TInv'
  BY <1>8 DEF DeleteApply
<1> QED BY <1>1, <1>2, <1>3, <1>4, <1>5, <1>6, <1>7, <1>8 DEF RequestStep

\* The types of the threads' local states.
WorkersOK ==
  /\ worker \in [Workers -> [pc : {"idle", "claim", "start", "run", "saved", "finish",
                                   "error", "dead"},
                             task : Tasks \cup {None}, ok : BOOLEAN]]
  /\ \A w \in Workers : worker[w].pc \notin {"idle", "dead"} => worker[w].task \in Tasks

LEMMA GoKeepsType ==
  ASSUME WorkersOK, NEW w \in Workers, NEW t \in Tasks, NEW ok \in BOOLEAN,
         NEW pc \in {"claim", "start", "run", "saved", "finish", "error"}, Go(w, pc, t, ok)
  PROVE  WorkersOK'
BY DEF WorkersOK, Go

LEMMA LeaveKeepsType ==
  ASSUME WorkersOK, NEW w \in Workers, worker' = [worker EXCEPT ![w] = IdleWorker]
  PROVE  WorkersOK'
BY DEF WorkersOK, IdleWorker

\* Workers keep the types.
LEMMA TypeWorkers ==
  ASSUME TInv, NEW w \in Workers
  PROVE  /\ WorkerStep(w) => TInv'
         /\ \A stage \in {"submitting", "recoverable"} : Checkpoint(w, stage) => TInv'
         /\ WorkerFails(w) => TInv'
<1> USE DEF TInv, TypeOK, BusyWithTask, At, Task, Go, Leave, IdleWorker, Active, Final, NoRow
<1>1. ASSUME Take(w) PROVE TInv'
  <2>1. /\ Head(queue) \in Tasks /\ Tail(queue) \in Seq(Tasks)
        /\ Len(Tail(queue)) = Len(queue) - 1
    BY <1>1 DEF Take
  <2>2. QueueMax > 0 => Len(queue') <= QueueMax
    BY <1>1, <2>1, TaskQueueConstants DEF Take
  <2>3. CASE control[Head(queue)] # "none"
    BY <1>1, <2>1, <2>2, <2>3 DEF Take
  <2>4. CASE control[Head(queue)] = "none"
    <3>1. Go(w, "claim", Head(queue), FALSE)
      BY <1>1, <2>4 DEF Take
    <3>2. WorkersOK'
      BY <2>1, <3>1, GoKeepsType DEF WorkersOK
    <3>3. control' \in [Tasks -> {"none", "clear", "set"}]
      <4>1. control' = [control EXCEPT ![Head(queue)] = "clear"]
        BY <1>1, <2>4 DEF Take
      <4> QED BY <2>1, <4>1
    <3> QED BY <1>1, <2>1, <2>2, <3>2, <3>3 DEF Take, WorkersOK
  <2> QED BY <2>3, <2>4
<1>2. ASSUME Claim(w) PROVE TInv'
  <2>1. Task(w) \in Tasks
    BY <1>2 DEF Claim
  <2>2. CASE Claimable(Task(w))
    <3>1. Go(w, "start", Task(w), FALSE)
      BY <1>2, <2>2 DEF Claim
    <3>2. WorkersOK'
      BY <2>1, <3>1, GoKeepsType DEF WorkersOK
    <3>3. row' \in [Tasks -> Statuses]
      BY <1>2, <2>1, <2>2 DEF Claim, Statuses
    <3> QED BY <1>2, <2>2, <3>2, <3>3 DEF Claim, WorkersOK, Statuses
  <2>3. CASE ~Claimable(Task(w))
    <3>1. WorkersOK'
      BY <1>2, <2>3, LeaveKeepsType DEF Claim, WorkersOK
    <3>2. control' \in [Tasks -> {"none", "clear", "set"}]
      BY <1>2, <2>1, <2>3 DEF Claim
    <3> QED BY <1>2, <2>3, <3>1, <3>2 DEF Claim, WorkersOK
  <2> QED BY <2>2, <2>3
<1>3. ASSUME Start(w) PROVE TInv'
  <2>1. Task(w) \in Tasks
    BY <1>3 DEF Start
  <2>2. WorkersOK'
    BY <1>3, <2>1, GoKeepsType DEF Start, WorkersOK
  <2>3. runs' \in [Tasks -> Nat]
    BY <1>3, <2>1 DEF Start
  <2> QED BY <1>3, <2>2, <2>3 DEF Start, WorkersOK
<1>4. ASSUME StartRefused(w) PROVE TInv'
  BY <1>4 DEF StartRefused
<1>5. ASSUME SavePosts(w) PROVE TInv'
  BY <1>5 DEF SavePosts
<1>6. ASSUME NEW ok \in BOOLEAN, RunReturns(w, ok) PROVE TInv'
  BY <1>6 DEF RunReturns
<1>7. ASSUME Finish(w) PROVE TInv'
  <2>1. Task(w) \in Tasks
    BY <1>7 DEF Finish
  <2>2. WorkersOK'
    BY <1>7, LeaveKeepsType DEF Finish, WorkersOK
  <2>3. row' \in [Tasks -> Statuses]
    BY <1>7, <2>1 DEF Finish, Statuses
  <2>4. hold' \in [Tasks -> HoldStates]
    <3>1. \/ hold' = hold
          \/ hold' = [hold EXCEPT ![Task(w)] = Settled(@)]
          \/ hold' = [hold EXCEPT ![Task(w)] = Released(@)]
      BY <1>7 DEF Finish
    <3>2. /\ hold \in [Tasks -> HoldStates]
          /\ Settled(hold[Task(w)]) \in HoldStates /\ Released(hold[Task(w)]) \in HoldStates
      BY <2>1 DEF HoldStates, Settled, Released
    <3> QED BY <3>1, <3>2
  <2>5. control' \in [Tasks -> {"none", "clear", "set"}]
    BY <1>7, <2>1 DEF Finish
  <2> QED BY <1>7, <2>2, <2>3, <2>4, <2>5 DEF Finish, WorkersOK, Statuses, HoldStates
<1>8. ASSUME HandleError(w) PROVE TInv'
  BY <1>8 DEF HandleError, Released
<1>9. ASSUME HandlerFails(w) PROVE TInv'
  BY <1>9 DEF HandlerFails
<1>10. ASSUME NEW stage \in {"submitting", "recoverable"}, Checkpoint(w, stage) PROVE TInv'
  BY <1>10 DEF Checkpoint
<1>11. ASSUME WorkerFails(w) PROVE TInv'
  BY <1>11 DEF WorkerFails
<1> QED BY <1>1, <1>2, <1>3, <1>4, <1>5, <1>6, <1>7, <1>8, <1>9, <1>10, <1>11 DEF WorkerStep

\* A restart keeps the types.
LEMMA TypeRestart ==
  ASSUME TInv, NEW order \in SetToSeqs({t \in Tasks : Requeued(t)}), Restart(order)
  PROVE  TInv'
<1> DEFINE put == IF QueueMax = 0 \/ Len(order) <= QueueMax THEN order
                  ELSE SubSeq(order, 1, QueueMax)
<1>1. put \in Seq(Tasks) /\ (QueueMax > 0 => Len(put) <= QueueMax)
  <2>1. {t \in Tasks : Requeued(t)} \in SUBSET Tasks
    OBVIOUS
  <2>2. put \in Seq({t \in Tasks : Requeued(t)}) /\ (QueueMax > 0 => Len(put) <= QueueMax)
    BY <2>1, PutFits
  <2> HIDE DEF put
  <2> QED BY <2>1, <2>2
<1>2. queue' = put
  BY DEF Restart
<1>3. row' \in [Tasks -> Statuses]
  BY DEF Restart, TInv, TypeOK, Statuses, Active, Final, NoRow
<1>4. hold' \in [Tasks -> HoldStates]
  BY DEF Restart, TInv, TypeOK, HoldStates, Settled, Released
<1>5. /\ control' \in [Tasks -> {"none", "clear", "set"}]
      /\ worker' = [v \in Workers |-> IdleWorker]
      /\ client' = [c \in Clients |-> IdleClient]
      /\ restarts' \in 0 .. MaxRestarts
      /\ UNCHANGED <<posts, ckpt, runs>>
  BY TaskQueueConstants DEF Restart, TInv, TypeOK
<1> HIDE DEF put
<1> QED
  BY <1>1, <1>2, <1>3, <1>4, <1>5
     DEF TInv, TypeOK, BusyWithTask, IdleWorker, IdleClient, Statuses, HoldStates

LEMMA TypeNext == TInv /\ [Next]_vars => TInv'
<1> SUFFICES ASSUME TInv, [Next]_vars PROVE TInv'
  OBVIOUS
<1>1. CASE UNCHANGED vars
  BY <1>1 DEF TInv, TypeOK, BusyWithTask, vars
<1>2. CASE Next
  BY <1>2, TypeRequests, TypeWorkers, TypeRestart DEF Next
<1> QED BY <1>1, <1>2

\* Every row, thread and queue item of the task queue keeps its type, and the
\* queue its limit.
THEOREM QueueTypes == Spec => []TypeOK
<1>1. TInv => TypeOK
  BY DEF TInv
<1> QED BY <1>1, TypeInit, TypeNext, PTL DEF Spec

-----------------------------------------------------------------------------
(* Points are held exactly while a task is active *)

\* The row and the reservation of one task agree, and a task that was never
\* created holds nothing.
Agrees(t, r, h) == /\ t \notin Waived => (h = "held" <=> r \in Active)
                   /\ r = "none" => h = "none"

\* No task comes back to life: a row that is finished or gone is not active in
\* the next state.
Stays == \A t \in Tasks : row[t] \in Final \cup {"deleted"} => row'[t] \in Final \cup {"deleted"}

LEMMA HoldInvSplit ==
  HoldInv <=> (\A t \in Tasks : Agrees(t, row[t], hold[t])) /\ DeletesFinished
BY DEF HoldInv, HoldFollowsRow, FreshHoldsNothing, Agrees

LEMMA HoldInit == Init => HoldInv
BY DEF Init, HoldInv, HoldFollowsRow, FreshHoldsNothing, DeletesFinished, IdleClient, Active

\* An action that writes one task's row and reservation keeps the invariant if
\* it leaves the two in agreement and sends no finished row back.
LEMMA OneTask ==
  ASSUME TInv, HoldInv, NEW t \in Tasks, NEW r, NEW h,
         row' = [row EXCEPT ![t] = r], hold' = [hold EXCEPT ![t] = h],
         Agrees(t, r, h),
         row[t] \in Final \cup {"deleted"} => r \in Final \cup {"deleted"},
         \A c \in Clients : client'[c].pc = "delete" =>
            \/ client'[c] = client[c]
            \/ client'[c].task \in Tasks /\ row[client'[c].task] \in Final
  PROVE  HoldInv'
<1>1. \A s \in Tasks : Agrees(s, row'[s], hold'[s])
  BY HoldInvSplit DEF TInv, TypeOK, Agrees
<1>2. Stays
  BY DEF TInv, TypeOK, Stays
<1>3. DeletesFinished'
  <2> SUFFICES ASSUME NEW c \in Clients, client'[c].pc = "delete"
               PROVE  row'[client'[c].task] \in Final \cup {"deleted"}
    BY DEF DeletesFinished
  <2>1. client'[c].task \in Tasks /\ row[client'[c].task] \in Final \cup {"deleted"}
    BY DEF HoldInv, DeletesFinished, TInv, BusyWithTask
  <2> QED BY <1>2, <2>1 DEF Stays
<1>4. HoldInv' <=> (\A s \in Tasks : Agrees(s, row'[s], hold'[s])) /\ DeletesFinished'
  BY DEF HoldInv, HoldFollowsRow, FreshHoldsNothing, Agrees
<1> QED BY <1>1, <1>3, <1>4
\* The same for an action that writes neither table.
LEMMA NoTask ==
  ASSUME TInv, HoldInv, UNCHANGED <<row, hold>>,
         \A c \in Clients : client'[c].pc = "delete" =>
            \/ client'[c] = client[c]
            \/ client'[c].task \in Tasks /\ row[client'[c].task] \in Final
  PROVE  HoldInv'
BY DEF HoldInv, HoldFollowsRow, FreshHoldsNothing, DeletesFinished

\* What a request's local state may become without starting a deletion.
LEMMA NoDeletion ==
  ASSUME TInv, NEW c \in Clients, NEW t \in Tasks, NEW pc \in {"put", "cancel", "signal"},
         Ask(c, pc, t) \/ Answer(c)
  PROVE  \A b \in Clients : client'[b].pc = "delete" => client'[b] = client[b]
BY DEF TInv, TypeOK, Ask, Answer, IdleClient

LEMMA HoldRequests ==
  ASSUME TInv, HoldInv, ~KeyReuse, NEW c \in Clients
  PROVE  /\ \A t \in Tasks : Enqueue(c, t) \/ CancelRead(c, t) \/ DeleteRead(c, t) => HoldInv'
         /\ RequestStep(c) => HoldInv'
<1>1. ASSUME NEW t \in Tasks, Enqueue(c, t) PROVE HoldInv'
  <2>1. row[t] = "none" /\ hold[t] = "none"
    BY <1>1 DEF Enqueue, HoldInv, FreshHoldsNothing
  <2>2. hold' = [hold EXCEPT ![t] = IF t \in Waived THEN "waived" ELSE "held"]
    BY <1>1, <2>1 DEF Enqueue
  <2>3. row' = [row EXCEPT ![t] = "queued"]
    BY <1>1 DEF Enqueue
  <2>4. Agrees(t, "queued", IF t \in Waived THEN "waived" ELSE "held")
    BY DEF Agrees, Active
  <2>5. row[t] \notin Final \cup {"deleted"}
    BY <2>1 DEF Final
  <2>6. \A b \in Clients : client'[b].pc = "delete" => client'[b] = client[b]
    BY <1>1, NoDeletion DEF Enqueue
  <2> QED BY <2>2, <2>3, <2>4, <2>5, <2>6, OneTask
<1>2. ASSUME NEW t \in Tasks, CancelRead(c, t) PROVE HoldInv'
  BY <1>2, NoTask, NoDeletion DEF CancelRead
<1>3. ASSUME NEW t \in Tasks, DeleteRead(c, t) PROVE HoldInv'
  <2>1. \A b \in Clients : client'[b].pc = "delete" =>
          client'[b] = client[b] \/ client'[b].task = t
    BY <1>3 DEF DeleteRead, Ask, TInv, TypeOK
  <2> QED BY <1>3, <2>1, NoTask DEF DeleteRead
<1> DEFINE t == client[c].task
<1>t. client[c].pc # "idle" => t \in Tasks
  BY DEF TInv, BusyWithTask
<1>a. ASSUME client[c].pc # "idle", Answer(c) \/ Ask(c, "signal", t)
      PROVE \A b \in Clients : client'[b].pc = "delete" => client'[b] = client[b]
  BY <1>a, <1>t, NoDeletion
<1>4. ASSUME Put(c) PROVE HoldInv'
  BY <1>4, <1>a, NoTask DEF Put
<1>5. ASSUME PutFails(c) PROVE HoldInv'
  <2>1. CASE row[t] \in NoRow
    BY <1>5, <1>a, <2>1, NoTask DEF PutFails
  <2>2. CASE row[t] \notin NoRow
    <3>1. row' = [row EXCEPT ![t] = "failed"] /\ hold' = [hold EXCEPT ![t] = Released(hold[t])]
      BY <1>5, <2>2 DEF PutFails
    <3>2. Agrees(t, "failed", Released(hold[t]))
      BY DEF Agrees, Released, Active
    <3>3. t \in Tasks /\ "failed" \in Final
      BY <1>5, <1>t DEF PutFails, Final
    <3> QED BY <1>5, <1>a, <3>1, <3>2, <3>3, OneTask DEF PutFails
  <2> QED BY <2>1, <2>2
<1>6. ASSUME CancelApply(c) PROVE HoldInv'
  <2>1. CASE row[t] \in NoRow
    BY <1>6, <1>a, <2>1, NoTask DEF CancelApply
  <2>2. CASE row[t] \notin NoRow
    <3>1. row' = [row EXCEPT ![t] = Cancelled(row[t])] /\ hold' = [hold EXCEPT ![t] = Released(hold[t])]
      BY <1>6, <2>2 DEF CancelApply
    <3>2. t \in Tasks /\ row[t] \in Active \cup Final
      BY <1>6, <1>t, <2>2 DEF CancelApply, TInv, TypeOK
    <3>3. Cancelled(row[t]) \in Final
      BY <3>2 DEF Cancelled, Final
    <3>4. Agrees(t, Cancelled(row[t]), Released(hold[t]))
      BY <3>3 DEF Agrees, Released, Active, Final
    <3> QED BY <1>6, <1>a, <2>2, <3>1, <3>2, <3>3, <3>4, OneTask DEF CancelApply
  <2> QED BY <2>1, <2>2
<1>7. ASSUME Signal(c) PROVE HoldInv'
  BY <1>7, <1>a, NoTask DEF Signal
<1>8. ASSUME DeleteApply(c) PROVE HoldInv'
  <2>1. t \in Tasks /\ row[t] \in Final \cup {"deleted"}
    BY <1>8, <1>t DEF DeleteApply, HoldInv, DeletesFinished
  <2>2. row' = [row EXCEPT ![t] = "deleted"] /\ hold' = [hold EXCEPT ![t] = hold[t]]
    BY <1>8, <2>1 DEF DeleteApply, TInv, TypeOK
  <2>3. Agrees(t, "deleted", hold[t])
    BY <2>1 DEF HoldInv, HoldFollowsRow, Agrees, Active, Final
  <2>4. \A b \in Clients : client'[b].pc = "delete" => client'[b] = client[b]
    BY <1>8, <1>a DEF DeleteApply
  <2>5. "deleted" \in Final \cup {"deleted"}
    OBVIOUS
  <2> HIDE DEF t
  <2> QED BY <2>1, <2>2, <2>3, <2>4, <2>5, OneTask
<1> QED BY <1>1, <1>2, <1>3, <1>4, <1>5, <1>6, <1>7, <1>8 DEF RequestStep

LEMMA HoldWorkers ==
  ASSUME TInv, HoldInv, NEW w \in Workers
  PROVE  /\ WorkerStep(w) => HoldInv'
         /\ \A stage \in {"submitting", "recoverable"} : Checkpoint(w, stage) => HoldInv'
         /\ WorkerFails(w) => HoldInv'
<1>1. ASSUME UNCHANGED <<row, hold, client>> PROVE HoldInv'
  BY <1>1, NoTask
<1>2. ASSUME Claim(w) PROVE HoldInv'
  <2>1. CASE Claimable(Task(w))
    <3>1. Task(w) \in Tasks
      BY <1>2 DEF Claim, At, Task, TInv, BusyWithTask
    <3>2. /\ row' = [row EXCEPT ![Task(w)] = "running"]
          /\ hold' = [hold EXCEPT ![Task(w)] = hold[Task(w)]]
      BY <1>2, <2>1, <3>1 DEF Claim, TInv, TypeOK
    <3>3. /\ Agrees(Task(w), "running", hold[Task(w)])
          /\ row[Task(w)] \notin Final \cup {"deleted"}
      BY <2>1, <3>1 DEF Claimable, HoldInv, HoldFollowsRow, Agrees, Active, Final
    <3> QED BY <1>2, <3>1, <3>2, <3>3, OneTask DEF Claim
  <2>2. CASE ~Claimable(Task(w))
    BY <1>1, <1>2, <2>2 DEF Claim
  <2> QED BY <2>1, <2>2
<1>3. ASSUME Finish(w) PROVE HoldInv'
  <2>1. CASE Discards(row[Task(w)])
    BY <1>1, <1>3, <2>1 DEF Finish
  <2>2. CASE ~Discards(row[Task(w)])
    <3> DEFINE r == IF worker[w].ok THEN "success" ELSE "failed"
               h == IF worker[w].ok THEN Settled(hold[Task(w)]) ELSE Released(hold[Task(w)])
    <3>1. Task(w) \in Tasks
      BY <1>3 DEF Finish, At, Task, TInv, BusyWithTask
    <3>2. row' = [row EXCEPT ![Task(w)] = r] /\ hold' = [hold EXCEPT ![Task(w)] = h]
      BY <1>3, <2>2 DEF Finish
    <3>3. Agrees(Task(w), r, h) /\ r \in Final
      BY DEF Agrees, Settled, Released, Active, Final
    <3> HIDE DEF r, h
    <3> QED BY <1>3, <3>1, <3>2, <3>3, OneTask DEF Finish
  <2> QED BY <2>1, <2>2
<1>4. ASSUME HandleError(w) PROVE HoldInv'
  <2>1. Task(w) \in Tasks
    BY <1>4 DEF HandleError, At, Task, TInv, BusyWithTask
  <2>2. /\ row' = [row EXCEPT ![Task(w)] = "failed"]
        /\ hold' = [hold EXCEPT ![Task(w)] = Released(hold[Task(w)])]
    BY <1>4 DEF HandleError
  <2>3. Agrees(Task(w), "failed", Released(hold[Task(w)])) /\ "failed" \in Final
    BY DEF Agrees, Released, Active, Final
  <2> QED BY <1>4, <2>1, <2>2, <2>3, OneTask DEF HandleError
<1>5. Take(w) => UNCHANGED <<row, hold, client>>
  BY DEF Take
<1>6. Start(w) \/ StartRefused(w) \/ SavePosts(w) => UNCHANGED <<row, hold, client>>
  BY DEF Start, StartRefused, SavePosts
<1>7. (\E ok \in BOOLEAN : RunReturns(w, ok)) => UNCHANGED <<row, hold, client>>
  BY DEF RunReturns
<1>8. HandlerFails(w) \/ WorkerFails(w) => UNCHANGED <<row, hold, client>>
  BY DEF HandlerFails, WorkerFails
<1>9. \A stage \in {"submitting", "recoverable"} :
        Checkpoint(w, stage) => UNCHANGED <<row, hold, client>>
  BY DEF Checkpoint
<1> QED BY <1>1, <1>2, <1>3, <1>4, <1>5, <1>6, <1>7, <1>8, <1>9 DEF WorkerStep

LEMMA StatusesApart == Active \cap Final = {}
BY DEF Active, Final

LEMMA HoldRestart ==
  ASSUME TInv, HoldInv, NEW order \in SetToSeqs({t \in Tasks : Requeued(t)}), Restart(order)
  PROVE  HoldInv'
<1> DEFINE put == IF QueueMax = 0 \/ Len(order) <= QueueMax THEN order
                  ELSE SubSeq(order, 1, QueueMax)
           back(t) == \E i \in DOMAIN put : put[i] = t
<1>1. \A t \in Tasks : row'[t] = CASE row[t] \notin Active -> row[t]
                                     [] back(t) -> "queued"
                                     [] Recovered(t) -> "success"
                                     [] OTHER -> "failed"
  BY DEF Restart
<1>2. \A t \in Tasks : hold'[t] = CASE row[t] \in Final \/ back(t) -> hold[t]
                                      [] Recovered(t) -> Settled(hold[t])
                                      [] OTHER -> Released(hold[t])
  BY DEF Restart
<1>b. \A t \in Tasks : back(t) => ~Recovered(t) /\ row[t] \in Active
  <2>1. {t \in Tasks : Requeued(t)} \in SUBSET Tasks
    OBVIOUS
  <2>2. put \in Seq({t \in Tasks : Requeued(t)})
    BY <2>1, PutFits
  <2> HIDE DEF put
  <2>3. \A t \in Tasks : back(t) => Requeued(t)
    BY <2>2
  <2>4. \A t \in Tasks : Requeued(t) => ~Recovered(t) /\ row[t] \in Active
    BY DEF Requeued, Resumable, Recovered, Active
  <2> QED BY <2>3, <2>4
<1> HIDE DEF back
<1>3. ASSUME NEW t \in Tasks PROVE Agrees(t, row'[t], hold'[t])
  <2>1. Agrees(t, row[t], hold[t])
    BY DEF HoldInv, HoldFollowsRow, FreshHoldsNothing, Agrees
  <2>2. CASE row[t] \notin Active
    <3>1. row'[t] = row[t] /\ hold'[t] \in {hold[t], Settled(hold[t]), Released(hold[t])}
      <4>1. ~back(t) /\ ~Recovered(t)
        BY <1>b, <2>2 DEF Recovered, Active
      <4> QED BY <1>1, <1>2, <2>2, <4>1
    <3> QED BY <2>1, <2>2, <3>1 DEF Agrees, Settled, Released
  <2>3. CASE row[t] \in Active /\ back(t)
    <3>1. row'[t] = "queued" /\ hold'[t] = hold[t]
      BY <1>1, <1>2, <1>b, <2>3
    <3> QED BY <2>1, <2>3, <3>1 DEF Agrees, Active
  <2>4. CASE row[t] \in Active /\ ~back(t)
    <3>1. /\ row'[t] \in {"success", "failed"}
          /\ hold'[t] \in {Settled(hold[t]), Released(hold[t])}
      BY <1>1, <1>2, <2>4, StatusesApart
    <3> QED BY <3>1 DEF Agrees, Settled, Released, Active
  <2> QED BY <2>2, <2>3, <2>4
<1>4. DeletesFinished'
  BY DEF Restart, DeletesFinished, IdleClient
<1> QED BY <1>3, <1>4 DEF HoldInv, HoldFollowsRow, FreshHoldsNothing, Agrees

LEMMA HoldNext == ASSUME ~KeyReuse PROVE TInv /\ HoldInv /\ [Next]_vars => HoldInv'
<1> SUFFICES ASSUME TInv, HoldInv, [Next]_vars PROVE HoldInv'
  OBVIOUS
<1>1. CASE UNCHANGED vars
  BY <1>1, NoTask DEF vars
<1>2. CASE Next
  BY <1>2, HoldRequests, HoldWorkers, HoldRestart DEF Next
<1> QED BY <1>1, <1>2

\* Unless the Idempotency-Key of a deleted task is sent again, points are on
\* hold exactly while their task is queued or running: whatever cancellations,
\* deletions, full queues, failing workers and restarts do.
THEOREM HeldWhileActive == ASSUME ~KeyReuse PROVE Spec => []HoldFollowsRow
<1>1. HoldInv => HoldFollowsRow
  BY DEF HoldInv
<1> QED BY <1>1, TypeInit, TypeNext, HoldInit, HoldNext, PTL DEF Spec

-----------------------------------------------------------------------------
(* One holder per task *)

Busy(w) == worker[w].pc \notin {"idle", "dead"}
Putting(c) == client[c].pc = "put"

\* A task is in one place: about to be put into the queue by one request, at
\* one position of the queue, or in the hands of one worker.
OneHolder ==
  /\ \A i, j \in 1 .. Len(queue) : i # j => queue[i] # queue[j]
  /\ \A c, d \in Clients : c # d /\ Putting(c) /\ Putting(d) => client[c].task # client[d].task
  /\ \A w, v \in Workers : w # v /\ Busy(w) /\ Busy(v) => Task(w) # Task(v)
  /\ \A c \in Clients : Putting(c) =>
       /\ \A i \in 1 .. Len(queue) : queue[i] # client[c].task
       /\ \A w \in Workers : Busy(w) => Task(w) # client[c].task
  /\ \A i \in 1 .. Len(queue) : \A w \in Workers : Busy(w) => Task(w) # queue[i]

\* Whoever holds a task finds its row as the last holder left it, unless the
\* task was cancelled meanwhile, and then perhaps deleted.
Waiting == {"queued", "cancelled", "deleted"}
Working == {"running", "cancelled", "deleted"}
RowsInHand ==
  /\ \A c \in Clients : Putting(c) => row[client[c].task] \in Waiting
  /\ \A i \in 1 .. Len(queue) : row[queue[i]] \in Waiting
  /\ \A w \in Workers :
       /\ At(w, "claim") => row[Task(w)] \in Waiting
       /\ worker[w].pc \in {"start", "run", "saved", "finish"} => row[Task(w)] \in Working
       /\ At(w, "error") => row[Task(w)] \in Waiting \cup Working

\* A result that counts has its posts in the archive.
ResultSaved ==
  \A w \in Workers : At(w, "saved") \/ (At(w, "finish") /\ worker[w].ok)
                       => (Kind[Task(w)] = "post" => Task(w) \in posts)

\* While its row is queued and until it starts, a runner has not been started
\* since the last restart that could resume it.
Resumes(t) == IF Kind[t] = "video" THEN restarts ELSE 0
RunsCounted ==
  \A t \in Tasks :
    /\ runs[t] <= 1 + Resumes(t)
    /\ \/ row[t] \in {"none", "queued"}
       \/ \E w \in Workers : At(w, "start") /\ Task(w) = t
       => runs[t] <= Resumes(t)

HolderInv == OneHolder /\ RowsInHand /\ ResultSaved /\ RunsCounted /\ ChargedForResult

\* ChargedForResult for one task.
Charged(t) ==
  t \notin Waived =>
    /\ hold[t] = "settled" => /\ row[t] \in {"success", "deleted"}
                              /\ Kind[t] = "post" => t \in posts
    /\ row[t] = "success" => hold[t] = "settled"

LEMMA HolderInit == Init => HolderInv
<1> SUFFICES ASSUME Init PROVE HolderInv
  OBVIOUS
<1>1. /\ Len(queue) = 0 /\ \A c \in Clients : client[c].pc = "idle"
      /\ \A w \in Workers : worker[w].pc = "idle"
      /\ \A t \in Tasks : row[t] = "none" /\ hold[t] = "none" /\ runs[t] = 0 /\ restarts = 0
  BY DEF Init, IdleClient, IdleWorker
<1>2. OneHolder /\ RowsInHand /\ ResultSaved
  BY <1>1 DEF OneHolder, RowsInHand, ResultSaved, Putting, Busy, At
<1>3. RunsCounted
  BY <1>1 DEF RunsCounted, Resumes
<1>4. ChargedForResult
  BY <1>1 DEF ChargedForResult
<1> QED BY <1>2, <1>3, <1>4 DEF HolderInv

\* Nobody takes over a task: it stays where it is or leaves.
LEMMA HolderStays ==
  ASSUME OneHolder, UNCHANGED queue,
         \A c \in Clients : Putting(c)' => Putting(c) /\ client'[c].task = client[c].task,
         \A w \in Workers : Busy(w)' => Busy(w) /\ Task(w)' = Task(w)
  PROVE  OneHolder'
BY DEF OneHolder

\* A request cancels or deletes, or only reads; workers and queue are not concerned.
Decays(t) ==
  \/ row'[t] = row[t]
  \/ row[t] \in Active /\ row'[t] = "cancelled"
  \/ row[t] \in Final \cup {"deleted"} /\ row'[t] = "deleted"

LEMMA RequestKeeps ==
  ASSUME TInv, HolderInv, UNCHANGED <<queue, worker, posts, runs, restarts>>,
         \A c \in Clients : Putting(c)' => client'[c] = client[c],
         \A t \in Tasks : Decays(t) /\ hold'[t] \in {hold[t], Released(hold[t])}
  PROVE  HolderInv'
<1> USE DEF TInv, TypeOK, BusyWithTask
<1>1. OneHolder'
  BY HolderStays DEF HolderInv, Putting, Busy, Task
<1>2. \A t \in Tasks : /\ row[t] \in Waiting => row'[t] \in Waiting
                       /\ row[t] \in Working => row'[t] \in Working
  BY DEF Decays, Waiting, Working, Active
<1>3. RowsInHand'
  <2>1. \A c \in Clients : Putting(c)' => row'[client'[c].task] \in Waiting
    BY <1>2 DEF HolderInv, RowsInHand, Putting
  <2>2. \A i \in 1 .. Len(queue) : row'[queue[i]] \in Waiting
    BY <1>2 DEF HolderInv, RowsInHand
  <2>3. \A w \in Workers :
          /\ At(w, "claim") => row'[Task(w)] \in Waiting
          /\ worker[w].pc \in {"start", "run", "saved", "finish"} => row'[Task(w)] \in Working
          /\ At(w, "error") => row'[Task(w)] \in Waiting \cup Working
    BY <1>2 DEF HolderInv, RowsInHand, At, Task
  <2> QED BY <2>1, <2>2, <2>3 DEF RowsInHand, At, Task
<1>4. ResultSaved'
  BY DEF HolderInv, ResultSaved, At, Task
<1>5. RunsCounted'
  <2>1. \A t \in Tasks : row'[t] \in {"none", "queued"} => row[t] \in {"none", "queued"}
    BY DEF Decays
  <2> QED BY <2>1 DEF HolderInv, RunsCounted, Resumes, Task, At
<1>6. ChargedForResult'
  <2> SUFFICES ASSUME NEW t \in Tasks \ Waived PROVE Charged(t)'
    BY DEF ChargedForResult, Charged
  <2>1. Charged(t)
    BY DEF HolderInv, ChargedForResult, Charged
  <2>2. hold'[t] = "settled" <=> hold[t] = "settled"
    BY DEF Released
  <2>3. row'[t] = "success" => row[t] = "success"
    BY DEF Decays
  <2>4. row[t] \in {"success", "deleted"} => row'[t] \in {"success", "deleted"}
    BY DEF Decays, Active
  <2> QED BY <2>1, <2>2, <2>3, <2>4 DEF Charged
<1> QED BY <1>1, <1>3, <1>4, <1>5, <1>6 DEF HolderInv

\* A worker goes on with its task or gives it up; nobody else holds it.
LEMMA WorkerKeeps ==
  ASSUME TInv, HolderInv, NEW w \in Workers, Busy(w), NEW t \in Tasks, t = Task(w),
         UNCHANGED <<queue, client, restarts>>,
         \A v \in Workers \ {w} : worker'[v] = worker[v],
         Busy(w)' => Task(w)' = t, ~At(w, "claim")',
         \A s \in Tasks \ {t} : row'[s] = row[s] /\ hold'[s] = hold[s] /\ runs'[s] = runs[s],
         posts \subseteq posts',
         worker'[w].pc \in {"start", "run", "saved", "finish"} => row'[t] \in Working,
         At(w, "error")' => row'[t] \in Waiting \cup Working,
         At(w, "saved")' \/ (At(w, "finish")' /\ worker'[w].ok)
           => (Kind[t] = "post" => t \in posts'),
         runs'[t] <= 1 + Resumes(t),
         row'[t] \in {"none", "queued"} \/ At(w, "start")' => runs'[t] <= Resumes(t),
         Charged(t)'
  PROVE  HolderInv'
<1> USE DEF TInv, TypeOK, BusyWithTask
<1>1. OneHolder'
  BY HolderStays DEF HolderInv, Putting, Busy, Task
<1>2. /\ \A c \in Clients : Putting(c) => client[c].task \in Tasks \ {t}
      /\ \A i \in 1 .. Len(queue) : queue[i] \in Tasks \ {t}
      /\ \A v \in Workers \ {w} : Busy(v) => Task(v) \in Tasks \ {t}
  <2>1. \A i \in 1 .. Len(queue) : queue[i] \in Tasks
    OBVIOUS
  <2> QED BY <2>1 DEF HolderInv, OneHolder, Putting, Busy, Task
<1>3. RowsInHand'
  <2>1. \A c \in Clients : Putting(c)' => row'[client'[c].task] \in Waiting
    BY <1>2 DEF HolderInv, RowsInHand, Putting
  <2>2. \A i \in 1 .. Len(queue) : row'[queue[i]] \in Waiting
    BY <1>2 DEF HolderInv, RowsInHand
  <2>3. \A v \in Workers \ {w} :
          /\ At(v, "claim") => row'[Task(v)] \in Waiting
          /\ worker[v].pc \in {"start", "run", "saved", "finish"} => row'[Task(v)] \in Working
          /\ At(v, "error") => row'[Task(v)] \in Waiting \cup Working
    BY <1>2 DEF HolderInv, RowsInHand, At, Task, Busy
  <2>4. /\ worker'[w].pc \in {"start", "run", "saved", "finish"} => row'[worker'[w].task] \in Working
        /\ At(w, "error")' => row'[worker'[w].task] \in Waiting \cup Working
    BY DEF At, Busy, Task
  <2> QED BY <2>1, <2>2, <2>3, <2>4 DEF RowsInHand, At, Task
<1>4. ResultSaved'
  <2> SUFFICES ASSUME NEW v \in Workers,
                      worker'[v].pc = "saved" \/ (worker'[v].pc = "finish" /\ worker'[v].ok),
                      Kind[worker'[v].task] = "post"
               PROVE  worker'[v].task \in posts'
    BY DEF ResultSaved, At, Task
  <2>1. CASE v = w
    BY <2>1 DEF At, Busy, Task
  <2>2. CASE v # w
    <3>1. worker'[v] = worker[v]
      BY <2>2
    <3> QED BY <3>1 DEF HolderInv, ResultSaved, At, Task
  <2> QED BY <2>1, <2>2
<1>5. RunsCounted'
  <2> SUFFICES ASSUME NEW s \in Tasks
               PROVE  /\ runs'[s] <= 1 + Resumes(s)
                      /\ \/ row'[s] \in {"none", "queued"}
                         \/ \E v \in Workers : worker'[v].pc = "start" /\ worker'[v].task = s
                         => runs'[s] <= Resumes(s)
    BY DEF RunsCounted, Resumes, Task, At
  <2>1. CASE s = t
    <3>1. \A v \in Workers \ {w} : worker'[v].pc = "start" => worker'[v].task # t
      BY <1>2 DEF Busy, Task
    <3> QED BY <2>1, <3>1 DEF At
  <2>2. CASE s # t
    <3>1. worker'[w].pc = "start" => worker'[w].task # s
      BY <2>2 DEF Busy, Task
    <3>2. \A v \in Workers : worker'[v].pc = "start" /\ worker'[v].task = s => worker'[v] = worker[v]
      BY <3>1
    <3>3. row'[s] = row[s] /\ runs'[s] = runs[s]
      BY <2>2
    <3> QED BY <3>2, <3>3 DEF HolderInv, RunsCounted, Task, At
  <2> QED BY <2>1, <2>2
<1>6. ChargedForResult'
  BY DEF HolderInv, ChargedForResult, Charged
<1> QED BY <1>1, <1>3, <1>4, <1>5, <1>6 DEF HolderInv

LEMMA HolderWorkers ==
  ASSUME TInv, HoldInv, HolderInv, NEW w \in Workers,
         \/ Claim(w) \/ Start(w) \/ StartRefused(w) \/ SavePosts(w)
         \/ \E ok \in BOOLEAN : RunReturns(w, ok)
         \/ Finish(w) \/ HandleError(w) \/ HandlerFails(w) \/ WorkerFails(w)
         \/ \E stage \in {"submitting", "recoverable"} : Checkpoint(w, stage)
  PROVE  HolderInv'
<1> USE DEF TInv, TypeOK, BusyWithTask
<1>1. Busy(w)
  BY DEF Busy, Claim, Start, StartRefused, SavePosts, RunReturns, Finish, HandleError,
         HandlerFails, WorkerFails, Checkpoint, At
<1>2. PICK t \in Tasks : t = Task(w)
  BY <1>1 DEF Busy, Task
<1>3. Charged(t) /\ (t \notin Waived => (hold[t] = "held" <=> row[t] \in Active))
  BY DEF HolderInv, ChargedForResult, Charged, HoldInv, HoldFollowsRow
<1>4. /\ At(w, "claim") => row[t] \in Waiting
      /\ worker[w].pc \in {"start", "run", "saved", "finish"} => row[t] \in Working
      /\ At(w, "error") => row[t] \in Waiting \cup Working
  BY <1>2 DEF HolderInv, RowsInHand
<1>5. At(w, "saved") \/ (At(w, "finish") /\ worker[w].ok) => (Kind[t] = "post" => t \in posts)
  BY <1>2 DEF HolderInv, ResultSaved
<1>6. /\ runs[t] \in Nat /\ runs[t] <= 1 + Resumes(t) /\ Resumes(t) \in Nat
      /\ row[t] \in {"none", "queued"} \/ At(w, "start")
           => runs[t] <= Resumes(t)
  BY <1>2 DEF HolderInv, RunsCounted, Resumes
<1>7. CASE Claim(w)
  <2>1. CASE Claimable(t)
    <3>1. /\ row' = [row EXCEPT ![t] = "running"]
          /\ worker' = [worker EXCEPT ![w] = [pc |-> "start", task |-> t, ok |-> FALSE]]
          /\ UNCHANGED <<hold, posts, queue, client, runs, restarts>>
          /\ At(w, "claim")
      BY <1>2, <1>7, <2>1 DEF Claim, Go
    <3>2. Charged(t)'
      BY <1>3, <2>1, <3>1 DEF Charged, Claimable, Active
    <3>3. /\ worker'[w].pc = "start" /\ worker'[w].task = t /\ row'[t] \in Working
          /\ row[t] = "queued"
      BY <2>1, <3>1 DEF Working, Claimable
    <3>4. runs'[t] <= Resumes(t) /\ runs'[t] <= 1 + Resumes(t)
      BY <1>6, <3>1, <3>3
    <3> QED BY <1>1, <1>2, <3>1, <3>2, <3>3, <3>4, WorkerKeeps DEF Task, At
  <2>2. CASE ~Claimable(t)
    <3>1. /\ worker' = [worker EXCEPT ![w] = IdleWorker]
          /\ UNCHANGED <<row, hold, posts, queue, client, runs, restarts>>
          /\ At(w, "claim")
      BY <1>2, <1>7, <2>2 DEF Claim, Leave
    <3>2. Charged(t)'
      BY <1>3, <3>1 DEF Charged
    <3>3. ~Busy(w)' /\ worker'[w].pc = "idle"
      BY <3>1 DEF Busy, IdleWorker
    <3> QED BY <1>1, <1>2, <1>6, <3>1, <3>2, <3>3, WorkerKeeps DEF At
  <2> QED BY <2>1, <2>2
<1>8. CASE Start(w)
  <2>1. /\ runs' = [runs EXCEPT ![t] = runs[t] + 1]
        /\ worker' = [worker EXCEPT ![w] = [pc |-> "run", task |-> t, ok |-> FALSE]]
        /\ UNCHANGED <<row, hold, posts, queue, client, restarts>>
        /\ At(w, "start")
    BY <1>2, <1>8 DEF Start, Go
  <2>2. Charged(t)'
    BY <1>3, <2>1 DEF Charged
  <2>3. worker'[w].pc = "run" /\ worker'[w].task = t /\ row[t] \in Working
    BY <1>4, <2>1 DEF At
  <2>4. runs'[t] <= 1 + Resumes(t) /\ row'[t] \notin {"none", "queued"}
    BY <1>6, <2>1, <2>3 DEF At, Working
  <2> QED BY <1>1, <1>2, <2>1, <2>2, <2>3, <2>4, WorkerKeeps DEF Task, At
<1>9. CASE \/ StartRefused(w) \/ SavePosts(w) \/ HandlerFails(w) \/ WorkerFails(w)
           \/ \E ok \in BOOLEAN : RunReturns(w, ok)
           \/ \E stage \in {"submitting", "recoverable"} : Checkpoint(w, stage)
  <2>1. /\ UNCHANGED <<row, hold, queue, client, runs, restarts>>
        /\ posts \subseteq posts'
        /\ \A v \in Workers \ {w} : worker'[v] = worker[v]
        /\ Busy(w)' => worker'[w].task = t
        /\ worker'[w].pc \notin {"claim", "start"}
        /\ worker'[w].pc \in {"run", "saved", "finish"}
             => worker[w].pc \in {"start", "run", "saved"}
        /\ worker'[w].pc = "saved" \/ (worker'[w].pc = "finish" /\ worker'[w].ok)
             => (Kind[t] = "post" => t \in posts')
    BY <1>2, <1>5, <1>9 DEF StartRefused, SavePosts, HandlerFails, WorkerFails, RunReturns,
         Checkpoint, Go, At, Task, Busy
  <2>2. Charged(t)'
    BY <1>3, <2>1 DEF Charged
  <2>3. row[t] \in Waiting \cup Working
    BY <1>1, <1>4 DEF Busy, At
  <2>4. /\ worker'[w].pc \in {"start", "run", "saved", "finish"} => row'[t] \in Working
        /\ At(w, "error")' => row'[t] \in Waiting \cup Working
        /\ Busy(w)' => Task(w)' = t
        /\ ~At(w, "claim")' /\ ~At(w, "start")'
        /\ At(w, "saved")' \/ (At(w, "finish")' /\ worker'[w].ok)
             => (Kind[t] = "post" => t \in posts')
    BY <1>4, <2>1, <2>3 DEF At, Task
  <2>5. runs'[t] <= 1 + Resumes(t) /\ (row'[t] \in {"none", "queued"} => runs'[t] <= Resumes(t))
    BY <1>6, <2>1
  <2> QED BY <1>1, <1>2, <2>1, <2>2, <2>4, <2>5, WorkerKeeps
<1>10. CASE Finish(w) \/ HandleError(w)
  <2>1. /\ worker' = [worker EXCEPT ![w] = IdleWorker]
        /\ UNCHANGED <<posts, queue, client, runs, restarts>>
        /\ \A s \in Tasks \ {t} : row'[s] = row[s] /\ hold'[s] = hold[s]
        /\ \/ row'[t] = row[t] /\ hold'[t] = hold[t]
           \/ row'[t] = "failed" /\ hold'[t] = Released(hold[t]) /\ row[t] \in Active \cup {"cancelled"}
           \/ /\ row'[t] = "success" /\ hold'[t] = Settled(hold[t])
              /\ At(w, "finish") /\ worker[w].ok /\ row[t] \in Active
    <3>1. CASE Finish(w)
      BY <1>2, <1>4, <1>10, <3>1 DEF Finish, Leave, At, Task, Discards, NoRow, Working, Active
    <3>2. CASE HandleError(w)
      BY <1>2, <1>4, <1>10, <3>2 DEF HandleError, At, Task, NoRow, Waiting, Working, Active
    <3> QED BY <1>10, <3>1, <3>2
  <2>2. Charged(t)'
    <3>1. CASE row'[t] = row[t] /\ hold'[t] = hold[t]
      BY <1>3, <2>1, <3>1 DEF Charged
    <3>2. CASE row'[t] = "failed" /\ hold'[t] = Released(hold[t]) /\ row[t] \in Active \cup {"cancelled"}
      BY <1>3, <2>1, <3>2 DEF Charged, Released, Active
    <3>3. CASE /\ row'[t] = "success" /\ hold'[t] = Settled(hold[t])
               /\ At(w, "finish") /\ worker[w].ok /\ row[t] \in Active
      BY <1>3, <1>5, <2>1, <3>3 DEF Charged, Settled
    <3> QED BY <2>1, <3>1, <3>2, <3>3
  <2>3. /\ ~Busy(w)'
        /\ worker'[w].pc \notin {"claim", "start", "run", "saved", "finish", "error"}
    BY <2>1 DEF Busy, IdleWorker
  <2>4. runs'[t] <= 1 + Resumes(t) /\ (row'[t] \in {"none", "queued"} => runs'[t] <= Resumes(t))
    BY <1>6, <2>1
  <2> QED BY <1>1, <1>2, <2>1, <2>2, <2>3, <2>4, WorkerKeeps DEF At
<1> QED BY <1>7, <1>8, <1>9, <1>10

\* A worker takes the task at the head of the queue, or drops it.
LEMMA HolderTake ==
  ASSUME TInv, HolderInv, NEW w \in Workers, Take(w)
  PROVE  HolderInv'
<1> USE DEF TInv, TypeOK, BusyWithTask
<1>1. /\ queue # <<>> /\ queue' = Tail(queue) /\ At(w, "idle")
      /\ UNCHANGED <<row, hold, posts, client, runs, restarts>>
  BY DEF Take
<1>2. PICK t \in Tasks : t = Head(queue)
  BY <1>1
<1>3. \/ UNCHANGED worker
      \/ worker' = [worker EXCEPT ![w] = [pc |-> "claim", task |-> t, ok |-> FALSE]]
  BY <1>2 DEF Take, Go
<1>4. /\ Len(queue) \in Nat /\ 1 \in 1 .. Len(queue) /\ queue[1] = t
      /\ Len(queue') = Len(queue) - 1
      /\ \A i \in 1 .. Len(queue') : i + 1 \in 1 .. Len(queue) /\ queue'[i] = queue[i + 1]
  BY <1>1, <1>2
<1>5. \A i, j \in 1 .. Len(queue) : i # j => queue[i] # queue[j]
  BY DEF HolderInv, OneHolder
<1>a. \A i \in 1 .. Len(queue') : queue'[i] # t
  <2> SUFFICES ASSUME NEW i \in 1 .. Len(queue') PROVE queue'[i] # t
    OBVIOUS
  <2>1. i + 1 \in 1 .. Len(queue) /\ i + 1 # 1
    BY <1>4
  <2>2. queue[i + 1] # queue[1]
    BY <1>4, <1>5, <2>1
  <2> QED BY <1>4, <2>2
<1>6. \A v \in Workers : \/ worker'[v] = worker[v]
                         \/ v = w /\ worker'[v].pc = "claim" /\ worker'[v].task = t
  <2>1. CASE UNCHANGED worker
    BY <2>1
  <2>2. CASE worker' = [worker EXCEPT ![w] = [pc |-> "claim", task |-> t, ok |-> FALSE]]
    BY <2>2
  <2> QED BY <1>3, <2>1, <2>2
<1>7. /\ \A c \in Clients : Putting(c) => client[c].task # t
      /\ \A v \in Workers : Busy(v) => Task(v) # t
  BY <1>4 DEF HolderInv, OneHolder
<1>8. OneHolder'
  <2>1. \A i, j \in 1 .. Len(queue') : i # j => queue'[i] # queue'[j]
    <3> SUFFICES ASSUME NEW i \in 1 .. Len(queue'), NEW j \in 1 .. Len(queue'), i # j
                 PROVE  queue'[i] # queue'[j]
      OBVIOUS
    <3>1. i + 1 # j + 1
      BY <1>4
    <3>2. queue[i + 1] # queue[j + 1]
      BY <1>4, <1>5, <3>1
    <3> QED BY <1>4, <3>2
  <2>2. \A u, v \in Workers : u # v /\ Busy(u)' /\ Busy(v)' => Task(u)' # Task(v)'
    <3> SUFFICES ASSUME NEW u \in Workers, NEW v \in Workers, u # v, Busy(u)', Busy(v)'
                 PROVE  worker'[u].task # worker'[v].task
      BY DEF Task
    <3>1. CASE worker'[u] = worker[u] /\ worker'[v] = worker[v]
      BY <3>1 DEF HolderInv, OneHolder, Busy, Task
    <3>2. CASE worker'[u] = worker[u] /\ worker'[v].task = t
      BY <1>7, <3>2 DEF Busy, Task
    <3>3. CASE worker'[v] = worker[v] /\ worker'[u].task = t
      BY <1>7, <3>3 DEF Busy, Task
    <3> QED BY <1>6, <3>1, <3>2, <3>3
  <2>3. \A c \in Clients : Putting(c) =>
          /\ \A i \in 1 .. Len(queue') : queue'[i] # client[c].task
          /\ \A v \in Workers : Busy(v)' => Task(v)' # client[c].task
    BY <1>4, <1>6, <1>7 DEF HolderInv, OneHolder, Busy, Task
  <2>4. \A i \in 1 .. Len(queue') : \A v \in Workers : Busy(v)' => Task(v)' # queue'[i]
    BY <1>4, <1>a, <1>6 DEF HolderInv, OneHolder, Busy, Task
  <2>5. \A c, d \in Clients : c # d /\ Putting(c) /\ Putting(d) => client[c].task # client[d].task
    BY DEF HolderInv, OneHolder
  <2> QED BY <1>1, <2>1, <2>2, <2>3, <2>4, <2>5 DEF OneHolder, Putting
<1>9. row[t] \in Waiting
  BY <1>4 DEF HolderInv, RowsInHand
<1>10. RowsInHand'
  <2>1. \A i \in 1 .. Len(queue') : row[queue'[i]] \in Waiting
    BY <1>4 DEF HolderInv, RowsInHand
  <2>2. \A v \in Workers :
          /\ worker'[v].pc = "claim" => row[worker'[v].task] \in Waiting
          /\ worker'[v].pc \in {"start", "run", "saved", "finish"} => row[worker'[v].task] \in Working
          /\ worker'[v].pc = "error" => row[worker'[v].task] \in Waiting \cup Working
    BY <1>6, <1>9 DEF HolderInv, RowsInHand, At, Task
  <2>3. \A c \in Clients : Putting(c) => row[client[c].task] \in Waiting
    BY DEF HolderInv, RowsInHand
  <2> QED BY <1>1, <2>1, <2>2, <2>3 DEF RowsInHand, At, Task, Putting
<1>11. ResultSaved'
  BY <1>1, <1>6 DEF HolderInv, ResultSaved, At, Task
<1>12. RunsCounted'
  <2>1. \A v \in Workers : worker'[v].pc = "start" => worker'[v] = worker[v]
    BY <1>6
  <2> QED BY <1>1, <2>1 DEF HolderInv, RunsCounted, Resumes, Task, At
<1>13. ChargedForResult'
  BY <1>1 DEF HolderInv, ChargedForResult
<1> QED BY <1>8, <1>10, <1>11, <1>12, <1>13 DEF HolderInv

\* A new task: nobody has held it before.
LEMMA HolderEnqueue ==
  ASSUME ~KeyReuse, TInv, HoldInv, HolderInv, NEW c \in Clients, NEW t \in Tasks, Enqueue(c, t)
  PROVE  HolderInv'
<1> USE DEF TInv, TypeOK, BusyWithTask
<1>1. /\ row[t] = "none" /\ row' = [row EXCEPT ![t] = "queued"]
      /\ client[c].pc = "idle"
      /\ client' = [client EXCEPT ![c] = [pc |-> "put", task |-> t]]
      /\ UNCHANGED <<queue, worker, posts, runs, restarts>>
  BY DEF Enqueue, Ask
<1>2. /\ \A s \in Tasks \ {t} : hold'[s] = hold[s]
      /\ hold'[t] \in {"held", "waived"}
  BY <1>1 DEF Enqueue, HoldInv, FreshHoldsNothing
<1>3. /\ \A d \in Clients : Putting(d) => client[d].task # t
      /\ \A i \in 1 .. Len(queue) : queue[i] \in Tasks /\ queue[i] # t
      /\ \A w \in Workers : Busy(w) => Task(w) # t
  <2>1. "none" \notin Waiting \cup Working
    BY DEF Waiting, Working
  <2>2. \A i \in 1 .. Len(queue) : queue[i] \in Tasks
    OBVIOUS
  <2>3. \A w \in Workers : Busy(w) => row[Task(w)] \in Waiting \cup Working
    BY DEF HolderInv, RowsInHand, Busy, At
  <2> QED BY <1>1, <2>1, <2>2, <2>3 DEF HolderInv, RowsInHand
<1>4. \A d \in Clients : \/ client'[d] = client[d]
                         \/ d = c /\ client'[d].pc = "put" /\ client'[d].task = t
  BY <1>1
<1>5. OneHolder'
  <2>1. \A d, e \in Clients : d # e /\ Putting(d)' /\ Putting(e)' => client'[d].task # client'[e].task
    <3> SUFFICES ASSUME NEW d \in Clients, NEW e \in Clients, d # e, Putting(d)', Putting(e)'
                 PROVE  client'[d].task # client'[e].task
      OBVIOUS
    <3>1. CASE client'[d] = client[d] /\ client'[e] = client[e]
      BY <3>1 DEF HolderInv, OneHolder, Putting
    <3>2. CASE client'[d] = client[d] /\ client'[e].task = t
      BY <1>3, <3>2 DEF Putting
    <3>3. CASE client'[e] = client[e] /\ client'[d].task = t
      BY <1>3, <3>3 DEF Putting
    <3> QED BY <1>4, <3>1, <3>2, <3>3
  <2>2. \A d \in Clients : Putting(d)' =>
          /\ \A i \in 1 .. Len(queue) : queue[i] # client'[d].task
          /\ \A w \in Workers : Busy(w) => Task(w) # client'[d].task
    BY <1>3, <1>4 DEF HolderInv, OneHolder, Putting
  <2> QED BY <1>1, <2>1, <2>2 DEF HolderInv, OneHolder, Busy, Task
<1>6. RowsInHand'
  <2>1. \A d \in Clients : Putting(d)' => row'[client'[d].task] \in Waiting
    <3> SUFFICES ASSUME NEW d \in Clients, Putting(d)' PROVE row'[client'[d].task] \in Waiting
      OBVIOUS
    <3>1. CASE client'[d] = client[d]
      <4>1. row[client[d].task] \in Waiting /\ client[d].task \in Tasks \ {t}
        BY <1>3, <3>1 DEF HolderInv, RowsInHand, Putting
      <4> QED BY <1>1, <3>1, <4>1
    <3>2. CASE client'[d].task = t
      BY <1>1, <3>2 DEF Waiting
    <3> QED BY <1>4, <3>1, <3>2
  <2>2. \A i \in 1 .. Len(queue) : row'[queue[i]] \in Waiting
    BY <1>1, <1>3 DEF HolderInv, RowsInHand
  <2>3. \A w \in Workers :
          /\ At(w, "claim") => row'[Task(w)] \in Waiting
          /\ worker[w].pc \in {"start", "run", "saved", "finish"} => row'[Task(w)] \in Working
          /\ At(w, "error") => row'[Task(w)] \in Waiting \cup Working
    <3> SUFFICES ASSUME NEW w \in Workers, Busy(w) PROVE row'[Task(w)] = row[Task(w)]
      BY DEF HolderInv, RowsInHand, At, Busy
    <3> QED BY <1>1, <1>3 DEF Task, Busy
  <2> QED BY <1>1, <2>1, <2>2, <2>3 DEF RowsInHand, At, Task
<1>7. ResultSaved'
  BY <1>1 DEF HolderInv, ResultSaved, At, Task
<1>8. RunsCounted'
  <2>1. \A s \in Tasks : row'[s] \in {"none", "queued"} => row[s] \in {"none", "queued"}
    BY <1>1
  <2> QED BY <1>1, <2>1 DEF HolderInv, RunsCounted, Resumes, Task, At
<1>9. ChargedForResult'
  BY <1>1, <1>2 DEF HolderInv, ChargedForResult
<1> QED BY <1>5, <1>6, <1>7, <1>8, <1>9 DEF HolderInv

\* A request hands its task to the queue.
LEMMA HolderPut ==
  ASSUME TInv, HolderInv, NEW c \in Clients, Put(c)
  PROVE  HolderInv'
<1> USE DEF TInv, TypeOK, BusyWithTask
<1>1. PICK t \in Tasks : t = client[c].task
  BY DEF Put
<1>2. /\ Putting(c) /\ queue' = Append(queue, t)
      /\ client' = [client EXCEPT ![c] = IdleClient]
      /\ UNCHANGED <<row, hold, posts, worker, runs, restarts>>
  BY <1>1 DEF Put, Putting, Answer
<1>3. /\ Len(queue) \in Nat
      /\ \A i \in 1 .. Len(queue') : \/ i \in 1 .. Len(queue) /\ queue'[i] = queue[i]
                                     \/ i = Len(queue) + 1 /\ queue'[i] = t
  BY <1>2
<1>4. \A d \in Clients : Putting(d)' => d # c /\ Putting(d) /\ client'[d] = client[d]
  BY <1>2 DEF Putting, IdleClient
<1>5. /\ \A i \in 1 .. Len(queue) : queue[i] # t
      /\ \A w \in Workers : Busy(w) => Task(w) # t
      /\ \A d \in Clients \ {c} : Putting(d) => client[d].task # t
  BY <1>1, <1>2 DEF HolderInv, OneHolder
<1>6. OneHolder'
  <2>1. \A i, j \in 1 .. Len(queue') : i # j => queue'[i] # queue'[j]
    <3>1. \A i, j \in 1 .. Len(queue) : i # j => queue[i] # queue[j]
      BY DEF HolderInv, OneHolder
    <3> QED BY <1>3, <1>5, <3>1
  <2>2. \A d, e \in Clients : d # e /\ Putting(d)' /\ Putting(e)' => client'[d].task # client'[e].task
    BY <1>4 DEF HolderInv, OneHolder
  <2>3. \A d \in Clients : Putting(d)' =>
          /\ \A i \in 1 .. Len(queue') : queue'[i] # client'[d].task
          /\ \A w \in Workers : Busy(w) => Task(w) # client'[d].task
    BY <1>3, <1>4, <1>5 DEF HolderInv, OneHolder
  <2>4. \A i \in 1 .. Len(queue') : \A w \in Workers : Busy(w) => Task(w) # queue'[i]
    BY <1>3, <1>5 DEF HolderInv, OneHolder
  <2> QED BY <1>2, <2>1, <2>2, <2>3, <2>4 DEF HolderInv, OneHolder, Busy, Task
<1>7. RowsInHand'
  <2>1. \A d \in Clients : Putting(d)' => row[client'[d].task] \in Waiting
    BY <1>4 DEF HolderInv, RowsInHand
  <2>2. \A i \in 1 .. Len(queue') : row[queue'[i]] \in Waiting
    BY <1>1, <1>2, <1>3 DEF HolderInv, RowsInHand
  <2> QED BY <1>2, <2>1, <2>2 DEF HolderInv, RowsInHand, At, Task
<1>8. ResultSaved' /\ RunsCounted' /\ ChargedForResult'
  BY <1>2 DEF HolderInv, ResultSaved, RunsCounted, Resumes, ChargedForResult, At, Task
<1> QED BY <1>6, <1>7, <1>8 DEF HolderInv

\* The queue is full: the row of a task that nobody else holds fails.
LEMMA HolderPutFails ==
  ASSUME TInv, HolderInv, NEW c \in Clients, PutFails(c)
  PROVE  HolderInv'
<1> USE DEF TInv, TypeOK, BusyWithTask
<1>1. PICK t \in Tasks : t = client[c].task
  BY DEF PutFails
<1>2. /\ Putting(c)
      /\ client' = [client EXCEPT ![c] = IdleClient]
      /\ UNCHANGED <<queue, posts, worker, runs, restarts>>
      /\ \A s \in Tasks \ {t} : row'[s] = row[s] /\ hold'[s] = hold[s]
      /\ \/ row'[t] = row[t] /\ hold'[t] = hold[t]
         \/ row[t] \notin NoRow /\ row'[t] = "failed" /\ hold'[t] = Released(hold[t])
  BY <1>1 DEF PutFails, Putting, Answer
<1>3. \A d \in Clients : Putting(d)' => d # c /\ Putting(d) /\ client'[d] = client[d]
  BY <1>2 DEF Putting, IdleClient
<1>4. /\ \A i \in 1 .. Len(queue) : queue[i] \in Tasks \ {t}
      /\ \A w \in Workers : Busy(w) => Task(w) \in Tasks \ {t}
      /\ \A d \in Clients \ {c} : Putting(d) => client[d].task \in Tasks \ {t}
  <2>1. /\ \A i \in 1 .. Len(queue) : queue[i] \in Tasks
        /\ \A w \in Workers : Busy(w) => Task(w) \in Tasks
        /\ \A d \in Clients : Putting(d) => client[d].task \in Tasks
    BY DEF Busy, Task, Putting
  <2> QED BY <1>1, <1>2, <2>1 DEF HolderInv, OneHolder
<1>5. row[t] \in Waiting
  BY <1>1, <1>2 DEF HolderInv, RowsInHand
<1>6. OneHolder'
  BY <1>2, <1>3, HolderStays DEF HolderInv, Busy, Task
<1>7. RowsInHand'
  <2>1. \A d \in Clients : Putting(d)' => row'[client'[d].task] \in Waiting
    BY <1>2, <1>3, <1>4 DEF HolderInv, RowsInHand
  <2>2. \A i \in 1 .. Len(queue) : row'[queue[i]] \in Waiting
    BY <1>2, <1>4 DEF HolderInv, RowsInHand
  <2>3. \A w \in Workers : Busy(w) => row'[Task(w)] = row[Task(w)]
    BY <1>2, <1>4
  <2> QED BY <1>2, <2>1, <2>2, <2>3 DEF HolderInv, RowsInHand, At, Task, Busy
<1>8. ResultSaved'
  BY <1>2 DEF HolderInv, ResultSaved, At, Task
<1>9. RunsCounted'
  <2>1. \A s \in Tasks : row'[s] \in {"none", "queued"} => row[s] \in {"none", "queued"}
    BY <1>2
  <2> QED BY <1>2, <2>1 DEF HolderInv, RunsCounted, Resumes, Task, At
<1>10. ChargedForResult'
  <2>1. Charged(t)'
    <3>1. Charged(t)
      BY DEF HolderInv, ChargedForResult, Charged
    <3> QED BY <1>2, <1>5, <3>1 DEF Charged, Released, Waiting, NoRow
  <2> QED BY <1>2, <2>1 DEF HolderInv, ChargedForResult, Charged
<1> QED BY <1>6, <1>7, <1>8, <1>9, <1>10 DEF HolderInv

LEMMA HolderRequests ==
  ASSUME ~KeyReuse, TInv, HoldInv, HolderInv, NEW c \in Clients
  PROVE  /\ \A t \in Tasks : Enqueue(c, t) \/ CancelRead(c, t) \/ DeleteRead(c, t) => HolderInv'
         /\ RequestStep(c) => HolderInv'
<1> USE DEF TInv, TypeOK, BusyWithTask
<1>1. ASSUME NEW t \in Tasks, CancelRead(c, t) \/ DeleteRead(c, t) PROVE HolderInv'
  <2>1. /\ UNCHANGED <<row, hold, queue, worker, posts, runs, restarts>>
        /\ \A d \in Clients : Putting(d)' => client'[d] = client[d]
    BY <1>1 DEF CancelRead, DeleteRead, Ask, Putting
  <2> QED BY <2>1, RequestKeeps DEF Decays
<1>2. ASSUME Signal(c) PROVE HolderInv'
  <2>1. /\ UNCHANGED <<row, hold, queue, worker, posts, runs, restarts>>
        /\ \A d \in Clients : Putting(d)' => client'[d] = client[d]
    BY <1>2 DEF Signal, Answer, Putting, IdleClient
  <2> QED BY <2>1, RequestKeeps DEF Decays
<1>3. ASSUME CancelApply(c) PROVE HolderInv'
  <2>1. /\ UNCHANGED <<queue, worker, posts, runs, restarts>>
        /\ \A d \in Clients : Putting(d)' => client'[d] = client[d]
    BY <1>3 DEF CancelApply, Ask, Answer, Putting, IdleClient
  <2>2. client[c].task \in Tasks
    BY <1>3 DEF CancelApply
  <2>3. \A t \in Tasks : Decays(t) /\ hold'[t] \in {hold[t], Released(hold[t])}
    BY <1>3, <2>2 DEF CancelApply, Cancelled, Decays
  <2> QED BY <2>1, <2>3, RequestKeeps
<1>4. ASSUME DeleteApply(c) PROVE HolderInv'
  <2>1. /\ UNCHANGED <<hold, queue, worker, posts, runs, restarts>>
        /\ \A d \in Clients : Putting(d)' => client'[d] = client[d]
    BY <1>4 DEF DeleteApply, Answer, Putting, IdleClient
  <2>2. client[c].task \in Tasks /\ row[client[c].task] \in Final \cup {"deleted"}
    BY <1>4 DEF DeleteApply, HoldInv, DeletesFinished
  <2>3. \A t \in Tasks : Decays(t)
    BY <1>4, <2>2 DEF DeleteApply, Decays
  <2> QED BY <2>1, <2>3, RequestKeeps
<1> QED BY <1>1, <1>2, <1>3, <1>4, HolderEnqueue, HolderPut, HolderPutFails DEF RequestStep

LEMMA HolderRestart ==
  ASSUME TInv, HoldInv, HolderInv,
         NEW order \in SetToSeqs({t \in Tasks : Requeued(t)}), Restart(order)
  PROVE  HolderInv'
<1> DEFINE S == {t \in Tasks : Requeued(t)}
           put == IF QueueMax = 0 \/ Len(order) <= QueueMax THEN order
                  ELSE SubSeq(order, 1, QueueMax)
           back(t) == \E i \in DOMAIN put : put[i] = t
<1>1. \A t \in Tasks : row'[t] = CASE row[t] \notin Active -> row[t]
                                     [] back(t) -> "queued"
                                     [] Recovered(t) -> "success"
                                     [] OTHER -> "failed"
  BY DEF Restart
<1>2. \A t \in Tasks : hold'[t] = CASE row[t] \in Final \/ back(t) -> hold[t]
                                      [] Recovered(t) -> Settled(hold[t])
                                      [] OTHER -> Released(hold[t])
  BY DEF Restart
<1>3. /\ queue' = put /\ restarts' = restarts + 1 /\ UNCHANGED <<posts, runs>>
      /\ \A w \in Workers : worker'[w].pc = "idle"
      /\ \A c \in Clients : client'[c].pc = "idle"
  BY DEF Restart, IdleWorker, IdleClient
<1>4. put \in Seq(S)
  <2>1. S \in SUBSET Tasks
    OBVIOUS
  <2> QED BY <2>1, PutFits
<1>5. \A i, j \in 1 .. Len(put) : i # j => put[i] # put[j]
  <2>1. Cardinality(S) \in Nat
    BY FS_Subset, FS_CardinalityType, TaskQueueConstants
  <2>2. /\ order \in [1 .. Cardinality(S) -> S]
        /\ \A i, j \in 1 .. Cardinality(S) : i # j => order[i] # order[j]
    BY DEF SetToSeqs
  <2> HIDE DEF S
  <2>3. Len(order) = Cardinality(S) /\ order \in Seq(S)
    BY <2>1, <2>2
  <2>4. CASE QueueMax = 0 \/ Len(order) <= QueueMax
    BY <2>2, <2>3, <2>4
  <2>5. CASE ~(QueueMax = 0 \/ Len(order) <= QueueMax)
    <3>1. QueueMax \in Nat /\ QueueMax < Cardinality(S)
      BY <2>1, <2>3, <2>5, TaskQueueConstants
    <3>2. Len(put) = QueueMax /\ \A i \in 1 .. QueueMax : put[i] = order[i]
      BY <2>1, <2>3, <2>5, <3>1
    <3> QED BY <2>1, <2>2, <3>1, <3>2
  <2> QED BY <2>4, <2>5
<1> HIDE DEF put
<1>6. /\ \A i \in 1 .. Len(put) : put[i] \in Tasks /\ back(put[i])
      /\ \A t \in Tasks : back(t) => Requeued(t)
  BY <1>4
<1> HIDE DEF back, S
<1>7. \A t \in Tasks : Requeued(t) => row[t] \in Active /\ ~Recovered(t)
  BY DEF Requeued, Resumable, Recovered, Active
<1>8. OneHolder'
  BY <1>3, <1>5 DEF OneHolder, Putting, Busy
<1>9. RowsInHand'
  <2>1. \A i \in 1 .. Len(put) : row'[put[i]] \in Waiting
    BY <1>1, <1>6, <1>7 DEF Waiting
  <2> QED BY <1>3, <2>1 DEF RowsInHand, Putting, At
<1>10. ResultSaved'
  BY <1>3 DEF ResultSaved, At
<1>11. RunsCounted'
  <2> SUFFICES ASSUME NEW t \in Tasks
               PROVE  /\ runs[t] <= 1 + Resumes(t)'
                      /\ row'[t] \in {"none", "queued"} => runs[t] <= Resumes(t)'
    BY <1>3 DEF RunsCounted, At, Resumes
  <2>1. /\ runs[t] \in Nat /\ restarts \in Nat
        /\ runs[t] <= 1 + Resumes(t)
        /\ row[t] \in {"none", "queued"} => runs[t] <= Resumes(t)
    BY DEF TInv, TypeOK, HolderInv, RunsCounted
  <2>2. Resumes(t)' = IF Kind[t] = "video" THEN restarts + 1 ELSE 0
    BY <1>3 DEF Resumes
  <2>3. row'[t] \in {"none", "queued"} => row[t] \in {"none", "queued"} \/ Resumable(t)
    BY <1>1, <1>6 DEF Requeued, Active
  <2> QED BY <2>1, <2>2, <2>3 DEF Resumes, Resumable
<1>12. ChargedForResult'
  <2> SUFFICES ASSUME NEW t \in Tasks \ Waived PROVE Charged(t)'
    BY DEF ChargedForResult, Charged
  <2>1. Charged(t) /\ (hold[t] = "held" <=> row[t] \in Active)
    BY DEF HolderInv, ChargedForResult, Charged, HoldInv, HoldFollowsRow
  <2>2. CASE row[t] \notin Active
    <3>1. ~back(t) /\ ~Recovered(t)
      BY <1>6, <1>7, <2>2 DEF Recovered, Active
    <3>2. row'[t] = row[t] /\ hold'[t] = hold[t]
      BY <1>1, <1>2, <2>1, <2>2, <3>1 DEF Released
    <3> QED BY <1>3, <2>1, <3>2 DEF Charged
  <2>3. CASE row[t] \in Active
    <3>1. CASE back(t)
      <4>1. row'[t] = "queued" /\ hold'[t] = "held"
        BY <1>1, <1>2, <1>6, <1>7, <2>1, <2>3, <3>1
      <4> QED BY <4>1 DEF Charged
    <3>2. CASE ~back(t) /\ Recovered(t)
      <4>1. row'[t] = "success" /\ hold'[t] = "settled"
        BY <1>1, <1>2, <2>1, <2>3, <3>2, StatusesApart DEF Settled
      <4> QED BY <1>3, <3>2, <4>1 DEF Charged, Recovered
    <3>3. CASE ~back(t) /\ ~Recovered(t)
      <4>1. row'[t] = "failed" /\ hold'[t] = "released"
        BY <1>1, <1>2, <2>1, <2>3, <3>3, StatusesApart DEF Released
      <4> QED BY <4>1 DEF Charged
    <3> QED BY <3>1, <3>2, <3>3
  <2> QED BY <2>2, <2>3
<1> QED BY <1>8, <1>9, <1>10, <1>11, <1>12 DEF HolderInv

LEMMA HolderNext == ASSUME ~KeyReuse PROVE TInv /\ HoldInv /\ HolderInv /\ [Next]_vars => HolderInv'
<1> SUFFICES ASSUME TInv, HoldInv, HolderInv, [Next]_vars PROVE HolderInv'
  OBVIOUS
<1>1. CASE UNCHANGED vars
  <2>1. UNCHANGED <<row, hold, queue, worker, client, posts, runs, restarts>>
    BY <1>1 DEF vars
  <2> QED BY <2>1, RequestKeeps DEF Decays
<1>2. CASE Next
  BY <1>2, HolderRequests, HolderTake, HolderWorkers, HolderRestart DEF Next, WorkerStep
<1> QED BY <1>1, <1>2

LEMMA AllHold == ASSUME ~KeyReuse PROVE Spec => [](TInv /\ HoldInv /\ HolderInv)
BY TypeInit, TypeNext, HoldInit, HoldNext, HolderInit, HolderNext, PTL DEF Spec

\* Unless the Idempotency-Key of a deleted task is sent again, what is charged
\* is a success whose posts are in the archive, and every success is charged:
\* a result counts only in the hands of the one worker that holds the task, or
\* when the recovery finds the posts of the run that the restart cut off.
THEOREM ResultsCharged == ASSUME ~KeyReuse PROVE Spec => []ChargedForResult
<1>1. HolderInv => ChargedForResult
  BY DEF HolderInv
<1> QED BY <1>1, AllHold, PTL

\* Under the same condition no runner is started twice, except that of a video
\* task, at most once more for each restart: a task is claimed by the worker
\* that took it from its one place in the queue, and the recovery puts back
\* only rows that were never claimed and video tasks that can resume.
THEOREM RunnersStartedOnce == ASSUME ~KeyReuse PROVE Spec => []StartedOnce
<1>1. HolderInv => StartedOnce
  BY DEF HolderInv, RunsCounted, Resumes, StartedOnce
<1> QED BY <1>1, AllHold, PTL

\* A failed or cancelled row stays so, or is deleted.
LEMMA StoppedStep ==
  ASSUME ~KeyReuse, TInv, HoldInv, HolderInv, Next, NEW t \in Tasks,
         row[t] \in {"cancelled", "failed"}
  PROVE  row'[t] \notin Active \cup {"success"}
<1> USE DEF TInv, TypeOK, BusyWithTask, Active
<1>1. ASSUME NEW c \in Clients, NEW s \in Tasks, Enqueue(c, s) \/ CancelRead(c, s) \/ DeleteRead(c, s)
      PROVE  row'[t] \notin Active \cup {"success"}
  BY <1>1 DEF Enqueue, CancelRead, DeleteRead
<1>2. ASSUME NEW c \in Clients, RequestStep(c)
      PROVE  row'[t] \notin Active \cup {"success"}
  <2>1. Put(c) \/ Signal(c) => row' = row
    BY DEF Put, Signal
  <2>2. PutFails(c) => row'[t] \in {row[t], "failed"}
    BY DEF PutFails
  <2>3. CancelApply(c) => row'[t] \in {row[t], "cancelled"}
    BY DEF CancelApply, Cancelled
  <2>4. DeleteApply(c) => row'[t] \in {row[t], "deleted"}
    BY DEF DeleteApply
  <2> QED BY <1>2, <2>1, <2>2, <2>3, <2>4 DEF RequestStep
<1>3. ASSUME NEW w \in Workers,
             \/ WorkerStep(w) \/ WorkerFails(w)
             \/ \E stage \in {"submitting", "recoverable"} : Checkpoint(w, stage)
      PROVE  row'[t] \notin Active \cup {"success"}
  <2>1. Claim(w) => row'[t] = row[t]
    BY DEF Claim, Claimable
  <2>2. Finish(w) => row'[t] = row[t]
    <3> SUFFICES ASSUME Finish(w) PROVE row'[t] = row[t]
      OBVIOUS
    <3>1. row[Task(w)] \in Working
      BY DEF HolderInv, RowsInHand, Finish, At
    <3> QED BY <3>1 DEF Finish, Discards, Working, NoRow
  <2>3. HandleError(w) => row'[t] \in {row[t], "failed"}
    BY DEF HandleError
  <2>4. \/ Take(w) \/ Start(w) \/ StartRefused(w) \/ SavePosts(w) \/ HandlerFails(w)
        \/ WorkerFails(w) \/ \E ok \in BOOLEAN : RunReturns(w, ok)
        \/ \E stage \in {"submitting", "recoverable"} : Checkpoint(w, stage)
        => row' = row
    BY DEF Take, Start, StartRefused, SavePosts, HandlerFails, WorkerFails, RunReturns, Checkpoint
  <2> QED BY <1>3, <2>1, <2>2, <2>3, <2>4 DEF WorkerStep
<1>4. ASSUME NEW order \in SetToSeqs({s \in Tasks : Requeued(s)}), Restart(order)
      PROVE  row'[t] = row[t]
  <2> DEFINE put == IF QueueMax = 0 \/ Len(order) <= QueueMax THEN order
                    ELSE SubSeq(order, 1, QueueMax)
             back(s) == \E i \in DOMAIN put : put[i] = s
  <2>1. row'[t] = CASE row[t] \notin Active -> row[t]
                    [] back(t) -> "queued"
                    [] Recovered(t) -> "success"
                    [] OTHER -> "failed"
    BY <1>4 DEF Restart
  <2>2. ~back(t)
    <3>1. {s \in Tasks : Requeued(s)} \in SUBSET Tasks
      OBVIOUS
    <3>2. put \in Seq({s \in Tasks : Requeued(s)})
      BY <3>1, PutFits
    <3> HIDE DEF put
    <3>3. ~Requeued(t)
      BY DEF Requeued, Resumable
    <3>4. back(t) => Requeued(t)
      BY <3>2
    <3> QED BY <3>3, <3>4
  <2> HIDE DEF back
  <2> QED BY <2>1, <2>2 DEF Recovered
<1> QED BY <1>1, <1>2, <1>3, <1>4 DEF Next

\* Under the same condition a task that was cancelled or has failed is never
\* run or delivered later.
THEOREM StopsStay == ASSUME ~KeyReuse PROVE Spec => StoppedForGood
<1>1. TInv /\ HoldInv /\ HolderInv /\ [Next]_vars
        => [\A t \in Tasks : row[t] \in {"cancelled", "failed"}
              => row'[t] \notin Active \cup {"success"}]_vars
  BY StoppedStep
<1> QED BY <1>1, AllHold, PTL DEF Spec, StoppedForGood
=============================================================================
