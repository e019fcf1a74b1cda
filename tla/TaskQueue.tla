------------------------------- MODULE TaskQueue -------------------------------
(***************************************************************************)
(* The task queue of server.py: rows of the table tasks with their point   *)
(* reservations, the in-memory queue and its worker threads, cancellation, *)
(* deletion, and the recovery that create_app runs before it starts the    *)
(* workers.                                                                *)
(*                                                                         *)
(* Each committed transaction is one action.  Cancellation and deletion    *)
(* read the row outside of the transaction that changes it, and a request  *)
(* puts its task into the queue after the commit that created the row.     *)
(* Queue, cancel events, workers and requests live in one process and are  *)
(* lost when it stops; rows, reservations and archive files survive.  A    *)
(* reservation is reduced to its status.                                   *)
(***************************************************************************)
EXTENDS Integers, SequencesExt

CONSTANTS
  Tasks,        \* task ids
  Kind,         \* [Tasks -> kinds]: "post" is persona_post_generation, "video" a
                \* type of the video workbench, "plain" any other runner
  Archive,      \* the persona archive a task works on
  Workers,      \* worker threads (RH_MAX_CONCURRENCY)
  Clients,      \* request handler threads
  Waived,       \* tasks nobody pays for: an administrator's, or of a type without price
  None,         \* no task
  QueueMax,     \* TASK_QUEUE_MAXSIZE, 0 is unbounded
  MaxRestarts,  \* bound: restarts of the process
  Faults,       \* whether database access may raise
  KeyReuse      \* whether a deleted post task's Idempotency-Key is sent again

ASSUME TaskQueueConstants ==
  /\ Kind \in [Tasks -> {"plain", "post", "video"}]
  /\ IsFiniteSet(Tasks)
  /\ Waived \subseteq Tasks /\ None \notin Tasks
  /\ QueueMax \in Nat /\ MaxRestarts \in Nat
  /\ Faults \in BOOLEAN /\ KeyReuse \in BOOLEAN

VARIABLES
  row,       \* status column of tasks; "none": never created, "deleted": row gone
  hold,      \* status of the task's reservation
  posts,     \* tasks whose generated posts are in the archive file
  ckpt,      \* video_checkpoint in output_json
  queue,     \* _TASK_QUEUE
  control,   \* _NORMAL_TASK_CONTROLS: "none", or the state of the cancel event
  worker,    \* local state of the worker threads
  client,    \* local state of the requests
  runs,      \* how often the runner of a task was started
  restarts   \* restarts so far

vars == <<row, hold, posts, ckpt, queue, control, worker, client, runs, restarts>>

Active == {"queued", "running"}
Final == {"success", "failed", "cancelled"}
NoRow == {"none", "deleted"}
IdleWorker == [pc |-> "idle", task |-> None, ok |-> FALSE]
IdleClient == [pc |-> "idle", task |-> None]

Init ==
  /\ row = [t \in Tasks |-> "none"]
  /\ hold = [t \in Tasks |-> "none"]
  /\ posts = {}
  /\ ckpt = [t \in Tasks |-> "none"]
  /\ queue = <<>>
  /\ control = [t \in Tasks |-> "none"]
  /\ worker = [w \in Workers |-> IdleWorker]
  /\ client = [c \in Clients |-> IdleClient]
  /\ runs = [t \in Tasks |-> 0]
  /\ restarts = 0

\* settle_reservation and release_reservation act on a held reservation only.
Settled(h) == IF h = "held" THEN "settled" ELSE h
Released(h) == IF h = "held" THEN "released" ELSE h

MutRoom == QueueMax = 0 \/ Len(queue) <= QueueMax
Room == QueueMax = 0 \/ Len(queue) < QueueMax
At(w, pc) == worker[w].pc = pc
Task(w) == worker[w].task
Ask(c, pc, t) == client' = [client EXCEPT ![c] = [pc |-> pc, task |-> t]]
Answer(c) == client' = [client EXCEPT ![c] = IdleClient]
Go(w, pc, t, ok) == worker' = [worker EXCEPT ![w] = [pc |-> pc, task |-> t, ok |-> ok]]
\* _task_worker leaves: its cancel event is removed.
Leave(w) ==
  /\ worker' = [worker EXCEPT ![w] = IdleWorker]
  /\ control' = [control EXCEPT ![Task(w)] = "none"]

-----------------------------------------------------------------------------
(* Requests *)

\* A new task (a retry has a new id): reservation and row in one transaction.
\* The id of a post task is made from its Idempotency-Key, so a deleted one may
\* come back; its key then finds the old reservation.  A request for an archive
\* with a post task under way gets that task or a 409.
PostUnderWay(a) == \E t \in Tasks : Kind[t] = "post" /\ Archive[t] = a /\ row[t] \in Active
Enqueue(c, t) ==
  /\ client[c].pc = "idle"
  /\ ~(Kind[t] = "post" /\ PostUnderWay(Archive[t]))
  /\ \/ row[t] = "none"
     \/ row[t] = "deleted" /\ Kind[t] = "post" /\ KeyReuse
  /\ row' = [row EXCEPT ![t] = "queued"]
  /\ hold' = [hold EXCEPT ![t] = CASE @ # "none" -> @
                                   [] t \in Waived -> "waived"
                                   [] OTHER -> "held"]
  /\ Ask(c, "put", t)
  /\ UNCHANGED <<posts, ckpt, queue, control, worker, runs, restarts>>

Put(c) ==
  /\ client[c].pc = "put"
  /\ Room
  /\ queue' = Append(queue, client[c].task)
  /\ Answer(c)
  /\ UNCHANGED <<row, hold, posts, ckpt, control, worker, runs, restarts>>

MutPutFails(c) ==
  /\ client[c].pc = "put"
  /\ ~Room
  /\ Answer(c)
  /\ UNCHANGED <<row, hold, posts, ckpt, queue, control, worker, runs, restarts>>
\* The queue is full: the row fails whatever its status is, unless it is gone
\* (the event's foreign key then rolls the transaction back).
PutFails(c) ==
  /\ client[c].pc = "put"
  /\ ~Room
  /\ LET t == client[c].task
     IN IF row[t] \in NoRow THEN UNCHANGED <<row, hold>>
        ELSE /\ row' = [row EXCEPT ![t] = "failed"]
             /\ hold' = [hold EXCEPT ![t] = Released(@)]
  /\ Answer(c)
  /\ UNCHANGED <<posts, ckpt, queue, control, worker, runs, restarts>>

\* What _cancel_task_record_for_user reads and decides before its UPDATE.
CancelRead(c, t) ==
  /\ client[c].pc = "idle"
  /\ row[t] \in Active
  /\ ~(Kind[t] = "post" /\ row[t] = "running")
  /\ Ask(c, "cancel", t)
  /\ UNCHANGED <<row, hold, posts, ckpt, queue, control, worker, runs, restarts>>

\* The UPDATE tests the status again, the release does not.
MutCancelled(s) == "cancelled"
Cancelled(s) == IF s \in Active THEN "cancelled" ELSE s
CancelApply(c) ==
  /\ client[c].pc = "cancel"
  /\ LET t == client[c].task
     IN IF row[t] \in NoRow THEN UNCHANGED <<row, hold>> /\ Answer(c)
        ELSE /\ row' = [row EXCEPT ![t] = Cancelled(@)]
             /\ hold' = [hold EXCEPT ![t] = Released(@)]
             /\ Ask(c, "signal", t)
  /\ UNCHANGED <<posts, ckpt, queue, control, worker, runs, restarts>>

Signal(c) ==
  /\ client[c].pc = "signal"
  /\ control' = [control EXCEPT ![client[c].task] = IF @ = "none" THEN @ ELSE "set"]
  /\ Answer(c)
  /\ UNCHANGED <<row, hold, posts, ckpt, queue, worker, runs, restarts>>

DeleteRead(c, t) ==
  /\ client[c].pc = "idle"
  /\ row[t] \in Final
  /\ Ask(c, "delete", t)
  /\ UNCHANGED <<row, hold, posts, ckpt, queue, control, worker, runs, restarts>>

DeleteApply(c) ==
  /\ client[c].pc = "delete"
  /\ row' = [row EXCEPT ![client[c].task] = "deleted"]
  /\ Answer(c)
  /\ UNCHANGED <<hold, posts, ckpt, queue, control, worker, runs, restarts>>

-----------------------------------------------------------------------------
(* Worker threads *)

\* The worker gets an item and registers its cancel event; an item whose task
\* is already in hand is dropped.
Take(w) ==
  /\ At(w, "idle")
  /\ queue # <<>>
  /\ queue' = Tail(queue)
  /\ LET t == Head(queue)
     IN IF control[t] # "none" THEN UNCHANGED <<worker, control>>
        ELSE /\ control' = [control EXCEPT ![t] = "clear"]
             /\ Go(w, "claim", t, FALSE)
  /\ UNCHANGED <<row, hold, posts, ckpt, client, runs, restarts>>

\* UPDATE ... WHERE status = 'queued'.
Claimable(t) == row[t] = "queued"
Claim(w) ==
  /\ At(w, "claim")
  /\ IF Claimable(Task(w))
     THEN /\ row' = [row EXCEPT ![Task(w)] = "running"]
          /\ Go(w, "start", Task(w), FALSE)
          /\ UNCHANGED control
     ELSE Leave(w) /\ UNCHANGED row
  /\ UNCHANGED <<hold, posts, ckpt, queue, client, runs, restarts>>

\* The runner starts unless the task was cancelled or its user or persona is
\* not allowed any more.
Start(w) ==
  /\ At(w, "start")
  /\ control[Task(w)] # "set"
  /\ runs' = [runs EXCEPT ![Task(w)] = @ + 1]
  /\ Go(w, "run", Task(w), FALSE)
  /\ UNCHANGED <<row, hold, posts, ckpt, queue, control, client, restarts>>

StartRefused(w) ==
  /\ At(w, "start")
  /\ Go(w, "finish", Task(w), FALSE)
  /\ UNCHANGED <<row, hold, posts, ckpt, queue, control, client, runs, restarts>>

\* A post runner writes its posts, tagged with the task id, into the archive.
SavePosts(w) ==
  /\ At(w, "run")
  /\ Kind[Task(w)] = "post"
  /\ posts' = posts \cup {Task(w)}
  /\ Go(w, "saved", Task(w), FALSE)
  /\ UNCHANGED <<row, hold, ckpt, queue, control, client, runs, restarts>>

\* A video runner records its progress: a submission to the provider whose id
\* is not known yet, or a state that can be resumed.
Checkpoint(w, stage) ==
  /\ At(w, "run")
  /\ Kind[Task(w)] = "video"
  /\ ckpt' = [ckpt EXCEPT ![Task(w)] = stage]
  /\ UNCHANGED <<row, hold, posts, queue, control, worker, client, runs, restarts>>

\* The runner returns or raises; its result counts only if no cancellation was
\* signalled meanwhile.
RunReturns(w, ok) ==
  /\ worker[w].pc \in {"run", "saved"}
  /\ Kind[Task(w)] = "post" /\ ok => At(w, "saved")
  /\ Go(w, "finish", Task(w), ok /\ control[Task(w)] # "set")
  /\ UNCHANGED <<row, hold, posts, ckpt, queue, control, client, runs, restarts>>

\* A result that comes after the row was cancelled or deleted is discarded.
MutDiscards(s) == s \in NoRow
Discards(s) == s \in NoRow \cup {"cancelled"}
Finish(w) ==
  /\ At(w, "finish")
  /\ LET t == Task(w)
     IN IF Discards(row[t]) THEN UNCHANGED <<row, hold>>
        ELSE /\ row' = [row EXCEPT ![t] = IF worker[w].ok THEN "success" ELSE "failed"]
             /\ hold' = [hold EXCEPT ![t] = IF worker[w].ok THEN Settled(@) ELSE Released(@)]
  /\ Leave(w)
  /\ UNCHANGED <<posts, ckpt, queue, client, runs, restarts>>

\* A transaction of the worker raises: it leaves _task_worker for the handler
\* of _task_queue_worker.
WorkerFails(w) ==
  /\ Faults
  /\ worker[w].pc \in {"claim", "start", "finish"}
  /\ Go(w, "error", Task(w), FALSE)
  /\ control' = [control EXCEPT ![Task(w)] = "none"]
  /\ UNCHANGED <<row, hold, posts, ckpt, queue, client, runs, restarts>>

\* The handler fails the task whatever its status is.
MutHandleError(w) ==
  /\ At(w, "error")
  /\ row[Task(w)] \notin NoRow
  /\ row' = [row EXCEPT ![Task(w)] = "failed"]
  /\ worker' = [worker EXCEPT ![w] = IdleWorker]
  /\ UNCHANGED <<hold, posts, ckpt, queue, control, client, runs, restarts>>
HandleError(w) ==
  /\ At(w, "error")
  /\ row[Task(w)] \notin NoRow
  /\ row' = [row EXCEPT ![Task(w)] = "failed"]
  /\ hold' = [hold EXCEPT ![Task(w)] = Released(@)]
  /\ worker' = [worker EXCEPT ![w] = IdleWorker]
  /\ UNCHANGED <<posts, ckpt, queue, control, client, runs, restarts>>

\* An exception of the handler itself, which a deleted row always causes (the
\* event's foreign key), ends the thread.
HandlerFails(w) ==
  /\ At(w, "error")
  /\ Go(w, "dead", None, FALSE)
  /\ UNCHANGED <<row, hold, posts, ckpt, queue, control, client, runs, restarts>>

-----------------------------------------------------------------------------
(* Restart: the process stops anywhere; create_app then runs                *)
(* _resume_pending_tasks before workers and requests start again.           *)

Resumable(t) == row[t] = "running" /\ Kind[t] = "video" /\ ckpt[t] = "recoverable"
Recovered(t) == row[t] = "running" /\ Kind[t] = "post" /\ t \in posts
MutRequeued(t) == row[t] \in Active
Requeued(t) == row[t] = "queued" \/ Resumable(t)

\* order is the sequence in which the rows are read (created_at has seconds
\* only); those that find no room in the queue fail.
Restart(order) ==
  LET put == IF QueueMax = 0 \/ Len(order) <= QueueMax THEN order
             ELSE SubSeq(order, 1, QueueMax)
      back(t) == \E i \in DOMAIN put : put[i] = t
  IN /\ restarts < MaxRestarts
     /\ restarts' = restarts + 1
     /\ queue' = put
     /\ row' = [t \in Tasks |-> CASE row[t] \notin Active -> row[t]
                                  [] back(t) -> "queued"
                                  [] Recovered(t) -> "success"
                                  [] OTHER -> "failed"]
     /\ hold' = [t \in Tasks |-> CASE row[t] \in Final \/ back(t) -> hold[t]
                                   [] Recovered(t) -> Settled(hold[t])
                                   [] OTHER -> Released(hold[t])]
     /\ control' = [t \in Tasks |-> "none"]
     /\ worker' = [w \in Workers |-> IdleWorker]
     /\ client' = [c \in Clients |-> IdleClient]
     /\ UNCHANGED <<posts, ckpt, runs>>

-----------------------------------------------------------------------------
RequestStep(c) ==
  \/ Put(c) \/ PutFails(c) \/ CancelApply(c) \/ Signal(c) \/ DeleteApply(c)

WorkerStep(w) ==
  \/ Take(w) \/ Claim(w) \/ Start(w) \/ StartRefused(w)
  \/ SavePosts(w)
  \/ \E ok \in BOOLEAN : RunReturns(w, ok)
  \/ Finish(w) \/ HandleError(w) \/ HandlerFails(w)

Next ==
  \/ \E c \in Clients :
       \/ \E t \in Tasks : Enqueue(c, t) \/ CancelRead(c, t) \/ DeleteRead(c, t)
       \/ RequestStep(c)
  \/ \E w \in Workers : \/ WorkerStep(w)
                        \/ \E stage \in {"submitting", "recoverable"} : Checkpoint(w, stage)
                        \/ WorkerFails(w)
  \/ \E order \in SetToSeqs({t \in Tasks : Requeued(t)}) : Restart(order)

Spec == Init /\ [][Next]_vars

\* A request runs to its end, workers take what is queued, and a runner comes
\* back: its provider calls have timeouts.
Fairness ==
  /\ \A c \in Clients : WF_vars(RequestStep(c))
  /\ \A w \in Workers : WF_vars(WorkerStep(w))
FairSpec == Spec /\ Fairness

-----------------------------------------------------------------------------
(* Properties *)

\* Every row, thread and queue item holds values of its type, and the queue
\* keeps its limit.
TypeOK ==
  /\ row \in [Tasks -> Active \cup Final \cup NoRow]
  /\ hold \in [Tasks -> {"none", "held", "waived", "settled", "released"}]
  /\ posts \subseteq Tasks
  /\ ckpt \in [Tasks -> {"none", "submitting", "recoverable"}]
  /\ queue \in Seq(Tasks) /\ (QueueMax > 0 => Len(queue) <= QueueMax)
  /\ control \in [Tasks -> {"none", "clear", "set"}]
  /\ worker \in [Workers -> [pc : {"idle", "claim", "start", "run", "saved", "finish",
                                   "error", "dead"},
                             task : Tasks \cup {None}, ok : BOOLEAN]]
  /\ client \in [Clients -> [pc : {"idle", "put", "cancel", "signal", "delete"},
                             task : Tasks \cup {None}]]
  /\ runs \in [Tasks -> Nat]
  /\ restarts \in 0 .. MaxRestarts

\* Points are on hold exactly while the task may still run: no cancellation,
\* full queue, failing worker or restart leaves them frozen behind a finished
\* task or takes them from one that goes on.
HoldFollowsRow ==
  \A t \in Tasks \ Waived : hold[t] = "held" <=> row[t] \in Active

\* A task is charged for its result and nothing else: what stays charged was
\* a success whose posts are in the archive, and no success escapes its charge.
ChargedForResult ==
  \A t \in Tasks \ Waived :
    /\ hold[t] = "settled" => /\ row[t] \in {"success", "deleted"}
                              /\ Kind[t] = "post" => t \in posts
    /\ row[t] = "success" => hold[t] = "settled"

\* A runner is started once.  Restarts repeat only video tasks, which resume
\* from their checkpoint.
StartedOnce ==
  \A t \in Tasks : runs[t] <= 1 + (IF Kind[t] = "video" THEN restarts ELSE 0)

\* A task that was cancelled or has failed is never run or delivered later: a
\* late result of its worker is ignored.
StoppedForGood ==
  [][\A t \in Tasks : row[t] \in {"cancelled", "failed"}
       => row'[t] \notin Active \cup {"success"}]_vars

\* Every task that was accepted ends, unless a worker thread has died.
TaskEnds ==
  \A t \in Tasks : row[t] = "queued"
                     ~> (row[t] \in Final \cup NoRow \/ \E w \in Workers : At(w, "dead"))

-----------------------------------------------------------------------------
(* Strengthening of TypeOK and HoldFollowsRow to inductive invariants *)

\* A thread that is not idle works on a task.
BusyWithTask ==
  /\ \A c \in Clients : client[c].pc # "idle" => client[c].task \in Tasks
  /\ \A w \in Workers : worker[w].pc \notin {"idle", "dead"} => worker[w].task \in Tasks

\* A task that was never created holds nothing.
FreshHoldsNothing == \A t \in Tasks : row[t] = "none" => hold[t] = "none"

\* What a deletion has read stays true until it deletes: no finished task
\* becomes active again.
DeletesFinished ==
  \A c \in Clients : client[c].pc = "delete" => row[client[c].task] \in Final \cup {"deleted"}

HoldInv == HoldFollowsRow /\ FreshHoldsNothing /\ DeletesFinished
=============================================================================
