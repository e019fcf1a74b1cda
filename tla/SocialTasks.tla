------------------------------ MODULE SocialTasks ------------------------------
(***************************************************************************)
(* The publish and interaction tasks of social_automation_api.py: rows of  *)
(* social_automation_tasks with their point reservations and the slots     *)
(* they occupy in the daily publish quota; the worker processes that claim *)
(* them under a lease and drive a browser; the irreversible click on the   *)
(* platform and its confirmation; cancellation, stop-all, clearing, retry; *)
(* shutdown, crash, lease expiry and the recovery of orphaned rows.        *)
(*                                                                         *)
(* Each committed transaction is one action.  A runner (one per process    *)
(* and account, because a claim skips accounts that are in use) holds      *)
(* publish_submit_lock from Arm to the click, so a request that signals    *)
(* cancel_event waits for it.  Clock times are reduced to three facts: a   *)
(* lease is live or not, the business day, and whether a row is due.       *)
(***************************************************************************)
EXTENDS Integers, Sequences, FiniteSets

CONSTANTS
  Tasks,        \* task ids
  Kind,         \* "threads" and "instagram" publish a post, "comment" is a billed interaction
  Account,      \* the platform account a task acts for
  Batches,      \* publish batches: sequences of tasks of one account, published in this order
  Procs,        \* service processes
  Requests,     \* what people do: "cancel", "stop_all", "clear", "retry", "takeover" of the browser
  Faults,       \* what may happen to a process: "crash", "shutdown", "stall"
  Attempts,     \* SOCIAL_AUTOMATION_THREADS_CONFIRM_ATTEMPTS
  Retries,      \* max_retries of an interaction
  Limit,        \* posts a user may publish on one day
  LastDay,      \* bound: business days
  MaxStops,     \* bound: crashes and shutdowns
  MaxRequests,  \* bound: requests of clients
  None, Gone    \* no process; a process that has stopped

ASSUME SocialConstants ==
  /\ Kind \in [Tasks -> {"threads", "instagram", "comment"}]
  /\ IsFiniteSet(Tasks) /\ IsFiniteSet(Procs)
  /\ None \notin Procs /\ Gone \notin Procs /\ None # Gone
  /\ \A b \in Batches : b \in Seq(Tasks)
  /\ \A b, c \in Batches : \A i \in DOMAIN b, j \in DOMAIN c :
       /\ b[i] = c[j] => b = c /\ i = j
       /\ b = c => Account[b[i]] = Account[c[j]]
  /\ Requests \subseteq {"cancel", "stop_all", "clear", "retry", "takeover"}
  /\ Faults \subseteq {"crash", "shutdown", "stall"}
  /\ Attempts \in Nat \ {0} /\ Retries \in Nat /\ Limit \in Nat
  /\ LastDay \in Nat /\ MaxStops \in Nat /\ MaxRequests \in Nat

VARIABLES
  task,     \* rows of social_automation_tasks
  slot,     \* rows of social_daily_publish_slots
  hold,     \* status of the task's reservation
  lease,    \* _worker_lease in the row's payload
  resv,     \* _publish_batch_reservation in the row's payload
  up,       \* state of the processes
  run,      \* _RUNNING_TASK_CONTROLS and the runner threads
  left,     \* rows whose state a process that stops has still to save
  req,      \* the request being served, one at a time
  post,     \* the tasks about one post or comment: a task, the one it retries, and so on
  clicks,   \* irreversible clicks made for a task
  day,      \* business day
  stops,    \* crashes and shutdowns so far
  asked     \* requests so far

rows == <<task, slot, hold, lease, resv>>
\* All but the database, and what a runner leaves alone.
env == <<up, run, left, req, post, clicks, day, stops, asked>>
others == <<up, left, req, post, day, stops, asked>>
vars == <<rows, env>>

Accounts == {Account[t] : t \in Tasks}
Publish == {t \in Tasks : Kind[t] # "comment"}
Active == {"queued", "running", "need_manual"}
Live == {"running", "need_manual"}
Final == {"success", "failed", "cancelled"}
Away == {"none", "deleted"}
\* Slot states of a post that may be on the platform.
Spent == {"armed", "submitted", "confirmed", "unknown"}

\* The batch of a task; a task without one is a batch of its own.
InBatch(t) == \E b \in Batches : \E i \in DOMAIN b : b[i] = t
BatchOf(t) == IF InBatch(t) THEN CHOOSE b \in Batches : \E i \in DOMAIN b : b[i] = t ELSE <<t>>
Members(b) == {b[i] : i \in DOMAIN b}
Place(t) == CHOOSE i \in DOMAIN BatchOf(t) : BatchOf(t)[i] = t
Before(t) == {BatchOf(t)[i] : i \in 1..(Place(t) - 1)}
After(t) == {BatchOf(t)[i] : i \in (Place(t) + 1)..Len(BatchOf(t))}

NoRow == [status |-> "none", mark |-> "none", conf |-> 0, result |-> "plain", tries |-> 0]
NoSlot == [state |-> "none", day |-> 0]
NoClaim == [by |-> None, live |-> FALSE]
Claim(p) == [by |-> p, live |-> TRUE]
Idle == [pc |-> "idle", items |-> <<>>, i |-> 0, stop |-> FALSE]
NoReq == [pc |-> "none", at |-> None, ts |-> {}, of |-> {}]

Init ==
  /\ task = [t \in Tasks |-> NoRow]
  /\ slot = [t \in Tasks |-> NoSlot]
  /\ hold = [t \in Tasks |-> "none"]
  /\ lease = [t \in Tasks |-> NoClaim]
  /\ resv = [t \in Tasks |-> NoClaim]
  /\ up = [p \in Procs |-> "up"]
  /\ run = [p \in Procs |-> [a \in Accounts |-> Idle]]
  /\ left = [p \in Procs |-> {}]
  /\ req = NoReq
  /\ post = [t \in Tasks |-> {t}]
  /\ clicks = [t \in Tasks |-> 0]
  /\ day = 0
  /\ stops = 0
  /\ asked = 0

-----------------------------------------------------------------------------
(* What the transactions do to one row, its slot and its reservation *)

Status(t) == task[t].status
\* daily_publish_committed of a post, _billing_committed_quantity of an interaction.
Committed(t) == task[t].mark = "submitted"
Cancelled(t) == Status(t) \in {"cancelled", "deleted"}
With(r, s) == [r EXCEPT !.status = s]

Settle(h) == IF h = "held" THEN "settled" ELSE h
Release(h) == IF h = "held" THEN "released" ELSE h
\* _release_task_billing_reservation and _settle_or_release_task_billing_reservation
\* leave the reservation of a row whose outcome needs review alone.
ReleaseHold(t) == IF task[t].result = "review" THEN hold[t] ELSE Release(hold[t])
SettleOrRelease(t) ==
  IF task[t].result = "review" THEN hold[t]
  ELSE IF Committed(t) THEN Settle(hold[t]) ELSE Release(hold[t])

MutReleaseSlot(s) == IF s.state = "none" THEN s ELSE [s EXCEPT !.state = "released"]
\* _release_daily_publish_slot
ReleaseSlot(s) ==
  CASE s.state = "armed" -> [s EXCEPT !.state = "unknown"]
    [] s.state \in (Spent \ {"armed"}) \cup {"none"} -> s
    [] OTHER -> [s EXCEPT !.state = "released"]

\* _set_daily_publish_slot_state; an interaction has no slot.
SetSlot(s, st) == IF s.state = "none" THEN s ELSE [s EXCEPT !.state = st]
SetSlotToday(s, st) == IF s.state = "none" THEN s ELSE [state |-> st, day |-> day]

\* _daily_publish_capacity_count for today, and _daily_publish_execution_count.
Capacity == {t \in Tasks : \/ slot[t].day = day /\ slot[t].state \notin {"none", "released"}
                           \/ slot[t].state \in {"reserved", "armed"}}
Executing == {t \in Tasks : \/ slot[t].state \in {"reserved", "armed"}
                            \/ slot[t].day = day /\ slot[t].state \in Spent}

-----------------------------------------------------------------------------
(* Local state of a process *)

Run(p, a) == run[p][a]
Item(p, a) == Run(p, a).items[Run(p, a).i]
At(p, a, pcs) == up[p] # "down" /\ Run(p, a).pc \in pcs
Go(p, a, pc) == run' = [run EXCEPT ![p][a].pc = pc]
\* publish_submit_lock is held.
Locked(p, a) == Run(p, a).pc \in {"armed", "ready", "clicked"}
\* A task of the registered controls of a process.
Controlled(p) == UNION {Members(Run(p, a).items) : a \in {b \in Accounts : Run(p, b).pc \notin {"idle", "claimed"}}}
Signalled(ts, p) ==
  [run EXCEPT ![p] = [a \in Accounts |->
     IF Members(@[a].items) \cap ts # {} /\ @[a].pc \notin {"idle", "claimed"}
     THEN [@[a] EXCEPT !.stop = TRUE] ELSE @[a]]]
MutMaySignal(ts, p) == TRUE
MaySignal(ts, p) == \A a \in Accounts : Members(Run(p, a).items) \cap ts # {} => ~Locked(p, a)

-----------------------------------------------------------------------------
(* Transactions that several handlers share *)

\* cancel_social_tasks_in_transaction on the active rows of ts.
CancelRows(ts) ==
  LET c == {t \in ts : Status(t) \in Active} IN
  /\ task' = [t \in Tasks |-> IF t \in c THEN With(task[t], "cancelled") ELSE task[t]]
  /\ slot' = [t \in Tasks |-> IF t \in c THEN ReleaseSlot(slot[t]) ELSE slot[t]]
  /\ hold' = [t \in Tasks |-> IF t \in c THEN SettleOrRelease(t) ELSE hold[t]]
  /\ UNCHANGED <<lease, resv>>

\* _requeue_confirmation_only_task: back into the queue for a look at the
\* profile only; the batch loses its reservations.
RequeueRow(t, r) ==
  /\ task' = [task EXCEPT ![t] = With(r, "queued")]
  /\ lease' = [lease EXCEPT ![t] = NoClaim]
  /\ resv' = [x \in Tasks |-> IF x \in Members(BatchOf(t)) THEN NoClaim ELSE resv[x]]
  /\ UNCHANGED hold

\* Row t becomes r with slot s and reservation h.  When it failed, the active
\* rest of its batch fails with it (_terminate_publish_batch_tail_in_transaction).
EndRow(t, r, s, h) ==
  LET tail == IF r.status = "failed" THEN {x \in After(t) : Status(x) \in Active} ELSE {} IN
  /\ task' = [x \in Tasks |-> CASE x = t -> r
                                [] x \in tail -> With(task[x], "failed")
                                [] OTHER -> task[x]]
  /\ slot' = [x \in Tasks |-> CASE x = t -> s
                                [] x \in tail -> ReleaseSlot(slot[x])
                                [] OTHER -> slot[x]]
  /\ hold' = [x \in Tasks |-> CASE x = t -> h
                                [] x \in tail -> ReleaseHold(x)
                                [] OTHER -> hold[x]]
  /\ lease' = [x \in Tasks |-> IF x \in tail \cup {t} THEN NoClaim ELSE lease[x]]
  /\ resv' = [x \in Tasks |-> IF x \in tail \cup {t} THEN NoClaim ELSE resv[x]]

\* _finish_task of a row that is no longer live only tidies its reservation.
FinishLate(t) ==
  /\ hold' = [hold EXCEPT ![t] = IF Status(t) \in {"failed", "cancelled"} THEN SettleOrRelease(t) ELSE @]
  /\ UNCHANGED <<task, slot, lease, resv>>
\* An interaction's submission marks leave the payload when it ends.
Unmarked(t, r) == IF t \in Publish THEN r ELSE [r EXCEPT !.mark = "none"]
FinishSuccess(t) ==
  IF Status(t) \in Live
  THEN EndRow(t, Unmarked(t, [task[t] EXCEPT !.status = "success", !.mark = "submitted", !.conf = 0, !.result = "plain"]),
              IF Committed(t) THEN SetSlot(slot[t], "confirmed") ELSE SetSlotToday(slot[t], "confirmed"),
              Settle(hold[t]))
  ELSE FinishLate(t)
MutFinishFailedAs(t, r, result) ==
  IF Status(t) \in Live
  THEN EndRow(t, Unmarked(t, [r EXCEPT !.status = "failed", !.result = result]), ReleaseSlot(slot[t]), ReleaseHold(t))
  ELSE FinishLate(t)
\* A committed submission is charged and keeps its slot, whatever came after.
FinishFailedAs(t, r, result) ==
  IF Status(t) \in Live
  THEN EndRow(t, Unmarked(t, [r EXCEPT !.status = "failed", !.result = result]),
              IF result = "review" \/ r.mark = "submitted" THEN SetSlot(slot[t], "unknown") ELSE ReleaseSlot(slot[t]),
              IF r.mark = "submitted" THEN Settle(hold[t]) ELSE ReleaseHold(t))
  ELSE FinishLate(t)
FinishFailed(t, result) == FinishFailedAs(t, task[t], result)

\* _requeue_publish_confirmation: one more look later, or the outcome stays
\* unknown.  conf is one more than the attempts made, 0 before any submission.
Attempt(t) == IF task[t].conf = 0 THEN 1 ELSE task[t].conf
RequeuePublishConfirmation(t) ==
  LET sent == [task[t] EXCEPT !.conf = Attempt(t) + 1, !.mark = "submitted"] IN
  IF Status(t) # "running" THEN FinishFailed(t, "review")
  ELSE IF Attempt(t) < Attempts
  THEN /\ RequeueRow(t, [sent EXCEPT !.result = "noretry"])
       /\ slot' = [slot EXCEPT ![t] = SetSlot(@, "submitted")]
  ELSE FinishFailedAs(t, sent, "review")

-----------------------------------------------------------------------------
(* Requests that create tasks *)

\* create_social_task: capacity, reservation, row and slot in one transaction.
CapacityFree == Cardinality(Capacity) < Limit
NewTask(t, conf) ==
  /\ Status(t) = "none"
  /\ t \in Publish => CapacityFree
  /\ task' = [task EXCEPT ![t] = [NoRow EXCEPT !.status = "queued", !.conf = conf]]
  /\ slot' = IF t \in Publish THEN [slot EXCEPT ![t] = [state |-> "planned", day |-> day]] ELSE slot
  /\ hold' = [hold EXCEPT ![t] = "held"]
  /\ UNCHANGED <<lease, resv, up, run, left, req, clicks, day, stops>>
Create(t) ==
  /\ \A x \in Before(t) : Status(x) # "none"
  /\ NewTask(t, 0)
  /\ UNCHANGED <<post, asked>>

\* retry_social_task: a new row with the payload of the failed one, and so with
\* its confirmation context; refused when the result says retryable: False.
Retry(t, n) ==
  /\ "retry" \in Requests /\ asked < MaxRequests
  /\ Status(t) = "failed" /\ task[t].result = "plain"
  /\ Kind[n] = Kind[t] /\ Account[n] = Account[t] /\ ~InBatch(n)
  /\ NewTask(n, task[t].conf)
  /\ post' = [post EXCEPT ![n] = @ \cup post[t]]
  /\ asked' = asked + 1

-----------------------------------------------------------------------------
(* The worker: _claim_next_task and the recoveries it begins with *)

\* _release_terminal_task_billing_reservations
MutSwept == hold
Swept == [t \in Tasks |-> IF Status(t) \in {"failed", "cancelled"} THEN SettleOrRelease(t) ELSE hold[t]]
Sweep(p) ==
  /\ up[p] = "up"
  /\ hold' = Swept
  /\ hold' # hold
  /\ UNCHANGED <<task, slot, lease, resv, env>>

\* _cancel_stale_incomplete_publish_batches: an item was never created, or cleared.
CancelStaleBatch(p, b) ==
  /\ up[p] = "up"
  /\ \E t \in Members(b) : Status(t) \in Away
  /\ \A t \in Members(b) : Status(t) \notin Live
  /\ \E t \in Members(b) : Status(t) = "queued"
  /\ CancelRows(Members(b))
  /\ UNCHANGED env

\* _publish_batch_ready_for_claim of a row behind one that failed: the rest of
\* the batch ends too.
EndTail(p, t) ==
  /\ up[p] = "up"
  /\ Status(t) \in {"failed", "cancelled"}
  /\ \E x \in After(t) : Status(x) = "queued" /\ ~resv[x].live
  /\ LET tail == {x \in After(t) : Status(x) \in Active} IN
     /\ task' = [x \in Tasks |-> IF x \in tail THEN With(task[x], Status(t)) ELSE task[x]]
     /\ slot' = [x \in Tasks |-> IF x \in tail THEN ReleaseSlot(slot[x]) ELSE slot[x]]
     /\ hold' = [x \in Tasks |-> IF x \in tail THEN ReleaseHold(x) ELSE hold[x]]
     /\ lease' = [x \in Tasks |-> IF x \in tail THEN NoClaim ELSE lease[x]]
     /\ resv' = [x \in Tasks |-> IF x \in tail THEN NoClaim ELSE resv[x]]
  /\ UNCHANGED env

MutBatchReady(t) == ~resv[t].live /\ \A x \in Members(BatchOf(t)) : Status(x) \notin Away
BatchReady(t) ==
  /\ ~resv[t].live
  /\ \A x \in Members(BatchOf(t)) : Status(x) \notin Away
  /\ \A x \in Before(t) : Status(x) = "success"
\* No row of the account is live, and no control of this process is about it.
AccountFree(p, a) ==
  /\ Run(p, a).pc = "idle"
  /\ \A x \in Tasks : Account[x] = a => Status(x) \notin Live
MutQuotaFree(t) == TRUE
QuotaFree(t) == t \in Publish /\ slot[t].state \notin Spent => Cardinality(Executing) < Limit
Reserved(s) == IF s.state \in Spent THEN s ELSE SetSlotToday(s, "reserved")

ClaimTask(p, t) ==
  LET a == Account[t] IN
  /\ up[p] = "up"
  /\ Status(t) = "queued" /\ BatchReady(t) /\ AccountFree(p, a) /\ QuotaFree(t)
  /\ hold' = Swept
  /\ slot' = [slot EXCEPT ![t] = Reserved(@)]
  /\ task' = [task EXCEPT ![t] = With(@, "running")]
  /\ lease' = [lease EXCEPT ![t] = Claim(p)]
  /\ run' = [run EXCEPT ![p][a] = [pc |-> "claimed", items |-> <<t>>, i |-> 1, stop |-> FALSE]]
  /\ UNCHANGED <<resv, up, left, req, post, clicks, day, stops, asked>>

\* The cooldown after a confirmed post of the account puts a candidate off and
\* gives its reserved slot back.
Defer(p, t) ==
  /\ up[p] = "up"
  /\ t \in Publish /\ Status(t) = "queued" /\ BatchReady(t) /\ AccountFree(p, Account[t])
  /\ \E x \in Publish : Account[x] = Account[t] /\ Status(x) = "success"
  /\ slot[t].state = "reserved"
  /\ hold' = Swept
  /\ slot' = [slot EXCEPT ![t].state = "planned"]
  /\ UNCHANGED <<task, lease, resv, env>>

\* _recover_orphaned_publish_confirmation_tasks and _recover_orphaned_running_tasks:
\* a running row that this process does not run and whose lease has run out.
MutRecoverRunning(p, t) ==
  /\ up[p] = "up" /\ Status(t) = "running" /\ t \notin Controlled(p) /\ ~lease[t].live
  /\ RequeueRow(t, task[t])
  /\ UNCHANGED <<slot, env>>
RecoverRunning(p, t) ==
  /\ up[p] = "up"
  /\ Status(t) = "running" /\ t \notin Controlled(p) /\ ~lease[t].live
  /\ IF task[t].conf > 0
     THEN RequeueRow(t, task[t]) /\ UNCHANGED slot
     ELSE LET sent == t \in Publish /\ Committed(t) IN
          EndRow(t, [task[t] EXCEPT !.status = "failed", !.result = IF sent THEN "review" ELSE "noretry"],
                 IF sent THEN SetSlot(slot[t], "unknown") ELSE ReleaseSlot(slot[t]),
                 IF sent THEN hold[t] ELSE ReleaseHold(t))
  /\ UNCHANGED env

\* _recover_orphaned_manual_task: gives the points back, and leaves the batch alone.
RecoverManual(p, t) ==
  /\ up[p] = "up"
  /\ Status(t) = "need_manual" /\ t \notin Controlled(p) /\ ~lease[t].live
  /\ task' = [task EXCEPT ![t].status = "failed", ![t].result = "noretry"]
  /\ slot' = [slot EXCEPT ![t] = ReleaseSlot(@)]
  /\ hold' = [hold EXCEPT ![t] = ReleaseHold(t)]
  /\ UNCHANGED <<lease, resv, env>>

-----------------------------------------------------------------------------
(* The runner: _execute_claimed_task and the browser session it drives *)

\* _claim_publish_batch_tail: the queued rows that follow directly, up to the
\* first one that another process has reserved.
TailEnd(p, t) ==
  LET b == BatchOf(t)
      ok(i) == Status(b[i]) = "queued" /\ ~(resv[b[i]].live /\ resv[b[i]].by # p)
  IN CHOOSE n \in Place(t)..Len(b) :
       /\ \A i \in (Place(t) + 1)..n : ok(i)
       /\ n < Len(b) => ~ok(n + 1)
ClaimTail(p, a) ==
  LET t == Item(p, a)
      mine == Status(t) \in Live /\ lease[t].by \in {p, None}
      items == IF mine THEN SubSeq(BatchOf(t), Place(t), TailEnd(p, t)) ELSE <<t>>
      tail == Members(items) \ {t}
  IN
  /\ At(p, a, {"claimed"})
  /\ lease' = IF mine /\ InBatch(t) /\ lease[t].by = None THEN [lease EXCEPT ![t] = Claim(p)] ELSE lease
  /\ slot' = [x \in Tasks |-> IF x \in tail THEN Reserved(slot[x]) ELSE slot[x]]
  /\ resv' = [x \in Tasks |-> IF x \in tail THEN Claim(p) ELSE resv[x]]
  /\ run' = [run EXCEPT ![p][a].items = items, ![p][a].pc = "start"]
  /\ UNCHANGED <<task, hold, clicks, others>>

\* _persist_shutdown_task_state of an active row.
ShutdownRow(t) ==
  IF task[t].conf > 0 /\ Status(t) \in Live THEN RequeueRow(t, task[t]) /\ UNCHANGED slot
  ELSE IF t \in Publish /\ Committed(t) /\ Status(t) \in Active
  THEN /\ task' = [task EXCEPT ![t].status = "failed", ![t].result = "review"]
       /\ slot' = [slot EXCEPT ![t] = SetSlot(@, "unknown")]
       /\ lease' = [lease EXCEPT ![t] = NoClaim]
       /\ resv' = [resv EXCEPT ![t] = NoClaim]
       /\ UNCHANGED hold
  ELSE CancelRows({t})
\* The service is stopping, or the row was cancelled before the browser opens.
StartStopped(p, a) ==
  /\ At(p, a, {"start"})
  /\ \/ /\ up[p] = "stopping"
        /\ left' = [left EXCEPT ![p] = @ \cup Members(Run(p, a).items)]
     \/ /\ up[p] = "up" /\ Cancelled(Item(p, a))
        /\ UNCHANGED left
  /\ Go(p, a, "leaving")
  /\ UNCHANGED <<rows, up, req, post, clicks, day, stops, asked>>
Start(p, a) ==
  /\ At(p, a, {"start"})
  /\ up[p] = "up" /\ ~Cancelled(Item(p, a))
  /\ Go(p, a, IF Len(Run(p, a).items) > 1 THEN "next" ELSE "work")
  /\ UNCHANGED <<rows, clicks, others>>

\* _mark_publish_batch_item_running; an item it refuses ends the batch.
MayMark(p, t) ==
  /\ \A x \in Before(t) : Status(x) = "success"
  /\ \/ Status(t) = "queued" /\ resv[t] = Claim(p)
     \/ Status(t) \in Live /\ lease[t].by = p
MarkItem(p, a) ==
  LET t == Item(p, a) IN
  /\ At(p, a, {"next"})
  /\ IF MayMark(p, t)
     THEN /\ task' = [task EXCEPT ![t] = IF Status(t) = "queued" THEN With(@, "running") ELSE @]
          /\ lease' = [lease EXCEPT ![t] = IF Status(t) = "queued" THEN Claim(p) ELSE @]
          /\ Go(p, a, "work")
     ELSE UNCHANGED <<task, lease>> /\ Go(p, a, "raised")
  /\ UNCHANGED <<slot, hold, resv, clicks, others>>

\* _run_publish_submit_guard and _run_billing_submit_guard up to the action:
\* take the lock, refuse when cancelled, save that the submission is under way.
Arm(p, a) ==
  LET t == Item(p, a) IN
  /\ At(p, a, {"work"}) /\ task[t].conf = 0
  /\ IF ~Run(p, a).stop /\ Status(t) \in Live
     THEN /\ task' = [task EXCEPT ![t].mark = IF t \in Publish THEN "submitted"
                                             ELSE IF @ = "none" THEN "submitting" ELSE @]
          /\ slot' = [slot EXCEPT ![t] = SetSlotToday(@, "armed")]
          /\ Go(p, a, "armed")
     ELSE UNCHANGED <<task, slot>> /\ Go(p, a, "raised")
  /\ UNCHANGED <<hold, lease, resv, clicks, others>>

\* _persist_publish_confirmation_context, which Threads asks for before the click.
PersistConfirmation(p, a) ==
  LET t == Item(p, a)
      fits == slot[t].day = day \/ Cardinality(Executing \ {t}) < Limit
  IN
  /\ At(p, a, {"armed"}) /\ Kind[t] = "threads"
  /\ IF Status(t) = "running" /\ fits
     THEN /\ task' = [task EXCEPT ![t].conf = IF @ = 0 THEN 1 ELSE @, ![t].mark = "submitted"]
          /\ slot' = [slot EXCEPT ![t] = SetSlotToday(@, "armed")]
          /\ Go(p, a, "ready")
     ELSE UNCHANGED <<task, slot>> /\ Go(p, a, "raised")
  /\ UNCHANGED <<hold, lease, resv, clicks, others>>

\* The irreversible click; it releases the lock, except that an interaction
\* is counted first.
Click(p, a) ==
  LET t == Item(p, a) IN
  /\ \/ At(p, a, {"ready"})
     \/ At(p, a, {"armed"}) /\ Kind[t] # "threads"
  /\ clicks' = [clicks EXCEPT ![t] = @ + 1]
  /\ Go(p, a, IF Kind[t] = "comment" THEN "clicked" ELSE "posted")
  /\ UNCHANGED <<rows, others>>
\* _persist_billing_committed_quantity
CommitAction(p, a) ==
  LET t == Item(p, a) IN
  /\ At(p, a, {"clicked"})
  /\ IF Status(t) \in Live
     THEN task' = [task EXCEPT ![t].mark = "submitted"] /\ Go(p, a, "posted")
     ELSE UNCHANGED task /\ Go(p, a, "raised")
  /\ UNCHANGED <<slot, hold, lease, resv, clicks, others>>

\* Any page operation may raise.
Raise(p, a) ==
  /\ At(p, a, {"next", "work", "armed", "ready", "clicked", "posted"})
  /\ Go(p, a, "raised")
  /\ UNCHANGED <<rows, clicks, others>>

-----------------------------------------------------------------------------
(* How a run ends *)

\* The handlers look once more whether the row was cancelled.
Unless(t, A) == IF Cancelled(t) THEN UNCHANGED rows ELSE A
Confirming(p, a) == At(p, a, {"work"}) /\ task[Item(p, a)].conf > 0

OnPlatform(t) == \E n \in Tasks : post[n] \cap post[t] # {} /\ clicks[n] > 0

\* The post or comment is visible; a batch goes on with its next item
\* (_finish_publish_batch_item, _execute_claimed_task_with_control).
Succeed(p, a) ==
  LET t == Item(p, a)
      more == Run(p, a).i < Len(Run(p, a).items)
  IN
  /\ At(p, a, {"posted"}) \/ (Confirming(p, a) /\ OnPlatform(t))
  /\ Unless(t, FinishSuccess(t))
  /\ run' = [run EXCEPT ![p][a] = IF ~more THEN [@ EXCEPT !.pc = "leaving"]
                                 ELSE IF Status(t) \in Live THEN [@ EXCEPT !.pc = "next", !.i = Run(p, a).i + 1]
                                 ELSE [@ EXCEPT !.pc = "raised"]]
  /\ UNCHANGED <<clicks, others>>

\* PublishConfirmationPendingError
Pending(p, a) ==
  LET t == Item(p, a) IN
  /\ At(p, a, {"posted"}) \/ Confirming(p, a)
  /\ t \in Publish
  /\ Unless(t, RequeuePublishConfirmation(t))
  /\ Go(p, a, "leaving")
  /\ UNCHANGED <<clicks, others>>
\* PublishOutcomeUnknownError, ActionOutcomeUnknownError
OutcomeUnknown(p, a) ==
  LET t == Item(p, a) IN
  /\ At(p, a, {"posted"})
  /\ Kind[t] # "threads"
  /\ Unless(t, FinishFailed(t, "review"))
  /\ Go(p, a, "leaving")
  /\ UNCHANGED <<clicks, others>>
\* AutoLoginFailedError, UnsupportedActionError
LoginFailed(p, a) ==
  LET t == Item(p, a) IN
  /\ At(p, a, {"work"})
  /\ Unless(t, FinishFailed(t, "plain"))
  /\ Go(p, a, "leaving")
  /\ UNCHANGED <<clicks, others>>
\* NeedManualError: the platform asks for a person.
NeedManual(p, a) ==
  LET t == Item(p, a) IN
  /\ At(p, a, {"work"}) /\ "takeover" \in Requests
  /\ IF Status(t) \in Live
     THEN /\ task' = [task EXCEPT ![t].status = "need_manual", ![t].result = "plain"]
          /\ slot' = [slot EXCEPT ![t] = SetSlot(@, IF Committed(t) THEN "unknown" ELSE "reserved")]
          /\ UNCHANGED <<hold, lease, resv>>
     ELSE Unless(t, FinishLate(t))
  /\ Go(p, a, "leaving")
  /\ UNCHANGED <<clicks, others>>

\* _fail_task_safely.  A batch whose cancel_event is set is left to whoever set it.
RetryRow(t) ==
  /\ task' = [task EXCEPT ![t].status = "queued", ![t].tries = @ + 1]
  /\ lease' = [lease EXCEPT ![t] = NoClaim]
  /\ resv' = [resv EXCEPT ![t] = NoClaim]
  /\ UNCHANGED <<slot, hold>>
FailSafely(p, a) ==
  LET t == Item(p, a)
      batch == Len(Run(p, a).items) > 1
  IN
  /\ At(p, a, {"raised"})
  /\ IF (batch /\ Run(p, a).stop) \/ (~batch /\ Status(t) = "need_manual") THEN UNCHANGED rows
     ELSE Unless(t, IF task[t].conf > 0 THEN RequeuePublishConfirmation(t)
                    ELSE IF t \notin Publish /\ task[t].tries < Retries /\ Status(t) = "running" THEN RetryRow(t)
                    ELSE FinishFailed(t, "plain"))
  /\ Go(p, a, "leaving")
  /\ UNCHANGED <<clicks, others>>

\* _run_social_task_in_clean_thread stops waiting for a runner once cancel_event
\* is set; the runner cannot click any more.
StopReturn(p, a) ==
  LET t == Item(p, a) IN
  /\ At(p, a, {"next", "work", "posted"}) /\ Run(p, a).stop
  /\ IF Len(Run(p, a).items) > 1 THEN UNCHANGED rows ELSE Unless(t, FinishFailed(t, "plain"))
  /\ Go(p, a, "leaving")
  /\ UNCHANGED <<clicks, others>>

\* _finalize_detached_manual_tasks, and the control is forgotten.
Leave(p, a) ==
  LET manual == {x \in Members(Run(p, a).items) : Status(x) = "need_manual"} IN
  /\ At(p, a, {"leaving"})
  /\ IF manual = {} THEN UNCHANGED rows ELSE FinishFailed(CHOOSE x \in manual : TRUE, "noretry")
  /\ run' = [run EXCEPT ![p][a] = Idle]
  /\ UNCHANGED <<clicks, others>>

\* _persist_manual_takeover_ack and _persist_manual_takeover_resolved: a person
\* takes the browser over at a safe point and gives it back.
TakeOver(p, a) ==
  /\ "takeover" \in Requests /\ asked < MaxRequests
  /\ At(p, a, {"work", "posted"}) /\ Status(Item(p, a)) = "running"
  /\ task' = [task EXCEPT ![Item(p, a)].status = "need_manual"]
  /\ asked' = asked + 1
  /\ UNCHANGED <<slot, hold, lease, resv, up, run, left, req, post, clicks, day, stops>>
GiveBack(p, a) ==
  /\ At(p, a, {"work", "posted"}) /\ Status(Item(p, a)) = "need_manual"
  /\ task' = [task EXCEPT ![Item(p, a)].status = "running"]
  /\ UNCHANGED <<slot, hold, lease, resv, env>>

-----------------------------------------------------------------------------
(* Requests that stop tasks, served by process p *)

Asks(p, kind) == kind \in Requests /\ asked < MaxRequests /\ up[p] = "up" /\ req = NoReq
\* cancel_social_task first signals a runner of this process, waiting for its lock.
CancelSignal(p, t) ==
  /\ Asks(p, "cancel") /\ Status(t) \notin Away
  /\ MaySignal({t}, p)
  /\ run' = Signalled({t}, p)
  /\ req' = [pc |-> "cancel", at |-> p, ts |-> {t}, of |-> {}]
  /\ asked' = asked + 1
  /\ UNCHANGED <<rows, up, left, post, clicks, day, stops>>
CancelTx(t) ==
  LET ts == Members(BatchOf(t))
      hit == \E x \in ts : Status(x) \in Active
  IN
  /\ req.pc = "cancel" /\ t \in req.ts
  /\ IF Status(t) \in Away THEN UNCHANGED rows
     ELSE IF ~hit /\ ~InBatch(t) THEN FinishLate(t) ELSE CancelRows(ts)
  /\ req' = IF hit /\ Status(t) \notin Away THEN [req EXCEPT !.pc = "stop", !.ts = {BatchOf(t)[1]}] ELSE NoReq
  /\ UNCHANGED <<up, run, left, post, clicks, day, stops, asked>>

\* cancel_all_social_tasks: the rows it hands to _release_task_billing_reservation
\* carry neither payload nor result.
StopAll(p) ==
  LET ts == {t \in Tasks : Status(t) \in Active} IN
  /\ Asks(p, "stop_all") /\ ts # {}
  /\ task' = [t \in Tasks |-> IF t \in ts THEN With(task[t], "cancelled") ELSE task[t]]
  /\ slot' = [t \in Tasks |-> IF t \in ts THEN ReleaseSlot(slot[t]) ELSE slot[t]]
  /\ hold' = [t \in Tasks |-> IF t \in ts THEN Release(hold[t]) ELSE hold[t]]
  /\ req' = [pc |-> "stop", at |-> p, ts |-> ts, of |-> {}]
  /\ asked' = asked + 1
  /\ UNCHANGED <<lease, resv, up, run, left, post, clicks, day, stops>>

\* clear_social_task: cancel, stop the runners, then delete the rows.
Clear(p, t) ==
  LET ts == {x \in Members(BatchOf(t)) : Status(x) \notin Away} IN
  /\ Asks(p, "clear") /\ Status(t) \notin Away
  /\ task' = [x \in Tasks |-> IF x \in ts /\ Status(x) \in Active THEN With(task[x], "cancelled") ELSE task[x]]
  /\ slot' = [x \in Tasks |-> IF x \in ts THEN ReleaseSlot(slot[x]) ELSE slot[x]]
  /\ req' = [pc |-> "stop", at |-> p, ts |-> {x \in ts : Status(x) \in Live}, of |-> ts]
  /\ asked' = asked + 1
  /\ UNCHANGED <<hold, lease, resv, up, run, left, post, clicks, day, stops>>
\* _force_stop_running_task, one task after the other.
StopOne(t) ==
  /\ req.pc = "stop" /\ t \in req.ts
  /\ MaySignal({t}, req.at)
  /\ run' = Signalled({t}, req.at)
  /\ req' = IF req.ts = {t} /\ req.of = {} THEN NoReq ELSE [req EXCEPT !.ts = @ \ {t}]
  /\ UNCHANGED <<rows, up, left, post, clicks, day, stops, asked>>
Wipe ==
  /\ req.pc = "stop" /\ req.ts = {} /\ req.of # {}
  /\ hold' = [x \in Tasks |-> IF x \in req.of THEN SettleOrRelease(x) ELSE hold[x]]
  /\ task' = [x \in Tasks |-> IF x \in req.of THEN With(task[x], "deleted") ELSE task[x]]
  /\ req' = NoReq
  /\ UNCHANGED <<slot, lease, resv, up, run, left, post, clicks, day, stops, asked>>

-----------------------------------------------------------------------------
(* Shutdown, crash, restart and time *)

\* stop_social_automation_worker: save the state of every registered task, one
\* transaction each, and only then signal the runners.
Shutdown(p) ==
  /\ "shutdown" \in Faults /\ stops < MaxStops /\ up[p] = "up"
  /\ up' = [up EXCEPT ![p] = "stopping"]
  /\ left' = [left EXCEPT ![p] = Controlled(p)]
  /\ stops' = stops + 1
  /\ UNCHANGED <<rows, run, req, post, clicks, day, asked>>
SaveShutdown(p, t) ==
  /\ up[p] = "stopping" /\ t \in left[p]
  /\ ShutdownRow(t)
  /\ left' = [left EXCEPT ![p] = @ \ {t}]
  /\ UNCHANGED <<up, run, req, post, clicks, day, stops, asked>>
ShutdownSignal(p, a) ==
  /\ up[p] = "stopping" /\ left[p] = {}
  /\ Run(p, a).pc \notin {"idle", "claimed"} /\ ~Run(p, a).stop /\ ~Locked(p, a)
  /\ run' = [run EXCEPT ![p][a].stop = TRUE]
  /\ UNCHANGED <<rows, clicks, others>>

\* The process ends: its threads are gone, its claims stay until they run out.
Orphaned(c, p) == [t \in Tasks |-> IF c[t].by = p THEN [c[t] EXCEPT !.by = Gone] ELSE c[t]]
End(p) ==
  /\ up' = [up EXCEPT ![p] = "down"]
  /\ run' = [run EXCEPT ![p] = [a \in Accounts |-> Idle]]
  /\ left' = [left EXCEPT ![p] = {}]
  /\ req' = IF req.at = p THEN NoReq ELSE req
  /\ lease' = Orphaned(lease, p)
  /\ resv' = Orphaned(resv, p)
  /\ UNCHANGED <<task, slot, hold, post, clicks, day, asked>>
Exit(p) == up[p] = "stopping" /\ left[p] = {} /\ End(p) /\ UNCHANGED stops
Crash(p) == "crash" \in Faults /\ stops < MaxStops /\ up[p] # "down" /\ End(p) /\ stops' = stops + 1
Restart(p) ==
  /\ up[p] = "down"
  /\ up' = [up EXCEPT ![p] = "up"]
  /\ UNCHANGED <<rows, run, left, req, post, clicks, day, stops, asked>>

\* A claim runs out when nobody renews it: no runner works on the task any more,
\* or its process stalls.
Abandoned(t, c) == c.by \in Procs => \A a \in Accounts : t \notin Members(Run(c.by, a).items)
MayExpire(t, c) == c.live /\ (Abandoned(t, c) \/ ("stall" \in Faults /\ stops < MaxStops))
Stalled(t, c) == IF Abandoned(t, c) THEN stops ELSE stops + 1
ExpireLease(t) ==
  /\ MayExpire(t, lease[t])
  /\ lease' = [lease EXCEPT ![t].live = FALSE]
  /\ stops' = Stalled(t, lease[t])
  /\ UNCHANGED <<task, slot, hold, resv, up, run, left, req, post, clicks, day, asked>>
ExpireReservation(t) ==
  /\ MayExpire(t, resv[t])
  /\ resv' = [resv EXCEPT ![t].live = FALSE]
  /\ stops' = Stalled(t, resv[t])
  /\ UNCHANGED <<task, slot, hold, lease, up, run, left, req, post, clicks, day, asked>>
\* _renew_task_leases of the rows a runner works on.
Renew(p, a) ==
  LET mine == Members(Run(p, a).items) IN
  /\ At(p, a, {"next", "work", "armed", "ready", "clicked", "posted"})
  /\ lease' = [t \in Tasks |-> IF t \in mine /\ Status(t) \in Live /\ lease[t].by = p THEN Claim(p) ELSE lease[t]]
  /\ resv' = [t \in Tasks |-> IF t \in mine /\ Status(t) \in Active /\ resv[t].by = p THEN Claim(p) ELSE resv[t]]
  /\ <<lease, resv>>' # <<lease, resv>>
  /\ UNCHANGED <<task, slot, hold, env>>
NextDay ==
  /\ day < LastDay
  /\ day' = day + 1
  /\ UNCHANGED <<rows, up, run, left, req, post, clicks, stops, asked>>

-----------------------------------------------------------------------------
(* The specification *)

Worker(p) ==
  \/ Sweep(p)
  \/ \E b \in Batches : CancelStaleBatch(p, b)
  \/ \E t \in Tasks : EndTail(p, t) \/ RecoverRunning(p, t) \/ RecoverManual(p, t)
  \/ \E t \in Tasks : ClaimTask(p, t) \/ Defer(p, t)
Session(p, a) ==
  \/ ClaimTail(p, a) \/ StartStopped(p, a) \/ Start(p, a) \/ MarkItem(p, a)
  \/ Arm(p, a) \/ PersistConfirmation(p, a) \/ Click(p, a) \/ CommitAction(p, a)
  \/ Succeed(p, a) \/ Pending(p, a) \/ OutcomeUnknown(p, a) \/ LoginFailed(p, a) \/ NeedManual(p, a)
  \/ Raise(p, a) \/ FailSafely(p, a) \/ StopReturn(p, a) \/ Leave(p, a)
Serve ==
  \/ \E t \in Tasks : CancelTx(t) \/ StopOne(t)
  \/ Wipe
Client ==
  \/ \E t \in Tasks : Create(t)
  \/ \E t, n \in Tasks : Retry(t, n)
  \/ \E p \in Procs, t \in Tasks : CancelSignal(p, t) \/ Clear(p, t)
  \/ \E p \in Procs : StopAll(p)
  \/ \E p \in Procs, a \in Accounts : TakeOver(p, a) \/ GiveBack(p, a)
Stopping(p) ==
  \/ \E t \in Tasks : SaveShutdown(p, t)
  \/ \E a \in Accounts : ShutdownSignal(p, a)
  \/ Exit(p) \/ Restart(p)
Time ==
  \/ \E t \in Tasks : ExpireLease(t) \/ ExpireReservation(t)
  \/ NextDay
Next ==
  \/ Client \/ Serve \/ Time
  \/ \E p \in Procs : Worker(p) \/ Stopping(p) \/ Shutdown(p) \/ Crash(p)
  \/ \E p \in Procs, a \in Accounts : Session(p, a) \/ Renew(p, a)

Spec == Init /\ [][Next]_vars

\* The worker loop claims what it can, a session goes on to its end, a request
\* that was begun is finished, a stopped process is started again and a claim
\* that nobody renews runs out.
Fairness ==
  /\ \A p \in Procs : WF_vars(Worker(p)) /\ WF_vars(Stopping(p))
  /\ \A p \in Procs, a \in Accounts : WF_vars(Session(p, a))
  /\ WF_vars(Serve)
  /\ \A t \in Tasks : WF_vars(Abandoned(t, lease[t]) /\ ExpireLease(t)) /\ WF_vars(Abandoned(t, resv[t]) /\ ExpireReservation(t))
FairSpec == Spec /\ Fairness

-----------------------------------------------------------------------------
(* Properties *)

\* Type correctness.
TypeOK ==
  /\ task \in [Tasks -> [status : Active \cup Final \cup Away, mark : {"none", "submitting", "submitted"},
                         conf : 0..(Attempts + 1), result : {"plain", "noretry", "review"}, tries : 0..Retries]]
  /\ slot \in [Tasks -> [state : Spent \cup {"none", "planned", "reserved", "released"}, day : 0..LastDay]]
  /\ hold \in [Tasks -> {"none", "held", "settled", "released"}]
  /\ lease \in [Tasks -> [by : Procs \cup {None, Gone}, live : BOOLEAN]]
  /\ resv \in [Tasks -> [by : Procs \cup {None, Gone}, live : BOOLEAN]]
  /\ up \in [Procs -> {"up", "stopping", "down"}]
  /\ \A p \in Procs, a \in Accounts :
       /\ Run(p, a).pc \in {"idle", "claimed", "start", "next", "work", "armed", "ready", "clicked",
                            "posted", "raised", "leaving"}
       /\ Run(p, a).pc # "idle" => Run(p, a).i \in DOMAIN Run(p, a).items
  /\ left \in [Procs -> SUBSET Tasks]
  /\ req.pc \in {"none", "cancel", "stop"}
  /\ post \in [Tasks -> SUBSET Tasks]
  /\ clicks \in [Tasks -> Nat]

\* A post goes out at most once, whatever crashes, lost confirmations, lease
\* expiries and retries happen: what a task or one it retries has sent is not
\* sent again.  Only an Instagram post that failed plainly may be sent again by a
\* retry of the user (retry_social_task).
PostedOnce ==
  \A t \in Publish :
    /\ clicks[t] <= 1
    /\ Kind[t] = "threads" => \A n \in Tasks \ {t} : t \in post[n] => clicks[t] + clicks[n] <= 1

\* A post that may be on the platform stays counted in the daily quota.
SlotAccounts == \A t \in Publish : clicks[t] > 0 => slot[t].state \in Spent

\* No day sees more posts than the limit, counting those whose outcome is unknown.
DailyLimit == \A d \in 0..LastDay : Cardinality({t \in Tasks : slot[t].state \in Spent /\ slot[t].day = d}) <= Limit

\* The later items of batches: reserved without a check when the batch is claimed.
Later == {t \in Tasks : Before(t) # {}}
\* With batches the limit holds for all other posts, which are claimed one by one;
\* the later items take room from them (_claim_publish_batch_tail).
FirstsWithinLimit ==
  \A d \in 0..LastDay : Cardinality({t \in Tasks \ Later : slot[t].state \in Spent /\ slot[t].day = d}) <= Limit

\* The items of a batch are submitted in order: when one is about to be, all
\* before it were published.
BatchOrder ==
  \A p \in Procs, a \in Accounts :
    Locked(p, a) => \A x \in Before(Item(p, a)) : Status(x) \in {"success", "deleted"}

\* Once a request to cancel, stop or clear has been answered, no runner of that
\* process is about to click for the task.  (A runner that resumes a batch behind
\* its first item is only found through an item of its own: cancel_social_task
\* signals the control of the first item.)
QuietAfterCancel ==
  \A p \in Procs, a \in Accounts :
    /\ Locked(p, a) /\ Cancelled(Item(p, a)) /\ up[p] = "up"
    /\ BatchOf(Item(p, a))[1] \in Members(Run(p, a).items)
    => req.pc = "stop"

\* A slot is not kept by a task that ended without submitting anything.
NoLostSlot ==
  \A t \in Publish : Status(t) \in {"failed", "cancelled", "deleted"} /\ ~Committed(t) => slot[t].state \in {"none", "released"}

\* Rows, slots and runners fit together: types, and the two directions of the
\* daily quota above.
RowsConsistent == TypeOK /\ SlotAccounts /\ NoLostSlot

\* What the platform sees: each post at most once, and batches in order.
PostsInOrder == PostedOnce /\ BatchOrder

\* Points are returned only for a post that is not, and will not be, on the
\* platform; nothing is posted without points held or charged.
Money == [t \in Publish |-> CASE hold[t] = "settled" -> "charged" [] hold[t] = "released" -> "returned" [] OTHER -> hold[t]]
Done == [t \in Publish |-> clicks[t] > 0]
Paid == INSTANCE Escrow WITH Jobs <- Publish, money <- Money, done <- Done
PaidSpec == Paid!Spec

\* The points of a post that went out are not given back.  The code does not
\* guarantee it: cancel_all_social_tasks releases them (README, section 6).
PostsPaid == \A t \in Publish : clicks[t] > 0 => hold[t] # "released"

\* Points on hold are charged or returned in the end, whoever cancels, stops or
\* crashes; only a task whose outcome needs review keeps them, and one that waits
\* for the quota of another day.
HoldsEnd == \A t \in Tasks : hold[t] = "held" ~> (hold[t] # "held" \/ task[t].result = "review" \/ ~QuotaFree(t))
=============================================================================
