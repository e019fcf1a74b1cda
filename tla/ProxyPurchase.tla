---------------------------- MODULE ProxyPurchase ----------------------------
(***************************************************************************)
(* Buying a proxy from the supplier (proxy_purchases.py): quotes, the      *)
(* one-shot Execute call between two local transactions, reconciliation    *)
(* with the supplier, its webhook events, delivery of the owned asset,     *)
(* manual resolution and the monthly free proxy of proxy_purchase_api.py.  *)
(*                                                                         *)
(* Every block between BEGIN IMMEDIATE and commit is one action.  Calls to *)
(* the supplier run outside of transactions: what a call returned is kept  *)
(* in the thread (call[t]) and applied by a later action, so it may be     *)
(* stale by then.  Threads are request handlers, the reconcile worker and  *)
(* administrators; each may die between any two actions.  Points are the   *)
(* reservations of Billing, reduced to their status.                       *)
(***************************************************************************)
EXTENDS Integers, FiniteSets

CONSTANTS
  Threads,        \* request handlers, workers, administrators' requests
  Quotes,         \* quote ids
  PaidKeys,       \* idempotency keys chosen by the client
  MaxFree,        \* bound: attempts at the monthly free proxy
  SupplierOrders, \* order ids of the supplier
  ProxyOf,        \* [SupplierOrders -> Proxies]: the proxy each one delivers
  Proxies,        \* proxy ids of the supplier
  Events,         \* ids of the supplier's webhook events
  None,           \* no id
  Crashes,        \* whether threads may die
  Mistakes        \* whether an administrator may bind another purchase's order

\* Orders are named by their key, which is unique per user.
FreeKey(n) == <<"monthly-free", n>>
FreeKeys == {FreeKey(n) : n \in 1 .. MaxFree}
Keys == PaidKeys \cup FreeKeys

ASSUME PurchaseConstants ==
  /\ MaxFree \in Nat
  /\ ProxyOf \in [SupplierOrders -> Proxies]
  /\ None \notin Keys \cup Quotes \cup SupplierOrders \cup Events
  /\ PaidKeys \cap FreeKeys = {}
  /\ SupplierOrders \cap {"rejected", "unknown", "noid"} = {}
  /\ Crashes \in BOOLEAN /\ Mistakes \in BOOLEAN

VARIABLES
  quote,     \* proxy_purchase_quotes: status, and whether expires_at has passed
  order,     \* proxy_purchase_orders
  resv,      \* status of the order's billing reservation
  item,      \* proxy_market_items with its social_proxies row, by proxy id
  supplier,  \* the supplier's own orders, and the purchase they were placed for
  event,     \* proxy_purchase_events: processing_status, and the supplier order it names
  audit,     \* orders whose points an administrator gave back by hand
  call       \* local state of the threads

vars == <<quote, order, resv, item, supplier, audit, event, call>>
tables == <<quote, order, resv, item, audit, event>>

Terminal == {"failed", "expired"}
Resolvable == {"provider_unknown", "provisioning", "failed", "active"}
NoOrder == [status |-> "none", quote |-> None, poid |-> None, err |-> ""]
Idle == [pc |-> "idle", key |-> None, quote |-> None, out |-> None, seen |-> "none",
         inline |-> FALSE, event |-> None]

Init ==
  /\ quote = [q \in Quotes |-> [status |-> "none", expired |-> FALSE]]
  /\ order = [k \in Keys |-> NoOrder]
  /\ resv = [k \in Keys |-> "none"]
  /\ item = [x \in Proxies |-> [owner |-> None, live |-> FALSE]]
  /\ supplier = [p \in SupplierOrders |-> [state |-> "none", for |-> None]]
  /\ audit = {}
  /\ event = [e \in Events |-> [status |-> "none", of |-> None]]
  /\ call = [t \in Threads |-> Idle]

At(t, pc) == call[t].pc = pc
Stop(t) == call' = [call EXCEPT ![t] = Idle]
\* A thread returns, with what it means for the webhook event it handles, if any.
Leave(t, as) ==
  call' = [call EXCEPT ![t] = IF call[t].event = None THEN Idle
                              ELSE [Idle EXCEPT !.pc = as, !.event = call[t].event]]
Return(t) == Leave(t, "processed")
Delivered(k) == \E x \in Proxies : item[x].owner = k

-----------------------------------------------------------------------------
(* Billing, as the purchase uses it *)

\* release_reservation: a hold that is not held any more is left alone.
Release(k) == IF resv[k] = "held" THEN [resv EXCEPT ![k] = "released"] ELSE resv
Settle(k) == IF resv[k] = "held" THEN [resv EXCEPT ![k] = "settled"] ELSE resv
\* _refund_or_release_failed_order.
RefundOrRelease(k) ==
  CASE resv[k] = "held"    -> [resv EXCEPT ![k] = "released"]
    [] resv[k] = "settled" -> [resv EXCEPT ![k] = "refunded"]
    [] OTHER               -> resv

-----------------------------------------------------------------------------
(* Quotes *)

CreateQuote(q) ==
  /\ quote[q].status = "none"
  /\ quote' = [quote EXCEPT ![q].status = "open"]
  /\ UNCHANGED <<order, resv, item, supplier, audit, event, call>>

\* The clock passes expires_at; the row keeps its status.  (Nobody looks at the
\* expiry of a used quote, so it is forgotten with the use.)
QuoteExpires(q) ==
  /\ quote[q].status = "open" /\ ~quote[q].expired
  /\ quote' = [quote EXCEPT ![q].expired = TRUE]
  /\ UNCHANGED <<order, resv, item, supplier, audit, event, call>>

-----------------------------------------------------------------------------
(* create_order *)

\* The checks before the lock.  An order with this key answers the request.
BeginOrder(t, k, q) ==
  /\ At(t, "idle")
  /\ order[k].status = "none"
  /\ quote[q].status = "open" /\ ~quote[q].expired
  /\ call' = [call EXCEPT ![t] = [Idle EXCEPT !.pc = "lock", !.key = k, !.quote = q]]
  /\ UNCHANGED tables /\ UNCHANGED supplier

\* api_proxy_purchase_monthly_free: the allowance is unused; the quote is
\* committed before the attempts are counted.
FreeUsed == \E k \in FreeKeys : order[k].status \notin {"none", "failed"}

BeginFree(t, q) ==
  /\ At(t, "idle")
  /\ ~FreeUsed
  /\ quote[q].status = "none"
  /\ quote' = [quote EXCEPT ![q].status = "open"]
  /\ call' = [call EXCEPT ![t] = [Idle EXCEPT !.pc = "count", !.quote = q]]
  /\ UNCHANGED <<order, resv, item, supplier, audit, event>>

Attempts == Cardinality({k \in FreeKeys : order[k].status # "none"})

CountAttempts(t) ==
  /\ At(t, "count")
  /\ Attempts < MaxFree
  /\ ~quote[call[t].quote].expired
  /\ call' = [call EXCEPT ![t].pc = "lock", ![t].key = FreeKey(Attempts + 1)]
  /\ UNCHANGED tables /\ UNCHANGED supplier

\* A request ends with an error before it takes the lock: the quote expired or
\* was repriced, the configuration was retired, a limit or a balance is too low.
Refuse(t) ==
  /\ call[t].pc \in {"count", "lock"}
  /\ Return(t)
  /\ UNCHANGED tables /\ UNCHANGED supplier

\* BEGIN IMMEDIATE: look again for the key and for the quote.  The expiry is
\* compared with the time the request began, so it cannot fail any more.
MutUsable(t) == order[call[t].key].status = "none"
Usable(t) ==
  /\ order[call[t].key].status = "none"
  /\ quote[call[t].quote].status = "open"

\* The hold (waived for administrators and the free proxy), the order and the
\* used quote are committed before the supplier is called.
ReserveOrder(t, hold) ==
  LET k == call[t].key
  IN /\ At(t, "lock") /\ Usable(t)
     /\ k \in FreeKeys => hold = "waived"
     /\ resv' = [resv EXCEPT ![k] = hold]
     /\ order' = [order EXCEPT ![k] = [status |-> "reserved", quote |-> call[t].quote,
                                       poid |-> None, err |-> ""]]
     /\ quote' = [quote EXCEPT ![call[t].quote] = [status |-> "accepted", expired |-> FALSE]]
     /\ call' = [call EXCEPT ![t].pc = "execute"]
     /\ UNCHANGED <<item, supplier, audit, event>>

LoseRace(t) ==
  /\ At(t, "lock") /\ ~Usable(t)
  /\ Return(t)
  /\ UNCHANGED tables /\ UNCHANGED supplier

\* provider.execute places an order; its answer has the order's id, lacks it,
\* or is lost (ProxyProviderOutcomeUnknown).
ExecutePlaced(t, p, out) ==
  /\ At(t, "execute")
  /\ supplier[p].state = "none"
  /\ supplier' = [supplier EXCEPT ![p] = [state |-> "pending", for |-> call[t].key]]
  /\ call' = [call EXCEPT ![t].pc = "record", ![t].out = out]
  /\ UNCHANGED tables

\* provider.execute places nothing: refused outright, or nobody can tell.
ExecuteRefused(t, out) ==
  /\ At(t, "execute")
  /\ call' = [call EXCEPT ![t].pc = "record", ![t].out = out]
  /\ UNCHANGED tables /\ UNCHANGED supplier

\* Unknown outcome, or an accepted order without id: the points stay held.
MutRecordUnknown(t) ==
  LET k == call[t].key
  IN /\ At(t, "record") /\ call[t].out \in {"unknown", "noid"}
     /\ resv' = Release(k)
     /\ order' = [order EXCEPT ![k].status = "failed", ![k].err = "other"]
     /\ Return(t)
     /\ UNCHANGED <<quote, item, supplier, audit, event>>
RecordUnknown(t) ==
  /\ At(t, "record") /\ call[t].out \in {"unknown", "noid"}
  /\ order' = [order EXCEPT ![call[t].key].status = "provider_unknown",
                            ![call[t].key].err = "other"]
  /\ Return(t)
  /\ UNCHANGED <<quote, resv, item, supplier, audit, event>>

MutRecordRejected(t) ==
  /\ At(t, "record") /\ call[t].out = "rejected"
  /\ order' = [order EXCEPT ![call[t].key].status = "reserved",
                            ![call[t].key].err = "other"]
  /\ Return(t)
  /\ UNCHANGED <<quote, resv, item, supplier, audit, event>>
RecordRejected(t) ==
  LET k == call[t].key
  IN /\ At(t, "record") /\ call[t].out = "rejected"
     /\ resv' = Release(k)
     /\ order' = [order EXCEPT ![k].status = "failed", ![k].err = "other"]
     /\ Return(t)
     /\ UNCHANGED <<quote, item, supplier, audit, event>>

Unbound(p, k) == \A j \in Keys \ {k} : order[j].poid # p

\* The supplier's id is committed before anything else; reconcile_order runs
\* next in the same request.
MutRecordPlaced(t) ==
  LET k == call[t].key
      p == call[t].out
  IN /\ At(t, "record") /\ p \notin {"unknown", "rejected"}
     /\ Unbound(p, k)
     /\ order' = [order EXCEPT ![k].poid = p, ![k].status = "provisioning"]
     /\ call' = [call EXCEPT ![t] = [Idle EXCEPT !.pc = "observe", !.key = k,
                                                 !.inline = TRUE]]
     /\ UNCHANGED <<quote, resv, item, supplier, audit, event>>
RecordPlaced(t) ==
  LET k == call[t].key
      p == call[t].out
  IN /\ At(t, "record") /\ p \in SupplierOrders
     /\ Unbound(p, k)
     /\ order' = [order EXCEPT ![k].poid = p, ![k].status = "provisioning"]
     /\ call' = [call EXCEPT ![t] = [Idle EXCEPT !.pc = "observe", !.key = k,
                                                 !.inline = TRUE]]
     /\ UNCHANGED <<quote, resv, item, supplier, audit, event>>

\* The unique index on provider_order_id refuses an id that was bound by hand
\* to another purchase meanwhile; the request dies of the exception.
RecordPlacedRefused(t) ==
  /\ At(t, "record") /\ call[t].out \in SupplierOrders
  /\ ~Unbound(call[t].out, call[t].key)
  /\ Return(t)
  /\ UNCHANGED tables /\ UNCHANGED supplier

-----------------------------------------------------------------------------
(* reconcile_order *)

\* The worker (provisioning and provider_unknown orders that are due) or an
\* administrator starts it for an order with a supplier id.
Reconcile(t, k) ==
  /\ At(t, "idle")
  /\ order[k].poid # None
  /\ call' = [call EXCEPT ![t] = [Idle EXCEPT !.pc = "apply", !.key = k,
                                    !.seen = supplier[order[k].poid].state]]
  /\ UNCHANGED tables /\ UNCHANGED supplier

\* The same read, as the second half of create_order and of a manual binding.
Observe(t) ==
  /\ At(t, "observe")
  /\ call' = [call EXCEPT ![t].pc = "apply",
                          ![t].seen = supplier[order[call[t].key].poid].state]
  /\ UNCHANGED tables /\ UNCHANGED supplier

\* The supplier cannot be read, or the delivery raised: create_order notes
\* DELIVERY_PENDING, every other caller leaves the order alone.
Abandon(t) ==
  /\ Leave(t, "retry")
  /\ order' = IF call[t].inline THEN [order EXCEPT ![call[t].key].err = "other"] ELSE order
  /\ UNCHANGED <<quote, resv, item, supplier, audit, event>>

ObserveFails(t) == At(t, "observe") /\ Abandon(t)

\* A terminal answer.  Nothing was delivered: the points stay held until an
\* administrator confirms that the supplier paid back.
MutApplyTerminal(t) ==
  LET k == call[t].key
  IN /\ At(t, "apply") /\ call[t].seen \in Terminal
     /\ ~Delivered(k)
     /\ order' = [order EXCEPT ![k].status = "failed", ![k].err = "other"]
     /\ Return(t)
     /\ UNCHANGED <<quote, resv, item, supplier, audit, event>>
ApplyTerminal(t) ==
  LET k == call[t].key
  IN /\ At(t, "apply") /\ call[t].seen \in Terminal
     /\ ~Delivered(k)
     /\ order' = [order EXCEPT ![k].status = "provider_unknown",
                               ![k].err = "refund_unconfirmed"]
     /\ Return(t)
     /\ UNCHANGED <<quote, resv, item, supplier, audit, event>>

Retired(k) == [x \in Proxies |-> [item[x] EXCEPT !.live = @ /\ item[x].owner # k]]

\* A terminal answer for a delivered order: the asset is retired.
ApplyEnded(t) ==
  LET k == call[t].key
  IN /\ At(t, "apply") /\ call[t].seen \in Terminal
     /\ Delivered(k)
     /\ order' = [order EXCEPT ![k].status = call[t].seen, ![k].err = ""]
     /\ item' = Retired(k)
     /\ Return(t)
     /\ UNCHANGED <<quote, resv, supplier, audit, event>>

\* _deliver_owned_proxy: the same proxy is delivered again only to its order.
MutMayOwn(x, k) == TRUE
MayOwn(x, k) == item[x].owner \in {None, k}

\* An active answer: deliver and settle in one transaction.
ApplyActive(t) ==
  LET k == call[t].key
      x == ProxyOf[order[k].poid]
  IN /\ At(t, "apply") /\ call[t].seen = "active"
     /\ MayOwn(x, k)
     /\ item' = IF item[x].owner = None
                THEN [item EXCEPT ![x] = [owner |-> k, live |-> TRUE]] ELSE item
     /\ resv' = Settle(k)
     /\ order' = [order EXCEPT ![k].status = "active"]
     /\ Return(t)
     /\ UNCHANGED <<quote, supplier, audit, event>>

DeliveryFails(t) ==
  /\ At(t, "apply") /\ call[t].seen = "active"
  /\ Abandon(t)

\* Any other answer: look again later.  The update does not test the status.
ApplyPending(t) ==
  /\ At(t, "apply") /\ call[t].seen = "pending"
  /\ order' = [order EXCEPT ![call[t].key].status = "provisioning"]
  /\ Return(t)
  /\ UNCHANGED <<quote, resv, item, supplier, audit, event>>

-----------------------------------------------------------------------------
(* sync_active_assets *)

SyncRead(t, k) ==
  /\ At(t, "idle")
  /\ order[k].status = "active"
  /\ call' = [call EXCEPT ![t] = [Idle EXCEPT !.pc = "sync", !.key = k,
                                    !.seen = supplier[order[k].poid].state]]
  /\ UNCHANGED tables /\ UNCHANGED supplier

SyncApply(t) ==
  LET k == call[t].key
      ended == call[t].seen \in Terminal
  IN /\ At(t, "sync")
     /\ order' = IF ended THEN [order EXCEPT ![k].status = call[t].seen] ELSE order
     /\ item' = IF ended THEN Retired(k) ELSE item
     /\ Return(t)
     /\ UNCHANGED <<quote, resv, supplier, audit, event>>

-----------------------------------------------------------------------------
(* record_webhook and process_webhook_events *)

\* A signed event about an order of the supplier; its id is recorded once.
RecordWebhook(e, p) ==
  /\ event[e].status = "none" /\ supplier[p].state # "none"
  /\ event' = [event EXCEPT ![e] = [status |-> "pending", of |-> p]]
  /\ UNCHANGED <<quote, order, resv, item, supplier, audit, call>>

Claimable(e) == event[e].status \in {"pending", "retry"}
ClaimEvent(t, e) ==
  /\ At(t, "idle") /\ Claimable(e)
  /\ event' = [event EXCEPT ![e].status = "processing"]
  /\ call' = [call EXCEPT ![t] = [Idle EXCEPT !.pc = "match", !.event = e]]
  /\ UNCHANGED <<quote, order, resv, item, supplier, audit>>

\* The purchase the event is about is reconciled; an event that comes before the
\* supplier's id is recorded, or after it was lost, matches none.
MatchEvent(t) ==
  /\ At(t, "match")
  /\ \E k \in Keys : /\ order[k].poid = event[call[t].event].of
                     /\ call' = [call EXCEPT ![t].pc = "observe", ![t].key = k]
  /\ UNCHANGED tables /\ UNCHANGED supplier
Unmatched(t) ==
  /\ At(t, "match")
  /\ \A k \in Keys : order[k].poid # event[call[t].event].of
  /\ call' = [call EXCEPT ![t].pc = "unmatched"]
  /\ UNCHANGED tables /\ UNCHANGED supplier
MutEndEvent(t) ==
  /\ call[t].pc \in {"processed", "unmatched", "retry"}
  /\ event' = IF At(t, "retry") THEN event ELSE [event EXCEPT ![call[t].event].status = call[t].pc]
  /\ Stop(t)
  /\ UNCHANGED <<quote, order, resv, item, supplier, audit>>
EndEvent(t) ==
  /\ call[t].pc \in {"processed", "unmatched", "retry"}
  /\ event' = [event EXCEPT ![call[t].event].status = call[t].pc]
  /\ Stop(t)
  /\ UNCHANGED <<quote, order, resv, item, supplier, audit>>

-----------------------------------------------------------------------------
(* resolve_unknown_order *)

Bind(t, k, p) ==
  /\ At(t, "idle")
  /\ order[k].status \in Resolvable
  /\ order[k].poid \in {None, p} /\ Unbound(p, k)
  /\ supplier[p].state # "none" /\ (Mistakes \/ supplier[p].for = k)
  /\ order' = [order EXCEPT ![k].poid = p, ![k].status = "provisioning", ![k].err = ""]
  /\ call' = [call EXCEPT ![t] = [Idle EXCEPT !.pc = "observe", !.key = k]]
  /\ UNCHANGED <<quote, resv, item, supplier, audit, event>>

ConfirmNotOrdered(k) ==
  /\ order[k].status \in Resolvable
  /\ ~(order[k].status = "failed" /\ order[k].err = "not_ordered")
  /\ order[k].poid = None
  /\ resv' = RefundOrRelease(k)
  /\ order' = [order EXCEPT ![k].status = "failed", ![k].err = "not_ordered"]
  /\ audit' = audit \cup {k}
  /\ UNCHANGED <<quote, item, supplier, event, call>>

\* The condition is on the error code alone: any resolvable status will do.
ConfirmProviderRefunded(k) ==
  /\ order[k].status \in Resolvable
  /\ order[k].err = "refund_unconfirmed" /\ order[k].poid # None
  /\ resv' = RefundOrRelease(k)
  /\ order' = [order EXCEPT ![k].status = "failed", ![k].err = "refunded"]
  /\ audit' = audit \cup {k}
  /\ UNCHANGED <<quote, item, supplier, event, call>>

-----------------------------------------------------------------------------
(* Environment *)

\* The supplier provisions an order, or ends it; an ended order stays ended.
SupplierMoves(p, state) ==
  /\ \/ supplier[p].state = "pending" /\ state \in Terminal \cup {"active"}
     \/ supplier[p].state = "active" /\ state \in Terminal
  /\ supplier' = [supplier EXCEPT ![p].state = state]
  /\ UNCHANGED tables /\ UNCHANGED call

\* The thread dies; its open transaction, if any, is rolled back.
Crash(t) ==
  /\ Crashes /\ ~At(t, "idle")
  /\ Stop(t)
  /\ UNCHANGED tables /\ UNCHANGED supplier

OrderStep(t) ==
  \/ \E k \in PaidKeys, q \in Quotes : BeginOrder(t, k, q)
  \/ \E q \in Quotes : BeginFree(t, q)
  \/ CountAttempts(t)
  \/ Refuse(t)
  \/ \E hold \in {"held", "waived"} : ReserveOrder(t, hold)
  \/ LoseRace(t)
  \/ \E p \in SupplierOrders : \E out \in {p, "noid", "unknown"} : ExecutePlaced(t, p, out)
  \/ \E out \in {"rejected", "unknown"} : ExecuteRefused(t, out)
  \/ RecordUnknown(t)
  \/ RecordRejected(t)
  \/ RecordPlaced(t)
  \/ RecordPlacedRefused(t)

ReconcileStep(t) ==
  \/ \E k \in Keys : Reconcile(t, k)
  \/ Observe(t)
  \/ ObserveFails(t)
  \/ ApplyTerminal(t)
  \/ ApplyEnded(t)
  \/ ApplyActive(t)
  \/ DeliveryFails(t)
  \/ ApplyPending(t)
  \/ \E k \in Keys : SyncRead(t, k)
  \/ SyncApply(t)
  \/ \E e \in Events : ClaimEvent(t, e)
  \/ MatchEvent(t) \/ Unmatched(t) \/ EndEvent(t)

AdminStep ==
  \/ \E t \in Threads, k \in Keys, p \in SupplierOrders : Bind(t, k, p)
  \/ \E k \in Keys : ConfirmNotOrdered(k) \/ ConfirmProviderRefunded(k)

Next ==
  \/ \E q \in Quotes : CreateQuote(q) \/ QuoteExpires(q)
  \/ \E t \in Threads : OrderStep(t) \/ ReconcileStep(t) \/ Crash(t)
  \/ AdminStep
  \/ \E e \in Events, p \in SupplierOrders : RecordWebhook(e, p)
  \/ \E p \in SupplierOrders, state \in {"active"} \cup Terminal : SupplierMoves(p, state)

Spec == Init /\ [][Next]_vars

\* A thread finishes what it began.  The worker's loop starts over every 60 s
\* and takes the orders least recently synced first and the events in the order
\* they came, so none is passed over for ever.  The supplier decides every pending order, and does not describe an
\* active proxy without its endpoint for ever.
Due(k) == order[k].status \in {"provisioning", "provider_unknown"}
Fairness ==
  /\ \A t \in Threads : WF_vars(~At(t, "idle") /\ (OrderStep(t) \/ ReconcileStep(t)))
  /\ \A k \in Keys : SF_vars(\E t \in Threads : Due(k) /\ Reconcile(t, k))
  /\ \A k \in Keys : SF_vars(\E t \in Threads : call[t].key = k /\ ApplyActive(t))
  /\ \A e \in Events : SF_vars(\E t \in Threads : ClaimEvent(t, e))
  /\ \A p \in SupplierOrders : WF_vars(/\ supplier[p].state = "pending"
                                       /\ \E s \in {"active"} \cup Terminal : SupplierMoves(p, s))
FairSpec == Spec /\ Fairness

-----------------------------------------------------------------------------
(* Properties *)

Statuses == {"none", "reserved", "provider_unknown", "provisioning", "active"} \cup Terminal

\* Every row and every thread holds values of its type.
TypeOK ==
  /\ quote \in [Quotes -> [status : {"none", "open", "accepted"}, expired : BOOLEAN]]
  /\ order \in [Keys -> [status : Statuses, quote : Quotes \cup {None},
                         poid : SupplierOrders \cup {None},
                         err : {"", "other", "refund_unconfirmed", "not_ordered", "refunded"}]]
  /\ resv \in [Keys -> {"none", "held", "waived", "settled", "released", "refunded"}]
  /\ item \in [Proxies -> [owner : Keys \cup {None}, live : BOOLEAN]]
  /\ supplier \in [SupplierOrders -> [state : {"none", "pending", "active"} \cup Terminal,
                                      for : Keys \cup {None}]]
  /\ audit \subseteq Keys
  /\ event \in [Events -> [status : {"none", "pending", "processing", "processed", "unmatched", "retry"},
                           of : SupplierOrders \cup {None}]]
  /\ call \in [Threads -> [pc : {"idle", "count", "lock", "execute", "record", "observe",
                                 "apply", "sync", "match", "processed", "unmatched", "retry"},
                           key : Keys \cup {None}, quote : Quotes \cup {None},
                           out : SupplierOrders \cup {None, "rejected", "unknown", "noid"},
                           seen : {"none", "pending", "active"} \cup Terminal,
                           inline : BOOLEAN, event : Events \cup {None}]]

\* create_order never buys twice: whatever requests are repeated, raced or cut
\* off, the supplier has at most one order per purchase and per quote.
ExecutedOnce ==
  \A p, r \in SupplierOrders :
    LET j == supplier[p].for
        k == supplier[r].for
    IN p # r /\ j # None /\ k # None => j # k /\ order[j].quote # order[k].quote

\* Settlement comes with delivery: points that stay charged belong to an order
\* that owns its asset, and a delivered order has no points on hold.
SettledWithDelivery ==
  \A k \in Keys : /\ resv[k] = "settled" => Delivered(k)
                  /\ Delivered(k) => resv[k] # "held"

\* Without an administrator's decision the points of a purchase go back only
\* if the supplier holds no order for it: no timeout, unreadable answer, crash
\* or late failure gives them back while the platform may have paid.
NeverReleasedBlindly ==
  \A k \in Keys : resv[k] \in {"released", "refunded"} /\ k \notin audit
                    => \A p \in SupplierOrders : supplier[p].for # k

\* Held points can be resolved: a request is still working on the order, or
\* its status is one the worker or resolve_unknown_order acts on.
NoOrphanedHold ==
  \A k \in Keys : resv[k] = "held" =>
    \/ order[k].status \in Resolvable
    \/ \E t \in Threads : call[t].key = k /\ call[t].pc \in {"execute", "record"}

\* One free proxy per month: concurrent clicks on the monthly free proxy
\* converge on one order.  The code does not guarantee it (README).
OneFreeProxy ==
  Cardinality({k \in FreeKeys : order[k].status \notin {"none", "failed"}}) <= 1

\* Only an order that still waits for the supplier's refund is refunded: the
\* charge of a delivered asset that is in use is not paid back.  The code does
\* not guarantee it (README).
RefundedNotInUse ==
  \A k \in Keys : resv[k] = "refunded" => ~\E x \in Proxies : item[x].owner = k /\ item[x].live

\* Once the supplier's order is known, the worker brings the purchase to an
\* end: its points are charged or returned, or flagged for the administrator.
BoundOrderEnds ==
  \A k \in Keys : order[k].poid # None
                    ~> (resv[k] # "held" \/ order[k].err = "refund_unconfirmed")

\* No event is lost in the hands of a thread: each one is processed, found to
\* match no purchase, or put back for another try, whatever the supplier answers.
EventsSettle ==
  \A e \in Events : event[e].status \in {"pending", "processing"} ~> event[e].status \in {"processed", "unmatched", "retry"}
=============================================================================
