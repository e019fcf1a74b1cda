------------------------- MODULE ProxyPurchaseProofs -------------------------
(***************************************************************************)
(* Proofs about ProxyPurchase for any number of threads, quotes, keys,     *)
(* supplier orders, proxies and webhook events.                            *)
(***************************************************************************)
EXTENDS ProxyPurchase, FiniteSetTheorems, TLAPS

\* A request between the two transactions of create_order, and a thread that
\* has read or is about to read the supplier's order.
Placing(t) == call[t].pc \in {"execute", "record"}
Looking(t) == call[t].pc \in {"observe", "apply", "sync"}

-----------------------------------------------------------------------------
(* The inductive invariant *)

\* A thread has the data its next step needs; whoever looks at the supplier's
\* order finds its id in the row.
Ready(t) ==
  /\ call[t].pc = "lock" \/ Placing(t) \/ Looking(t) => call[t].key \in Keys
  /\ call[t].pc \in {"count", "lock"} => call[t].quote \in Quotes
  /\ Looking(t) => order[call[t].key].poid # None
  /\ call[t].pc \in {"match", "processed", "unmatched", "retry"} => call[t].event # None
  /\ call[t].event # None => event[call[t].event].status # "none"
ThreadsReady == \A t \in Threads : Ready(t)

\* A delivered order and a recorded event name the supplier's order.
IdsKnown ==
  /\ \A k \in Keys : order[k].status = "active" => order[k].poid # None
  /\ \A e \in Events : event[e].status # "none" => event[e].of # None

\* A key that was not used yet left no trace.
UnusedKeys ==
  \A k \in Keys : order[k].status = "none" =>
    /\ order[k] = NoOrder /\ resv[k] = "none"
    /\ \A p \in SupplierOrders : supplier[p].for # k
    /\ \A x \in Proxies : item[x].owner # k

\* An order has a quote of its own, which is used up.
QuotesUsed ==
  /\ \A k \in Keys : order[k].status # "none" =>
       order[k].quote \in Quotes /\ quote[order[k].quote].status = "accepted"
  /\ \A j, k \in Keys : j # k /\ order[j].status # "none" /\ order[k].status # "none"
                          => order[j].quote # order[k].quote

\* While a request talks to the supplier its order is its own: nobody else
\* moves the row or its points.
PlacedAlone ==
  /\ \A t \in Threads : Placing(t) =>
       /\ order[call[t].key].status = "reserved" /\ order[call[t].key].poid = None
       /\ resv[call[t].key] \in {"held", "waived"}
  /\ \A t, u \in Threads : t # u /\ Placing(t) /\ Placing(u) => call[t].key # call[u].key

\* Before the call, and after the supplier refused, it has no order for the key.
NothingPlaced ==
  \A t \in Threads : At(t, "execute") \/ (At(t, "record") /\ call[t].out = "rejected")
    => \A p \in SupplierOrders : supplier[p].for # call[t].key

\* The supplier holds one order per key.
OneEach ==
  \A p, r \in SupplierOrders : p # r /\ supplier[p].for # None => supplier[p].for # supplier[r].for

Inv ==
  /\ TypeOK /\ ThreadsReady /\ IdsKnown
  /\ UnusedKeys /\ QuotesUsed /\ PlacedAlone /\ NothingPlaced /\ OneEach
  /\ NeverReleasedBlindly /\ SettledWithDelivery

-----------------------------------------------------------------------------
(* The tables, one by one *)

QuoteRow == [status : {"none", "open", "accepted"}, expired : BOOLEAN]
OrderRow == [status : Statuses, quote : Quotes \cup {None}, poid : SupplierOrders \cup {None},
             err : {"", "other", "refund_unconfirmed", "not_ordered", "refunded"}]
ResvStates == {"none", "held", "waived", "settled", "released", "refunded"}
ItemRow == [owner : Keys \cup {None}, live : BOOLEAN]
SupplierRow == [state : {"none", "pending", "active"} \cup Terminal, for : Keys \cup {None}]
EventRow == [status : {"none", "pending", "processing", "processed", "unmatched", "retry"},
             of : SupplierOrders \cup {None}]
CallRow == [pc : {"idle", "count", "lock", "execute", "record", "observe", "apply", "sync",
                  "match", "processed", "unmatched", "retry"},
            key : Keys \cup {None}, quote : Quotes \cup {None},
            out : SupplierOrders \cup {None, "rejected", "unknown", "noid"},
            seen : {"none", "pending", "active"} \cup Terminal,
            inline : BOOLEAN, event : Events \cup {None}]

TablesOK ==
  /\ quote \in [Quotes -> QuoteRow] /\ order \in [Keys -> OrderRow]
  /\ resv \in [Keys -> ResvStates] /\ item \in [Proxies -> ItemRow]
  /\ supplier \in [SupplierOrders -> SupplierRow] /\ audit \subseteq Keys
  /\ event \in [Events -> EventRow] /\ call \in [Threads -> CallRow]

LEMMA Tables == (TypeOK <=> TablesOK) /\ (TypeOK' <=> TablesOK')
BY DEF TypeOK, TablesOK, QuoteRow, OrderRow, ResvStates, ItemRow, SupplierRow, EventRow, CallRow

\* A step that changes one row of a table.
OrderAt(k) == order' \in [Keys -> OrderRow] /\ \A j \in Keys \ {k} : order'[j] = order[j]
ResvAt(k) == resv' \in [Keys -> ResvStates] /\ \A j \in Keys \ {k} : resv'[j] = resv[j]
CallAt(t) == call' \in [Threads -> CallRow] /\ \A u \in Threads \ {t} : call'[u] = call[u]

LEMMA InitInv == Init => Inv
<1> SUFFICES ASSUME Init PROVE Inv
  OBVIOUS
<1>1. TypeOK
  <2>1. Idle \in CallRow /\ NoOrder \in OrderRow
    BY DEF Idle, CallRow, NoOrder, OrderRow, Statuses
  <2>2. /\ quote \in [Quotes -> QuoteRow] /\ supplier \in [SupplierOrders -> SupplierRow]
        /\ item \in [Proxies -> ItemRow] /\ event \in [Events -> EventRow]
    BY DEF Init, QuoteRow, SupplierRow, ItemRow, EventRow
  <2> QED BY <2>1, <2>2, Tables DEF TablesOK, Init, ResvStates
<1>2. ThreadsReady /\ IdsKnown
  BY DEF Init, ThreadsReady, Ready, IdsKnown, At, Placing, Looking, Idle, NoOrder
<1>3. UnusedKeys /\ QuotesUsed
  BY PurchaseConstants DEF Init, UnusedKeys, QuotesUsed, NoOrder
<1>4. PlacedAlone /\ NothingPlaced /\ OneEach
  BY DEF Init, PlacedAlone, NothingPlaced, OneEach, At, Placing, Idle
<1>5. NeverReleasedBlindly /\ SettledWithDelivery
  BY PurchaseConstants DEF Init, NeverReleasedBlindly, SettledWithDelivery, Delivered
<1> QED BY <1>1, <1>2, <1>3, <1>4, <1>5 DEF Inv

\* A step that only moves threads, to where they have what they need and do
\* not talk to the supplier about a new order.
LEMMA ThreadsMove ==
  ASSUME Inv, UNCHANGED tables, UNCHANGED supplier, call' \in [Threads -> CallRow],
         \A u \in Threads : call'[u] = call[u] \/ (Ready(u)' /\ ~Placing(u)')
  PROVE  Inv'
<1>1. TypeOK'
  BY Tables DEF TablesOK, Inv, tables
<1>2. ThreadsReady' /\ IdsKnown'
  BY DEF Inv, ThreadsReady, Ready, IdsKnown, tables, At, Placing, Looking
<1>3. UnusedKeys' /\ QuotesUsed' /\ OneEach' /\ NeverReleasedBlindly' /\ SettledWithDelivery'
  BY DEF Inv, UnusedKeys, QuotesUsed, OneEach, NeverReleasedBlindly, SettledWithDelivery,
         Delivered, tables
<1>4. PlacedAlone' /\ NothingPlaced'
  <2>1. \A u \in Threads : Placing(u)' => call'[u] = call[u]
    OBVIOUS
  <2>2. \A u \in Threads : At(u, "execute") \/ At(u, "record") <=> Placing(u)
    BY DEF At, Placing
  <2> QED BY <2>1, <2>2 DEF Inv, PlacedAlone, NothingPlaced, tables, At, Placing
<1> QED BY <1>1, <1>2, <1>3, <1>4 DEF Inv

\* A step that changes an order some thread or administrator works on, once
\* the request that created it has recorded the supplier's answer.
LEMMA OrderMoves ==
  ASSUME Inv, NEW k \in Keys, OrderAt(k), ResvAt(k), UNCHANGED <<quote, supplier, event>>,
         item' \in [Proxies -> ItemRow], audit' \subseteq Keys, audit \subseteq audit',
         order[k].status # "none", order'[k].status # "none", order'[k].quote = order[k].quote,
         order[k].poid # None \/ order'[k].status = "active" => order'[k].poid # None,
         \A x \in Proxies : item'[x].owner = item[x].owner \/ (item[x].owner = None /\ item'[x].owner = k),
         resv'[k] = "settled" => Delivered(k)', Delivered(k)' => resv'[k] # "held",
         resv'[k] \in {"released", "refunded"} /\ k \notin audit'
           => \A p \in SupplierOrders : supplier[p].for # k,
         call' \in [Threads -> CallRow],
         \A u \in Threads : \/ call'[u] = call[u] /\ (Placing(u) => call[u].key # k)
                            \/ Ready(u)' /\ ~Placing(u)'
  PROVE  Inv'
<1>1. TypeOK'
  BY Tables DEF TablesOK, Inv, OrderAt, ResvAt
<1>2. \A j \in Keys : order[j].poid # None => order'[j].poid # None
  BY DEF OrderAt
<1>3. ThreadsReady'
  BY <1>2 DEF Inv, ThreadsReady, Ready, At, Placing, Looking
<1>4. IdsKnown'
  BY <1>2 DEF Inv, IdsKnown, OrderAt
<1>5. UnusedKeys'
  BY DEF Inv, UnusedKeys, OrderAt, ResvAt
<1>6. QuotesUsed'
  BY DEF Inv, QuotesUsed, OrderAt
<1>7. PlacedAlone' /\ NothingPlaced'
  BY DEF Inv, PlacedAlone, NothingPlaced, ThreadsReady, Ready, At, Placing, OrderAt, ResvAt
<1>8. OneEach' /\ NeverReleasedBlindly'
  BY DEF Inv, OneEach, NeverReleasedBlindly, ResvAt
<1>9. SettledWithDelivery'
  BY PurchaseConstants DEF Inv, SettledWithDelivery, Delivered, ResvAt
<1> QED BY <1>1, <1>3, <1>4, <1>5, <1>6, <1>7, <1>8, <1>9 DEF Inv

-----------------------------------------------------------------------------
(* What the steps do to their thread *)

\* A thread returns, or goes to the end of its event.
LEMMA Leaves ==
  ASSUME Inv, NEW t \in Threads, NEW as \in {"processed", "retry"}, Leave(t, as), UNCHANGED event
  PROVE  CallAt(t) /\ Ready(t)' /\ ~Placing(t)' /\ call'[t].pc \in {"idle", as}
<1>0. call \in [Threads -> CallRow] /\ Ready(t)
  BY Tables DEF TablesOK, Inv, ThreadsReady
<1>1. CASE call[t].event = None
  <2>1. call' = [call EXCEPT ![t] = Idle] /\ Idle \in CallRow
    BY <1>1 DEF Leave, Idle, CallRow
  <2> QED BY <1>0, <2>1 DEF CallAt, Ready, At, Placing, Looking, Idle
<1>2. CASE call[t].event # None
  <2> DEFINE r == [Idle EXCEPT !.pc = as, !.event = call[t].event]
  <2>1. call[t].event \in Events
    BY <1>0, <1>2 DEF CallRow
  <2>2. r \in CallRow /\ r.pc = as /\ r.event = call[t].event
    BY <2>1 DEF Idle, CallRow
  <2>3. call' = [call EXCEPT ![t] = r]
    BY <1>2 DEF Leave
  <2> HIDE DEF r
  <2> QED BY <1>0, <1>2, <2>1, <2>2, <2>3 DEF CallAt, Ready, At, Placing, Looking
<1> QED BY <1>1, <1>2

LEMMA LeavesIdle ==
  ASSUME Inv, NEW t \in Threads, Leave(t, "processed") \/ Leave(t, "retry"), UNCHANGED event
  PROVE  CallAt(t) /\ ~Placing(t)' /\ ~At(t, "sync")'
BY Leaves DEF At

\* The local states a thread starts from: on a quote, on a key, on the
\* supplier's order of a key, on an event.
OnQuote(q) == [Idle EXCEPT !.pc = "count", !.quote = q]
OnKey(k, q) == [Idle EXCEPT !.pc = "lock", !.key = k, !.quote = q]
OnApply(k, seen) == [Idle EXCEPT !.pc = "apply", !.key = k, !.seen = seen]
OnSync(k, seen) == [Idle EXCEPT !.pc = "sync", !.key = k, !.seen = seen]
OnPlaced(k) == [Idle EXCEPT !.pc = "observe", !.key = k, !.inline = TRUE]
OnBound(k) == [Idle EXCEPT !.pc = "observe", !.key = k]
OnEvent(e) == [Idle EXCEPT !.pc = "match", !.event = e]
SeenStates == {"none", "pending", "active"} \cup Terminal

LEMMA OnQuoteRow ==
  ASSUME NEW q \in Quotes
  PROVE  /\ OnQuote(q) \in CallRow /\ OnQuote(q).pc = "count" /\ OnQuote(q).quote = q
         /\ OnQuote(q).event = None
BY DEF OnQuote, Idle, CallRow

LEMMA OnKeyRow ==
  ASSUME NEW k \in Keys, NEW q \in Quotes
  PROVE  /\ OnKey(k, q) \in CallRow /\ OnKey(k, q).pc = "lock" /\ OnKey(k, q).key = k /\ OnKey(k, q).quote = q
         /\ OnKey(k, q).event = None
BY DEF OnKey, Idle, CallRow

LEMMA OnApplyRow ==
  ASSUME NEW k \in Keys, NEW s \in SeenStates
  PROVE  /\ OnApply(k, s) \in CallRow /\ OnApply(k, s).pc = "apply" /\ OnApply(k, s).key = k
         /\ OnApply(k, s).event = None
BY DEF OnApply, Idle, CallRow, SeenStates

LEMMA OnSyncRow ==
  ASSUME NEW k \in Keys, NEW s \in SeenStates
  PROVE  /\ OnSync(k, s) \in CallRow /\ OnSync(k, s).pc = "sync" /\ OnSync(k, s).key = k
         /\ OnSync(k, s).event = None
BY DEF OnSync, Idle, CallRow, SeenStates

LEMMA OnPlacedRow ==
  ASSUME NEW k \in Keys
  PROVE  /\ OnPlaced(k) \in CallRow /\ OnPlaced(k).pc = "observe" /\ OnPlaced(k).key = k
         /\ OnPlaced(k).event = None
BY DEF OnPlaced, Idle, CallRow

LEMMA OnBoundRow ==
  ASSUME NEW k \in Keys
  PROVE  /\ OnBound(k) \in CallRow /\ OnBound(k).pc = "observe" /\ OnBound(k).key = k
         /\ OnBound(k).event = None
BY DEF OnBound, Idle, CallRow

LEMMA OnEventRow ==
  ASSUME NEW e \in Events
  PROVE  OnEvent(e) \in CallRow /\ OnEvent(e).pc = "match" /\ OnEvent(e).event = e
BY DEF OnEvent, Idle, CallRow

LEMMA IdleRow == Idle \in CallRow /\ Idle.pc = "idle" /\ Idle.event = None
BY DEF Idle, CallRow

\* The ways a thread moves on and keeps the rest of its state.
Sets(t, r) == call' = [call EXCEPT ![t] = r]
Moves(t, pc) == call' = [call EXCEPT ![t].pc = pc]
MovesWithKey(t, pc, k) == call' = [call EXCEPT ![t].pc = pc, ![t].key = k]
MovesWithAnswer(t, pc, out) == call' = [call EXCEPT ![t].pc = pc, ![t].out = out]
MovesWithState(t, pc, s) == call' = [call EXCEPT ![t].pc = pc, ![t].seen = s]
Pcs == {"lock", "execute", "record", "observe", "apply", "unmatched"}

LEMMA CallTyped == Inv => call \in [Threads -> CallRow]
BY Tables DEF TablesOK, Inv

LEMMA SetsOne ==
  ASSUME Inv, NEW t \in Threads, NEW r \in CallRow, Sets(t, r)
  PROVE  CallAt(t) /\ call'[t] = r
BY CallTyped DEF CallAt, Sets

LEMMA MovesOne ==
  ASSUME Inv, NEW t \in Threads, NEW pc \in Pcs, Moves(t, pc)
  PROVE  /\ CallAt(t) /\ call'[t].pc = pc /\ call'[t].key = call[t].key
         /\ call'[t].quote = call[t].quote /\ call'[t].event = call[t].event
BY CallTyped DEF CallAt, Moves, CallRow, Pcs

LEMMA MovesKey ==
  ASSUME Inv, NEW t \in Threads, NEW pc \in Pcs, NEW k \in Keys, MovesWithKey(t, pc, k)
  PROVE  /\ CallAt(t) /\ call'[t].pc = pc /\ call'[t].key = k
         /\ call'[t].quote = call[t].quote /\ call'[t].event = call[t].event
<1> DEFINE r == [call[t] EXCEPT !.pc = pc, !.key = k]
<1>0. call[t] \in CallRow
  BY CallTyped
<1>1. /\ r \in CallRow /\ r.pc = pc /\ r.key = k
      /\ r.quote = call[t].quote /\ r.event = call[t].event
  BY <1>0 DEF CallRow, Pcs
<1>2. call' = [call EXCEPT ![t] = r]
  BY CallTyped DEF MovesWithKey
<1> HIDE DEF r
<1> QED BY <1>1, <1>2, CallTyped DEF CallAt

LEMMA MovesAnswer ==
  ASSUME Inv, NEW t \in Threads, NEW out \in SupplierOrders \cup {"rejected", "unknown", "noid"},
         MovesWithAnswer(t, "record", out)
  PROVE  /\ CallAt(t) /\ call'[t].pc = "record" /\ call'[t].key = call[t].key
         /\ call'[t].out = out /\ call'[t].event = call[t].event
<1> DEFINE r == [call[t] EXCEPT !.pc = "record", !.out = out]
<1>0. call[t] \in CallRow
  BY CallTyped
<1>1. /\ r \in CallRow /\ r.pc = "record" /\ r.key = call[t].key
      /\ r.out = out /\ r.event = call[t].event
  BY <1>0 DEF CallRow
<1>2. call' = [call EXCEPT ![t] = r]
  BY CallTyped DEF MovesWithAnswer
<1> HIDE DEF r
<1> QED BY <1>1, <1>2, CallTyped DEF CallAt

LEMMA MovesState ==
  ASSUME Inv, NEW t \in Threads, NEW s \in SeenStates, MovesWithState(t, "apply", s)
  PROVE  /\ CallAt(t) /\ call'[t].pc = "apply" /\ call'[t].key = call[t].key
         /\ call'[t].event = call[t].event
<1> DEFINE r == [call[t] EXCEPT !.pc = "apply", !.seen = s]
<1>1. r \in CallRow /\ r.pc = "apply" /\ r.key = call[t].key /\ r.event = call[t].event
  BY CallTyped DEF CallRow, SeenStates
<1>2. call' = [call EXCEPT ![t] = r]
  BY CallTyped DEF MovesWithState
<1> HIDE DEF r
<1> QED BY <1>1, <1>2, CallTyped DEF CallAt

\* A thread that only moves its own state.
LEMMA OneMoves ==
  ASSUME Inv, NEW t \in Threads, CallAt(t), Ready(t)', ~Placing(t)',
         UNCHANGED tables, UNCHANGED supplier
  PROVE  Inv'
BY ThreadsMove DEF CallAt

\* The attempts at the free proxy are counted, so the next one has a key.
LEMMA NextFreeKey == Attempts < MaxFree => FreeKey(Attempts + 1) \in Keys
<1>1. IsFiniteSet(FreeKeys)
  <2>1. IsFiniteSet(1 .. MaxFree)
    BY FS_Interval, PurchaseConstants
  <2>2. [n \in 1 .. MaxFree |-> FreeKey(n)] \in Surjection(1 .. MaxFree, FreeKeys)
    BY DEF FreeKeys, Surjection
  <2> QED BY <2>1, <2>2, FS_Surjection
<1>2. {k \in FreeKeys : order[k].status # "none"} \subseteq FreeKeys
  OBVIOUS
<1>3. Attempts \in Nat
  BY <1>1, <1>2, FS_Subset, FS_CardinalityType DEF Attempts
<1> QED BY <1>3, PurchaseConstants DEF FreeKeys, Keys

\* The steps that read, decide or give up, and write no table.
LEMMA ReadingSteps ==
  ASSUME Inv, NEW t \in Threads
  PROVE  /\ \A k \in PaidKeys, q \in Quotes : BeginOrder(t, k, q) => Inv'
         /\ CountAttempts(t) \/ Refuse(t) \/ LoseRace(t) \/ RecordPlacedRefused(t) => Inv'
         /\ \A k \in Keys : Reconcile(t, k) \/ SyncRead(t, k) => Inv'
         /\ Observe(t) \/ MatchEvent(t) \/ Unmatched(t) \/ Crash(t) => Inv'
<1> USE DEF Ready, At, Placing, Looking
<1>0. /\ call \in [Threads -> CallRow] /\ Ready(t)
      /\ order \in [Keys -> OrderRow] /\ supplier \in [SupplierOrders -> SupplierRow]
      /\ event \in [Events -> EventRow]
  BY Tables DEF TablesOK, Inv, ThreadsReady
<1>r. \A k \in Keys : order[k].poid # None
        => supplier[order[k].poid].state \in SeenStates
  BY <1>0 DEF OrderRow, SupplierRow, SeenStates
<1>1. ASSUME NEW k \in PaidKeys, NEW q \in Quotes, BeginOrder(t, k, q) PROVE Inv'
  <2>1. CallAt(t) /\ call'[t].pc = "lock" /\ call'[t].key = k /\ call'[t].quote = q
        /\ call'[t].event = None
    <3>1. Sets(t, OnKey(k, q)) /\ k \in Keys
      BY <1>1 DEF BeginOrder, OnKey, Sets, Keys
    <3> QED BY <3>1, OnKeyRow, SetsOne
  <2> QED BY <1>1, <2>1, OneMoves DEF BeginOrder, Keys
<1>2. ASSUME CountAttempts(t) PROVE Inv'
  <2>1. FreeKey(Attempts + 1) \in Keys
    BY <1>2, NextFreeKey DEF CountAttempts
  <2>2. CallAt(t) /\ call'[t].pc = "lock" /\ call'[t].key \in Keys /\ call'[t].quote = call[t].quote
        /\ call'[t].event = call[t].event
    <3>1. MovesWithKey(t, "lock", FreeKey(Attempts + 1))
      BY <1>2 DEF CountAttempts, MovesWithKey
    <3> QED BY <2>1, <3>1, MovesKey DEF Pcs
  <2> QED BY <1>0, <1>2, <2>2, OneMoves DEF CountAttempts, tables
<1>3. ASSUME Refuse(t) \/ LoseRace(t) \/ RecordPlacedRefused(t) PROVE Inv'
  <2>1. Leave(t, "processed") /\ UNCHANGED tables /\ UNCHANGED supplier
    BY <1>3 DEF Refuse, LoseRace, RecordPlacedRefused, Return
  <2> QED BY <2>1, Leaves, OneMoves DEF tables
<1>4. ASSUME NEW k \in Keys, Reconcile(t, k) PROVE Inv'
  <2>1. CallAt(t) /\ call'[t].pc = "apply" /\ call'[t].key = k /\ call'[t].event = None
    <3>1. Sets(t, OnApply(k, supplier[order[k].poid].state))
      BY <1>4 DEF Reconcile, OnApply, Sets
    <3>2. supplier[order[k].poid].state \in SeenStates
      BY <1>r, <1>4 DEF Reconcile
    <3> QED BY <3>1, <3>2, OnApplyRow, SetsOne
  <2> QED BY <1>4, <2>1, OneMoves DEF Reconcile, tables
<1>5. ASSUME NEW k \in Keys, SyncRead(t, k) PROVE Inv'
  <2>1. order[k].poid # None
    BY <1>5 DEF SyncRead, Inv, IdsKnown
  <2>2. CallAt(t) /\ call'[t].pc = "sync" /\ call'[t].key = k /\ call'[t].event = None
    <3>1. Sets(t, OnSync(k, supplier[order[k].poid].state))
      BY <1>5 DEF SyncRead, OnSync, Sets
    <3>2. supplier[order[k].poid].state \in SeenStates
      BY <1>r, <2>1
    <3> QED BY <3>1, <3>2, OnSyncRow, SetsOne
  <2> QED BY <1>5, <2>1, <2>2, OneMoves DEF SyncRead, tables
<1>6. ASSUME Observe(t) PROVE Inv'
  <2>1. CallAt(t) /\ call'[t].pc = "apply" /\ call'[t].key = call[t].key
        /\ call'[t].event = call[t].event
    <3>1. MovesWithState(t, "apply", supplier[order[call[t].key].poid].state)
      BY <1>6 DEF Observe, MovesWithState
    <3>2. supplier[order[call[t].key].poid].state \in SeenStates
      BY <1>0, <1>r, <1>6 DEF Observe
    <3> QED BY <3>1, <3>2, MovesState
  <2> QED BY <1>0, <1>6, <2>1, OneMoves DEF Observe, tables
<1>7. ASSUME MatchEvent(t) PROVE Inv'
  <2>1. PICK k \in Keys : /\ order[k].poid = event[call[t].event].of
                          /\ call' = [call EXCEPT ![t].pc = "observe", ![t].key = k]
    BY <1>7 DEF MatchEvent
  <2>2. CallAt(t) /\ call'[t].pc = "observe" /\ call'[t].key = k /\ call'[t].event = call[t].event
    BY <2>1, MovesKey DEF MovesWithKey, Pcs
  <2>3. call[t].event \in Events
    BY <1>0, <1>7 DEF MatchEvent, CallRow
  <2>4. order[k].poid # None
    BY <1>0, <1>7, <2>1, <2>3 DEF MatchEvent, Inv, IdsKnown
  <2> QED BY <1>0, <1>7, <2>2, <2>4, OneMoves DEF MatchEvent, tables
<1>8. ASSUME Unmatched(t) PROVE Inv'
  <2>1. CallAt(t) /\ call'[t].pc = "unmatched" /\ call'[t].event = call[t].event
    BY <1>8, MovesOne DEF Unmatched, Moves, Pcs
  <2> QED BY <1>0, <1>8, <2>1, OneMoves DEF Unmatched, tables
<1>9. ASSUME Crash(t) PROVE Inv'
  <2>1. CallAt(t) /\ call'[t].pc = "idle" /\ call'[t].event = None
    BY <1>9, IdleRow, SetsOne DEF Crash, Stop, Sets
  <2> QED BY <1>9, <2>1, OneMoves DEF Crash
<1> QED BY <1>1, <1>2, <1>3, <1>4, <1>5, <1>6, <1>7, <1>8, <1>9

-----------------------------------------------------------------------------
(* What the steps do to their order *)

SetsStatus(k, s) == order' = [order EXCEPT ![k].status = s]
SetsError(k, e) == order' = [order EXCEPT ![k].err = e]
SetsOutcome(k, s, e) == order' = [order EXCEPT ![k].status = s, ![k].err = e]
SetsId(k, p, s) == order' = [order EXCEPT ![k].poid = p, ![k].status = s]
SetsIdClean(k, p, s) == order' = [order EXCEPT ![k].poid = p, ![k].status = s, ![k].err = ""]
Errors == {"", "other", "refund_unconfirmed", "not_ordered", "refunded"}

\* The row's id and quote are kept, its status becomes s.
Restated(k, s) ==
  /\ OrderAt(k) /\ order'[k].status = s
  /\ order'[k].quote = order[k].quote /\ order'[k].poid = order[k].poid

LEMMA OrderTyped == Inv => order \in [Keys -> OrderRow]
BY Tables DEF TablesOK, Inv

LEMMA StatusSet ==
  ASSUME Inv, NEW k \in Keys, NEW s \in Statuses, SetsStatus(k, s)
  PROVE  Restated(k, s)
BY OrderTyped DEF Restated, OrderAt, SetsStatus, OrderRow

LEMMA ErrorSet ==
  ASSUME Inv, NEW k \in Keys, NEW e \in Errors, SetsError(k, e)
  PROVE  Restated(k, order[k].status)
BY OrderTyped DEF Restated, OrderAt, SetsError, OrderRow, Errors

LEMMA OutcomeSet ==
  ASSUME Inv, NEW k \in Keys, NEW s \in Statuses, NEW e \in Errors, SetsOutcome(k, s, e)
  PROVE  Restated(k, s)
<1> DEFINE r == [order[k] EXCEPT !.status = s, !.err = e]
<1>1. r \in OrderRow /\ r.status = s /\ r.quote = order[k].quote /\ r.poid = order[k].poid
  BY OrderTyped DEF OrderRow, Errors
<1>2. order' = [order EXCEPT ![k] = r]
  BY OrderTyped DEF SetsOutcome
<1> HIDE DEF r
<1> QED BY <1>1, <1>2, OrderTyped DEF Restated, OrderAt

LEMMA IdSet ==
  ASSUME Inv, NEW k \in Keys, NEW p \in SupplierOrders, NEW s \in Statuses,
         SetsId(k, p, s) \/ SetsIdClean(k, p, s)
  PROVE  /\ OrderAt(k) /\ order'[k].status = s
         /\ order'[k].quote = order[k].quote /\ order'[k].poid = p
<1> DEFINE r == [order[k] EXCEPT !.poid = p, !.status = s]
           clean == [order[k] EXCEPT !.poid = p, !.status = s, !.err = ""]
<1>1. r \in OrderRow /\ r.status = s /\ r.quote = order[k].quote /\ r.poid = p
  BY OrderTyped DEF OrderRow
<1>2. clean \in OrderRow /\ clean.status = s /\ clean.quote = order[k].quote /\ clean.poid = p
  BY OrderTyped DEF OrderRow
<1>3. order' = [order EXCEPT ![k] = r] \/ order' = [order EXCEPT ![k] = clean]
  BY OrderTyped DEF SetsId, SetsIdClean
<1> HIDE DEF r, clean
<1> QED BY <1>1, <1>2, <1>3, OrderTyped DEF OrderAt

\* Whoever looks at the supplier's order of k works on a row that exists and
\* that no request is about to place.
LEMMA LookedAt ==
  ASSUME Inv, NEW k \in Keys, order[k].poid # None
  PROVE  order[k].status # "none" /\ \A u \in Threads : Placing(u) => call[u].key # k
<1>1. UnusedKeys /\ PlacedAlone
  BY DEF Inv
<1>2. NoOrder.poid = None
  BY DEF NoOrder
<1>3. order[k].status = "none" => order[k] = NoOrder
  BY <1>1 DEF UnusedKeys
<1> QED BY <1>1, <1>2, <1>3 DEF PlacedAlone

\* A step that changes an order and leaves points and ownership alone.
LEMMA OnlyOrderMoves ==
  ASSUME Inv, NEW k \in Keys, OrderAt(k), UNCHANGED <<quote, supplier, event, resv, audit>>,
         item' \in [Proxies -> ItemRow], \A x \in Proxies : item'[x].owner = item[x].owner,
         order[k].status # "none", order'[k].status # "none", order'[k].quote = order[k].quote,
         order[k].poid # None \/ order'[k].status = "active" => order'[k].poid # None,
         NEW t \in Threads, CallAt(t), Ready(t)', ~Placing(t)',
         \A u \in Threads \ {t} : Placing(u) => call[u].key # k
  PROVE  Inv'
<1>1. ResvAt(k) /\ audit' \subseteq Keys
  BY Tables DEF TablesOK, Inv, ResvAt
<1>2. Delivered(k)' <=> Delivered(k)
  BY DEF Delivered
<1>3. /\ resv'[k] = "settled" => Delivered(k)'
      /\ Delivered(k)' => resv'[k] # "held"
      /\ resv'[k] \in {"released", "refunded"} /\ k \notin audit'
           => \A p \in SupplierOrders : supplier[p].for # k
  BY <1>2 DEF Inv, SettledWithDelivery, NeverReleasedBlindly
<1> QED BY <1>1, <1>3, OrderMoves DEF CallAt

\* The asset of an ended order is retired; who owns it does not change.
LEMMA Retires ==
  ASSUME Inv, NEW k \in Keys, item' = Retired(k)
  PROVE  item' \in [Proxies -> ItemRow] /\ \A x \in Proxies : item'[x].owner = item[x].owner
<1>1. item \in [Proxies -> ItemRow]
  BY Tables DEF TablesOK, Inv
<1>2. ASSUME NEW x \in Proxies PROVE item'[x] \in ItemRow /\ item'[x].owner = item[x].owner
  <2>1. item[x] \in ItemRow /\ item'[x] = [item[x] EXCEPT !.live = item[x].live /\ item[x].owner # k]
    BY <1>1 DEF Retired
  <2> DEFINE b == item[x].live /\ item[x].owner # k
  <2>2. b \in BOOLEAN
    OBVIOUS
  <2> HIDE DEF b
  <2>3. item'[x] = [item[x] EXCEPT !.live = b]
    BY <2>1 DEF b
  <2> QED BY <2>1, <2>2, <2>3 DEF ItemRow
<1> QED BY <1>2 DEF Retired

-----------------------------------------------------------------------------
(* create_order *)

\* The supplier's answer is recorded: the order is known to be the request's.
LEMMA RecordSteps ==
  ASSUME Inv, NEW t \in Threads, RecordUnknown(t) \/ RecordRejected(t) \/ RecordPlaced(t)
  PROVE  Inv'
<1>1. At(t, "record") /\ Placing(t)
  BY DEF RecordUnknown, RecordRejected, RecordPlaced, At, Placing
<1>2. PICK k \in Keys :
        /\ k = call[t].key /\ order[k].status = "reserved" /\ order[k].poid = None
        /\ resv[k] \in {"held", "waived"}
        /\ \A u \in Threads \ {t} : Placing(u) => call[u].key # k
  BY <1>1 DEF Inv, ThreadsReady, Ready, PlacedAlone
<1>3. item \in [Proxies -> ItemRow] /\ resv \in [Keys -> ResvStates] /\ audit \subseteq Keys
  BY Tables DEF TablesOK, Inv
<1>4. CASE RecordUnknown(t)
  <2>1. SetsOutcome(k, "provider_unknown", "other") /\ Leave(t, "processed")
    BY <1>2, <1>4 DEF RecordUnknown, SetsOutcome, Return
  <2>2. Restated(k, "provider_unknown")
    BY <1>2, <2>1, OutcomeSet DEF Statuses, Errors
  <2> QED BY <1>2, <1>3, <1>4, <2>1, <2>2, Leaves, OnlyOrderMoves DEF RecordUnknown, Restated
<1>5. CASE RecordRejected(t)
  <2>1. SetsOutcome(k, "failed", "other") /\ Leave(t, "processed") /\ resv' = Release(k)
    BY <1>2, <1>5 DEF RecordRejected, SetsOutcome, Return
  <2>2. Restated(k, "failed")
    BY <1>2, <2>1, OutcomeSet DEF Statuses, Terminal, Errors
  <2>3. ResvAt(k) /\ resv'[k] \in {"released", "waived"}
    BY <1>2, <1>3, <2>1 DEF Release, ResvAt, ResvStates
  <2>4. \A p \in SupplierOrders : supplier[p].for # k
    BY <1>1, <1>2, <1>5 DEF Inv, NothingPlaced, RecordRejected
  <2>5. CallAt(t) /\ Ready(t)' /\ ~Placing(t)'
    BY <1>5, <2>1, Leaves DEF RecordRejected
  <2> QED BY <1>2, <1>3, <1>5, <2>2, <2>3, <2>4, <2>5, OrderMoves
         DEF RecordRejected, Restated, CallAt
<1>6. CASE RecordPlaced(t)
  <2>1. /\ SetsId(k, call[t].out, "provisioning") /\ Sets(t, OnPlaced(k))
        /\ call[t].out \in SupplierOrders
    BY <1>2, <1>6 DEF RecordPlaced, SetsId, Sets, OnPlaced
  <2>2. /\ OrderAt(k) /\ order'[k].status = "provisioning"
        /\ order'[k].quote = order[k].quote /\ order'[k].poid = call[t].out
    BY <1>2, <2>1, IdSet DEF Statuses
  <2>3. order'[k].poid # None
    BY <2>1, <2>2, PurchaseConstants
  <2>4. CallAt(t) /\ call'[t].pc = "observe" /\ call'[t].key = k /\ call'[t].event = None
    BY <1>2, <2>1, OnPlacedRow, SetsOne
  <2>5. Ready(t)' /\ ~Placing(t)'
    BY <1>2, <2>3, <2>4 DEF Ready, At, Placing, Looking
  <2> QED BY <1>2, <1>3, <1>6, <2>2, <2>3, <2>4, <2>5, OnlyOrderMoves DEF RecordPlaced
<1> QED BY <1>4, <1>5, <1>6

-----------------------------------------------------------------------------
(* reconcile_order, sync_active_assets *)

\* What the supplier answered is applied to the order.
LEMMA ApplySteps ==
  ASSUME Inv, NEW t \in Threads,
         \/ ObserveFails(t) \/ ApplyTerminal(t) \/ ApplyEnded(t) \/ ApplyActive(t)
         \/ DeliveryFails(t) \/ ApplyPending(t) \/ SyncApply(t)
  PROVE  Inv'
<1>1. Looking(t)
  BY DEF ObserveFails, ApplyTerminal, ApplyEnded, ApplyActive, DeliveryFails, ApplyPending,
         SyncApply, At, Looking
<1>2. PICK k \in Keys : k = call[t].key /\ order[k].poid # None
  BY <1>1 DEF Inv, ThreadsReady, Ready
<1>3. order[k].status # "none" /\ \A u \in Threads : Placing(u) => call[u].key # k
  BY <1>2, LookedAt
<1>4. /\ item \in [Proxies -> ItemRow] /\ resv \in [Keys -> ResvStates] /\ audit \subseteq Keys
      /\ order \in [Keys -> OrderRow] /\ call \in [Threads -> CallRow]
  BY Tables DEF TablesOK, Inv
<1>5. CASE ObserveFails(t) \/ DeliveryFails(t)
  <2>1. Leave(t, "retry") /\ UNCHANGED <<quote, resv, item, supplier, audit, event>>
    BY <1>5 DEF ObserveFails, DeliveryFails, Abandon
  <2>2. Restated(k, order[k].status)
    <3>1. SetsError(k, "other") \/ order' = order
      BY <1>2, <1>5 DEF ObserveFails, DeliveryFails, Abandon, SetsError
    <3>2. CASE SetsError(k, "other")
      BY <1>2, <3>2, ErrorSet DEF Errors
    <3>3. CASE order' = order
      BY <1>4, <3>3 DEF Restated, OrderAt
    <3> QED BY <3>1, <3>2, <3>3
  <2> QED BY <1>2, <1>3, <1>4, <2>1, <2>2, Leaves, OnlyOrderMoves DEF Restated
<1>6. CASE ApplyTerminal(t)
  <2>1. SetsOutcome(k, "provider_unknown", "refund_unconfirmed") /\ Leave(t, "processed")
    BY <1>2, <1>6 DEF ApplyTerminal, SetsOutcome, Return
  <2>2. Restated(k, "provider_unknown")
    BY <1>2, <2>1, OutcomeSet DEF Statuses, Errors
  <2>3. OrderAt(k) /\ order'[k].status = "provider_unknown" /\ order'[k].quote = order[k].quote
        /\ order'[k].poid = order[k].poid
    BY <2>2 DEF Restated
  <2>4. UNCHANGED <<quote, resv, item, supplier, audit>>
    BY <1>6 DEF ApplyTerminal
  <2>5. UNCHANGED event /\ CallAt(t) /\ Ready(t)' /\ ~Placing(t)'
    BY <1>6, <2>1, Leaves DEF ApplyTerminal
  <2>6. item' \in [Proxies -> ItemRow] /\ \A x \in Proxies : item'[x].owner = item[x].owner
    BY <1>4, <2>4
  <2> QED BY <1>2, <1>3, <2>3, <2>4, <2>5, <2>6, OnlyOrderMoves
<1>7. CASE ApplyEnded(t)
  <2>1. SetsOutcome(k, call[t].seen, "") /\ Leave(t, "processed") /\ item' = Retired(k)
    BY <1>2, <1>7 DEF ApplyEnded, SetsOutcome, Return
  <2>2. call[t].seen \in Statuses \ {"none", "active"}
    BY <1>7 DEF ApplyEnded, Statuses, Terminal
  <2>3. Restated(k, call[t].seen)
    BY <1>2, <2>1, <2>2, OutcomeSet DEF Errors
  <2>4. CallAt(t) /\ Ready(t)' /\ ~Placing(t)'
    BY <1>7, <2>1, Leaves DEF ApplyEnded
  <2>5. item' \in [Proxies -> ItemRow] /\ \A x \in Proxies : item'[x].owner = item[x].owner
    BY <2>1, Retires
  <2> QED BY <1>2, <1>3, <1>7, <2>2, <2>3, <2>4, <2>5, OnlyOrderMoves DEF ApplyEnded, Restated
<1>8. CASE ApplyActive(t)
  <2> DEFINE x == ProxyOf[order[k].poid]
  <2>1. SetsStatus(k, "active") /\ Leave(t, "processed") /\ resv' = Settle(k) /\ MayOwn(x, k)
    BY <1>2, <1>8 DEF ApplyActive, SetsStatus, Return
  <2>2. Restated(k, "active")
    BY <1>2, <2>1, StatusSet DEF Statuses
  <2>3. ResvAt(k) /\ resv'[k] # "held" /\ (resv'[k] \in {"released", "refunded"} => resv[k] = resv'[k])
    BY <1>2, <1>4, <2>1 DEF Settle, ResvAt, ResvStates
  <2>4. x \in Proxies
    BY <1>2, <1>4, PurchaseConstants DEF OrderRow
  <2>5. item' = IF item[x].owner = None THEN [item EXCEPT ![x] = [owner |-> k, live |-> TRUE]] ELSE item
    BY <1>2, <1>8 DEF ApplyActive
  <2> HIDE DEF x
  <2>6. /\ item' \in [Proxies -> ItemRow] /\ item'[x].owner = k
        /\ \A y \in Proxies : \/ item'[y].owner = item[y].owner
                              \/ item[y].owner = None /\ item'[y].owner = k
    BY <1>2, <1>4, <2>1, <2>4, <2>5 DEF MayOwn, ItemRow
  <2>7. Delivered(k)'
    BY <2>4, <2>6 DEF Delivered
  <2>8. resv'[k] \in {"released", "refunded"} /\ k \notin audit'
          => \A p \in SupplierOrders : supplier[p].for # k
    BY <1>2, <1>8, <2>3 DEF Inv, NeverReleasedBlindly, ApplyActive
  <2>9. CallAt(t) /\ Ready(t)' /\ ~Placing(t)'
    BY <1>8, <2>1, Leaves DEF ApplyActive
  <2> QED BY <1>2, <1>3, <1>4, <1>8, <2>2, <2>3, <2>6, <2>7, <2>8, <2>9, OrderMoves
         DEF ApplyActive, Restated, CallAt
<1>9. CASE ApplyPending(t)
  <2>1. SetsStatus(k, "provisioning") /\ Leave(t, "processed")
    BY <1>2, <1>9 DEF ApplyPending, SetsStatus, Return
  <2>2. Restated(k, "provisioning")
    BY <1>2, <2>1, StatusSet DEF Statuses
  <2> QED BY <1>2, <1>3, <1>4, <1>9, <2>1, <2>2, Leaves, OnlyOrderMoves DEF ApplyPending, Restated
<1>10. CASE SyncApply(t)
  <2>1. Leave(t, "processed") /\ UNCHANGED <<quote, resv, supplier, audit, event>>
    BY <1>10 DEF SyncApply, Return
  <2>2. CASE call[t].seen \in Terminal
    <3>1. SetsStatus(k, call[t].seen) /\ item' = Retired(k)
      BY <1>2, <1>10, <2>2 DEF SyncApply, SetsStatus
    <3>2. call[t].seen \in Statuses \ {"none", "active"}
      BY <2>2 DEF Statuses, Terminal
    <3>3. Restated(k, call[t].seen)
      BY <1>2, <3>1, <3>2, StatusSet
    <3> QED BY <1>2, <1>3, <2>1, <3>1, <3>2, <3>3, Leaves, Retires, OnlyOrderMoves DEF Restated
  <2>3. CASE call[t].seen \notin Terminal
    <3>1. UNCHANGED tables /\ UNCHANGED supplier
      BY <1>10, <2>3 DEF SyncApply, tables
    <3> QED BY <2>1, <3>1, Leaves, OneMoves
  <2> QED BY <2>2, <2>3
<1> QED BY <1>5, <1>6, <1>7, <1>8, <1>9, <1>10

-----------------------------------------------------------------------------
(* Reservation and the call to the supplier *)

\* The order is created: its key and its quote were free until now.
LEMMA ReserveStep ==
  ASSUME Inv, NEW t \in Threads, NEW hold \in {"held", "waived"}, ReserveOrder(t, hold)
  PROVE  Inv'
<1>1. /\ Ready(t) /\ TablesOK /\ ThreadsReady /\ IdsKnown /\ UnusedKeys /\ QuotesUsed /\ PlacedAlone
      /\ NothingPlaced /\ OneEach /\ NeverReleasedBlindly /\ SettledWithDelivery
  BY Tables DEF Inv, ThreadsReady
<1>2. PICK k \in Keys, q \in Quotes : k = call[t].key /\ q = call[t].quote
  BY <1>1 DEF ReserveOrder, Ready, At
<1>3. order[k].status = "none" /\ quote[q].status = "open"
  BY <1>2 DEF ReserveOrder, Usable
<1>4. OrderAt(k) /\ order'[k].status = "reserved" /\ order'[k].quote = q /\ order'[k].poid = None
  BY <1>1, <1>2 DEF ReserveOrder, TablesOK, OrderAt, OrderRow, Statuses
<1>5. ResvAt(k) /\ resv'[k] = hold
  BY <1>1, <1>2 DEF ReserveOrder, TablesOK, ResvAt, ResvStates
<1>6. /\ quote' \in [Quotes -> QuoteRow] /\ quote'[q].status = "accepted"
      /\ \A r \in Quotes \ {q} : quote'[r] = quote[r]
  BY <1>1, <1>2 DEF ReserveOrder, TablesOK, QuoteRow
<1>7. CallAt(t) /\ call'[t].pc = "execute" /\ call'[t].key = k /\ call'[t].event = call[t].event
  BY <1>2, MovesOne DEF ReserveOrder, Moves, Pcs
<1>8. UNCHANGED <<item, supplier, audit, event>>
  BY DEF ReserveOrder
<1>9. /\ resv[k] = "none" /\ order[k] = NoOrder /\ \A p \in SupplierOrders : supplier[p].for # k
      /\ \A x \in Proxies : item[x].owner # k
  BY <1>1, <1>3 DEF UnusedKeys
<1>10. \A u \in Threads : Placing(u) \/ Looking(u) => call[u].key # k
  <2>1. order[k].poid = None
    <3>1. NoOrder.poid = None
      BY DEF NoOrder
    <3> QED BY <1>9, <3>1
  <2> QED BY <1>1, <1>3, <2>1 DEF PlacedAlone, ThreadsReady, Ready
<1>11. TypeOK'
  BY <1>1, <1>4, <1>5, <1>6, <1>7, <1>8, Tables DEF TablesOK, OrderAt, ResvAt, CallAt
<1>12. ThreadsReady'
  <2>1. ASSUME NEW u \in Threads PROVE Ready(u)'
    <3>1. CASE u = t
      BY <1>1, <1>7, <1>8, <3>1 DEF Ready, At, Placing, Looking
    <3>2. CASE u # t
      <4>1. call'[u] = call[u] /\ Ready(u)
        BY <1>1, <1>7, <3>2 DEF CallAt, ThreadsReady
      <4>2. Looking(u) => order'[call[u].key] = order[call[u].key]
        BY <1>4, <1>10, <4>1 DEF OrderAt, Ready
      <4> QED BY <1>8, <4>1, <4>2 DEF Ready, At, Placing, Looking
    <3> QED BY <3>1, <3>2
  <2> QED BY <2>1 DEF ThreadsReady
<1>13. IdsKnown' /\ UnusedKeys' /\ OneEach'
  BY <1>1, <1>4, <1>5, <1>8 DEF IdsKnown, UnusedKeys, OneEach, OrderAt, ResvAt
<1>14. QuotesUsed'
  BY <1>1, <1>3, <1>4, <1>6 DEF QuotesUsed, OrderAt
<1>15. PlacedAlone'
  BY <1>1, <1>4, <1>5, <1>7, <1>10 DEF PlacedAlone, ThreadsReady, Ready, Placing, OrderAt, ResvAt, CallAt
<1>16. NothingPlaced'
  BY <1>1, <1>7, <1>8, <1>9 DEF NothingPlaced, At, CallAt
<1>17. NeverReleasedBlindly' /\ SettledWithDelivery'
  BY <1>1, <1>5, <1>8, <1>9 DEF NeverReleasedBlindly, SettledWithDelivery, Delivered, ResvAt
<1> QED BY <1>11, <1>12, <1>13, <1>14, <1>15, <1>16, <1>17 DEF Inv

\* The one call that buys: the supplier places an order for the request's key,
\* for which it had none, or places nothing.
LEMMA ExecuteSteps ==
  ASSUME Inv, NEW t \in Threads
  PROVE  /\ \A p \in SupplierOrders : \A out \in {p, "noid", "unknown"} : ExecutePlaced(t, p, out) => Inv'
         /\ \A out \in {"rejected", "unknown"} : ExecuteRefused(t, out) => Inv'
<1>1. /\ Ready(t) /\ TablesOK /\ ThreadsReady /\ IdsKnown /\ UnusedKeys /\ QuotesUsed /\ PlacedAlone
      /\ NothingPlaced /\ OneEach /\ NeverReleasedBlindly /\ SettledWithDelivery
  BY Tables DEF Inv, ThreadsReady
<1>2. ASSUME At(t, "execute"), NEW out \in SupplierOrders \cup {"rejected", "unknown", "noid"},
             MovesWithAnswer(t, "record", out), UNCHANGED tables,
             supplier' \in [SupplierOrders -> SupplierRow],
             \A r \in SupplierOrders : \/ supplier'[r].for = supplier[r].for
                                       \/ out # "rejected" /\ supplier'[r].for = call[t].key,
             \A p, r \in SupplierOrders :
               supplier'[p].for = call[t].key /\ supplier'[r].for = call[t].key => p = r
      PROVE  Inv'
  <2>1. PICK k \in Keys : k = call[t].key /\ Placing(t)
    BY <1>1, <1>2 DEF Ready, At, Placing
  <2>2. CallAt(t) /\ call'[t].pc = "record" /\ call'[t].key = k /\ call'[t].out = out
        /\ call'[t].event = call[t].event
    BY <1>2, <2>1, MovesAnswer
  <2>3. /\ \A p \in SupplierOrders : supplier[p].for # k
        /\ resv[k] \in {"held", "waived"} /\ order[k].status = "reserved"
        /\ \A u \in Threads \ {t} : Placing(u) => call[u].key # k
    BY <1>1, <1>2, <2>1 DEF NothingPlaced, PlacedAlone
  <2>4. TypeOK'
    BY <1>1, <1>2, <2>2, Tables DEF TablesOK, tables, CallAt
  <2>5. ThreadsReady'
    BY <1>1, <1>2, <2>2 DEF ThreadsReady, Ready, tables, At, Placing, Looking, CallAt
  <2>6. IdsKnown' /\ QuotesUsed' /\ SettledWithDelivery'
    BY <1>1, <1>2 DEF IdsKnown, QuotesUsed, SettledWithDelivery, Delivered, tables
  <2>7. UnusedKeys'
    BY <1>1, <1>2, <2>1, <2>3 DEF UnusedKeys, tables
  <2>8. PlacedAlone'
    BY <1>1, <1>2, <2>1, <2>2, <2>3 DEF PlacedAlone, Placing, CallAt, tables
  <2>9. NothingPlaced'
    BY <1>1, <1>2, <2>1, <2>2, <2>3 DEF NothingPlaced, At, Placing, CallAt
  <2>10. OneEach'
    BY <1>1, <1>2, <2>3 DEF OneEach
  <2>11. NeverReleasedBlindly'
    BY <1>1, <1>2, <2>1, <2>3 DEF NeverReleasedBlindly, tables
  <2> QED BY <2>4, <2>5, <2>6, <2>7, <2>8, <2>9, <2>10, <2>11 DEF Inv
<1>3. ASSUME NEW p \in SupplierOrders, NEW out \in {p, "noid", "unknown"}, ExecutePlaced(t, p, out)
      PROVE  Inv'
  <2>1. At(t, "execute") /\ MovesWithAnswer(t, "record", out) /\ UNCHANGED tables
    BY <1>3 DEF ExecutePlaced, MovesWithAnswer
  <2>2. out \in SupplierOrders \cup {"rejected", "unknown", "noid"} /\ out # "rejected"
    BY PurchaseConstants
  <2>3. call[t].key \in Keys
    BY <1>1, <2>1 DEF Ready, At, Placing
  <2>4. supplier' = [supplier EXCEPT ![p] = [state |-> "pending", for |-> call[t].key]]
    BY <1>3 DEF ExecutePlaced
  <2>5. /\ supplier' \in [SupplierOrders -> SupplierRow] /\ supplier'[p].for = call[t].key
        /\ \A r \in SupplierOrders \ {p} : supplier'[r].for = supplier[r].for
    BY <1>1, <2>3, <2>4 DEF TablesOK, SupplierRow
  <2>6. \A r \in SupplierOrders : supplier[r].for # call[t].key
    BY <1>1, <2>1 DEF NothingPlaced
  <2> QED BY <1>2, <2>1, <2>2, <2>5, <2>6
<1>4. ASSUME NEW out \in {"rejected", "unknown"}, ExecuteRefused(t, out)
      PROVE  Inv'
  <2>1. At(t, "execute") /\ MovesWithAnswer(t, "record", out) /\ UNCHANGED tables /\ UNCHANGED supplier
    BY <1>4 DEF ExecuteRefused, MovesWithAnswer
  <2>2. \A r \in SupplierOrders : supplier[r].for # call[t].key
    BY <1>1, <2>1 DEF NothingPlaced
  <2> QED BY <1>1, <1>2, <2>1, <2>2 DEF TablesOK
<1> QED BY <1>3, <1>4

-----------------------------------------------------------------------------
(* resolve_unknown_order *)

LEMMA BindStep ==
  ASSUME Inv, NEW t \in Threads, NEW k \in Keys, NEW p \in SupplierOrders, Bind(t, k, p)
  PROVE  Inv'
<1>1. item \in [Proxies -> ItemRow]
  BY Tables DEF TablesOK, Inv
<1>2. order[k].status \notin {"none", "reserved"}
  BY DEF Bind, Resolvable
<1>3. \A u \in Threads : Placing(u) => call[u].key # k
  BY <1>2 DEF Inv, PlacedAlone
<1>4. SetsIdClean(k, p, "provisioning") /\ Sets(t, OnBound(k))
  BY DEF Bind, SetsIdClean, Sets, OnBound
<1>5. /\ OrderAt(k) /\ order'[k].status = "provisioning"
      /\ order'[k].quote = order[k].quote /\ order'[k].poid = p
  BY <1>4, IdSet DEF Statuses
<1>6. order'[k].poid # None
  BY <1>5, PurchaseConstants
<1>7. CallAt(t) /\ call'[t].pc = "observe" /\ call'[t].key = k /\ call'[t].event = None
  BY <1>4, OnBoundRow, SetsOne
<1>8. Ready(t)' /\ ~Placing(t)'
  BY <1>6, <1>7 DEF Ready, At, Placing, Looking
<1> QED BY <1>1, <1>2, <1>3, <1>5, <1>6, <1>7, <1>8, OnlyOrderMoves DEF Bind

\* An administrator gives the points back, and the audit says so.
LEMMA ConfirmSteps ==
  ASSUME Inv, NEW k \in Keys, ConfirmNotOrdered(k) \/ ConfirmProviderRefunded(k)
  PROVE  Inv'
<1>1. TablesOK
  BY Tables DEF Inv
<1>2. /\ order[k].status \notin {"none", "reserved"} /\ resv' = RefundOrRelease(k)
      /\ audit' = audit \cup {k} /\ UNCHANGED <<quote, item, supplier, event, call>>
  BY DEF ConfirmNotOrdered, ConfirmProviderRefunded, Resolvable
<1>3. \A u \in Threads : Placing(u) => call[u].key # k
  BY <1>2 DEF Inv, PlacedAlone
<1>4. PICK e \in Errors : SetsOutcome(k, "failed", e)
  BY DEF ConfirmNotOrdered, ConfirmProviderRefunded, SetsOutcome, Errors
<1>5. Restated(k, "failed")
  BY <1>4, OutcomeSet DEF Statuses, Terminal
<1>6. ResvAt(k) /\ resv'[k] \notin {"held", "settled"}
  BY <1>1, <1>2 DEF TablesOK, RefundOrRelease, ResvAt, ResvStates
<1>7. item' \in [Proxies -> ItemRow] /\ audit' \subseteq Keys /\ call' \in [Threads -> CallRow]
  BY <1>1, <1>2 DEF TablesOK
<1> QED BY <1>2, <1>3, <1>5, <1>6, <1>7, OrderMoves DEF Restated

-----------------------------------------------------------------------------
(* Quotes, events and the supplier *)

\* A quote changes before it is used, an event after it was recorded, the
\* supplier moves its order: rows and points are not concerned.
LEMMA OutsideMoves ==
  ASSUME Inv, UNCHANGED <<order, resv, item, audit>>,
         quote' \in [Quotes -> QuoteRow],
         \A q \in Quotes : quote[q].status = "accepted" => quote'[q].status = "accepted",
         event' \in [Events -> EventRow],
         \A e \in Events : /\ event[e].status # "none" => event'[e].status # "none"
                           /\ event'[e].status # "none" => event'[e].of # None,
         supplier' \in [SupplierOrders -> SupplierRow],
         \A p \in SupplierOrders : supplier'[p].for = supplier[p].for,
         call' \in [Threads -> CallRow],
         \A u \in Threads : call'[u] = call[u] \/ (Ready(u)' /\ ~Placing(u)')
  PROVE  Inv'
<1>1. TypeOK'
  BY Tables DEF TablesOK, Inv
<1>2. ThreadsReady'
  BY CallTyped DEF Inv, ThreadsReady, Ready, At, Placing, Looking, CallRow
<1>3. IdsKnown' /\ UnusedKeys' /\ OneEach' /\ NeverReleasedBlindly' /\ SettledWithDelivery'
  BY DEF Inv, IdsKnown, UnusedKeys, OneEach, NeverReleasedBlindly, SettledWithDelivery, Delivered
<1>4. QuotesUsed'
  BY DEF Inv, QuotesUsed
<1>5. PlacedAlone' /\ NothingPlaced'
  <2>1. \A u \in Threads : Placing(u)' => call'[u] = call[u]
    OBVIOUS
  <2>2. \A u \in Threads : At(u, "execute") \/ At(u, "record") <=> Placing(u)
    BY DEF At, Placing
  <2> QED BY <2>1, <2>2 DEF Inv, PlacedAlone, NothingPlaced, At, Placing
<1> QED BY <1>1, <1>2, <1>3, <1>4, <1>5 DEF Inv

LEMMA QuoteSteps ==
  ASSUME Inv, NEW q \in Quotes
  PROVE  /\ CreateQuote(q) \/ QuoteExpires(q) => Inv'
         /\ \A t \in Threads : BeginFree(t, q) => Inv'
<1>1. TablesOK /\ IdsKnown
  BY Tables DEF Inv
<1>2. ASSUME quote[q].status # "accepted",
             \/ quote' = [quote EXCEPT ![q].status = "open"]
             \/ quote' = [quote EXCEPT ![q].expired = TRUE]
      PROVE  /\ quote' \in [Quotes -> QuoteRow]
             /\ \A r \in Quotes : quote[r].status = "accepted" => quote'[r].status = "accepted"
  <2>1. CASE quote' = [quote EXCEPT ![q].status = "open"]
    BY <1>1, <1>2, <2>1 DEF TablesOK, QuoteRow
  <2>2. CASE quote' = [quote EXCEPT ![q].expired = TRUE]
    BY <1>1, <1>2, <2>2 DEF TablesOK, QuoteRow
  <2> QED BY <1>2, <2>1, <2>2
<1>3. ASSUME CreateQuote(q) \/ QuoteExpires(q) PROVE Inv'
  <2>1. /\ quote[q].status # "accepted" /\ UNCHANGED <<order, resv, item, supplier, audit, event, call>>
        /\ \/ quote' = [quote EXCEPT ![q].status = "open"]
           \/ quote' = [quote EXCEPT ![q].expired = TRUE]
    BY <1>3 DEF CreateQuote, QuoteExpires
  <2> QED BY <1>1, <1>2, <2>1, OutsideMoves DEF TablesOK, IdsKnown
<1>4. ASSUME NEW t \in Threads, BeginFree(t, q) PROVE Inv'
  <2>1. Sets(t, OnQuote(q)) /\ quote[q].status # "accepted"
    BY <1>4 DEF BeginFree, Sets, OnQuote
  <2>2. CallAt(t) /\ call'[t].pc = "count" /\ call'[t].quote = q /\ call'[t].event = None
    BY <2>1, OnQuoteRow, SetsOne
  <2>3. Ready(t)' /\ ~Placing(t)'
    BY <2>2 DEF Ready, At, Placing, Looking
  <2>4. quote' = [quote EXCEPT ![q].status = "open"] /\ UNCHANGED <<order, resv, item, supplier, audit, event>>
    BY <1>4 DEF BeginFree
  <2> QED BY <1>1, <1>2, <2>1, <2>2, <2>3, <2>4, OutsideMoves DEF TablesOK, IdsKnown, CallAt
<1> QED BY <1>3, <1>4

LEMMA EventSteps ==
  ASSUME Inv
  PROVE  /\ \A e \in Events, p \in SupplierOrders : RecordWebhook(e, p) => Inv'
         /\ \A t \in Threads, e \in Events : ClaimEvent(t, e) => Inv'
         /\ \A t \in Threads : EndEvent(t) => Inv'
<1>1. TablesOK /\ IdsKnown /\ ThreadsReady
  BY Tables DEF Inv
<1>2. ASSUME NEW e \in Events, NEW p \in SupplierOrders, RecordWebhook(e, p) PROVE Inv'
  <2>1. event' = [event EXCEPT ![e] = [status |-> "pending", of |-> p]] /\ p # None
    BY <1>2, PurchaseConstants DEF RecordWebhook
  <2>2. /\ event' \in [Events -> EventRow] /\ event'[e].of = p
        /\ event'[e].status # "none" /\ \A f \in Events \ {e} : event'[f] = event[f]
    BY <1>1, <2>1 DEF TablesOK, EventRow
  <2>3. UNCHANGED <<quote, order, resv, item, supplier, audit, call>>
    BY <1>2 DEF RecordWebhook
  <2> QED BY <1>1, <2>1, <2>2, <2>3, OutsideMoves DEF TablesOK, IdsKnown
<1>3. ASSUME NEW e \in Events, event[e].status # "none",
             NEW s \in {"processing", "processed", "unmatched", "retry"},
             event' = [event EXCEPT ![e].status = s]
      PROVE  /\ event' \in [Events -> EventRow] /\ event'[e].status = s
             /\ \A f \in Events : /\ event[f].status # "none" => event'[f].status # "none"
                                  /\ event'[f].status # "none" => event'[f].of # None
  BY <1>1, <1>3 DEF TablesOK, EventRow, IdsKnown
<1>4. ASSUME NEW t \in Threads, NEW e \in Events, ClaimEvent(t, e) PROVE Inv'
  <2>1. /\ event[e].status # "none" /\ event' = [event EXCEPT ![e].status = "processing"]
        /\ Sets(t, OnEvent(e)) /\ UNCHANGED <<quote, order, resv, item, supplier, audit>>
    BY <1>4 DEF ClaimEvent, Claimable, Sets, OnEvent
  <2>2. CallAt(t) /\ call'[t].pc = "match" /\ call'[t].event = e
    BY <2>1, OnEventRow, SetsOne
  <2>3. /\ event' \in [Events -> EventRow] /\ event'[e].status = "processing"
        /\ \A f \in Events : /\ event[f].status # "none" => event'[f].status # "none"
                             /\ event'[f].status # "none" => event'[f].of # None
    BY <1>3, <2>1
  <2>4. Ready(t)' /\ ~Placing(t)'
    BY <2>2, <2>3, PurchaseConstants DEF Ready, At, Placing, Looking
  <2> QED BY <1>1, <2>1, <2>2, <2>3, <2>4, OutsideMoves DEF TablesOK, CallAt
<1>5. ASSUME NEW t \in Threads, EndEvent(t) PROVE Inv'
  <2>1. /\ call[t].event \in Events /\ call[t].pc \in {"processed", "unmatched", "retry"}
        /\ Sets(t, Idle) /\ event' = [event EXCEPT ![call[t].event].status = call[t].pc]
        /\ UNCHANGED <<quote, order, resv, item, supplier, audit>>
    BY <1>1, <1>5 DEF EndEvent, Stop, Sets, ThreadsReady, Ready, TablesOK, CallRow
  <2>2. CallAt(t) /\ call'[t].pc = "idle" /\ call'[t].event = None
    BY <2>1, IdleRow, SetsOne
  <2>3. Ready(t)' /\ ~Placing(t)'
    BY <2>2 DEF Ready, At, Placing, Looking
  <2>4. event[call[t].event].status # "none"
    BY <1>1, <1>5 DEF EndEvent, ThreadsReady, Ready
  <2>5. /\ event' \in [Events -> EventRow]
        /\ \A f \in Events : /\ event[f].status # "none" => event'[f].status # "none"
                             /\ event'[f].status # "none" => event'[f].of # None
    BY <1>3, <2>1, <2>4
  <2> QED BY <1>1, <2>1, <2>2, <2>3, <2>5, OutsideMoves DEF TablesOK, CallAt
<1> QED BY <1>2, <1>4, <1>5

LEMMA SupplierStep ==
  ASSUME Inv, NEW p \in SupplierOrders, NEW s \in {"active"} \cup Terminal, SupplierMoves(p, s)
  PROVE  Inv'
<1>1. TablesOK /\ IdsKnown
  BY Tables DEF Inv
<1>2. supplier' = [supplier EXCEPT ![p].state = s] /\ UNCHANGED <<quote, order, resv, item, audit, event, call>>
  BY DEF SupplierMoves, tables
<1>3. supplier' \in [SupplierOrders -> SupplierRow] /\ \A r \in SupplierOrders : supplier'[r].for = supplier[r].for
  BY <1>1, <1>2 DEF TablesOK, SupplierRow
<1> QED BY <1>1, <1>2, <1>3, OutsideMoves DEF TablesOK, IdsKnown

-----------------------------------------------------------------------------
(* The theorems *)

LEMMA NextInv == Inv /\ [Next]_vars => Inv'
<1> SUFFICES ASSUME Inv, [Next]_vars PROVE Inv'
  OBVIOUS
<1>1. CASE UNCHANGED vars
  <2>1. UNCHANGED tables /\ UNCHANGED supplier /\ UNCHANGED call
    BY <1>1 DEF vars, tables
  <2> QED BY <2>1, CallTyped, ThreadsMove
<1>2. ASSUME NEW t \in Threads, OrderStep(t) PROVE Inv'
  BY <1>2, ReadingSteps, QuoteSteps, ReserveStep, ExecuteSteps, RecordSteps DEF OrderStep
<1>3. ASSUME NEW t \in Threads, ReconcileStep(t) PROVE Inv'
  BY <1>3, ReadingSteps, ApplySteps, EventSteps DEF ReconcileStep
<1>4. ASSUME AdminStep PROVE Inv'
  BY <1>4, BindStep, ConfirmSteps DEF AdminStep
<1>5. CASE Next
  BY <1>2, <1>3, <1>4, <1>5, ReadingSteps, QuoteSteps, EventSteps, SupplierStep DEF Next
<1> QED BY <1>1, <1>5

LEMMA Invariance == Spec => []Inv
BY InitInv, NextInv, PTL DEF Spec

\* Rows, events and threads of the purchase keep their types, whatever
\* requests, workers, administrators and the supplier do.
THEOREM PurchaseTypes == Spec => []TypeOK
<1>1. Inv => TypeOK
  BY DEF Inv
<1> QED BY <1>1, Invariance, PTL

\* create_order never buys twice: for any number of requests, repeated, raced
\* or cut off anywhere, the supplier has at most one order per key and per quote.
THEOREM BoughtOnce == Spec => []ExecutedOnce
<1>1. Inv => ExecutedOnce
  <2> SUFFICES ASSUME Inv, NEW p \in SupplierOrders, NEW r \in SupplierOrders, p # r,
                      supplier[p].for # None, supplier[r].for # None
               PROVE  /\ supplier[p].for # supplier[r].for
                      /\ order[supplier[p].for].quote # order[supplier[r].for].quote
    BY DEF ExecutedOnce
  <2>1. supplier[p].for # supplier[r].for
    BY DEF Inv, OneEach
  <2>2. supplier[p].for \in Keys /\ supplier[r].for \in Keys
    BY Tables DEF TablesOK, Inv, SupplierRow
  <2>3. order[supplier[p].for].status # "none" /\ order[supplier[r].for].status # "none"
    BY <2>2 DEF Inv, UnusedKeys
  <2> QED BY <2>1, <2>2, <2>3 DEF Inv, QuotesUsed
<1> QED BY <1>1, Invariance, PTL

\* Without an administrator's decision the points of a purchase go back only if
\* the supplier holds no order for it: no unreadable answer, crash, late webhook
\* or terminal state gives them back while the platform may have paid.
THEOREM NoBlindRelease == Spec => []NeverReleasedBlindly
<1>1. Inv => NeverReleasedBlindly
  BY DEF Inv
<1> QED BY <1>1, Invariance, PTL

\* Points are charged with the delivery of the asset and not otherwise, even
\* when reconciliations with stale answers, bindings and refunds are mixed.
THEOREM ChargedOnDelivery == Spec => []SettledWithDelivery
<1>1. Inv => SettledWithDelivery
  BY DEF Inv
<1> QED BY <1>1, Invariance, PTL

-----------------------------------------------------------------------------
(* Held points can be resolved *)

\* Nobody binds another purchase's order: a row and a request know only the
\* supplier's order that was placed for them.
OwnIds ==
  /\ \A k \in Keys : order[k].poid # None =>
       supplier[order[k].poid].state # "none" /\ supplier[order[k].poid].for = k
  /\ \A t \in Threads : At(t, "record") /\ call[t].out \in SupplierOrders =>
       supplier[call[t].out].state # "none" /\ supplier[call[t].out].for = call[t].key

\* An order is active or expired only after its points were charged.
PaidFirst ==
  /\ \A k \in Keys : order[k].status \in {"active", "expired"} => resv[k] # "held"
  /\ \A t \in Threads : At(t, "sync") => resv[call[t].key] # "held"

HeldInv == OwnIds /\ PaidFirst /\ NoOrphanedHold

\* A step that leaves orders and points alone and moves threads that place nothing.
LEMMA HeldAside ==
  ASSUME Inv, HeldInv, UNCHANGED <<order, resv>>,
         \A p \in SupplierOrders : /\ supplier'[p].for = supplier[p].for
                                   /\ supplier[p].state # "none" => supplier'[p].state # "none",
         \A u \in Threads : \/ call'[u] = call[u]
                            \/ /\ ~Placing(u) /\ ~Placing(u)'
                               /\ At(u, "sync")' => resv[call'[u].key] # "held"
  PROVE  HeldInv'
<1>1. \A k \in Keys : order[k].poid # None => order[k].poid \in SupplierOrders
  BY OrderTyped DEF OrderRow
<1>2. OwnIds'
  <2>1. \A u \in Threads : At(u, "record")' => call'[u] = call[u] /\ At(u, "record")
    BY DEF At, Placing
  <2>2. OwnIds
    BY DEF HeldInv
  <2>3. ASSUME NEW k \in Keys, order'[k].poid # None
        PROVE  supplier'[order'[k].poid].state # "none" /\ supplier'[order'[k].poid].for = k
    <3>1. order'[k] = order[k] /\ order[k].poid \in SupplierOrders
      BY <1>1, <2>3
    <3>2. supplier[order[k].poid].state # "none" /\ supplier[order[k].poid].for = k
      BY <2>2, <2>3, <3>1 DEF OwnIds
    <3> QED BY <3>1, <3>2
  <2>4. ASSUME NEW u \in Threads, At(u, "record")', call'[u].out \in SupplierOrders
        PROVE  supplier'[call'[u].out].state # "none" /\ supplier'[call'[u].out].for = call'[u].key
    <3>1. call'[u] = call[u] /\ At(u, "record")
      BY <2>1, <2>4
    <3>2. call[u].out \in SupplierOrders
      BY <2>4, <3>1
    <3>3. supplier[call[u].out].state # "none" /\ supplier[call[u].out].for = call[u].key
      BY <2>2, <3>1, <3>2 DEF OwnIds
    <3> QED BY <3>1, <3>2, <3>3
  <2> QED BY <2>3, <2>4 DEF OwnIds
<1>3. PaidFirst'
  BY DEF HeldInv, PaidFirst, At
<1>4. NoOrphanedHold'
  BY DEF HeldInv, NoOrphanedHold, Placing
<1> QED BY <1>2, <1>3, <1>4 DEF HeldInv

\* A step that changes one order to a status somebody acts on, or whose points
\* are not held any more.
LEMMA HeldOrder ==
  ASSUME Inv, HeldInv, NEW k \in Keys, OrderAt(k), ResvAt(k), UNCHANGED supplier,
         \/ order'[k].poid = order[k].poid
         \/ supplier[order'[k].poid].state # "none" /\ supplier[order'[k].poid].for = k,
         resv'[k] = "held" => resv[k] = "held",
         order'[k].status \in {"active", "expired"} => resv'[k] # "held",
         order'[k].status \in Resolvable \/ resv'[k] # "held",
         \A u \in Threads : \/ call'[u] = call[u]
                            \/ /\ ~Placing(u)' /\ ~At(u, "sync")'
                               /\ Placing(u) => call[u].key = k
  PROVE  HeldInv'
<1>1. OwnIds'
  BY DEF HeldInv, OwnIds, At, Placing, OrderAt
<1>2. \A j \in Keys : resv'[j] = "held" => resv[j] = "held"
  BY DEF ResvAt
<1>3. \A u \in Threads : At(u, "sync")' => call'[u] = call[u] /\ At(u, "sync") /\ call[u].key \in Keys
  BY DEF At, Inv, ThreadsReady, Ready, Looking
<1>4. PaidFirst'
  BY <1>2, <1>3 DEF HeldInv, PaidFirst, OrderAt, At
<1>5. NoOrphanedHold'
  BY DEF HeldInv, NoOrphanedHold, Placing, OrderAt, ResvAt
<1> QED BY <1>1, <1>4, <1>5 DEF HeldInv

LEMMA HeldReserve ==
  ASSUME Inv, HeldInv, NEW t \in Threads, NEW hold \in {"held", "waived"}, ReserveOrder(t, hold)
  PROVE  HeldInv'
<1>1. TablesOK /\ Ready(t) /\ UnusedKeys
  BY Tables DEF Inv, ThreadsReady
<1>2. PICK k \in Keys, q \in Quotes : k = call[t].key /\ q = call[t].quote
  BY <1>1 DEF ReserveOrder, Ready, At
<1>3. OrderAt(k) /\ order'[k].status = "reserved" /\ order'[k].poid = None
  BY <1>1, <1>2 DEF ReserveOrder, TablesOK, OrderAt, OrderRow, Statuses
<1>4. ResvAt(k) /\ UNCHANGED supplier
  BY <1>1, <1>2 DEF ReserveOrder, TablesOK, ResvAt, ResvStates
<1>5. CallAt(t) /\ call'[t].pc = "execute" /\ call'[t].key = k /\ ~Placing(t)
  BY <1>2, MovesOne DEF ReserveOrder, Moves, Pcs, At, Placing
<1>6. order[k].status = "none" /\ order[k].poid = None
  <2>1. order[k].status = "none" /\ order[k] = NoOrder
    BY <1>1, <1>2 DEF ReserveOrder, Usable, UnusedKeys
  <2>2. NoOrder.poid = None
    BY DEF NoOrder
  <2> QED BY <2>1, <2>2
<1>7. OwnIds'
  BY <1>3, <1>4, <1>5 DEF HeldInv, OwnIds, At, OrderAt, CallAt
<1>8. \A u \in Threads : At(u, "sync")' => /\ call'[u] = call[u] /\ At(u, "sync")
                                           /\ call[u].key \in Keys \ {k}
  BY <1>5, <1>6 DEF At, Inv, ThreadsReady, Ready, Looking, CallAt
<1>9. PaidFirst'
  BY <1>3, <1>4, <1>8 DEF HeldInv, PaidFirst, OrderAt, ResvAt, At
<1>10. NoOrphanedHold'
  BY <1>3, <1>4, <1>5 DEF HeldInv, NoOrphanedHold, Placing, OrderAt, ResvAt, CallAt
<1> QED BY <1>7, <1>9, <1>10 DEF HeldInv

LEMMA HeldExecute ==
  ASSUME Inv, HeldInv, NEW t \in Threads
  PROVE  /\ \A p \in SupplierOrders : \A out \in {p, "noid", "unknown"} : ExecutePlaced(t, p, out) => HeldInv'
         /\ \A out \in {"rejected", "unknown"} : ExecuteRefused(t, out) => HeldInv'
<1>1. TablesOK /\ Ready(t)
  BY Tables DEF Inv, ThreadsReady
<1>2. ASSUME At(t, "execute"), NEW out \in SupplierOrders \cup {"rejected", "unknown", "noid"},
             MovesWithAnswer(t, "record", out), UNCHANGED tables,
             \A r \in SupplierOrders : supplier[r].state # "none" => supplier'[r] = supplier[r],
             out \in SupplierOrders => supplier'[out].state # "none" /\ supplier'[out].for = call[t].key
      PROVE  HeldInv'
  <2>1. /\ CallAt(t) /\ call'[t].pc = "record" /\ call'[t].key = call[t].key /\ call'[t].out = out
        /\ Placing(t)
    BY <1>2, MovesAnswer DEF At, Placing
  <2>2. \A k \in Keys : order[k].poid # None => order[k].poid \in SupplierOrders
    BY OrderTyped DEF OrderRow
  <2>3. OwnIds'
    BY <1>2, <2>1, <2>2 DEF HeldInv, OwnIds, At, CallAt, tables
  <2>4. PaidFirst'
    BY <1>2, <2>1 DEF HeldInv, PaidFirst, At, CallAt, tables
  <2>5. NoOrphanedHold'
    BY <1>2, <2>1 DEF HeldInv, NoOrphanedHold, Placing, CallAt, tables
  <2> QED BY <2>3, <2>4, <2>5 DEF HeldInv
<1>3. ASSUME NEW p \in SupplierOrders, NEW out \in {p, "noid", "unknown"}, ExecutePlaced(t, p, out)
      PROVE  HeldInv'
  <2>1. /\ At(t, "execute") /\ MovesWithAnswer(t, "record", out) /\ UNCHANGED tables
        /\ supplier[p].state = "none"
        /\ supplier' = [supplier EXCEPT ![p] = [state |-> "pending", for |-> call[t].key]]
    BY <1>3 DEF ExecutePlaced, MovesWithAnswer
  <2>2. /\ supplier'[p].for = call[t].key /\ supplier'[p].state = "pending"
        /\ \A r \in SupplierOrders \ {p} : supplier'[r] = supplier[r]
    BY <1>1, <2>1 DEF TablesOK
  <2>3. /\ out \in SupplierOrders \cup {"rejected", "unknown", "noid"}
        /\ out \in SupplierOrders => out = p
    BY PurchaseConstants
  <2> QED BY <1>2, <2>1, <2>2, <2>3
<1>4. ASSUME NEW out \in {"rejected", "unknown"}, ExecuteRefused(t, out)
      PROVE  HeldInv'
  <2>1. At(t, "execute") /\ MovesWithAnswer(t, "record", out) /\ UNCHANGED tables /\ UNCHANGED supplier
    BY <1>4 DEF ExecuteRefused, MovesWithAnswer
  <2>2. out \notin SupplierOrders
    BY PurchaseConstants
  <2> QED BY <1>2, <2>1, <2>2
<1> QED BY <1>3, <1>4

\* Recording the supplier's answer.  The id the supplier gave is not bound to
\* another purchase, so its request does not die of the unique index.
LEMMA HeldRecord ==
  ASSUME Inv, HeldInv, NEW t \in Threads
  PROVE  /\ RecordUnknown(t) \/ RecordRejected(t) \/ RecordPlaced(t) => HeldInv'
         /\ ~RecordPlacedRefused(t)
<1>1. TablesOK /\ Ready(t)
  BY Tables DEF Inv, ThreadsReady
<1>2. At(t, "record") => call[t].key \in Keys /\ Placing(t)
  BY <1>1 DEF Ready, At, Placing
<1>3. ASSUME RecordUnknown(t) PROVE HeldInv'
  <2>1. PICK k \in Keys : k = call[t].key
    BY <1>2, <1>3 DEF RecordUnknown
  <2>2. /\ SetsOutcome(k, "provider_unknown", "other") /\ Leave(t, "processed")
        /\ UNCHANGED <<resv, supplier, event>>
    BY <1>3, <2>1 DEF RecordUnknown, SetsOutcome, Return
  <2>3. Restated(k, "provider_unknown")
    BY <2>2, OutcomeSet DEF Statuses, Errors
  <2>4. CallAt(t) /\ ~Placing(t)' /\ ~At(t, "sync")'
    BY <2>2, LeavesIdle
  <2>5. ResvAt(k)
    BY <1>1, <2>2 DEF TablesOK, ResvAt
  <2> QED BY <2>1, <2>2, <2>3, <2>4, <2>5, HeldOrder DEF Restated, Resolvable, CallAt
<1>4. ASSUME RecordRejected(t) PROVE HeldInv'
  <2>1. PICK k \in Keys : k = call[t].key
    BY <1>2, <1>4 DEF RecordRejected
  <2>2. /\ SetsOutcome(k, "failed", "other") /\ Leave(t, "processed")
        /\ resv' = Release(k) /\ UNCHANGED <<supplier, event>>
    BY <1>4, <2>1 DEF RecordRejected, SetsOutcome, Return
  <2>3. Restated(k, "failed")
    BY <2>2, OutcomeSet DEF Statuses, Terminal, Errors
  <2>4. CallAt(t) /\ ~Placing(t)' /\ ~At(t, "sync")'
    BY <2>2, LeavesIdle
  <2>5. ResvAt(k) /\ resv'[k] # "held"
    BY <1>1, <2>2 DEF TablesOK, Release, ResvAt, ResvStates
  <2> QED BY <2>1, <2>2, <2>3, <2>4, <2>5, HeldOrder DEF Restated, CallAt
<1>5. ASSUME RecordPlaced(t) PROVE HeldInv'
  <2>1. PICK k \in Keys : k = call[t].key
    BY <1>2, <1>5 DEF RecordPlaced
  <2>2. /\ SetsId(k, call[t].out, "provisioning") /\ Sets(t, OnPlaced(k)) /\ At(t, "record")
        /\ call[t].out \in SupplierOrders /\ UNCHANGED <<resv, supplier>>
    BY <1>5, <2>1 DEF RecordPlaced, SetsId, Sets, OnPlaced
  <2>3. OrderAt(k) /\ order'[k].status = "provisioning" /\ order'[k].poid = call[t].out
    BY <2>2, IdSet DEF Statuses
  <2>4. supplier[call[t].out].state # "none" /\ supplier[call[t].out].for = k
    BY <2>1, <2>2 DEF HeldInv, OwnIds
  <2>5. CallAt(t) /\ ~Placing(t)' /\ ~At(t, "sync")'
    BY <2>2, OnPlacedRow, SetsOne DEF Placing, At
  <2>6. ResvAt(k)
    BY <1>1, <2>2 DEF TablesOK, ResvAt
  <2> QED BY <2>1, <2>2, <2>3, <2>4, <2>5, <2>6, HeldOrder DEF Resolvable, CallAt
<1>6. ASSUME RecordPlacedRefused(t) PROVE FALSE
  <2>1. /\ At(t, "record") /\ call[t].out \in SupplierOrders
        /\ \E j \in Keys \ {call[t].key} : order[j].poid = call[t].out
    BY <1>6 DEF RecordPlacedRefused, Unbound
  <2>2. supplier[call[t].out].for = call[t].key
    BY <2>1 DEF HeldInv, OwnIds
  <2> QED BY <2>1, <2>2, PurchaseConstants DEF HeldInv, OwnIds
<1> QED BY <1>3, <1>4, <1>5, <1>6

LEMMA HeldApply ==
  ASSUME Inv, HeldInv, NEW t \in Threads,
         \/ ObserveFails(t) \/ ApplyTerminal(t) \/ ApplyEnded(t) \/ ApplyActive(t)
         \/ DeliveryFails(t) \/ ApplyPending(t) \/ SyncApply(t)
  PROVE  HeldInv'
<1>1. TablesOK /\ Ready(t)
  BY Tables DEF Inv, ThreadsReady
<1>2. Looking(t) /\ ~Placing(t) /\ UNCHANGED <<supplier, event>>
  BY DEF ObserveFails, ApplyTerminal, ApplyEnded, ApplyActive, DeliveryFails, ApplyPending,
         SyncApply, Abandon, At, Looking, Placing
<1>3. PICK k \in Keys : k = call[t].key
  BY <1>1, <1>2 DEF Ready
<1>4. CallAt(t) /\ ~Placing(t)' /\ ~At(t, "sync")'
  <2>1. Leave(t, "processed") \/ Leave(t, "retry")
    BY DEF ObserveFails, ApplyTerminal, ApplyEnded, ApplyActive, DeliveryFails, ApplyPending,
           SyncApply, Abandon, Return
  <2> QED BY <1>2, <2>1, LeavesIdle
<1>5. CASE ObserveFails(t) \/ DeliveryFails(t)
  <2>1. /\ SetsError(k, "other") \/ order' = order
        /\ UNCHANGED resv
    BY <1>3, <1>5 DEF ObserveFails, DeliveryFails, Abandon, SetsError
  <2>2. Restated(k, order[k].status)
    <3>1. CASE SetsError(k, "other")
      BY <3>1, ErrorSet DEF Errors
    <3>2. CASE order' = order
      BY <3>2, OrderTyped DEF Restated, OrderAt
    <3> QED BY <2>1, <3>1, <3>2
  <2>3. ResvAt(k)
    BY <1>1, <2>1 DEF TablesOK, ResvAt
  <2>4. order[k].status \in Resolvable \/ resv[k] # "held"
    BY <1>1, <1>2, <1>3 DEF HeldInv, NoOrphanedHold, Inv, PlacedAlone, Placing, Ready
  <2> QED BY <1>2, <1>4, <2>1, <2>2, <2>3, <2>4, HeldOrder DEF Restated, CallAt, HeldInv, PaidFirst
<1>6. CASE ApplyTerminal(t) \/ ApplyPending(t)
  <2>1. /\ UNCHANGED resv
        /\ \/ SetsOutcome(k, "provider_unknown", "refund_unconfirmed")
           \/ SetsStatus(k, "provisioning")
    BY <1>3, <1>6 DEF ApplyTerminal, ApplyPending, SetsOutcome, SetsStatus
  <2>2. Restated(k, "provider_unknown") \/ Restated(k, "provisioning")
    BY <2>1, OutcomeSet, StatusSet DEF Statuses, Errors
  <2>3. ResvAt(k)
    BY <1>1, <2>1 DEF TablesOK, ResvAt
  <2> QED BY <1>2, <1>4, <2>1, <2>2, <2>3, HeldOrder DEF Restated, Resolvable, CallAt
<1>7. CASE ApplyEnded(t)
  <2>1. SetsOutcome(k, call[t].seen, "") /\ call[t].seen \in Terminal /\ Delivered(k) /\ UNCHANGED resv
    BY <1>3, <1>7 DEF ApplyEnded, SetsOutcome
  <2>2. Restated(k, call[t].seen)
    BY <2>1, OutcomeSet DEF Statuses, Errors
  <2>3. ResvAt(k) /\ resv'[k] # "held"
    BY <1>1, <2>1 DEF TablesOK, ResvAt, Inv, SettledWithDelivery
  <2> QED BY <1>2, <1>4, <2>2, <2>3, HeldOrder DEF Restated, CallAt
<1>8. CASE ApplyActive(t)
  <2>1. SetsStatus(k, "active") /\ resv' = Settle(k)
    BY <1>3, <1>8 DEF ApplyActive, SetsStatus
  <2>2. Restated(k, "active")
    BY <2>1, StatusSet DEF Statuses
  <2>3. ResvAt(k) /\ resv'[k] # "held"
    BY <1>1, <2>1 DEF TablesOK, Settle, ResvAt, ResvStates
  <2> QED BY <1>2, <1>4, <2>2, <2>3, HeldOrder DEF Restated, CallAt
<1>9. CASE SyncApply(t)
  <2>1. UNCHANGED resv /\ resv[k] # "held"
    BY <1>3, <1>9 DEF SyncApply, HeldInv, PaidFirst
  <2>2. order' = order \/ (SetsStatus(k, call[t].seen) /\ call[t].seen \in Terminal)
    BY <1>3, <1>9 DEF SyncApply, SetsStatus
  <2>3. OrderAt(k) /\ order'[k].poid = order[k].poid
    BY <2>2, OrderTyped, StatusSet DEF Statuses, OrderAt, Restated
  <2>4. ResvAt(k)
    BY <1>1, <2>1 DEF TablesOK, ResvAt
  <2> QED BY <1>2, <1>4, <2>1, <2>3, <2>4, HeldOrder DEF CallAt
<1> QED BY <1>5, <1>6, <1>7, <1>8, <1>9

LEMMA HeldAdmin ==
  ASSUME ~Mistakes, Inv, HeldInv, NEW k \in Keys
  PROVE  /\ \A t \in Threads, p \in SupplierOrders : Bind(t, k, p) => HeldInv'
         /\ ConfirmNotOrdered(k) \/ ConfirmProviderRefunded(k) => HeldInv'
<1>1. TablesOK
  BY Tables DEF Inv
<1>2. ASSUME NEW t \in Threads, NEW p \in SupplierOrders, Bind(t, k, p) PROVE HeldInv'
  <2>1. /\ SetsIdClean(k, p, "provisioning") /\ Sets(t, OnBound(k)) /\ At(t, "idle")
        /\ supplier[p].state # "none" /\ supplier[p].for = k /\ UNCHANGED <<resv, supplier>>
    BY <1>2 DEF Bind, SetsIdClean, Sets, OnBound
  <2>2. OrderAt(k) /\ order'[k].status = "provisioning" /\ order'[k].poid = p
    BY <2>1, IdSet DEF Statuses
  <2>3. CallAt(t) /\ ~Placing(t)' /\ ~At(t, "sync")' /\ ~Placing(t)
    BY <2>1, OnBoundRow, SetsOne DEF Placing, At
  <2>4. ResvAt(k)
    BY <1>1, <2>1 DEF TablesOK, ResvAt
  <2> QED BY <2>1, <2>2, <2>3, <2>4, HeldOrder DEF Resolvable, CallAt
<1>3. ASSUME ConfirmNotOrdered(k) \/ ConfirmProviderRefunded(k) PROVE HeldInv'
  <2>1. resv' = RefundOrRelease(k) /\ UNCHANGED <<supplier, call>>
    BY <1>3 DEF ConfirmNotOrdered, ConfirmProviderRefunded
  <2>2. PICK e \in Errors : SetsOutcome(k, "failed", e)
    BY <1>3 DEF ConfirmNotOrdered, ConfirmProviderRefunded, SetsOutcome, Errors
  <2>3. Restated(k, "failed")
    BY <2>2, OutcomeSet DEF Statuses, Terminal
  <2>4. ResvAt(k) /\ resv'[k] # "held"
    BY <1>1, <2>1 DEF TablesOK, RefundOrRelease, ResvAt, ResvStates
  <2> QED BY <2>1, <2>3, <2>4, HeldOrder DEF Restated
<1> QED BY <1>2, <1>3

LEMMA HeldInit == Init => HeldInv
<1> SUFFICES ASSUME Init PROVE HeldInv
  OBVIOUS
<1>1. /\ \A k \in Keys : order[k].poid = None /\ order[k].status = "none" /\ resv[k] = "none"
      /\ \A t \in Threads : call[t].pc = "idle"
  BY DEF Init, NoOrder, Idle
<1> QED BY <1>1 DEF HeldInv, OwnIds, PaidFirst, NoOrphanedHold, At

\* The steps that only read or move a thread that places nothing.
LEMMA HeldReading ==
  ASSUME Inv, HeldInv, NEW t \in Threads
  PROVE  /\ \A k \in PaidKeys, q \in Quotes : BeginOrder(t, k, q) => HeldInv'
         /\ \A q \in Quotes : BeginFree(t, q) => HeldInv'
         /\ CountAttempts(t) \/ Refuse(t) \/ LoseRace(t) => HeldInv'
         /\ \A k \in Keys : Reconcile(t, k) \/ SyncRead(t, k) => HeldInv'
         /\ \A e \in Events : ClaimEvent(t, e) => HeldInv'
         /\ Observe(t) \/ MatchEvent(t) \/ Unmatched(t) \/ EndEvent(t) => HeldInv'
<1> USE DEF At, Placing
<1>1. TablesOK /\ Ready(t)
  BY Tables DEF Inv, ThreadsReady
<1>2. ASSUME UNCHANGED <<order, resv, supplier>>, CallAt(t), ~Placing(t), ~Placing(t)',
             At(t, "sync")' => resv[call'[t].key] # "held"
      PROVE  HeldInv'
  BY <1>2, HeldAside DEF CallAt
<1>3. ASSUME NEW k \in PaidKeys, NEW q \in Quotes, BeginOrder(t, k, q) PROVE HeldInv'
  <2>1. Sets(t, OnKey(k, q)) /\ k \in Keys /\ UNCHANGED <<order, resv, supplier>> /\ At(t, "idle")
    BY <1>3 DEF BeginOrder, OnKey, Sets, Keys, tables
  <2> QED BY <1>2, <2>1, OnKeyRow, SetsOne
<1>4. ASSUME NEW q \in Quotes, BeginFree(t, q) PROVE HeldInv'
  <2>1. Sets(t, OnQuote(q)) /\ UNCHANGED <<order, resv, supplier>> /\ At(t, "idle")
    BY <1>4 DEF BeginFree, OnQuote, Sets
  <2> QED BY <1>2, <2>1, OnQuoteRow, SetsOne
<1>5. ASSUME CountAttempts(t) PROVE HeldInv'
  <2>1. /\ MovesWithKey(t, "lock", FreeKey(Attempts + 1)) /\ FreeKey(Attempts + 1) \in Keys
        /\ UNCHANGED <<order, resv, supplier>> /\ At(t, "count")
    BY <1>5, NextFreeKey DEF CountAttempts, MovesWithKey, tables
  <2>2. CallAt(t) /\ call'[t].pc = "lock"
    BY <2>1, MovesKey DEF Pcs
  <2> QED BY <1>2, <2>1, <2>2
<1>6. ASSUME Refuse(t) \/ LoseRace(t) PROVE HeldInv'
  <2>1. Leave(t, "processed") /\ ~Placing(t) /\ UNCHANGED <<order, resv, supplier, event>>
    BY <1>6 DEF Refuse, LoseRace, Return, tables
  <2> QED BY <1>2, <2>1, LeavesIdle
<1>7. ASSUME NEW k \in Keys, Reconcile(t, k) PROVE HeldInv'
  <2>1. /\ Sets(t, OnApply(k, supplier[order[k].poid].state)) /\ order[k].poid # None
        /\ UNCHANGED <<order, resv, supplier>> /\ At(t, "idle")
    BY <1>7 DEF Reconcile, OnApply, Sets, tables
  <2>2. supplier[order[k].poid].state \in SeenStates
    BY <1>1, <2>1 DEF TablesOK, OrderRow, SupplierRow, SeenStates
  <2> QED BY <1>2, <2>1, <2>2, OnApplyRow, SetsOne
<1>8. ASSUME NEW k \in Keys, SyncRead(t, k) PROVE HeldInv'
  <2>1. /\ Sets(t, OnSync(k, supplier[order[k].poid].state)) /\ order[k].status = "active"
        /\ UNCHANGED <<order, resv, supplier>> /\ At(t, "idle")
    BY <1>8 DEF SyncRead, OnSync, Sets, tables
  <2>2. order[k].poid # None /\ resv[k] # "held"
    BY <2>1 DEF Inv, IdsKnown, HeldInv, PaidFirst
  <2>3. supplier[order[k].poid].state \in SeenStates
    BY <1>1, <2>2 DEF TablesOK, OrderRow, SupplierRow, SeenStates
  <2>4. CallAt(t) /\ call'[t].pc = "sync" /\ call'[t].key = k
    BY <2>1, <2>3, OnSyncRow, SetsOne
  <2> QED BY <1>2, <2>1, <2>2, <2>4
<1>9. ASSUME NEW e \in Events, ClaimEvent(t, e) PROVE HeldInv'
  <2>1. Sets(t, OnEvent(e)) /\ UNCHANGED <<order, resv, supplier>> /\ At(t, "idle")
    BY <1>9 DEF ClaimEvent, OnEvent, Sets
  <2> QED BY <1>2, <2>1, OnEventRow, SetsOne
<1>10. ASSUME Observe(t) PROVE HeldInv'
  <2>1. /\ MovesWithState(t, "apply", supplier[order[call[t].key].poid].state)
        /\ UNCHANGED <<order, resv, supplier>> /\ At(t, "observe")
    BY <1>10 DEF Observe, MovesWithState, tables
  <2>2. supplier[order[call[t].key].poid].state \in SeenStates
    BY <1>1, <2>1 DEF TablesOK, OrderRow, SupplierRow, SeenStates, Ready, Looking
  <2> QED BY <1>2, <2>1, <2>2, MovesState
<1>11. ASSUME MatchEvent(t) PROVE HeldInv'
  <2>1. PICK k \in Keys : MovesWithKey(t, "observe", k)
    BY <1>11 DEF MatchEvent, MovesWithKey
  <2>2. CallAt(t) /\ call'[t].pc = "observe"
    BY <2>1, MovesKey DEF Pcs
  <2> QED BY <1>2, <1>11, <2>2 DEF MatchEvent, tables
<1>12. ASSUME Unmatched(t) PROVE HeldInv'
  <2>1. Moves(t, "unmatched") /\ UNCHANGED <<order, resv, supplier>> /\ At(t, "match")
    BY <1>12 DEF Unmatched, Moves, tables
  <2>2. CallAt(t) /\ call'[t].pc = "unmatched"
    BY <2>1, MovesOne DEF Pcs
  <2> QED BY <1>2, <2>1, <2>2
<1>13. ASSUME EndEvent(t) PROVE HeldInv'
  <2>1. Sets(t, Idle) /\ UNCHANGED <<order, resv, supplier>> /\ ~Placing(t)
    BY <1>13 DEF EndEvent, Stop, Sets
  <2> QED BY <1>2, <2>1, IdleRow, SetsOne
<1> QED BY <1>3, <1>4, <1>5, <1>6, <1>7, <1>8, <1>9, <1>10, <1>11, <1>12, <1>13

LEMMA HeldNext == ASSUME ~Crashes, ~Mistakes PROVE Inv /\ HeldInv /\ [Next]_vars => HeldInv'
<1> SUFFICES ASSUME Inv, HeldInv, [Next]_vars PROVE HeldInv'
  OBVIOUS
<1>1. CASE UNCHANGED vars
  BY <1>1, HeldAside DEF vars
<1>2. ASSUME NEW t \in Threads, OrderStep(t) PROVE HeldInv'
  BY <1>2, HeldReading, HeldReserve, HeldExecute, HeldRecord DEF OrderStep
<1>3. ASSUME NEW t \in Threads, ReconcileStep(t) PROVE HeldInv'
  BY <1>3, HeldReading, HeldApply DEF ReconcileStep
<1>4. ASSUME AdminStep PROVE HeldInv'
  BY <1>4, HeldAdmin DEF AdminStep
<1>5. ASSUME NEW q \in Quotes, CreateQuote(q) \/ QuoteExpires(q) PROVE HeldInv'
  BY <1>5, HeldAside DEF CreateQuote, QuoteExpires
<1>6. ASSUME NEW e \in Events, NEW p \in SupplierOrders, RecordWebhook(e, p) PROVE HeldInv'
  BY <1>6, HeldAside DEF RecordWebhook
<1>7. ASSUME NEW p \in SupplierOrders, NEW s \in {"active"} \cup Terminal, SupplierMoves(p, s)
      PROVE  HeldInv'
  <2>1. supplier' = [supplier EXCEPT ![p].state = s] /\ UNCHANGED <<order, resv, call>>
    BY <1>7 DEF SupplierMoves, tables
  <2>2. s # "none"
    BY DEF Terminal
  <2>3. supplier \in [SupplierOrders -> SupplierRow]
    BY Tables DEF TablesOK, Inv
  <2>4. \A r \in SupplierOrders : /\ supplier'[r].for = supplier[r].for
                                  /\ supplier[r].state # "none" => supplier'[r].state # "none"
    BY <2>1, <2>2, <2>3 DEF SupplierRow
  <2> QED BY <2>1, <2>4, HeldAside
<1>8. CASE Next
  BY <1>2, <1>3, <1>4, <1>5, <1>6, <1>7, <1>8 DEF Next, Crash
<1> QED BY <1>1, <1>8

\* While no thread dies and administrators bind each purchase to its own order,
\* held points are never out of reach: a request is between its two
\* transactions, or the order has a status the worker or an administrator acts on.
THEOREM HoldsWithinReach == ASSUME ~Crashes, ~Mistakes PROVE Spec => []NoOrphanedHold
<1>1. HeldInv => NoOrphanedHold
  BY DEF HeldInv
<1> QED BY <1>1, Invariance, HeldInit, HeldNext, PTL DEF Spec
=============================================================================
