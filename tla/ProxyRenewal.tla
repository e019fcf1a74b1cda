----------------------------- MODULE ProxyRenewal -----------------------------
(***************************************************************************)
(* Automatic renewal of one bought proxy (proxy_purchases.py): the row of  *)
(* proxy_renewal_schedules, the three passes of process_due_renewals and   *)
(* sync_active_assets run by the worker of every application process,      *)
(* reconcile_order, the renewal switch of the owner and the                *)
(* administrator's resolutions.                                            *)
(*                                                                         *)
(* Each committed transaction is one action; calls to the supplier lie     *)
(* between them, and what a thread read in a call or before it (work[w])   *)
(* may be stale when it is written.  Expiry dates are counted in paid      *)
(* periods of a month or more: the first ends at 1, 0 is an expiry the     *)
(* supplier did not tell.  The clock counts the periods that are within    *)
(* three days of their end; when a lease runs out is left open.            *)
(***************************************************************************)
EXTENDS Integers, FiniteSets

CONSTANTS
  Workers,    \* worker threads of the processes, and administrators' requests
  None,       \* no id
  MaxExpiry,  \* bound: the supplier extends up to this period
  Events      \* which of the following may happen

ASSUME RenewalConstants ==
  /\ MaxExpiry \in Nat \ {0}
  /\ None \notin Workers \cup (0 .. MaxExpiry)
  /\ Events \subseteq {"crash", "switch", "reconcile", "admin", "local error", "no expiry",
                      "read rejected", "ended", "late", "overdue"}

Crashes == "crash" \in Events               \* threads die
Switches == "switch" \in Events             \* the owner turns renewal off and on
Upserts == "reconcile" \in Events           \* reconcile_order runs for the delivered order
Admins == "admin" \in Events                \* administrators resolve renewals
LocalErrors == "local error" \in Events     \* the transaction after an extension fails
Gaps == "no expiry" \in Events              \* what is read of the proxy lacks the expiry
Rejections == "read rejected" \in Events    \* the read that confirms an extension is refused
Ends == "ended" \in Events                  \* readings may tell that the proxy has ended, or waits
Late == "late" \in Events                   \* an extension may pass a reading not yet written
Overdue == "overdue" \in Events             \* a renewal may stay undone for a whole period

VARIABLES
  sched,     \* the schedule row
  renewal,   \* renewal_enabled of the order
  active,    \* whether the order's status is active
  asset,     \* expires_at of the owned proxy
  hold,      \* reservations, by the expiry in their key renew:<order>:<expiry>
  supplier,  \* the period the supplier's proxy really runs to
  month,     \* the last period that is within three days of its end, or over
  work       \* local state of the threads

vars == <<sched, renewal, active, asset, hold, supplier, month, work>>
Expiries == 0 .. MaxExpiry
\* What the supplier may say of an expiry.
Answers == {supplier} \cup (IF Gaps THEN {0} ELSE {})

Kinds == {"missing", "uncertain", "admin", "reconcile", "sync"}
Idle == [pc |-> "idle", kind |-> "none", key |-> None, base |-> 0, got |-> 0]

\* How an expiry compares with the time: left open within its last three days.
Judged(e, status) == \/ status = "scheduled" /\ e > 0 /\ e >= month
                     \/ status = "missing_expiry" /\ e <= month

\* The row an INSERT writes.  Its next_attempt_at is three days before the end of
\* the period; soon says that it is minutes away instead.
NewSchedule(e, status) ==
  [status |-> status, enabled |-> TRUE, expires |-> e, soon |-> FALSE, base |-> 0,
   lease |-> None, leased |-> FALSE, res |-> None, key |-> e]
NoSchedule == [NewSchedule(0, "none") EXCEPT !.enabled = FALSE]

\* The first delivery wrote the asset, and the schedule if renewal was asked for.
Init ==
  /\ supplier = 1 /\ month = 0
  /\ renewal \in BOOLEAN
  /\ active = TRUE
  /\ asset \in Answers
  /\ \E status \in {"scheduled", "missing_expiry"} :
       /\ Judged(asset, status)
       /\ sched = IF renewal THEN NewSchedule(asset, status) ELSE NoSchedule
  /\ hold = [e \in Expiries |-> "none"]
  /\ work = [w \in Workers |-> Idle]

At(w, pc) == work[w].pc = pc
Return(w) == work' = [work EXCEPT ![w] = Idle]
NoLease(row) == [row EXCEPT !.lease = None, !.leased = FALSE]

\* settle_reservation and release_reservation leave a finished row alone.
Settle(e) == IF hold[e] = "held" THEN [hold EXCEPT ![e] = "settled"] ELSE hold
Release(e) == IF e # None /\ hold[e] = "held" THEN [hold EXCEPT ![e] = "released"] ELSE hold

\* _complete_renewal: whatever the row says by now.
MutCompleteRenewal(e) ==
  /\ sched' = [NoLease(sched) EXCEPT !.status = "scheduled", !.expires = @ + 1,
                                     !.key = sched.expires + 1, !.res = None, !.base = 0,
                                     !.soon = FALSE]
  /\ asset' = e
CompleteRenewal(e) ==
  /\ sched' = [NoLease(sched) EXCEPT !.status = "scheduled", !.expires = e, !.key = e,
                                     !.res = None, !.base = 0, !.soon = FALSE]
  /\ asset' = e

-----------------------------------------------------------------------------
(* The owner *)

\* ON CONFLICT(order_id) DO UPDATE: lease, reservation, baseline and key stay.
Upserted(e, status) ==
  IF sched.status = "none" THEN NewSchedule(e, status)
  ELSE [sched EXCEPT !.enabled = TRUE, !.expires = e, !.status = status, !.soon = FALSE]

\* set_order_renewal: the UPDATE of a row that exists, and the upsert if renewal
\* is turned on for an active order.
SetOrderRenewal(on) ==
  /\ Switches
  /\ renewal' = on
  /\ IF on /\ active
     THEN \E status \in {"scheduled", "missing_expiry"} :
            Judged(asset, status) /\ sched' = Upserted(asset, status)
     ELSE sched' = IF sched.status = "none" THEN sched
                   ELSE [sched EXCEPT !.enabled = on,
                                      !.status = IF on THEN "scheduled" ELSE "disabled"]
  /\ UNCHANGED <<active, asset, hold, supplier, month, work>>

-----------------------------------------------------------------------------
(* What reads the supplier and then writes: the passes over missing expiries  *)
(* and uncertain outcomes, reconcile_order, sync_active_assets                *)

\* A pass selects its rows, then asks the supplier about each.  "admin" is
\* admin_resolve_renewal (reconcile, confirm_extended), for any row.
Take(w, kind) ==
  /\ At(w, "idle")
  /\ CASE kind = "missing"   -> sched.enabled /\ sched.status = "missing_expiry"
       [] kind = "uncertain" -> sched.enabled /\ sched.status \in {"extending", "provider_unknown"}
       [] kind = "admin"     -> Admins /\ sched.status # "none"
       [] kind = "reconcile" -> Upserts
       [] kind = "sync"      -> active
  /\ work' = [work EXCEPT ![w] =
       IF kind \in {"uncertain", "admin"}
       THEN [Idle EXCEPT !.pc = "read", !.kind = kind, !.key = sched.res,
                         !.base = IF sched.base > 0 THEN sched.base ELSE sched.expires]
       ELSE [Idle EXCEPT !.pc = "read", !.kind = kind]]
  /\ UNCHANGED <<sched, renewal, active, asset, hold, supplier, month>>

\* The thread has read an expiry that it is about to write to the row or the asset.
Unwritten(w) == /\ work[w].pc \in {"apply", "ended"}
                /\ work[w].kind \in {"missing", "reconcile", "sync"}

\* The supplier tells of the proxy, with or without an expiry: it is active,
\* or has ended, or (get_order_proxies) is still being set up.
Read(w, pc, e) ==
  /\ At(w, "read")
  /\ e \in Answers
  /\ work' = [work EXCEPT ![w].pc = pc, ![w].got = e]
  /\ UNCHANGED <<sched, renewal, active, asset, hold, supplier, month>>
ReadExpiry(w, e) == Read(w, "apply", e)
ReadEnded(w, e) == Ends /\ work[w].kind \in {"reconcile", "sync"} /\ Read(w, "ended", e)
ReadWaiting(w) == Ends /\ work[w].kind = "reconcile" /\ Read(w, "waiting", supplier)

\* The call fails: the row is tried again in a later cycle.
ReadFails(w) ==
  /\ At(w, "read")
  /\ sched' = IF work[w].kind = "missing" THEN [sched EXCEPT !.soon = TRUE] ELSE sched
  /\ Return(w)
  /\ UNCHANGED <<renewal, active, asset, hold, supplier, month>>

\* The UPDATE names the row only, whatever it says by now.
ApplyMissing(w, status) ==
  /\ At(w, "apply") /\ work[w].kind = "missing"
  /\ Judged(work[w].got, status)
  /\ sched' = IF status = "scheduled"
              THEN [sched EXCEPT !.status = "scheduled", !.expires = work[w].got, !.soon = FALSE]
              ELSE [sched EXCEPT !.soon = TRUE]
  /\ Return(w)
  /\ UNCHANGED <<renewal, active, asset, hold, supplier, month>>

\* reconcile_order of the delivered order (webhook, administrator): the asset is
\* there already, the switch is read again in the transaction.
ApplyReconcile(w, status) ==
  /\ At(w, "apply") /\ work[w].kind = "reconcile"
  /\ Judged(work[w].got, status)
  /\ active' = TRUE
  /\ sched' = IF renewal THEN Upserted(work[w].got, status) ELSE sched
  /\ Return(w)
  /\ UNCHANGED <<renewal, asset, hold, supplier, month>>

ApplyWaiting(w) ==
  /\ At(w, "waiting")
  /\ active' = FALSE
  /\ Return(w)
  /\ UNCHANGED <<sched, renewal, asset, hold, supplier, month>>

\* sync_active_assets copies the expiry, if there is one, to the asset.
ApplySync(w) ==
  /\ At(w, "apply") /\ work[w].kind = "sync"
  /\ asset' = IF work[w].got > 0 THEN work[w].got ELSE asset
  /\ Return(w)
  /\ UNCHANGED <<sched, renewal, active, hold, supplier, month>>

\* reconcile_order and sync_active_assets when the proxy has ended.
ApplyEnded(w) ==
  /\ At(w, "ended")
  /\ active' = FALSE
  /\ asset' = IF work[w].kind = "sync" THEN work[w].got ELSE asset
  /\ sched' = IF sched.status = "none" THEN sched
              ELSE [NoLease(sched) EXCEPT !.enabled = FALSE, !.status = "ended"]
  /\ Return(w)
  /\ UNCHANGED <<renewal, hold, supplier, month>>

\* The expiry has not moved: still unconfirmed.
ApplyUnconfirmed(w) ==
  /\ At(w, "apply") /\ work[w].kind \in {"uncertain", "admin"}
  /\ work[w].got <= work[w].base
  /\ sched' = IF work[w].kind = "admin" THEN sched
              ELSE [NoLease(sched) EXCEPT !.status = "provider_unknown"]
  /\ Return(w)
  /\ UNCHANGED <<renewal, active, asset, hold, supplier, month>>

\* The expiry has moved: the extension happened, charge it.
MutExtensionSeen(w) == work[w].got >= work[w].base
ExtensionSeen(w) == work[w].got > work[w].base

MutApplyExtended(w) ==
  /\ At(w, "apply") /\ work[w].kind \in {"uncertain", "admin"}
  /\ ExtensionSeen(w)
  /\ work[w].key # None \/ work[w].kind = "admin"
  /\ CompleteRenewal(work[w].got)
  /\ Return(w)
  /\ UNCHANGED <<renewal, active, hold, supplier, month>>
ApplyExtended(w) ==
  /\ At(w, "apply") /\ work[w].kind \in {"uncertain", "admin"}
  /\ ExtensionSeen(w)
  /\ work[w].key # None \/ work[w].kind = "admin"
  /\ hold' = IF work[w].key # None THEN Settle(work[w].key) ELSE hold
  /\ CompleteRenewal(work[w].got)
  /\ Return(w)
  /\ UNCHANGED <<renewal, active, supplier, month>>

\* settle_reservation('') raises a BillingError, which this pass does not catch:
\* the whole renewal job ends, its later rows untouched.
JobAborts(w) ==
  /\ At(w, "apply") /\ work[w].kind = "uncertain"
  /\ ExtensionSeen(w)
  /\ work[w].key = None
  /\ Return(w)
  /\ UNCHANGED <<sched, renewal, active, asset, hold, supplier, month>>

-----------------------------------------------------------------------------
(* The pass over due renewals *)

\* The conditional UPDATE that claims the row: three days before the expiry, or
\* minutes after a failure, and when no lease is running.
MutClaimable ==
  /\ sched.enabled /\ sched.status \in {"scheduled", "provider_balance_low", "extending"}
  /\ sched.soon \/ sched.expires <= month
Claimable ==
  /\ sched.enabled /\ sched.status \in {"scheduled", "provider_balance_low"}
  /\ sched.soon \/ sched.expires <= month
  /\ ~sched.leased

Claim(w) ==
  /\ At(w, "idle")
  /\ Claimable
  /\ sched' = [sched EXCEPT !.status = "quoting", !.lease = w, !.leased = TRUE]
  /\ work' = [work EXCEPT ![w] = [Idle EXCEPT !.pc = "quote", !.key = sched.key]]
  /\ UNCHANGED <<renewal, active, asset, hold, supplier, month>>

LeaseExpires ==
  /\ sched.leased
  /\ sched' = [sched EXCEPT !.leased = FALSE]
  /\ UNCHANGED <<renewal, active, asset, hold, supplier, month, work>>

\* Safe reconciliation is off, or the supplier's balance is low: the update is
\* made by the owner of the lease only.
Postpone(w, status) ==
  /\ At(w, "quote")
  /\ sched' = IF sched.lease # w THEN sched
              ELSE [NoLease(sched) EXCEPT !.status = status,
                                          !.soon = @ \/ status = "provider_balance_low"]
  /\ Return(w)
  /\ UNCHANGED <<renewal, active, asset, hold, supplier, month>>

\* The cost ceiling is exceeded (_disable_renewal), or reserve_exact_cash_charge
\* raises: too few points, or the key is taken by another price.
Disable(w, status) ==
  /\ At(w, "quote")
  /\ sched' = [NoLease(sched) EXCEPT !.enabled = FALSE, !.status = status]
  /\ Return(w)
  /\ UNCHANGED <<renewal, active, asset, hold, supplier, month>>

\* Any other exception: before the reservation, or of the local transaction
\* that follows the supplier's answer.
TryLater(w) ==
  /\ At(w, "quote") \/ (At(w, "complete") /\ LocalErrors)
  /\ sched' = IF sched.status = "extending"
              THEN [NoLease(sched) EXCEPT !.status = "provider_unknown"]
              ELSE [NoLease(sched) EXCEPT !.status = "scheduled", !.soon = TRUE]
  /\ Return(w)
  /\ UNCHANGED <<renewal, active, asset, hold, supplier, month>>

\* A ProxyProviderError: the reservation named by the row is released if the
\* error is definitive, and the row is uncertain otherwise.
ProviderError(w, definitive) ==
  /\ IF definitive /\ sched.res # None
     THEN /\ hold' = Release(sched.res)
          /\ sched' = [NoLease(sched) EXCEPT !.enabled = FALSE, !.status = "failed"]
     ELSE /\ sched' = [NoLease(sched) EXCEPT !.status = "provider_unknown"]
          /\ UNCHANGED hold
  /\ Return(w)
  /\ UNCHANGED <<renewal, active, asset, supplier, month>>

QuoteError(w, definitive) == At(w, "quote") /\ ProviderError(w, definitive)

\* Hold the points under the row's key (an existing reservation of that key is
\* returned as it is) and mark the row; the mark does not test rowcount.
Reserve(w) ==
  /\ At(w, "quote")
  /\ hold' = IF hold[work[w].key] = "none" THEN [hold EXCEPT ![work[w].key] = "held"] ELSE hold
  /\ sched' = IF sched.lease = w
              THEN [sched EXCEPT !.status = "extending", !.res = work[w].key,
                                 !.base = sched.expires]
              ELSE sched
  /\ work' = [work EXCEPT ![w].pc = "extend"]
  /\ UNCHANGED <<renewal, active, asset, supplier, month>>

\* provider.extend_period, if carried out: its answer tells the new expiry, lacks
\* it, or is lost.  Unless Late, it does not pass a reading on its way to a row.
Extend(w, answer) ==
  /\ At(w, "extend")
  /\ supplier < MaxExpiry
  /\ Late \/ \A v \in Workers : ~Unwritten(v)
  /\ supplier' = supplier + 1
  /\ work' = [work EXCEPT ![w].pc = answer,
                          ![w].got = IF answer = "complete" THEN supplier + 1 ELSE 0]
  /\ UNCHANGED <<sched, renewal, active, asset, hold, month>>

\* provider.extend_period without effect: refused, or nobody can tell.
ExtendFails(w, outcome) ==
  /\ At(w, "extend")
  /\ work' = [work EXCEPT ![w].pc = outcome]
  /\ UNCHANGED <<sched, renewal, active, asset, hold, supplier, month>>

\* An answer without expiry is followed by provider.get_proxy, which may tell the
\* expiry, leave it open, or be rejected.  An expiry told now lies beyond the row's.
ConfirmExpiry(w, answer) ==
  /\ At(w, "confirm")
  /\ answer = "rejected" => Rejections
  /\ work' = [work EXCEPT ![w].pc = answer, ![w].got = IF answer = "complete" THEN supplier ELSE 0]
  /\ UNCHANGED <<sched, renewal, active, asset, hold, supplier, month>>

Complete(w) ==
  /\ At(w, "complete")
  /\ hold' = Settle(work[w].key)
  /\ CompleteRenewal(work[w].got)
  /\ Return(w)
  /\ UNCHANGED <<renewal, active, supplier, month>>

OutcomeUnknown(w) == At(w, "unknown") /\ ProviderError(w, FALSE)
Rejected(w) == At(w, "rejected") /\ ProviderError(w, TRUE)

-----------------------------------------------------------------------------
\* admin_resolve_renewal(confirm_not_extended).
ConfirmNotExtended ==
  /\ Admins
  /\ sched.status \in {"provider_unknown", "extending"}
  /\ hold' = Release(sched.res)
  /\ sched' = [NoLease(sched) EXCEPT !.enabled = FALSE, !.status = "not_extended",
                                     !.res = None]
  /\ UNCHANGED <<renewal, active, asset, supplier, month, work>>

Crash(w) ==
  /\ Crashes /\ ~At(w, "idle")
  /\ Return(w)
  /\ UNCHANGED <<sched, renewal, active, asset, hold, supplier, month>>

\* The next period comes within three days of its end.  The calls to the supplier
\* time out in seconds, the periods are months apart: every thread that was at
\* work has returned by then.  Unless Overdue, the row has been renewed or given
\* up before the next period is near its end, unless it waits for an expiry.
NextMonth ==
  /\ month < MaxExpiry
  /\ \/ Overdue \/ ~sched.enabled \/ month < sched.expires
     \/ sched.expires = 0 /\ month < supplier
  /\ \A w \in Workers : At(w, "idle")
  /\ month' = month + 1
  /\ UNCHANGED <<sched, renewal, active, asset, hold, supplier, work>>

ScanStep(w) ==
  \/ \E e \in Expiries : ReadExpiry(w, e) \/ ReadEnded(w, e)
  \/ ReadWaiting(w)
  \/ ReadFails(w)
  \/ \E status \in {"scheduled", "missing_expiry"} : ApplyMissing(w, status)
                                                   \/ ApplyReconcile(w, status)
  \/ ApplyWaiting(w)
  \/ ApplySync(w)
  \/ ApplyEnded(w)
  \/ ApplyUnconfirmed(w)
  \/ ApplyExtended(w)
  \/ JobAborts(w)

RenewStep(w) ==
  \/ \E status \in {"config_blocked", "provider_balance_low"} : Postpone(w, status)
  \/ \E status \in {"cost_limit", "insufficient_points"} : Disable(w, status)
  \/ TryLater(w)
  \/ \E definitive \in BOOLEAN : QuoteError(w, definitive)
  \/ Reserve(w)
  \/ \E answer \in {"complete", "confirm", "unknown"} : Extend(w, answer)
  \/ \E answer \in {"complete", "rejected", "unknown"} : ConfirmExpiry(w, answer)
  \/ \E outcome \in {"unknown", "rejected"} : ExtendFails(w, outcome)
  \/ Complete(w)
  \/ OutcomeUnknown(w)
  \/ Rejected(w)

Next ==
  \/ \E on \in BOOLEAN : SetOrderRenewal(on)
  \/ \E w \in Workers : \/ \E kind \in Kinds : Take(w, kind)
                        \/ ScanStep(w)
                        \/ Claim(w)
                        \/ RenewStep(w)
                        \/ Crash(w)
  \/ LeaseExpires
  \/ ConfirmNotExtended
  \/ NextMonth

Spec == Init /\ [][Next]_vars

\* Threads finish what they began, unless they die; the worker comes back to
\* the uncertain rows every 60 s, and the supplier tells the expiry in the end.
Fairness ==
  \A w \in Workers :
    /\ WF_vars(ScanStep(w) \/ RenewStep(w))
    /\ SF_vars(Take(w, "uncertain"))
    /\ SF_vars(work[w].kind = "uncertain" /\ \E e \in Expiries \ {0} : ReadExpiry(w, e))
    /\ SF_vars(ApplyExtended(w))
FairSpec == Spec /\ Fairness

-----------------------------------------------------------------------------
(* Properties *)

Charged == Cardinality({e \in Expiries : hold[e] = "settled"})
Pending == Cardinality({e \in Expiries : hold[e] = "held"})

\* Every row and every thread holds values of its type.
TypeOK ==
  /\ sched \in [status : {"none", "scheduled", "missing_expiry", "quoting", "extending",
                          "provider_unknown", "provider_balance_low", "config_blocked",
                          "cost_limit", "insufficient_points", "failed", "not_extended",
                          "disabled", "ended"},
                enabled : BOOLEAN, expires : Expiries, soon : BOOLEAN, base : Expiries,
                lease : Workers \cup {None}, leased : BOOLEAN,
                res : Expiries \cup {None}, key : Expiries]
  /\ renewal \in BOOLEAN /\ active \in BOOLEAN /\ asset \in Expiries /\ supplier \in 1 .. MaxExpiry
  /\ month \in Expiries
  /\ hold \in [Expiries -> {"none", "held", "settled", "released"}]
  /\ work \in [Workers -> [pc : {"idle", "read", "apply", "ended", "waiting", "quote",
                                 "extend", "confirm", "complete", "unknown", "rejected"},
                           kind : Kinds \cup {"none"},
                           key : Expiries \cup {None}, base : Expiries, got : Expiries]]

\* The owner never pays for nothing: there are at most as many charged renewals
\* as extensions by the supplier, whatever races, crashes, switches and
\* resolutions happen.
ChargedForExtension == Charged <= supplier - 1

\* The platform never pays twice for one charge: each extension by the supplier
\* is charged, or its points are still on hold.
ExtensionsPaid == supplier - 1 <= Charged + Pending

\* No row makes the pass over uncertain renewals raise, which would keep the
\* renewals behind it from running.  The code does not guarantee it (README).
NoAbort ==
  \A w \in Workers : At(w, "apply") /\ work[w].kind = "uncertain" /\ ExtensionSeen(w)
                       => work[w].key # None

\* A renewal that the supplier carried out is charged in the end, though the
\* worker died or never saw the answer, unless the proxy ends before that.
ExtensionCharged ==
  \A e \in Expiries :
    (hold[e] = "held" /\ sched.status = "extending" /\ sched.res = e /\ supplier > sched.base)
      ~> (hold[e] = "settled" \/ sched.status = "ended")
=============================================================================
