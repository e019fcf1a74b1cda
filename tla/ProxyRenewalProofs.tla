--------------------------- MODULE ProxyRenewalProofs ---------------------------
(***************************************************************************)
(* Proofs about ProxyRenewal for any number of worker threads and paid     *)
(* periods.                                                                *)
(***************************************************************************)
EXTENDS ProxyRenewal, FiniteSetTheorems, TLAPS

-----------------------------------------------------------------------------
(* Types *)

Statuses == {"none", "scheduled", "missing_expiry", "quoting", "extending", "provider_unknown",
             "provider_balance_low", "config_blocked", "cost_limit", "insufficient_points",
             "failed", "not_extended", "disabled", "ended"}
ScheduleRow ==
  [status : Statuses, enabled : BOOLEAN, expires : Expiries, soon : BOOLEAN, base : Expiries,
   lease : Workers \cup {None}, leased : BOOLEAN, res : Expiries \cup {None}, key : Expiries]
ThreadRow ==
  [pc : {"idle", "read", "apply", "ended", "waiting", "quote", "extend", "confirm", "complete",
         "unknown", "rejected"},
   kind : Kinds \cup {"none"}, key : Expiries \cup {None}, base : Expiries, got : Expiries]

TablesOK ==
  /\ sched \in ScheduleRow
  /\ renewal \in BOOLEAN /\ active \in BOOLEAN /\ asset \in Expiries /\ supplier \in 1 .. MaxExpiry
  /\ month \in Expiries
  /\ hold \in [Expiries -> {"none", "held", "settled", "released"}]
  /\ work \in [Workers -> ThreadRow]

\* Threads that renew know the key of their reservation.
Renewing == {"quote", "extend", "confirm", "complete", "unknown", "rejected"}
KeysKnown == \A w \in Workers : work[w].pc \in Renewing => work[w].key \in Expiries

TInv == TablesOK /\ KeysKnown

LEMMA Tables == (TypeOK <=> TablesOK) /\ (TypeOK' <=> TablesOK')
BY DEF TypeOK, TablesOK, ScheduleRow, ThreadRow, Statuses

LEMMA Periods == MaxExpiry \in Nat /\ 1 <= MaxExpiry /\ 0 \in Expiries /\ Expiries \subseteq Nat
<1>1. MaxExpiry \in Nat \ {0}
  BY RenewalConstants, Zenon
<1> QED BY <1>1 DEF Expiries

\* One thread moves.
LEMMA ThreadMoves ==
  ASSUME TInv, NEW w \in Workers, NEW x \in ThreadRow, work' = [work EXCEPT ![w] = x],
         x.pc \in Renewing => x.key \in Expiries
  PROVE  work' \in [Workers -> ThreadRow] /\ KeysKnown'
BY DEF TInv, TablesOK, KeysKnown

LEMMA IdleThread ==
  ASSUME TInv, NEW w \in Workers, Return(w)
  PROVE  work' \in [Workers -> ThreadRow] /\ KeysKnown' /\ work'[w] = Idle
<1>1. Idle \in ThreadRow /\ Idle.pc \notin Renewing
  BY Periods DEF Idle, ThreadRow, Renewing
<1>2. work' = [work EXCEPT ![w] = Idle] /\ work \in [Workers -> ThreadRow]
  BY DEF Return, TInv, TablesOK
<1>3. work' \in [Workers -> ThreadRow] /\ KeysKnown'
  BY <1>1, <1>2, ThreadMoves
<1> QED BY <1>2, <1>3

\* The rows that the steps write.
LEMMA ScheduleTypes ==
  ASSUME NEW s \in ScheduleRow, NEW e \in Expiries, NEW on \in BOOLEAN, NEW so \in BOOLEAN,
         NEW st \in Statuses
  PROVE  /\ NewSchedule(e, st) \in ScheduleRow /\ NoSchedule \in ScheduleRow
         /\ [s EXCEPT !.status = st] \in ScheduleRow
         /\ [s EXCEPT !.soon = so] \in ScheduleRow
         /\ [s EXCEPT !.status = st, !.soon = so] \in ScheduleRow
         /\ [s EXCEPT !.enabled = on, !.status = st] \in ScheduleRow
         /\ [s EXCEPT !.enabled = on, !.expires = e, !.status = st, !.soon = so] \in ScheduleRow
         /\ [s EXCEPT !.status = st, !.expires = e, !.soon = so] \in ScheduleRow
         /\ [s EXCEPT !.leased = on] \in ScheduleRow
         /\ NoLease(s) \in ScheduleRow
         /\ \A w \in Workers : [s EXCEPT !.status = st, !.lease = w, !.leased = on] \in ScheduleRow
         /\ \A b \in Expiries : [s EXCEPT !.status = st, !.res = e, !.base = b] \in ScheduleRow
         /\ [s EXCEPT !.enabled = on, !.status = st, !.res = None] \in ScheduleRow
         /\ [s EXCEPT !.status = st, !.expires = e, !.key = e, !.res = None, !.base = 0,
                      !.soon = so] \in ScheduleRow
<1>1. 0 \in Expiries
  BY Periods
<1>2. NewSchedule(e, st) \in ScheduleRow /\ NewSchedule(0, "none") \in ScheduleRow
  BY <1>1 DEF NewSchedule, ScheduleRow, Statuses
<1>3. NoSchedule \in ScheduleRow
  BY <1>2 DEF NoSchedule, ScheduleRow, Statuses
<1>4. NoLease(s) \in ScheduleRow
  BY DEF NoLease, ScheduleRow
<1>5. /\ [s EXCEPT !.status = st] \in ScheduleRow
      /\ [s EXCEPT !.soon = so] \in ScheduleRow
      /\ [s EXCEPT !.status = st, !.soon = so] \in ScheduleRow
      /\ [s EXCEPT !.enabled = on, !.status = st] \in ScheduleRow
      /\ [s EXCEPT !.leased = on] \in ScheduleRow
  BY DEF ScheduleRow
<1>6. /\ [s EXCEPT !.enabled = on, !.expires = e, !.status = st, !.soon = so] \in ScheduleRow
      /\ [s EXCEPT !.status = st, !.expires = e, !.soon = so] \in ScheduleRow
  BY DEF ScheduleRow
<1>7. /\ \A w \in Workers : [s EXCEPT !.status = st, !.lease = w, !.leased = on] \in ScheduleRow
      /\ \A b \in Expiries : [s EXCEPT !.status = st, !.res = e, !.base = b] \in ScheduleRow
      /\ [s EXCEPT !.enabled = on, !.status = st, !.res = None] \in ScheduleRow
  BY DEF ScheduleRow
<1>8. [s EXCEPT !.status = st, !.expires = e, !.key = e, !.res = None, !.base = 0, !.soon = so]
        \in ScheduleRow
  BY <1>1 DEF ScheduleRow
<1> QED BY <1>2, <1>3, <1>4, <1>5, <1>6, <1>7, <1>8

HoldStates == {"none", "held", "settled", "released"}

LEMMA HoldTypes ==
  ASSUME TInv, NEW e \in Expiries \cup {None}
  PROVE  /\ e # None => Settle(e) \in [Expiries -> HoldStates]
         /\ Release(e) \in [Expiries -> HoldStates]
         /\ hold \in [Expiries -> HoldStates]
BY DEF TInv, TablesOK, Settle, Release, HoldStates

LEMMA CompletedTypes ==
  ASSUME TInv, NEW e \in Expiries, CompleteRenewal(e)
  PROVE  sched' \in ScheduleRow /\ asset' \in Expiries
<1>1. sched \in ScheduleRow /\ "scheduled" \in Statuses
  BY DEF TInv, TablesOK, Statuses
<1>2. NoLease(sched) \in ScheduleRow
  BY <1>1, Periods, ScheduleTypes
<1> QED BY <1>1, <1>2, ScheduleTypes DEF CompleteRenewal

LEMMA UpsertedTypes ==
  ASSUME TInv, NEW e \in Expiries, NEW st \in {"scheduled", "missing_expiry"}
  PROVE  Upserted(e, st) \in ScheduleRow
<1>1. sched \in ScheduleRow /\ st \in Statuses
  BY DEF TInv, TablesOK, Statuses
<1> QED BY <1>1, ScheduleTypes DEF Upserted

LEMMA TypeInit == Init => TInv
<1> SUFFICES ASSUME Init PROVE TInv
  OBVIOUS
<1>1. /\ supplier \in 1 .. MaxExpiry /\ asset \in Expiries /\ supplier \in Expiries
      /\ month \in Expiries
  BY Periods DEF Init, Answers, Expiries
<1>2. sched \in ScheduleRow
  <2>1. PICK st \in {"scheduled", "missing_expiry"} :
          sched = IF renewal THEN NewSchedule(asset, st) ELSE NoSchedule
    BY DEF Init
  <2>2. NewSchedule(asset, st) \in ScheduleRow /\ NewSchedule(0, "none") \in ScheduleRow
    BY <1>1, Periods DEF NewSchedule, ScheduleRow, Statuses
  <2>3. NoSchedule \in ScheduleRow
    BY <2>2 DEF NoSchedule, ScheduleRow
  <2> QED BY <2>1, <2>2, <2>3
<1>3. Idle \in ThreadRow /\ Idle.pc \notin Renewing
  BY Periods DEF Idle, ThreadRow, Renewing
<1> QED BY <1>1, <1>2, <1>3 DEF Init, TInv, TablesOK, KeysKnown

\* The owner, resolutions and the clock keep the types.
LEMMA TypeOutside ==
  ASSUME TInv,
         \/ \E on \in BOOLEAN : SetOrderRenewal(on)
         \/ LeaseExpires \/ ConfirmNotExtended \/ NextMonth
  PROVE  TInv'
<1>0. /\ sched \in ScheduleRow /\ asset \in Expiries /\ supplier \in Expiries
      /\ renewal \in BOOLEAN /\ active \in BOOLEAN /\ supplier \in 1 .. MaxExpiry
      /\ month \in Expiries
      /\ work \in [Workers -> ThreadRow] /\ KeysKnown /\ sched.res \in Expiries \cup {None}
      /\ hold \in [Expiries -> HoldStates]
  BY Periods DEF TInv, TablesOK, Expiries, ScheduleRow, HoldStates
<1>1. NoLease(sched) \in ScheduleRow /\ {"scheduled", "disabled", "not_extended"} \subseteq Statuses
  BY <1>0, ScheduleTypes DEF Statuses
<1>2. work' = work /\ supplier' = supplier
  BY DEF SetOrderRenewal, LeaseExpires, ConfirmNotExtended, NextMonth
<1>3. month' \in Expiries
  <2>1. CASE NextMonth
    BY <1>0, <2>1, Periods DEF NextMonth, Expiries
  <2>2. CASE (\E on \in BOOLEAN : SetOrderRenewal(on)) \/ LeaseExpires \/ ConfirmNotExtended
    <3>1. month' = month
      BY <2>2, Zenon DEF SetOrderRenewal, LeaseExpires, ConfirmNotExtended
    <3> QED BY <1>0, <3>1
  <2> QED BY <2>1, <2>2
<1>4. /\ sched' \in ScheduleRow /\ renewal' \in BOOLEAN /\ active' \in BOOLEAN
      /\ asset' \in Expiries /\ hold' \in [Expiries -> HoldStates]
  <2>1. CASE \E on \in BOOLEAN : SetOrderRenewal(on)
    <3>1. PICK on \in BOOLEAN : SetOrderRenewal(on)
      BY <2>1
    <3>2. \A st \in {"scheduled", "missing_expiry"} : Upserted(asset, st) \in ScheduleRow
      BY <1>0, UpsertedTypes
    <3>3. [sched EXCEPT !.enabled = on, !.status = IF on THEN "scheduled" ELSE "disabled"]
            \in ScheduleRow
      BY <1>0 DEF ScheduleRow, Statuses
    <3> QED BY <1>0, <3>1, <3>2, <3>3 DEF SetOrderRenewal
  <2>2. CASE LeaseExpires
    BY <1>0, <1>1, <2>2, ScheduleTypes DEF LeaseExpires
  <2>3. CASE ConfirmNotExtended
    BY <1>0, <1>1, <2>3, ScheduleTypes, HoldTypes DEF ConfirmNotExtended
  <2>4. CASE NextMonth
    BY <1>0, <2>4 DEF NextMonth
  <2> QED BY <2>1, <2>2, <2>3, <2>4
<1> QED BY <1>0, <1>2, <1>3, <1>4 DEF TInv, TablesOK, KeysKnown, HoldStates

\* The steps that write what the supplier told of the proxy.
Writes(w) ==
  \/ \E status \in {"scheduled", "missing_expiry"} : ApplyMissing(w, status) \/ ApplyReconcile(w, status)
  \/ ApplyWaiting(w) \/ ApplySync(w) \/ ApplyEnded(w)

LEMMA TypeWrites ==
  ASSUME TInv, NEW w \in Workers, Writes(w)
  PROVE  TInv'
<1>0. /\ sched \in ScheduleRow /\ asset \in Expiries /\ month \in Expiries
      /\ renewal \in BOOLEAN /\ active \in BOOLEAN /\ supplier \in 1 .. MaxExpiry
      /\ hold \in [Expiries -> HoldStates] /\ work[w].got \in Expiries
  BY DEF TInv, TablesOK, HoldStates, ThreadRow
<1>1. Return(w) /\ UNCHANGED <<renewal, hold, supplier, month>>
  BY DEF Writes, ApplyMissing, ApplyReconcile, ApplyWaiting, ApplySync, ApplyEnded
<1>2. active' \in BOOLEAN /\ asset' \in Expiries
  BY <1>0 DEF Writes, ApplyMissing, ApplyReconcile, ApplyWaiting, ApplySync, ApplyEnded
<1>3. sched' \in ScheduleRow
  <2>1. ASSUME NEW st \in {"scheduled", "missing_expiry"}, ApplyMissing(w, st)
        PROVE  sched' \in ScheduleRow
    <3>1. "scheduled" \in Statuses
      BY DEF Statuses
    <3> QED BY <1>0, <2>1, <3>1, ScheduleTypes DEF ApplyMissing
  <2>2. ASSUME NEW st \in {"scheduled", "missing_expiry"}, ApplyReconcile(w, st)
        PROVE  sched' \in ScheduleRow
    BY <1>0, <2>2, UpsertedTypes DEF ApplyReconcile
  <2>3. CASE ApplyWaiting(w) \/ ApplySync(w)
    BY <1>0, <2>3 DEF ApplyWaiting, ApplySync
  <2>4. CASE ApplyEnded(w)
    <3>1. NoLease(sched) \in ScheduleRow /\ "ended" \in Statuses
      BY <1>0, ScheduleTypes DEF Statuses
    <3> QED BY <1>0, <2>4, <3>1, ScheduleTypes DEF ApplyEnded
  <2> QED BY <2>1, <2>2, <2>3, <2>4 DEF Writes
<1> QED BY <1>0, <1>1, <1>2, <1>3, IdleThread DEF TInv, TablesOK, HoldStates

\* The row of an uncertain or resolved renewal as a thread takes it.
TakenBase == IF sched.base > 0 THEN sched.base ELSE sched.expires
LEMMA Taken ==
  ASSUME TInv, NEW w \in Workers, NEW kind \in Kinds, Take(w, kind)
  PROVE  /\ work[w].pc = "idle" /\ UNCHANGED <<sched, renewal, active, asset, hold, supplier, month>>
         /\ work' \in [Workers -> ThreadRow] /\ KeysKnown'
         /\ \A v \in Workers \ {w} : work'[v] = work[v]
         /\ work'[w].pc = "read" /\ work'[w].kind = kind
         /\ IF kind \in {"uncertain", "admin"}
            THEN work'[w].key = sched.res /\ work'[w].base = TakenBase /\ sched.status # "none"
            ELSE work'[w].key = None
         /\ kind = "missing" => sched.enabled /\ sched.status = "missing_expiry"
         /\ kind = "uncertain" => sched.enabled /\ sched.status \in {"extending", "provider_unknown"}
         /\ kind = "admin" => Admins
         /\ kind = "reconcile" => Upserts
<1>0. /\ sched.res \in Expiries \cup {None} /\ TakenBase \in Expiries
      /\ work \in [Workers -> ThreadRow]
  BY DEF TInv, TablesOK, ScheduleRow, TakenBase
<1> DEFINE x == IF kind \in {"uncertain", "admin"}
                THEN [Idle EXCEPT !.pc = "read", !.kind = kind, !.key = sched.res, !.base = TakenBase]
                ELSE [Idle EXCEPT !.pc = "read", !.kind = kind]
<1>1. /\ x \in ThreadRow /\ x.pc = "read" /\ x.kind = kind
      /\ IF kind \in {"uncertain", "admin"} THEN x.key = sched.res /\ x.base = TakenBase
         ELSE x.key = None
  <2>1. CASE kind \in {"uncertain", "admin"}
    <3>1. x = [Idle EXCEPT !.pc = "read", !.kind = kind, !.key = sched.res, !.base = TakenBase]
      BY <2>1
    <3> HIDE DEF x
    <3>2. x \in ThreadRow /\ x.pc = "read" /\ x.kind = kind /\ x.key = sched.res /\ x.base = TakenBase
      BY <1>0, <3>1, Periods DEF Idle, ThreadRow
    <3> QED BY <2>1, <3>2
  <2>2. CASE kind \notin {"uncertain", "admin"}
    <3>1. x = [Idle EXCEPT !.pc = "read", !.kind = kind]
      BY <2>2
    <3> HIDE DEF x
    <3>2. x \in ThreadRow /\ x.pc = "read" /\ x.kind = kind /\ x.key = None
      BY <1>0, <3>1, Periods DEF Idle, ThreadRow
    <3> QED BY <2>2, <3>2
  <2> QED BY <2>1, <2>2
<1>2. work' = [work EXCEPT ![w] = x] /\ UNCHANGED <<sched, renewal, active, asset, hold, supplier, month>>
  BY DEF Take, TakenBase
<1>3. /\ work[w].pc = "idle"
      /\ kind \in {"uncertain", "admin"} => sched.status # "none"
      /\ kind = "missing" => sched.enabled /\ sched.status = "missing_expiry"
      /\ kind = "uncertain" => sched.enabled /\ sched.status \in {"extending", "provider_unknown"}
      /\ kind = "admin" => Admins
      /\ kind = "reconcile" => Upserts
  BY DEF Take, At
<1>4. "read" \notin Renewing
  BY DEF Renewing
<1> HIDE DEF x
<1>5. work' \in [Workers -> ThreadRow] /\ KeysKnown'
  BY <1>1, <1>2, <1>4, ThreadMoves
<1> QED BY <1>0, <1>1, <1>2, <1>3, <1>5

\* What a thread knows once the supplier has answered.
Hears(w) == \/ \E e \in Expiries : ReadExpiry(w, e) \/ ReadEnded(w, e)
            \/ ReadWaiting(w)
LEMMA Heard ==
  ASSUME TInv, NEW w \in Workers, Hears(w)
  PROVE  /\ UNCHANGED <<sched, renewal, active, asset, hold, supplier, month>>
         /\ work' \in [Workers -> ThreadRow] /\ KeysKnown'
         /\ \A v \in Workers \ {w} : work'[v] = work[v]
         /\ work[w].pc = "read" /\ work'[w].pc \in {"apply", "ended", "waiting"}
         /\ work'[w].kind = work[w].kind /\ work'[w].key = work[w].key
         /\ work'[w].base = work[w].base /\ work'[w].got \in Answers
         /\ work'[w].pc # "apply" => work[w].kind \in {"reconcile", "sync"}
         /\ work'[w].pc = "waiting" => work[w].kind = "reconcile"
<1>1. PICK pc \in {"apply", "ended", "waiting"}, e \in Expiries :
        /\ Read(w, pc, e)
        /\ pc # "apply" => work[w].kind \in {"reconcile", "sync"}
        /\ pc = "waiting" => work[w].kind = "reconcile"
  <2>1. supplier \in Expiries
    BY DEF TInv, TablesOK, Expiries
  <2> QED BY <2>1 DEF Hears, ReadExpiry, ReadEnded, ReadWaiting
<1>2. work[w] \in ThreadRow /\ work \in [Workers -> ThreadRow]
  BY DEF TInv, TablesOK
<1> DEFINE x == [work[w] EXCEPT !.pc = pc, !.got = e]
<1>3. /\ work' = [work EXCEPT ![w] = x] /\ work[w].pc = "read" /\ e \in Answers
      /\ UNCHANGED <<sched, renewal, active, asset, hold, supplier, month>>
  BY <1>1, <1>2 DEF Read, At
<1>4. /\ x \in ThreadRow /\ x.pc = pc /\ x.got = e /\ x.kind = work[w].kind
      /\ x.key = work[w].key /\ x.base = work[w].base
  BY <1>2 DEF ThreadRow
<1>5. pc \notin Renewing
  BY DEF Renewing
<1> HIDE DEF x
<1>6. work' \in [Workers -> ThreadRow] /\ KeysKnown'
  BY <1>3, <1>4, <1>5, ThreadMoves
<1> QED BY <1>1, <1>2, <1>3, <1>4, <1>6

\* The threads keep the types.
LEMMA TypeScans ==
  ASSUME TInv, NEW w \in Workers,
         (\E kind \in Kinds : Take(w, kind)) \/ ScanStep(w) \/ Claim(w) \/ Crash(w)
  PROVE  TInv'
<1>0. /\ sched \in ScheduleRow /\ asset \in Expiries /\ month \in Expiries
      /\ renewal \in BOOLEAN /\ active \in BOOLEAN /\ supplier \in 1 .. MaxExpiry
      /\ work \in [Workers -> ThreadRow] /\ sched.key \in Expiries
      /\ hold \in [Expiries -> HoldStates] /\ work[w] \in ThreadRow
      /\ work[w].key \in Expiries \cup {None} /\ work[w].got \in Expiries
  BY DEF TInv, TablesOK, ScheduleRow, HoldStates, ThreadRow
<1>1. NoLease(sched) \in ScheduleRow
  BY <1>0, ScheduleTypes DEF Statuses
<1>2. CASE \E kind \in Kinds : Take(w, kind)
  BY <1>0, <1>2, Taken DEF TInv, TablesOK, HoldStates
<1>3. CASE Hears(w)
  BY <1>0, <1>3, Heard DEF TInv, TablesOK, HoldStates
<1>4. CASE ReadFails(w)
  <2>1. sched' \in ScheduleRow
    BY <1>0, <1>4 DEF ReadFails, ScheduleRow
  <2> QED BY <1>0, <1>4, <2>1, IdleThread DEF ReadFails, TInv, TablesOK, HoldStates
<1>5. CASE Writes(w)
  BY <1>5, TypeWrites
<1>6. CASE ApplyUnconfirmed(w)
  <2>1. sched' \in ScheduleRow
    BY <1>0, <1>1, <1>6 DEF ApplyUnconfirmed, Statuses, ScheduleRow
  <2> QED BY <1>0, <1>6, <2>1, IdleThread DEF ApplyUnconfirmed, TInv, TablesOK, HoldStates
<1>7. CASE ApplyExtended(w)
  <2>1. sched' \in ScheduleRow /\ asset' \in Expiries
    BY <1>0, <1>7, CompletedTypes DEF ApplyExtended
  <2>2. hold' \in [Expiries -> HoldStates]
    BY <1>0, <1>7, HoldTypes DEF ApplyExtended
  <2> QED BY <1>0, <1>7, <2>1, <2>2, IdleThread DEF ApplyExtended, TInv, TablesOK, HoldStates
<1>8. CASE JobAborts(w) \/ Crash(w)
  BY <1>0, <1>8, IdleThread DEF JobAborts, Crash, TInv, TablesOK, HoldStates
<1>9. CASE Claim(w)
  <2> DEFINE x == [Idle EXCEPT !.pc = "quote", !.key = sched.key]
  <2>1. x \in ThreadRow /\ x.key \in Expiries
    BY <1>0, Periods DEF Idle, ThreadRow
  <2>2. work' = [work EXCEPT ![w] = x] /\ UNCHANGED <<renewal, active, asset, hold, supplier, month>>
    BY <1>9 DEF Claim
  <2>3. sched' \in ScheduleRow
    BY <1>0, <1>9, ScheduleTypes DEF Claim, Statuses
  <2> HIDE DEF x
  <2> QED BY <1>0, <2>1, <2>2, <2>3, ThreadMoves DEF TInv, TablesOK, HoldStates
<1> QED BY <1>2, <1>3, <1>4, <1>5, <1>6, <1>7, <1>8, <1>9 DEF ScanStep, Hears, Writes

LEMMA TypeRenews ==
  ASSUME TInv, NEW w \in Workers, RenewStep(w)
  PROVE  TInv'
<1>0. /\ sched \in ScheduleRow /\ asset \in Expiries /\ supplier \in Expiries /\ month \in Expiries
      /\ renewal \in BOOLEAN /\ active \in BOOLEAN /\ supplier \in 1 .. MaxExpiry
      /\ work \in [Workers -> ThreadRow] /\ sched.res \in Expiries \cup {None}
      /\ sched.expires \in Expiries
      /\ hold \in [Expiries -> HoldStates] /\ work[w] \in ThreadRow
      /\ work[w].pc \in Renewing => work[w].key \in Expiries
      /\ work[w].got \in Expiries
  BY Periods DEF TInv, TablesOK, Expiries, ScheduleRow, HoldStates, ThreadRow, KeysKnown
<1>1. NoLease(sched) \in ScheduleRow
  BY <1>0, ScheduleTypes DEF Statuses
<1>2. UNCHANGED <<renewal, active, month>>
  BY DEF RenewStep, Postpone, Disable, TryLater, QuoteError, ProviderError, Reserve, Extend,
         ConfirmExpiry, ExtendFails, Complete, OutcomeUnknown, Rejected
<1>3. supplier' \in 1 .. MaxExpiry
  BY <1>0, Periods
     DEF RenewStep, Postpone, Disable, TryLater, QuoteError, ProviderError, Reserve, Extend,
         ConfirmExpiry, ExtendFails, Complete, OutcomeUnknown, Rejected
<1> USE DEF At
<1>4. ASSUME NEW definitive \in BOOLEAN, ProviderError(w, definitive) PROVE TInv'
  <2>1. sched' \in ScheduleRow
    <3>1. \/ sched' = [NoLease(sched) EXCEPT !.enabled = FALSE, !.status = "failed"]
          \/ sched' = [NoLease(sched) EXCEPT !.status = "provider_unknown"]
      BY <1>4 DEF ProviderError
    <3>2. NoLease(sched) \in ScheduleRow
      BY <1>1
    <3> HIDE <1>0, <1>1, <1>4
    <3> QED BY <3>1, <3>2 DEF Statuses, ScheduleRow
  <2>2. hold' \in [Expiries -> HoldStates]
    BY <1>0, <1>4, HoldTypes DEF ProviderError
  <2> QED BY <1>0, <1>2, <1>3, <1>4, <2>1, <2>2, IdleThread
          DEF ProviderError, TInv, TablesOK, HoldStates
<1>5. CASE \/ \E status \in {"config_blocked", "provider_balance_low"} : Postpone(w, status)
           \/ \E status \in {"cost_limit", "insufficient_points"} : Disable(w, status)
           \/ TryLater(w)
  <2>1. sched' \in ScheduleRow
    <3>1. CASE \E status \in {"config_blocked", "provider_balance_low"} : Postpone(w, status)
      <4>1. PICK status \in {"config_blocked", "provider_balance_low"} : Postpone(w, status)
        BY <3>1
      <4>2. /\ status \in Statuses
            /\ (NoLease(sched).soon \/ status = "provider_balance_low") \in BOOLEAN
        BY DEF Statuses
      <4> QED BY <1>0, <1>1, <4>1, <4>2 DEF Postpone, ScheduleRow
    <3>2. CASE \E status \in {"cost_limit", "insufficient_points"} : Disable(w, status)
      BY <1>0, <1>1, <3>2 DEF Disable, Statuses, ScheduleRow
    <3>3. CASE TryLater(w)
      <4>1. {"provider_unknown", "scheduled"} \subseteq Statuses
        BY DEF Statuses
      <4> QED BY <1>1, <3>3, <4>1 DEF TryLater, ScheduleRow
    <3> QED BY <1>5, <3>1, <3>2, <3>3
  <2> QED BY <1>0, <1>2, <1>3, <1>5, <2>1, IdleThread
          DEF Postpone, Disable, TryLater, TInv, TablesOK, HoldStates
<1>6. CASE \/ \E definitive \in BOOLEAN : QuoteError(w, definitive)
           \/ OutcomeUnknown(w) \/ Rejected(w)
  BY <1>4, <1>6 DEF QuoteError, OutcomeUnknown, Rejected
<1>7. CASE Reserve(w)
  <2> DEFINE x == [work[w] EXCEPT !.pc = "extend"]
  <2>1. x \in ThreadRow /\ x.key \in Expiries /\ work[w].key \in Expiries
    BY <1>0, <1>7 DEF ThreadRow, Reserve, Renewing
  <2>2. work' = [work EXCEPT ![w] = x] /\ UNCHANGED asset
    BY <1>7 DEF Reserve
  <2>3. sched' \in ScheduleRow
    <3>1. "extending" \in Statuses
      BY DEF Statuses
    <3>2. [sched EXCEPT !.status = "extending", !.res = work[w].key, !.base = sched.expires]
            \in ScheduleRow
      BY <1>0, <2>1, <3>1, ScheduleTypes
    <3> QED BY <1>0, <1>7, <3>2 DEF Reserve
  <2>4. hold' \in [Expiries -> HoldStates]
    BY <1>0, <1>7, <2>1 DEF Reserve, HoldStates
  <2> HIDE DEF x
  <2> QED BY <1>0, <1>2, <1>3, <2>1, <2>2, <2>3, <2>4, ThreadMoves DEF TInv, TablesOK, HoldStates
<1>8. CASE \/ \E answer \in {"complete", "confirm", "unknown"} : Extend(w, answer)
           \/ \E answer \in {"complete", "rejected", "unknown"} : ConfirmExpiry(w, answer)
           \/ \E outcome \in {"unknown", "rejected"} : ExtendFails(w, outcome)
  <2>1. PICK pc \in {"complete", "confirm", "unknown", "rejected"}, got \in Expiries :
          work' = [work EXCEPT ![w].pc = pc, ![w].got = got]
    <3>1. ASSUME NEW a \in {"complete", "confirm", "unknown"}, Extend(w, a)
          PROVE  \E got \in Expiries : work' = [work EXCEPT ![w].pc = a, ![w].got = got]
      <4>1. supplier + 1 \in Expiries /\ 0 \in Expiries
        BY <1>0, <3>1, Periods DEF Extend, Expiries
      <4> QED BY <3>1, <4>1 DEF Extend
    <3>2. ASSUME NEW a \in {"complete", "rejected", "unknown"}, ConfirmExpiry(w, a)
          PROVE  \E got \in Expiries : work' = [work EXCEPT ![w].pc = a, ![w].got = got]
      BY <1>0, <3>2, Periods DEF ConfirmExpiry
    <3>3. ASSUME NEW a \in {"unknown", "rejected"}, ExtendFails(w, a)
          PROVE  \E got \in Expiries : work' = [work EXCEPT ![w].pc = a, ![w].got = got]
      <4>1. work' = [work EXCEPT ![w].pc = a, ![w].got = work[w].got]
        BY <1>0, <3>3 DEF ExtendFails, ThreadRow
      <4> QED BY <1>0, <4>1
    <3> QED BY <1>8, <3>1, <3>2, <3>3
  <2> DEFINE x == [work[w] EXCEPT !.pc = pc, !.got = got]
  <2>2. x \in ThreadRow /\ x.key \in Expiries
    BY <1>0, <1>8 DEF ThreadRow, Extend, ConfirmExpiry, ExtendFails, Renewing
  <2>3. work' = [work EXCEPT ![w] = x] /\ UNCHANGED <<sched, asset, hold>>
    BY <1>8, <2>1 DEF Extend, ConfirmExpiry, ExtendFails
  <2> HIDE DEF x
  <2> QED BY <1>0, <1>2, <1>3, <2>2, <2>3, ThreadMoves DEF TInv, TablesOK, HoldStates
<1>9. CASE Complete(w)
  <2>1. sched' \in ScheduleRow /\ asset' \in Expiries
    BY <1>0, <1>9, CompletedTypes DEF Complete
  <2>2. hold' \in [Expiries -> HoldStates]
    <3>1. work[w].key \in Expiries /\ work[w].key # None
      BY <1>0, <1>9, RenewalConstants DEF Complete, Renewing, Expiries
    <3> QED BY <1>9, <3>1, HoldTypes DEF Complete
  <2> QED BY <1>0, <1>2, <1>3, <1>9, <2>1, <2>2, IdleThread DEF Complete, TInv, TablesOK, HoldStates
<1> QED BY <1>5, <1>6, <1>7, <1>8, <1>9 DEF RenewStep

LEMMA TypeNext == TInv /\ [Next]_vars => TInv'
<1> SUFFICES ASSUME TInv, [Next]_vars PROVE TInv'
  OBVIOUS
<1>1. CASE UNCHANGED vars
  BY <1>1 DEF vars, TInv, TablesOK, KeysKnown
<1>2. CASE Next
  BY <1>2, TypeOutside, TypeScans, TypeRenews DEF Next
<1> QED BY <1>1, <1>2

\* The schedule row, the reservations and the worker threads keep their types,
\* for any number of threads and periods and whatever the supplier answers.
THEOREM RenewalTypes == Spec => []TypeOK
<1>1. TInv => TypeOK
  BY Tables DEF TInv
<1> QED BY <1>1, TypeInit, TypeNext, PTL DEF Spec

-----------------------------------------------------------------------------
(* What is charged was extended *)

\* Who reads an expiry and writes it later does not meet extensions in between.
FreshReadings == Late => ~Upserts /\ ~Switches

\* The period in a reservation's key lies before the one the row or the thread
\* knows of, and the supplier has gone at least that far.
RowFine ==
  /\ Late => sched.status # "missing_expiry"
  /\ IF sched.status = "none" THEN supplier = 1 /\ sched.res = None
     ELSE /\ 1 <= sched.key /\ sched.key <= sched.expires /\ sched.expires <= supplier
          /\ ~Late => sched.key <= asset
  /\ sched.res # None => 1 <= sched.res /\ sched.res <= sched.base

ThreadFine(w) ==
  /\ work[w].kind \in {"missing", "reconcile"} => ~Late
  /\ work[w].kind \in {"uncertain", "admin"} /\ work[w].key # None
       => 1 <= work[w].key /\ work[w].key <= work[w].base
  /\ work[w].pc \in {"apply", "ended"} => 1 <= work[w].got /\ work[w].got <= supplier
  /\ Unwritten(w) /\ ~Late => work[w].got = supplier
  /\ work[w].pc \in Renewing => 1 <= work[w].key /\ work[w].key <= supplier
  /\ work[w].pc \in {"confirm", "complete"} => work[w].key < supplier
  /\ work[w].pc = "complete" => 1 <= work[w].got /\ work[w].got <= supplier
  /\ work[w].pc \in Renewing \/ work[w].kind \in {"uncertain", "admin", "missing"}
       => sched.status # "none"

ChargeInv ==
  /\ 1 <= asset /\ asset <= supplier
  /\ RowFine
  /\ \A w \in Workers :
       /\ ThreadFine(w)
       /\ work[w].pc = "quote" /\ sched.lease = w => work[w].key = sched.key
  /\ \A e \in Expiries : hold[e] = "settled" => 1 <= e /\ e < supplier

\* An extension finds no reading on its way to the row, or they may be late.
ReadingsStay == supplier' = supplier \/ Late \/ \A v \in Workers : ~Unwritten(v)

\* What the other threads know stays true.
LEMMA ChargeOthers ==
  ASSUME TInv, TInv', ChargeInv, supplier <= supplier', ReadingsStay,
         sched'.status = "none" => sched.status = "none",
         NEW v \in Workers, work'[v] = work[v]
  PROVE  ThreadFine(v)'
<1>0. /\ supplier \in Nat /\ supplier' \in Nat /\ ThreadFine(v)
      /\ work[v].got \in Nat /\ (work[v].pc \in Renewing => work[v].key \in Nat)
      /\ work[v].pc \in {"confirm", "complete"} => work[v].pc \in Renewing
  <2>1. /\ supplier \in Nat /\ supplier' \in Nat /\ ThreadFine(v)
        /\ work[v] \in ThreadRow /\ (work[v].pc \in Renewing => work[v].key \in Expiries)
    BY DEF TInv, TablesOK, KeysKnown, ChargeInv
  <2>2. work[v].got \in Expiries
    BY <2>1 DEF ThreadRow
  <2>3. work[v].pc \in {"confirm", "complete"} => work[v].pc \in Renewing
    BY DEF Renewing
  <2> QED BY <2>1, <2>2, <2>3, Periods
<1>1. /\ work[v].pc \in {"apply", "ended"} => 1 <= work[v].got /\ work[v].got <= supplier'
      /\ work[v].pc \in Renewing => 1 <= work[v].key /\ work[v].key <= supplier'
      /\ work[v].pc \in {"confirm", "complete"} => work[v].key < supplier'
      /\ work[v].pc = "complete" => 1 <= work[v].got /\ work[v].got <= supplier'
  BY <1>0 DEF ThreadFine
<1>2. Unwritten(v) /\ ~Late => work[v].got = supplier'
  BY <1>0 DEF ThreadFine, ReadingsStay
<1>3. work[v].pc \in Renewing \/ work[v].kind \in {"uncertain", "admin", "missing"}
        => sched'.status # "none"
  BY <1>0 DEF ThreadFine
<1>4. Unwritten(v)' <=> Unwritten(v)
  BY DEF Unwritten
<1>5. /\ work[v].kind \in {"missing", "reconcile"} => ~Late
      /\ work[v].kind \in {"uncertain", "admin"} /\ work[v].key # None
           => 1 <= work[v].key /\ work[v].key <= work[v].base
  BY <1>0 DEF ThreadFine
<1> QED BY <1>1, <1>2, <1>3, <1>4, <1>5 DEF ThreadFine

\* What a step has to show.
LEMMA ChargeStep ==
  ASSUME TInv, TInv', ChargeInv, supplier <= supplier', ReadingsStay,
         1 <= asset', asset' <= supplier', RowFine',
         sched'.status = "none" => sched.status = "none",
         \A v \in Workers : work'[v] = work[v] \/ ThreadFine(v)',
         \A v \in Workers : work'[v].pc = "quote" /\ sched'.lease = v => work'[v].key = sched'.key,
         \A e \in Expiries : hold'[e] = "settled" => hold[e] = "settled" \/ (1 <= e /\ e < supplier')
  PROVE  ChargeInv'
<1>1. \A v \in Workers : ThreadFine(v)'
  BY ChargeOthers
<1>2. \A e \in Expiries : hold'[e] = "settled" => 1 <= e /\ e < supplier'
  <2>1. supplier \in Nat /\ supplier' \in Nat /\ \A e \in Expiries : e \in Nat
    BY Periods DEF TInv, TablesOK
  <2> QED BY <2>1 DEF ChargeInv
<1> QED BY <1>1, <1>2 DEF ChargeInv

\* A thread that has returned.
LEMMA ChargeIdle ==
  ASSUME NEW v \in Workers, work'[v] = Idle
  PROVE  ThreadFine(v)' /\ work'[v].pc = "idle"
BY DEF Idle, ThreadFine, Renewing, Unwritten

\* The row changes its status, and may lose its lease.
Restated ==
  /\ sched'.key = sched.key /\ sched'.expires = sched.expires
  /\ sched'.res \in {sched.res, None} /\ sched'.base = sched.base
  /\ sched'.lease \in {sched.lease, None}
  /\ sched'.status = "missing_expiry" => sched.status = "missing_expiry"
  /\ sched'.status = "none" <=> sched.status = "none"

\* Nothing is charged, the row is at most restated, threads return.
LEMMA ChargeRestated ==
  ASSUME TInv, TInv', ChargeInv, supplier' = supplier, asset' = asset, Restated,
         \A v \in Workers : work'[v] = work[v] \/ work'[v] = Idle,
         \A e \in Expiries : hold'[e] = "settled" => hold[e] = "settled"
  PROVE  ChargeInv'
<1>1. RowFine'
  BY DEF Restated, RowFine, ChargeInv
<1>2. \A v \in Workers : work'[v] = work[v] \/ ThreadFine(v)'
  BY ChargeIdle
<1>3. \A v \in Workers : work'[v].pc = "quote" /\ sched'.lease = v => work'[v].key = sched'.key
  <2>1. None \notin Workers
    BY RenewalConstants, Zenon
  <2> QED BY <2>1, ChargeIdle DEF ChargeInv, Restated
<1>4. supplier <= supplier' /\ ReadingsStay
  BY DEF TInv, TablesOK, ReadingsStay
<1>5. 1 <= asset' /\ asset' <= supplier' /\ (sched'.status = "none" => sched.status = "none")
  BY DEF ChargeInv, Restated
<1> QED BY <1>1, <1>2, <1>3, <1>4, <1>5, ChargeStep

\* A completed renewal: the row moves to the period the supplier told.
LEMMA ChargeCompleted ==
  ASSUME TInv, TInv', ChargeInv, NEW w \in Workers, Return(w), supplier' = supplier,
         NEW e \in Expiries, CompleteRenewal(e), 1 <= e, e <= supplier,
         \A f \in Expiries : hold'[f] = "settled" => hold[f] = "settled" \/ (1 <= f /\ f < supplier)
  PROVE  ChargeInv'
<1>1. /\ sched'.status = "scheduled" /\ sched'.expires = e /\ sched'.key = e /\ sched'.res = None
      /\ sched'.lease = None /\ asset' = e
  BY DEF CompleteRenewal, NoLease, TInv, TablesOK, ScheduleRow
<1>2. \A v \in Workers : work'[v] = work[v] \/ ThreadFine(v)'
  <2>1. \A v \in Workers : work'[v] = work[v] \/ work'[v] = Idle
    BY DEF Return, TInv, TablesOK
  <2> QED BY <2>1, ChargeIdle
<1>3. RowFine'
  <2>1. e \in Nat
    BY Periods
  <2> QED BY <1>1, <2>1 DEF RowFine
<1>4. None \notin Workers
  BY RenewalConstants, Zenon
<1>5. supplier <= supplier' /\ ReadingsStay
  BY DEF TInv, TablesOK, ReadingsStay
<1> QED BY <1>1, <1>2, <1>3, <1>4, <1>5, ChargeStep

\* What the supplier told is written to the row: it holds the supplier's expiry.
LEMMA ChargeUpserted ==
  ASSUME TInv, TInv', ChargeInv, ~Late, supplier' = supplier, asset' = asset, hold' = hold,
         NEW e \in Expiries, e \in {asset, supplier},
         NEW st \in {"scheduled", "missing_expiry"}, sched' = Upserted(e, st),
         \A v \in Workers : work'[v] = work[v] \/ work'[v] = Idle
  PROVE  ChargeInv'
<1>0. /\ sched \in ScheduleRow /\ asset \in Nat /\ supplier \in Nat /\ RowFine
      /\ sched.key \in Nat /\ sched.expires \in Nat /\ 1 <= asset /\ asset <= supplier
      /\ None \notin Workers
  <2>1. /\ sched \in ScheduleRow /\ asset \in Expiries /\ supplier \in Nat
        /\ sched.key \in Expiries /\ sched.expires \in Expiries
    BY DEF TInv, TablesOK, ScheduleRow
  <2>2. None \notin Workers
    BY RenewalConstants, Zenon
  <2> QED BY <2>1, <2>2, Periods DEF ChargeInv
<1>1. \A v \in Workers : work'[v] = work[v] \/ ThreadFine(v)'
  BY ChargeIdle
<1>2. supplier <= supplier' /\ ReadingsStay
  BY <1>0 DEF ReadingsStay
<1>3. CASE sched.status = "none"
  <2>1. /\ sched'.status = st /\ sched'.key = e /\ sched'.expires = e
        /\ sched'.res = None /\ sched'.lease = None
    BY <1>3 DEF Upserted, NewSchedule
  <2>2. e = 1 /\ asset = 1 /\ supplier = 1
    BY <1>0, <1>3 DEF RowFine
  <2>3. RowFine'
    BY <2>1, <2>2 DEF RowFine
  <2> QED BY <1>0, <1>1, <1>2, <2>1, <2>3, ChargeStep
<1>4. CASE sched.status # "none"
  <2>1. /\ sched'.status = st /\ sched'.key = sched.key /\ sched'.expires = e
        /\ sched'.res = sched.res /\ sched'.base = sched.base /\ sched'.lease = sched.lease
    BY <1>0, <1>4 DEF Upserted, ScheduleRow
  <2>2. RowFine'
    BY <1>0, <1>4, <2>1 DEF RowFine
  <2>3. \A v \in Workers : work'[v].pc = "quote" /\ sched'.lease = v => work'[v].key = sched'.key
    BY <2>1, ChargeIdle DEF ChargeInv
  <2> QED BY <1>0, <1>1, <1>2, <2>1, <2>2, <2>3, ChargeStep
<1> QED BY <1>3, <1>4

LEMMA ChargeInit == ASSUME ~Gaps PROVE Init => ChargeInv
<1> SUFFICES ASSUME Init PROVE ChargeInv
  OBVIOUS
<1>1. supplier = 1 /\ asset = 1 /\ month = 0
  BY DEF Init, Answers
<1>2. RowFine
  <2>1. PICK st \in {"scheduled", "missing_expiry"} :
          Judged(asset, st) /\ sched = IF renewal THEN NewSchedule(asset, st) ELSE NoSchedule
    BY DEF Init
  <2>2. st = "scheduled"
    BY <1>1, <2>1 DEF Judged
  <2>3. CASE renewal
    BY <1>1, <2>1, <2>2, <2>3 DEF RowFine, NewSchedule
  <2>4. CASE ~renewal
    <3>1. sched.status = "none" /\ sched.res = None
      BY <2>1, <2>4 DEF NoSchedule, NewSchedule
    <3> QED BY <1>1, <3>1 DEF RowFine
  <2> QED BY <2>3, <2>4 DEF Init
<1>3. \A w \in Workers : work[w] = Idle
  BY DEF Init
<1>4. \A w \in Workers : ThreadFine(w) /\ work[w].pc = "idle"
  BY <1>3 DEF Idle, ThreadFine, Renewing, Unwritten
<1>5. \A e \in Expiries : hold[e] = "none"
  BY DEF Init
<1> QED BY <1>1, <1>2, <1>4, <1>5 DEF ChargeInv

LEMMA ChargeOutside ==
  ASSUME FreshReadings, TInv, TInv', ChargeInv,
         \/ \E on \in BOOLEAN : SetOrderRenewal(on)
         \/ LeaseExpires \/ ConfirmNotExtended \/ NextMonth
  PROVE  ChargeInv'
<1>0. /\ sched \in ScheduleRow /\ work' = work /\ supplier' = supplier /\ asset' = asset
      /\ asset \in Expiries
  BY DEF SetOrderRenewal, LeaseExpires, ConfirmNotExtended, NextMonth, TInv, TablesOK
<1>1. CASE \E on \in BOOLEAN : SetOrderRenewal(on)
  <2>1. PICK on \in BOOLEAN : SetOrderRenewal(on)
    BY <1>1
  <2>2. ~Late /\ hold' = hold
    BY <2>1 DEF SetOrderRenewal, FreshReadings
  <2>3. CASE on /\ active
    BY <1>0, <2>1, <2>2, <2>3, ChargeUpserted DEF SetOrderRenewal
  <2>4. CASE ~(on /\ active)
    <3>1. Restated
      BY <1>0, <2>1, <2>4 DEF SetOrderRenewal, Restated, ScheduleRow
    <3> QED BY <1>0, <2>2, <3>1, ChargeRestated
  <2> QED BY <2>3, <2>4
<1>2. CASE LeaseExpires
  <2>1. Restated
    BY <1>0, <1>2 DEF LeaseExpires, Restated, ScheduleRow
  <2> QED BY <1>0, <1>2, <2>1, ChargeRestated DEF LeaseExpires
<1>3. CASE ConfirmNotExtended
  <2>1. Restated
    BY <1>0, <1>3 DEF ConfirmNotExtended, Restated, ScheduleRow, NoLease
  <2>2. \A e \in Expiries : hold'[e] = "settled" => hold[e] = "settled"
    BY <1>3 DEF ConfirmNotExtended, Release, TInv, TablesOK
  <2> QED BY <1>0, <2>1, <2>2, ChargeRestated
<1>4. CASE NextMonth
  <2>1. Restated
    BY <1>4 DEF NextMonth, Restated
  <2> QED BY <1>0, <1>4, <2>1, ChargeRestated DEF NextMonth
<1> QED BY <1>1, <1>2, <1>3, <1>4

\* What has been read is written.
LEMMA ChargeWrites ==
  ASSUME TInv, TInv', ChargeInv, NEW w \in Workers, Writes(w)
  PROVE  ChargeInv'
<1>0. /\ sched \in ScheduleRow /\ asset \in Nat /\ supplier \in Nat /\ RowFine
      /\ sched.key \in Nat /\ sched.expires \in Nat /\ 1 <= asset /\ asset <= supplier
      /\ ThreadFine(w) /\ work[w].got \in Expiries /\ work[w].got \in Nat
      /\ work \in [Workers -> ThreadRow]
  <2>1. /\ sched \in ScheduleRow /\ asset \in Expiries /\ supplier \in Nat
        /\ sched.key \in Expiries /\ sched.expires \in Expiries /\ work[w].got \in Expiries
        /\ work \in [Workers -> ThreadRow]
    BY DEF TInv, TablesOK, ScheduleRow, ThreadRow
  <2> QED BY <2>1, Periods DEF ChargeInv
<1>1. Return(w) /\ hold' = hold /\ supplier' = supplier
  BY DEF Writes, ApplyMissing, ApplyReconcile, ApplyWaiting, ApplySync, ApplyEnded
<1>2. \A v \in Workers : work'[v] = work[v] \/ work'[v] = Idle
  BY <1>0, <1>1 DEF Return
<1>3. \A v \in Workers : work'[v] = work[v] \/ ThreadFine(v)'
  BY <1>2, ChargeIdle
<1>4. supplier <= supplier' /\ ReadingsStay
  BY <1>0, <1>1 DEF ReadingsStay
<1> USE DEF At
<1>5. ASSUME NEW st \in {"scheduled", "missing_expiry"}, ApplyMissing(w, st) PROVE ChargeInv'
  <2>1. /\ work[w].got = supplier /\ ~Late /\ sched.status # "none" /\ asset' = asset
    BY <1>0, <1>5 DEF ApplyMissing, ThreadFine, Unwritten
  <2>2. CASE st = "scheduled"
    <3>1. /\ sched'.status = "scheduled" /\ sched'.expires = supplier /\ sched'.key = sched.key
          /\ sched'.res = sched.res /\ sched'.base = sched.base /\ sched'.lease = sched.lease
      BY <1>0, <1>5, <2>1, <2>2 DEF ApplyMissing, ScheduleRow
    <3>2. RowFine'
      BY <1>0, <1>1, <2>1, <3>1 DEF RowFine
    <3>3. \A v \in Workers : work'[v].pc = "quote" /\ sched'.lease = v => work'[v].key = sched'.key
      BY <1>2, <3>1, ChargeIdle DEF ChargeInv
    <3> QED BY <1>0, <1>1, <1>3, <1>4, <2>1, <3>1, <3>2, <3>3, ChargeStep
  <2>3. CASE st # "scheduled"
    <3>1. Restated
      BY <1>0, <1>5, <2>3 DEF ApplyMissing, Restated, ScheduleRow
    <3> QED BY <1>1, <1>2, <2>1, <3>1, ChargeRestated
  <2> QED BY <2>2, <2>3
<1>6. ASSUME NEW st \in {"scheduled", "missing_expiry"}, ApplyReconcile(w, st) PROVE ChargeInv'
  <2>1. work[w].got = supplier /\ ~Late /\ asset' = asset
    BY <1>0, <1>6 DEF ApplyReconcile, ThreadFine, Unwritten
  <2>2. CASE renewal
    BY <1>0, <1>1, <1>2, <1>6, <2>1, <2>2, ChargeUpserted DEF ApplyReconcile
  <2>3. CASE ~renewal
    <3>1. Restated
      BY <1>6, <2>3 DEF ApplyReconcile, Restated
    <3> QED BY <1>1, <1>2, <2>1, <3>1, ChargeRestated
  <2> QED BY <2>2, <2>3
<1>7. CASE ApplyWaiting(w)
  <2>1. Restated /\ asset' = asset
    BY <1>7 DEF ApplyWaiting, Restated
  <2> QED BY <1>1, <1>2, <2>1, ChargeRestated
<1>8. ASSUME Restated, sched'.res = sched.res,
             asset' = asset \/ (asset' = work[w].got /\ Unwritten(w))
      PROVE  ChargeInv'
  <2>1. CASE asset' = asset
    BY <1>1, <1>2, <1>8, <2>1, ChargeRestated
  <2>2. CASE asset' = work[w].got /\ Unwritten(w)
    <3>1. 1 <= asset' /\ asset' <= supplier /\ (~Late => asset' = supplier)
      BY <1>0, <2>2 DEF ThreadFine, Unwritten
    <3>2. RowFine'
      BY <1>0, <1>1, <1>8, <3>1 DEF RowFine, Restated
    <3>3. \A v \in Workers : work'[v].pc = "quote" /\ sched'.lease = v => work'[v].key = sched'.key
      <4>1. None \notin Workers
        BY RenewalConstants, Zenon
      <4> QED BY <1>2, <1>8, <4>1, ChargeIdle DEF ChargeInv, Restated
    <3>4. sched'.status = "none" => sched.status = "none"
      BY <1>8 DEF Restated
    <3> QED BY <1>0, <1>1, <1>3, <1>4, <3>1, <3>2, <3>3, <3>4, ChargeStep
  <2> QED BY <1>8, <2>1, <2>2
<1>9. CASE ApplySync(w)
  BY <1>8, <1>9 DEF ApplySync, Restated, Unwritten
<1>10. CASE ApplyEnded(w)
  <2>1. Restated /\ sched'.res = sched.res
    BY <1>0, <1>10 DEF ApplyEnded, Restated, ScheduleRow, NoLease
  <2>2. asset' = asset \/ (asset' = work[w].got /\ Unwritten(w))
    BY <1>10 DEF ApplyEnded, Unwritten
  <2> QED BY <1>8, <2>1, <2>2
<1> QED BY <1>5, <1>6, <1>7, <1>9, <1>10 DEF Writes

LEMMA ChargeThreads ==
  ASSUME ~Gaps, FreshReadings, TInv, TInv', ChargeInv, NEW w \in Workers,
         (\E kind \in Kinds : Take(w, kind)) \/ ScanStep(w) \/ Claim(w) \/ RenewStep(w) \/ Crash(w)
  PROVE  ChargeInv'
<1>0. /\ sched \in ScheduleRow /\ asset \in Nat /\ supplier \in Nat /\ RowFine
      /\ sched.key \in Nat /\ sched.expires \in Nat /\ sched.base \in Nat
      /\ 1 <= asset /\ asset <= supplier
      /\ work \in [Workers -> ThreadRow] /\ ThreadFine(w) /\ work[w] \in ThreadRow
      /\ hold \in [Expiries -> HoldStates]
      /\ None \notin Workers
  <2>1. None \notin Workers
    BY RenewalConstants, Zenon
  <2>2. /\ sched \in ScheduleRow /\ asset \in Expiries /\ supplier \in Nat
        /\ work \in [Workers -> ThreadRow] /\ hold \in [Expiries -> HoldStates]
    BY DEF TInv, TablesOK, HoldStates
  <2>3. sched.key \in Expiries /\ sched.expires \in Expiries /\ sched.base \in Expiries
    BY <2>2 DEF ScheduleRow
  <2> QED BY <2>1, <2>2, <2>3, Periods DEF ChargeInv
<1> USE DEF At
<1>1. ASSUME Return(w), UNCHANGED <<supplier, asset>>, Restated,
             \A e \in Expiries : hold'[e] = "settled" => hold[e] = "settled"
      PROVE  ChargeInv'
  <2>1. \A v \in Workers : work'[v] = work[v] \/ work'[v] = Idle
    BY <1>0, <1>1 DEF Return
  <2> QED BY <1>1, <2>1, ChargeRestated
<1>2. CASE ReadFails(w) \/ JobAborts(w) \/ Crash(w)
  <2>1. Restated
    BY <1>0, <1>2 DEF ReadFails, JobAborts, Crash, Restated, ScheduleRow
  <2> QED BY <1>1, <1>2, <2>1 DEF ReadFails, JobAborts, Crash
<1>3. ASSUME NEW definitive \in BOOLEAN, ProviderError(w, definitive), work[w].pc \in Renewing
      PROVE  ChargeInv'
  <2>1. Restated
    BY <1>0, <1>3 DEF ProviderError, Restated, ScheduleRow, NoLease, ThreadFine
  <2>2. \A e \in Expiries : hold'[e] = "settled" => hold[e] = "settled"
    BY <1>0, <1>3 DEF ProviderError, Release
  <2> QED BY <1>1, <1>3, <2>1, <2>2 DEF ProviderError
<1>4. CASE \/ ApplyUnconfirmed(w) \/ TryLater(w)
           \/ \E status \in {"config_blocked", "provider_balance_low"} : Postpone(w, status)
           \/ \E status \in {"cost_limit", "insufficient_points"} : Disable(w, status)
  <2>0. sched.status # "none"
    BY <1>0, <1>4 DEF ApplyUnconfirmed, TryLater, Postpone, Disable, ThreadFine, Renewing
  <2>1. Restated
    <3>1. CASE ApplyUnconfirmed(w)
      BY <1>0, <2>0, <3>1 DEF ApplyUnconfirmed, Restated, ScheduleRow, NoLease
    <3>2. CASE TryLater(w)
      BY <1>0, <2>0, <3>2 DEF TryLater, Restated, ScheduleRow, NoLease
    <3>3. CASE \E status \in {"config_blocked", "provider_balance_low"} : Postpone(w, status)
      BY <1>0, <2>0, <3>3 DEF Postpone, Restated, ScheduleRow, NoLease
    <3>4. CASE \E status \in {"cost_limit", "insufficient_points"} : Disable(w, status)
      BY <1>0, <2>0, <3>4 DEF Disable, Restated, ScheduleRow, NoLease
    <3> QED BY <1>4, <3>1, <3>2, <3>3, <3>4
  <2> QED BY <1>1, <1>4, <2>1 DEF ApplyUnconfirmed, TryLater, Postpone, Disable
<1>5. CASE \/ \E definitive \in BOOLEAN : QuoteError(w, definitive)
           \/ OutcomeUnknown(w) \/ Rejected(w)
  BY <1>3, <1>5 DEF QuoteError, OutcomeUnknown, Rejected, Renewing
<1>6. ASSUME UNCHANGED <<sched, asset, hold, supplier>>, ThreadFine(w)',
             \A v \in Workers \ {w} : work'[v] = work[v], work'[w].pc # "quote"
      PROVE  ChargeInv'
  <2>1. RowFine'
    BY <1>0, <1>6 DEF RowFine
  <2>2. \A v \in Workers : work'[v].pc = "quote" /\ sched'.lease = v => work'[v].key = sched'.key
    BY <1>6 DEF ChargeInv
  <2> QED BY <1>0, <1>6, <2>1, <2>2, ChargeStep DEF ReadingsStay
<1>7. CASE \E kind \in Kinds : Take(w, kind)
  <2>1. PICK kind \in Kinds : Take(w, kind)
    BY <1>7
  <2>2. /\ UNCHANGED <<sched, asset, hold, supplier>>
        /\ \A v \in Workers \ {w} : work'[v] = work[v]
        /\ work'[w].pc = "read" /\ work'[w].kind = kind
        /\ kind \in {"missing", "reconcile"} => ~Late
        /\ kind \in {"uncertain", "admin", "missing"} => sched.status # "none"
        /\ kind \in {"uncertain", "admin"} => work'[w].key = sched.res /\ work'[w].base = TakenBase
    BY <1>0, <2>1, Taken DEF RowFine, FreshReadings
  <2>3. kind \in {"uncertain", "admin"} /\ work'[w].key # None
          => 1 <= work'[w].key /\ work'[w].key <= work'[w].base
    <3>1. sched.res # None => 1 <= sched.res /\ sched.res <= sched.base /\ sched.res \in Nat
      <4>1. sched.res # None => sched.res \in Expiries
        BY <1>0 DEF ScheduleRow
      <4> QED BY <1>0, <4>1, Periods DEF RowFine
    <3> QED BY <1>0, <2>2, <3>1 DEF TakenBase
  <2>4. ThreadFine(w)'
    BY <2>2, <2>3 DEF ThreadFine, Renewing, Unwritten
  <2> QED BY <1>6, <2>2, <2>4
<1>8. CASE Hears(w)
  <2>1. /\ UNCHANGED <<sched, asset, hold, supplier>>
        /\ \A v \in Workers \ {w} : work'[v] = work[v]
        /\ work[w].pc = "read" /\ work'[w].pc \in {"apply", "ended", "waiting"}
        /\ work'[w].kind = work[w].kind /\ work'[w].key = work[w].key
        /\ work'[w].base = work[w].base /\ work'[w].got = supplier
    BY <1>8, Heard DEF Answers
  <2>2. ThreadFine(w)'
    BY <1>0, <2>1 DEF ThreadFine, Renewing, Unwritten
  <2> QED BY <1>6, <2>1, <2>2
<1>9. CASE Writes(w)
  BY <1>9, ChargeWrites
<1>10. CASE ApplyExtended(w)
  <2>1. /\ work[w].pc = "apply" /\ work[w].got \in Expiries /\ work[w].got \in Nat
        /\ work[w].base \in Nat /\ work[w].got > work[w].base /\ work[w].got <= supplier
        /\ 1 <= work[w].got
        /\ Return(w) /\ supplier' = supplier /\ CompleteRenewal(work[w].got)
    BY <1>0, <1>10, Periods DEF ApplyExtended, ExtensionSeen, ThreadRow, ThreadFine
  <2>2. \A f \in Expiries : hold'[f] = "settled" => hold[f] = "settled" \/ (1 <= f /\ f < supplier)
    <3>1. CASE work[w].key # None
      <4>1. work[w].key \in Expiries /\ 1 <= work[w].key /\ work[w].key <= work[w].base
        BY <1>0, <1>10, <3>1 DEF ThreadFine, ThreadRow, ApplyExtended
      <4>2. 1 <= work[w].key /\ work[w].key < supplier
        <5>1. work[w].key \in Nat
          BY <4>1, Periods
        <5> QED BY <1>0, <2>1, <4>1, <5>1
      <4>3. hold' = Settle(work[w].key)
        BY <1>10, <3>1 DEF ApplyExtended
      <4> QED BY <1>0, <4>1, <4>2, <4>3 DEF Settle
    <3>2. CASE work[w].key = None
      BY <1>10, <3>2 DEF ApplyExtended
    <3> QED BY <3>1, <3>2
  <2> QED BY <2>1, <2>2, ChargeCompleted
<1>11. CASE Complete(w)
  <2>1. /\ work[w].pc = "complete" /\ work[w].got \in Expiries /\ work[w].key \in Expiries
        /\ 1 <= work[w].got /\ work[w].got <= supplier
        /\ 1 <= work[w].key /\ work[w].key < supplier
        /\ Return(w) /\ supplier' = supplier /\ CompleteRenewal(work[w].got)
        /\ hold' = Settle(work[w].key)
    BY <1>0, <1>11 DEF Complete, ThreadRow, ThreadFine, TInv, KeysKnown, Renewing
  <2>2. \A f \in Expiries : hold'[f] = "settled" => hold[f] = "settled" \/ (1 <= f /\ f < supplier)
    BY <1>0, <2>1 DEF Settle
  <2> QED BY <2>1, <2>2, ChargeCompleted
<1>12. CASE Claim(w)
  <2>1. /\ UNCHANGED <<asset, hold, supplier>>
        /\ \A v \in Workers \ {w} : work'[v] = work[v]
        /\ work'[w].pc = "quote" /\ work'[w].kind = "none" /\ work'[w].key = sched.key
        /\ sched.status \in {"scheduled", "provider_balance_low"}
        /\ sched'.status = "quoting" /\ sched'.lease = w /\ sched'.key = sched.key
        /\ sched'.expires = sched.expires /\ sched'.res = sched.res /\ sched'.base = sched.base
    BY <1>0, <1>12 DEF Claim, Claimable, Idle, ScheduleRow
  <2>2. ThreadFine(w)'
    <3>1. 1 <= sched.key /\ sched.key <= supplier
      BY <1>0, <2>1 DEF RowFine
    <3> QED BY <2>1, <3>1 DEF ThreadFine, Unwritten, Renewing
  <2>3. RowFine'
    BY <1>0, <2>1 DEF RowFine
  <2>4. \A v \in Workers : work'[v].pc = "quote" /\ sched'.lease = v => work'[v].key = sched'.key
    BY <2>1
  <2>5. supplier <= supplier' /\ ReadingsStay
    BY <1>0, <2>1 DEF ReadingsStay
  <2> QED BY <1>0, <2>1, <2>2, <2>3, <2>4, <2>5, ChargeStep
<1>13. CASE Reserve(w)
  <2>1. /\ UNCHANGED <<asset, supplier>>
        /\ \A v \in Workers \ {w} : work'[v] = work[v]
        /\ work[w].pc = "quote" /\ work'[w].pc = "extend" /\ work'[w].key = work[w].key
        /\ work'[w].kind = work[w].kind /\ work'[w].base = work[w].base
        /\ work[w].key \in Expiries /\ sched.status # "none"
    BY <1>0, <1>13 DEF Reserve, ThreadRow, TInv, KeysKnown, Renewing, ThreadFine
  <2>2. sched'.key = sched.key /\ sched'.lease = sched.lease /\ sched'.status # "none"
    BY <1>0, <1>13, <2>1 DEF Reserve, ScheduleRow
  <2>3. ThreadFine(w)'
    BY <1>0, <2>1, <2>2 DEF ThreadFine, Renewing, Unwritten
  <2>4. \A e \in Expiries : hold'[e] = "settled" => hold[e] = "settled"
    BY <1>0, <1>13, <2>1 DEF Reserve
  <2>5. RowFine'
    <3>1. CASE sched.lease = w
      <4>1. work[w].key = sched.key /\ work[w].key # None
        BY <2>1, <3>1, RenewalConstants DEF ChargeInv, Expiries
      <4>2. /\ sched'.status = "extending" /\ sched'.res = sched.key
            /\ sched'.base = sched.expires /\ sched'.expires = sched.expires
        BY <1>0, <1>13, <3>1, <4>1 DEF Reserve, ScheduleRow
      <4> QED BY <1>0, <2>1, <2>2, <4>2 DEF RowFine
    <3>2. CASE sched.lease # w
      <4>1. sched' = sched
        BY <1>13, <3>2 DEF Reserve
      <4> QED BY <1>0, <2>1, <4>1 DEF RowFine
    <3> QED BY <3>1, <3>2
  <2>6. \A v \in Workers : work'[v].pc = "quote" /\ sched'.lease = v => work'[v].key = sched'.key
    BY <2>1, <2>2 DEF ChargeInv
  <2>7. supplier <= supplier' /\ ReadingsStay
    BY <1>0, <2>1 DEF ReadingsStay
  <2> QED BY <1>0, <2>1, <2>2, <2>3, <2>4, <2>5, <2>6, <2>7, ChargeStep
<1>14. CASE \/ \E answer \in {"complete", "confirm", "unknown"} : Extend(w, answer)
            \/ \E answer \in {"complete", "rejected", "unknown"} : ConfirmExpiry(w, answer)
            \/ \E outcome \in {"unknown", "rejected"} : ExtendFails(w, outcome)
  <2>1. /\ UNCHANGED <<sched, asset, hold>>
        /\ \A v \in Workers \ {w} : work'[v] = work[v]
        /\ work[w].pc \in {"extend", "confirm"} /\ work'[w].key = work[w].key
        /\ work'[w].kind = work[w].kind /\ work'[w].base = work[w].base
        /\ work'[w].pc \in {"complete", "confirm", "unknown", "rejected"}
        /\ \/ work[w].pc = "extend" /\ supplier' = supplier + 1
           \/ work[w].pc = "confirm" /\ supplier' = supplier
           \/ work'[w].pc \in {"unknown", "rejected"} /\ supplier' = supplier
        /\ work'[w].pc = "complete" => work'[w].got = supplier'
        /\ ReadingsStay
    <3>1. CASE \E answer \in {"complete", "confirm", "unknown"} : Extend(w, answer)
      BY <1>0, <3>1 DEF Extend, ThreadRow, ReadingsStay
    <3>2. CASE \E answer \in {"complete", "rejected", "unknown"} : ConfirmExpiry(w, answer)
      BY <1>0, <3>2 DEF ConfirmExpiry, ThreadRow, ReadingsStay
    <3>3. CASE \E outcome \in {"unknown", "rejected"} : ExtendFails(w, outcome)
      BY <1>0, <3>3 DEF ExtendFails, ThreadRow, ReadingsStay
    <3> QED BY <1>14, <3>1, <3>2, <3>3
  <2>2. supplier' \in Nat /\ supplier <= supplier' /\ 1 <= supplier' /\ sched.status # "none"
    BY <1>0, <2>1 DEF ThreadFine, Renewing
  <2>3. work[w].key \in Nat /\ 1 <= work[w].key /\ work[w].key <= supplier
    BY <1>0, <2>1, Periods DEF ThreadFine, Renewing, TInv, KeysKnown
  <2>4. work'[w].pc \in {"complete", "confirm"} => work[w].key < supplier'
    BY <1>0, <2>1, <2>3 DEF ThreadFine
  <2>5. ThreadFine(w)'
    BY <1>0, <2>1, <2>2, <2>3, <2>4 DEF ThreadFine, Renewing, Unwritten
  <2>6. RowFine'
    BY <1>0, <2>1, <2>2 DEF RowFine
  <2>7. \A v \in Workers : work'[v].pc = "quote" /\ sched'.lease = v => work'[v].key = sched'.key
    BY <2>1 DEF ChargeInv
  <2> QED BY <1>0, <2>1, <2>2, <2>5, <2>6, <2>7, ChargeStep
<1> QED BY <1>2, <1>4, <1>5, <1>7, <1>8, <1>9, <1>10, <1>11, <1>12, <1>13, <1>14
        DEF ScanStep, RenewStep, Hears, Writes

LEMMA ChargeNext ==
  ASSUME ~Gaps, FreshReadings
  PROVE  TInv /\ ChargeInv /\ [Next]_vars => ChargeInv'
<1> SUFFICES ASSUME TInv, ChargeInv, [Next]_vars PROVE ChargeInv'
  OBVIOUS
<1>0. TInv'
  BY TypeNext
<1>1. CASE UNCHANGED vars
  BY <1>1 DEF vars, ChargeInv, RowFine, ThreadFine, Unwritten
<1>2. CASE Next
  BY <1>0, <1>2, ChargeOutside, ChargeThreads DEF Next
<1> QED BY <1>1, <1>2

\* If the supplier always tells the expiry, nobody pays for nothing: at most as
\* many renewals are charged as the supplier has extended, for any number of
\* workers, crashes, expired leases and resolutions.  An extension may pass a
\* reading on its way to the asset; where the owner switches renewal or the order
\* is reconciled, none does: the README shows what goes wrong otherwise.
THEOREM NothingForNothing ==
  ASSUME ~Gaps, Late => ~Upserts /\ ~Switches
  PROVE  Spec => []ChargedForExtension
<1>0. FreshReadings
  BY DEF FreshReadings
<1>1. TInv /\ ChargeInv => ChargedForExtension
  <2> SUFFICES ASSUME TInv, ChargeInv PROVE ChargedForExtension
    OBVIOUS
  <2> DEFINE S == {e \in Expiries : hold[e] = "settled"}
  <2>1. supplier \in Nat /\ 1 <= supplier /\ supplier - 1 \in Nat
    BY DEF TInv, TablesOK
  <2>2. S \subseteq 1 .. (supplier - 1)
    <3> SUFFICES ASSUME NEW e \in Expiries, hold[e] = "settled" PROVE e \in 1 .. (supplier - 1)
      OBVIOUS
    <3>1. e \in Nat /\ 1 <= e /\ e < supplier
      BY Periods DEF ChargeInv, Expiries
    <3> QED BY <2>1, <3>1
  <2>3. IsFiniteSet(1 .. (supplier - 1)) /\ Cardinality(1 .. (supplier - 1)) = supplier - 1
    BY <2>1, FS_Interval
  <2>4. Cardinality(S) <= supplier - 1
    BY <2>2, <2>3, FS_Subset
  <2> QED BY <2>4 DEF ChargedForExtension, Charged
<1>2. (Init => TInv /\ ChargeInv) /\ (TInv /\ ChargeInv /\ [Next]_vars => TInv' /\ ChargeInv')
  BY <1>0, TypeInit, TypeNext, ChargeInit, ChargeNext
<1> QED BY <1>1, <1>2, PTL DEF Spec

-----------------------------------------------------------------------------
(* What was extended is paid for *)

\* A thread that works on the row, and the expiry that it works on.
Busy(v) == work[v].pc # "idle" /\ work[v].kind # "sync"
Of(v) == IF work[v].pc \in Renewing THEN work[v].key ELSE work[v].base
\* A thread that goes on with a row which was completed meanwhile.
Behind(v) == Busy(v) /\ Of(v) < sched.expires
\* A pass that took a row without reservation: it can only call it uncertain.
Passive(v) == work[v].pc \notin Renewing /\ work[v].key = None

\* Nothing is reserved for the current period, and no thread is about to.
Quiet == /\ sched.res = None /\ hold[supplier] = "none"
         /\ \A v \in Workers : Busy(v) => Behind(v) \/ Passive(v)

\* No thread can claim the row.
Uncertain == sched.status \in {"extending", "provider_unknown"} \/ ~sched.enabled
Waiting == sched.enabled /\ sched.status \in {"scheduled", "provider_balance_low"}

\* The row: its expiry is the supplier's, or one period behind between an
\* extension and its completion; it is not due while a thread works on it.
RowPaid ==
  /\ sched.status # "missing_expiry"
  /\ sched.status = "none" => supplier = 1 /\ ~sched.enabled /\ \A v \in Workers : ~Busy(v)
  /\ sched.status # "none" =>
       /\ sched.key = sched.expires /\ sched.expires >= 1
       /\ \/ sched.expires = supplier
          \/ /\ sched.expires + 1 = supplier /\ Uncertain /\ hold[supplier] = "none"
             /\ \A v \in Workers : work[v].pc \notin {"quote", "extend", "rejected"}
  /\ Waiting => Quiet /\ \A v \in Workers : Busy(v) => ~sched.soon /\ month < sched.expires
  /\ IF sched.res = None THEN sched.base = 0
     ELSE sched.res = sched.key /\ sched.base = sched.expires
  /\ sched.enabled => month <= sched.expires
  /\ \A e \in Expiries : e > supplier => hold[e] = "none"

\* Whether a thread about to reserve still owns the row.
Owned(w) == /\ sched.enabled => sched.status = "quoting" /\ sched.lease = w
            /\ sched.status # "extending" /\ (sched.lease = w => sched.status = "quoting")

ThreadPaid(w) ==
  /\ \/ work[w].kind = "none" /\ work[w].pc \in {"idle"} \cup Renewing
     \/ work[w].kind = "uncertain" /\ work[w].pc \in {"read", "apply"}
     \/ work[w].kind = "sync" /\ work[w].pc \in {"read", "apply", "ended"}
  /\ Busy(w) => /\ Of(w) = sched.expires \/ (Of(w) + 1 = supplier /\ sched.expires = supplier)
                /\ month <= Of(w)
  /\ Behind(w) => Quiet
  /\ work[w].pc = "apply" => work[w].got <= supplier
  /\ work[w].pc = "quote" => /\ sched.res = None /\ hold[supplier] = "none" /\ Owned(w)
                             /\ \A v \in Workers : v # w => ~Busy(v)
  /\ work[w].pc = "extend" => Uncertain
  /\ work[w].pc \in {"quote", "extend", "rejected"} => work[w].key = supplier /\ sched.expires = supplier
  /\ work[w].pc \in {"extend", "rejected"} => hold[supplier] = "held"
  /\ work[w].pc \in {"confirm", "complete"} => work[w].key + 1 = supplier
  /\ work[w].pc = "complete" => work[w].got = supplier
  /\ work[w].pc \in Renewing => \A v \in Workers : v # w => work[v].pc \notin Renewing

Paid(e) == hold[e] \in {"held", "settled"}
PeriodsPaid == \A e \in 1 .. (supplier - 1) : Paid(e)

PayInv == RowPaid /\ (\A w \in Workers : ThreadPaid(w)) /\ PeriodsPaid

LEMMA PayTyped ==
  ASSUME TInv
  PROVE  /\ supplier \in Nat /\ 1 <= supplier /\ supplier \in Expiries /\ month \in Nat
         /\ sched \in ScheduleRow /\ sched.key \in Expiries /\ sched.key \in Nat
         /\ sched.expires \in Nat /\ sched.expires \in Expiries /\ sched.base \in Nat
         /\ sched.enabled \in BOOLEAN
         /\ hold \in [Expiries -> HoldStates] /\ work \in [Workers -> ThreadRow]
         /\ None \notin Workers /\ None \notin Expiries
         /\ \A v \in Workers : /\ work[v] \in ThreadRow /\ work[v].got \in Nat
                               /\ work[v].base \in Nat /\ Of(v) \in Nat
<1>1. /\ supplier \in 1 .. MaxExpiry /\ sched \in ScheduleRow /\ work \in [Workers -> ThreadRow]
      /\ hold \in [Expiries -> HoldStates] /\ month \in Expiries
  BY DEF TInv, TablesOK, HoldStates
<1>2. /\ sched.key \in Expiries /\ sched.expires \in Expiries /\ sched.base \in Expiries
      /\ sched.enabled \in BOOLEAN
  BY <1>1 DEF ScheduleRow
<1>3. \A v \in Workers : /\ work[v] \in ThreadRow /\ work[v].got \in Expiries
                         /\ work[v].base \in Expiries
  BY <1>1 DEF ThreadRow
<1>4. supplier \in Nat /\ 1 <= supplier /\ supplier \in Expiries
  BY <1>1, Periods DEF Expiries
<1>5. None \notin Workers /\ None \notin Expiries
  BY RenewalConstants, Zenon DEF Expiries
<1>6. \A v \in Workers : Of(v) \in Expiries
  BY <1>3 DEF Of, TInv, KeysKnown
<1> QED BY <1>1, <1>2, <1>3, <1>4, <1>5, <1>6, Periods

\* Threads that stay where they are or return mean the same to the row.
LEMMA ThreadsRest ==
  ASSUME \A v \in Workers : work'[v] = work[v] \/ work'[v] = Idle, sched'.expires = sched.expires
  PROVE  \A v \in Workers :
           \/ /\ work'[v] = work[v] /\ (Busy(v)' <=> Busy(v)) /\ (Behind(v)' <=> Behind(v))
              /\ (Passive(v)' <=> Passive(v)) /\ Of(v)' = Of(v)
           \/ work'[v].pc = "idle" /\ work'[v].kind = "none" /\ ~Busy(v)' /\ ~Behind(v)'
BY DEF Idle, Busy, Of, Behind, Passive

\* A thread that has returned.
LEMMA PayIdle ==
  ASSUME NEW v \in Workers, work'[v].pc = "idle", work'[v].kind = "none"
  PROVE  ThreadPaid(v)' /\ ~Busy(v)' /\ work'[v].pc \notin Renewing
BY DEF ThreadPaid, Busy, Behind, Renewing

\* Threads return; the row keeps its dates and keys, and its status changes at
\* most to one that fits.
LEMMA PayRests ==
  ASSUME TInv, TInv', PayInv, hold' = hold, supplier' = supplier, month' = month,
         \A v \in Workers : work'[v] = work[v] \/ work'[v] = Idle,
         sched'.key = sched.key, sched'.expires = sched.expires, sched'.res = sched.res,
         sched'.base = sched.base, sched'.enabled => sched.enabled,
         sched'.status # "missing_expiry", sched'.status = "none" <=> sched.status = "none",
         \/ Uncertain => Uncertain'
         \/ sched.expires = supplier /\ \A v \in Workers : work'[v].pc # "extend",
         \/ Waiting' => Waiting /\ sched'.soon = sched.soon
         \/ Quiet' /\ \A v \in Workers : ~Busy(v)',
         \/ sched'.status = sched.status /\ sched'.lease = sched.lease
         \/ sched'.lease = None /\ ~sched'.enabled /\ sched'.status # "extending"
         \/ \A v \in Workers : work'[v].pc # "quote"
  PROVE  PayInv'
<1>0. RowPaid /\ PeriodsPaid /\ \A v \in Workers : ThreadPaid(v)
  BY DEF PayInv
<1>1. \A v \in Workers :
        \/ /\ work'[v] = work[v] /\ (Busy(v)' <=> Busy(v)) /\ (Behind(v)' <=> Behind(v))
           /\ (Passive(v)' <=> Passive(v)) /\ Of(v)' = Of(v)
        \/ work'[v].pc = "idle" /\ work'[v].kind = "none" /\ ~Busy(v)' /\ ~Behind(v)'
  BY ThreadsRest
<1>2. Quiet => Quiet'
  BY <1>1 DEF Quiet
<1>3. \A v \in Workers : ~Busy(v) => ~Busy(v)'
  BY <1>1
<1>4. \A v \in Workers : /\ work'[v].pc \in Renewing => work[v].pc \in Renewing
                         /\ work'[v].pc \in {"quote", "extend", "rejected"}
                              => work[v].pc \in {"quote", "extend", "rejected"}
  BY <1>1 DEF Renewing
<1>5. RowPaid'
  <2>1. sched'.status = "none" => supplier' = 1 /\ ~sched'.enabled /\ \A v \in Workers : ~Busy(v)'
    BY <1>0, <1>3 DEF RowPaid
  <2>2. ASSUME sched'.status # "none"
        PROVE  /\ sched'.key = sched'.expires /\ sched'.expires >= 1
               /\ \/ sched'.expires = supplier'
                  \/ /\ sched'.expires + 1 = supplier' /\ Uncertain' /\ hold'[supplier'] = "none"
                     /\ \A v \in Workers : work'[v].pc \notin {"quote", "extend", "rejected"}
    <3>1. CASE sched.expires = supplier
      BY <1>0, <2>2, <3>1 DEF RowPaid
    <3>2. CASE sched.expires # supplier
      <4>1. /\ sched.expires + 1 = supplier /\ Uncertain /\ hold[supplier] = "none"
            /\ \A v \in Workers : work[v].pc \notin {"quote", "extend", "rejected"}
            /\ sched.key = sched.expires /\ sched.expires >= 1
        BY <1>0, <2>2, <3>2 DEF RowPaid
      <4>2. Uncertain'
        BY <3>2, <4>1
      <4> QED BY <1>4, <4>1, <4>2
    <3> QED BY <3>1, <3>2
  <2>3. Waiting' => Quiet' /\ \A v \in Workers : Busy(v)' => ~sched'.soon /\ month' < sched'.expires
    BY <1>0, <1>2, <1>3 DEF RowPaid
  <2>4. IF sched'.res = None THEN sched'.base = 0
        ELSE sched'.res = sched'.key /\ sched'.base = sched'.expires
    BY <1>0 DEF RowPaid
  <2>5. (sched'.enabled => month' <= sched'.expires) /\ \A e \in Expiries : e > supplier' => hold'[e] = "none"
    BY <1>0 DEF RowPaid
  <2> QED BY <2>1, <2>2, <2>3, <2>4, <2>5 DEF RowPaid
<1>6. ASSUME NEW w \in Workers PROVE ThreadPaid(w)'
  <2>1. CASE work'[w].pc = "idle" /\ work'[w].kind = "none"
    BY <2>1, PayIdle
  <2>2. CASE /\ work'[w] = work[w] /\ (Busy(w)' <=> Busy(w)) /\ (Behind(w)' <=> Behind(w))
             /\ Of(w)' = Of(w) /\ work[w].pc # "idle"
    <3>1. ThreadPaid(w)
      BY <1>0
    <3>2. work[w].pc = "quote" => /\ sched'.res = None /\ hold'[supplier'] = "none" /\ Owned(w)'
                                  /\ \A v \in Workers : v # w => ~Busy(v)'
      <4> SUFFICES ASSUME work[w].pc = "quote" PROVE Owned(w)'
        BY <1>3, <3>1 DEF ThreadPaid
      <4>1. Owned(w)
        BY <3>1 DEF ThreadPaid
      <4> QED BY <2>2, <4>1, PayTyped DEF Owned
    <3>3. work[w].pc = "extend" => Uncertain'
      BY <2>2, <3>1 DEF ThreadPaid
    <3>4. work[w].pc \in Renewing => \A v \in Workers : v # w => work'[v].pc \notin Renewing
      BY <1>4, <3>1 DEF ThreadPaid
    <3>5. Busy(w)' => /\ Of(w)' = sched'.expires \/ (Of(w)' + 1 = supplier' /\ sched'.expires = supplier')
                      /\ month' <= Of(w)'
      BY <2>2, <3>1 DEF ThreadPaid
    <3>6. Behind(w)' => Quiet'
      BY <1>2, <2>2, <3>1 DEF ThreadPaid
    <3> QED BY <2>2, <3>1, <3>2, <3>3, <3>4, <3>5, <3>6 DEF ThreadPaid
  <2>3. CASE work'[w] = work[w] /\ work[w].pc = "idle"
    <3>1. work[w].kind \in {"none", "uncertain", "sync"} /\ work'[w].kind = "none"
      BY <1>0, <2>3 DEF ThreadPaid
    <3> QED BY <2>3, <3>1, PayIdle
  <2> QED BY <1>1, <2>1, <2>2, <2>3
<1>7. PeriodsPaid'
  BY <1>0 DEF PeriodsPaid, Paid
<1> QED BY <1>5, <1>6, <1>7 DEF PayInv

\* One thread goes on and leaves the row alone.
LEMMA PayMoves ==
  ASSUME TInv, TInv', PayInv, UNCHANGED <<sched, hold, supplier, month>>, NEW w \in Workers,
         \A v \in Workers \ {w} : work'[v] = work[v],
         ThreadPaid(w)',
         Busy(w)' => sched.status # "none",
         Quiet /\ Busy(w)' => Behind(w)' \/ Passive(w)',
         Waiting /\ Busy(w)' => ~sched.soon /\ month < sched.expires,
         work'[w].pc \in {"quote", "extend", "rejected"} => sched.expires = supplier,
         \A v \in Workers \ {w} : /\ work[v].pc = "quote" => ~Busy(w)'
                                  /\ work[v].pc \in Renewing => work'[w].pc \notin Renewing
  PROVE  PayInv'
<1>0. RowPaid /\ PeriodsPaid /\ \A v \in Workers : ThreadPaid(v)
  BY DEF PayInv
<1>1. \A v \in Workers \ {w} :
        /\ (Busy(v)' <=> Busy(v)) /\ (Behind(v)' <=> Behind(v)) /\ (Passive(v)' <=> Passive(v))
        /\ Of(v)' = Of(v)
  BY DEF Busy, Of, Behind, Passive
<1>2. (Quiet => Quiet') /\ (Uncertain' <=> Uncertain) /\ (Waiting' <=> Waiting)
      /\ \A v \in Workers : Owned(v)' <=> Owned(v)
  BY <1>1 DEF Quiet, Uncertain, Waiting, Owned
<1>3. RowPaid'
  <2>1. sched'.status = "none" => supplier' = 1 /\ ~sched'.enabled /\ \A v \in Workers : ~Busy(v)'
    BY <1>0, <1>1 DEF RowPaid
  <2>2. ASSUME sched'.status # "none"
        PROVE  /\ sched'.key = sched'.expires /\ sched'.expires >= 1
               /\ \/ sched'.expires = supplier'
                  \/ /\ sched'.expires + 1 = supplier' /\ Uncertain' /\ hold'[supplier'] = "none"
                     /\ \A v \in Workers : work'[v].pc \notin {"quote", "extend", "rejected"}
    <3>1. CASE sched.expires = supplier
      BY <1>0, <2>2, <3>1 DEF RowPaid
    <3>2. CASE sched.expires # supplier
      <4>1. \A v \in Workers \ {w} : work'[v].pc \notin {"quote", "extend", "rejected"}
        BY <1>0, <2>2, <3>2 DEF RowPaid
      <4>2. work'[w].pc \notin {"quote", "extend", "rejected"}
        BY <3>2
      <4> QED BY <1>0, <1>2, <2>2, <3>2, <4>1, <4>2 DEF RowPaid
    <3> QED BY <3>1, <3>2
  <2>3. Waiting' => Quiet' /\ \A v \in Workers : Busy(v)' => ~sched'.soon /\ month' < sched'.expires
    BY <1>0, <1>1, <1>2 DEF RowPaid
  <2> QED BY <1>0, <2>1, <2>2, <2>3 DEF RowPaid
<1>4. ASSUME NEW u \in Workers \ {w} PROVE ThreadPaid(u)'
  <2>0. ThreadPaid(u) /\ work'[u] = work[u]
    BY <1>0
  <2>1. work[u].pc = "quote" => \A v \in Workers : v # u => ~Busy(v)'
    BY <1>1, <2>0 DEF ThreadPaid
  <2>2. work[u].pc \in Renewing => \A v \in Workers : v # u => work'[v].pc \notin Renewing
    BY <2>0 DEF ThreadPaid
  <2>3. /\ Busy(u)' => /\ Of(u)' = sched'.expires \/ (Of(u)' + 1 = supplier' /\ sched'.expires = supplier')
                       /\ month' <= Of(u)'
        /\ Behind(u)' => Quiet'
    BY <1>1, <1>2, <2>0 DEF ThreadPaid
  <2> QED BY <1>2, <2>0, <2>1, <2>2, <2>3 DEF ThreadPaid
<1>5. PeriodsPaid'
  BY <1>0 DEF PeriodsPaid, Paid
<1> QED BY <1>3, <1>4, <1>5 DEF PayInv

\* The passes and sync_active_assets: taking a row and reading the supplier.
LEMMA PayTakes ==
  ASSUME ~Admins, ~Upserts, TInv, TInv', PayInv, NEW w \in Workers, NEW kind \in Kinds, Take(w, kind)
  PROVE  PayInv'
<1>0. RowPaid /\ \A v \in Workers : ThreadPaid(v)
  BY DEF PayInv
<1>1. /\ UNCHANGED <<sched, hold, supplier, month>> /\ work[w].pc = "idle"
      /\ \A v \in Workers \ {w} : work'[v] = work[v]
      /\ work'[w].pc = "read" /\ work'[w].kind = kind
      /\ kind \in {"uncertain", "sync"}
      /\ kind = "uncertain" =>
           /\ work'[w].key = sched.res /\ work'[w].base = TakenBase
           /\ sched.enabled /\ sched.status \in {"extending", "provider_unknown"}
  BY <1>0, Taken DEF RowPaid, Kinds
<1>2. CASE kind = "sync"
  <2>1. ~Busy(w)' /\ ~Behind(w)' /\ work'[w].pc \notin Renewing
    BY <1>1, <1>2 DEF Busy, Behind, Renewing
  <2>2. ThreadPaid(w)'
    BY <1>1, <1>2, <2>1 DEF ThreadPaid, Renewing
  <2> QED BY <1>1, <2>1, <2>2, PayMoves
<1>3. CASE kind = "uncertain"
  <2>1. TakenBase = sched.expires
    BY <1>0 DEF RowPaid, TakenBase
  <2>2. /\ Busy(w)' /\ Of(w)' = sched.expires /\ work'[w].pc \notin Renewing
        /\ Passive(w)' <=> sched.res = None
    BY <1>1, <1>3, <2>1 DEF Busy, Of, Passive, Renewing
  <2>3. ~Behind(w)' /\ ~Waiting
    BY <1>1, <1>3, <2>2, PayTyped DEF Behind, Waiting
  <2>4. month <= sched.expires /\ sched.status # "none"
    BY <1>0, <1>1, <1>3 DEF RowPaid
  <2>5. ThreadPaid(w)'
    BY <1>1, <1>3, <2>2, <2>3, <2>4 DEF ThreadPaid, Renewing
  <2>6. ASSUME NEW v \in Workers \ {w}, work[v].pc = "quote" PROVE FALSE
    <3>1. Owned(v)
      BY <1>0, <2>6 DEF ThreadPaid
    <3> QED BY <1>1, <1>3, <3>1 DEF Owned
  <2>7. Quiet => Passive(w)'
    BY <2>2 DEF Quiet
  <2>8. work'[w].pc \notin {"quote", "extend", "rejected"}
    BY <1>1
  <2> QED BY <1>1, <2>2, <2>3, <2>4, <2>5, <2>6, <2>7, <2>8, PayMoves
<1> QED BY <1>1, <1>2, <1>3

LEMMA PayHears ==
  ASSUME ~Gaps, TInv, TInv', PayInv, NEW w \in Workers, Hears(w)
  PROVE  PayInv'
<1>0. RowPaid /\ \A v \in Workers : ThreadPaid(v)
  BY DEF PayInv
<1>1. /\ UNCHANGED <<sched, hold, supplier, month>> /\ work[w].pc = "read"
      /\ \A v \in Workers \ {w} : work'[v] = work[v]
      /\ work'[w].pc \in {"apply", "ended", "waiting"}
      /\ work'[w].kind = work[w].kind /\ work'[w].key = work[w].key
      /\ work'[w].base = work[w].base /\ work'[w].got = supplier
      /\ work'[w].pc # "apply" => work[w].kind \in {"reconcile", "sync"}
      /\ work'[w].pc = "waiting" => work[w].kind = "reconcile"
  BY Heard DEF Answers
<1>2. /\ (Busy(w)' <=> Busy(w)) /\ Of(w)' = Of(w) /\ (Behind(w)' <=> Behind(w))
      /\ (Passive(w)' <=> Passive(w)) /\ work'[w].pc \notin Renewing
  BY <1>1 DEF Busy, Of, Behind, Passive, Renewing
<1>3. work[w].kind \in {"uncertain", "sync"}
  BY <1>0, <1>1 DEF ThreadPaid, Renewing
<1>4. Quiet => Quiet'
  <2>1. \A v \in Workers \ {w} : (Busy(v)' <=> Busy(v)) /\ (Behind(v)' <=> Behind(v))
                                 /\ (Passive(v)' <=> Passive(v))
    BY <1>1 DEF Busy, Of, Behind, Passive
  <2> QED BY <1>1, <1>2, <2>1 DEF Quiet
<1>5. ThreadPaid(w)'
  <2>1. supplier <= supplier
    BY PayTyped
  <2>2. \/ work'[w].kind = "uncertain" /\ work'[w].pc = "apply"
        \/ work'[w].kind = "sync" /\ work'[w].pc \in {"apply", "ended"}
    BY <1>1, <1>3
  <2>3. /\ Busy(w)' => /\ Of(w)' = sched'.expires \/ (Of(w)' + 1 = supplier' /\ sched'.expires = supplier')
                       /\ month' <= Of(w)'
        /\ Behind(w)' => Quiet'
    BY <1>0, <1>1, <1>2, <1>4 DEF ThreadPaid
  <2> QED BY <1>1, <1>2, <2>1, <2>2, <2>3 DEF ThreadPaid
<1>6. /\ Busy(w)' => sched.status # "none"
      /\ Quiet /\ Busy(w)' => Behind(w)' \/ Passive(w)'
      /\ Waiting /\ Busy(w)' => ~sched.soon /\ month < sched.expires
  BY <1>0, <1>2 DEF RowPaid, Quiet
<1>7. \A v \in Workers \ {w} : work[v].pc = "quote" => ~Busy(w)'
  BY <1>0, <1>2 DEF ThreadPaid
<1>8. work'[w].pc \notin {"quote", "extend", "rejected"}
  BY <1>1
<1> QED BY <1>1, <1>2, <1>5, <1>6, <1>7, <1>8, PayMoves

\* A thread that works on the row: there is one, and nobody else is about to reserve.
LEMMA PayBusy ==
  ASSUME PayInv, NEW w \in Workers, Busy(w)
  PROVE  sched.status # "none" /\ \A v \in Workers : v # w => work[v].pc # "quote"
BY DEF PayInv, RowPaid, ThreadPaid

\* The rows that a returning thread writes.
LEMMA PayRow ==
  ASSUME TInv, NEW st
  PROVE  /\ \A on \in BOOLEAN :
              LET r == [NoLease(sched) EXCEPT !.enabled = on, !.status = st]
              IN  r.key = sched.key /\ r.expires = sched.expires /\ r.res = sched.res
                  /\ r.base = sched.base /\ r.status = st /\ r.enabled = on /\ r.lease = None
         /\ LET r == [NoLease(sched) EXCEPT !.status = st]
            IN  r.key = sched.key /\ r.expires = sched.expires /\ r.res = sched.res
                /\ r.base = sched.base /\ r.status = st /\ r.enabled = sched.enabled
         /\ \A so : LET r == [NoLease(sched) EXCEPT !.status = st, !.soon = so]
                    IN  r.key = sched.key /\ r.expires = sched.expires /\ r.res = sched.res
                        /\ r.base = sched.base /\ r.status = st /\ r.enabled = sched.enabled
         /\ LET r == [sched EXCEPT !.leased = FALSE]
            IN  r.key = sched.key /\ r.expires = sched.expires /\ r.res = sched.res
                /\ r.base = sched.base /\ r.status = sched.status /\ r.lease = sched.lease
                /\ r.enabled = sched.enabled /\ r.soon = sched.soon
BY PayTyped DEF NoLease, ScheduleRow

\* Steps that change nothing of the row, or only its lease.
LEMMA PayIdles ==
  ASSUME TInv, TInv', PayInv,
         LeaseExpires \/ \E w \in Workers : ReadFails(w) \/ JobAborts(w) \/ ApplySync(w) \/ Crash(w)
  PROVE  PayInv'
<1>1. \A v \in Workers : work'[v] = work[v] \/ work'[v] = Idle
  BY PayTyped DEF LeaseExpires, ReadFails, JobAborts, ApplySync, Crash, Return
<1>2. hold' = hold /\ supplier' = supplier /\ month' = month
  BY DEF LeaseExpires, ReadFails, JobAborts, ApplySync, Crash
<1>3. sched' = sched \/ sched' = [sched EXCEPT !.leased = FALSE]
  <2>1. \A w \in Workers : work[w].kind # "missing"
    BY DEF PayInv, ThreadPaid
  <2> QED BY <2>1 DEF LeaseExpires, ReadFails, JobAborts, ApplySync, Crash
<1>4. /\ sched'.key = sched.key /\ sched'.expires = sched.expires /\ sched'.res = sched.res
      /\ sched'.base = sched.base /\ sched'.status = sched.status /\ sched'.lease = sched.lease
      /\ sched'.enabled = sched.enabled /\ sched'.soon = sched.soon
  <2>1. CASE sched' = sched
    BY <2>1
  <2>2. CASE sched' = [sched EXCEPT !.leased = FALSE]
    BY <2>2, PayRow
  <2> QED BY <1>3, <2>1, <2>2
<1>5. (Uncertain => Uncertain') /\ (Waiting' => Waiting) /\ sched.status # "missing_expiry"
  BY <1>4 DEF Uncertain, Waiting, PayInv, RowPaid
<1> QED BY <1>1, <1>2, <1>4, <1>5, PayRests

\* The proxy has ended: nobody can claim the row any more.
LEMMA PayEnds ==
  ASSUME TInv, TInv', PayInv, NEW w \in Workers, ApplyEnded(w)
  PROVE  PayInv'
<1>1. \A v \in Workers : work'[v] = work[v] \/ work'[v] = Idle
  BY PayTyped DEF ApplyEnded, Return
<1>2. hold' = hold /\ supplier' = supplier /\ month' = month
  BY DEF ApplyEnded
<1>3. sched.status # "missing_expiry"
  BY DEF PayInv, RowPaid
<1>4. CASE sched.status = "none"
  <2>1. sched' = sched
    BY <1>4 DEF ApplyEnded
  <2>2. (Uncertain => Uncertain') /\ (Waiting' => Waiting)
    BY <2>1 DEF Uncertain, Waiting
  <2> QED BY <1>1, <1>2, <1>3, <2>1, <2>2, PayRests
<1>5. CASE sched.status # "none"
  <2>1. sched' = [NoLease(sched) EXCEPT !.enabled = FALSE, !.status = "ended"]
    BY <1>5 DEF ApplyEnded
  <2>2. /\ sched'.key = sched.key /\ sched'.expires = sched.expires /\ sched'.res = sched.res
        /\ sched'.base = sched.base /\ sched'.status = "ended" /\ sched'.enabled = FALSE
        /\ sched'.lease = None
    BY <2>1, PayRow
  <2>3. Uncertain' /\ ~Waiting'
    BY <2>2 DEF Uncertain, Waiting
  <2> QED BY <1>1, <1>2, <1>5, <2>2, <2>3, PayRests
<1> QED BY <1>4, <1>5

\* The next period comes within three days of its end.
LEMMA PayMonth ==
  ASSUME ~Overdue, TInv, TInv', PayInv, NextMonth
  PROVE  PayInv'
<1>0. /\ month' = month + 1 /\ UNCHANGED <<sched, hold, supplier, work>>
      /\ ~sched.enabled \/ month < sched.expires
      /\ \A v \in Workers : work[v].pc = "idle"
  <2>1. sched.enabled => sched.expires >= 1 /\ sched.expires \in Nat
    BY PayTyped DEF PayInv, RowPaid
  <2>2. sched.enabled => sched.expires # 0
    BY <2>1
  <2> QED BY <2>2 DEF NextMonth, At
<1>1. /\ \A v \in Workers : ~Busy(v) /\ ~Busy(v)' /\ work'[v].pc = "idle" /\ work'[v].kind = "none"
      /\ (Quiet <=> Quiet') /\ (Uncertain <=> Uncertain') /\ (Waiting <=> Waiting')
  <2>1. \A v \in Workers : work[v].kind = "none"
    BY <1>0 DEF PayInv, ThreadPaid
  <2> QED BY <1>0, <2>1 DEF Busy, Behind, Of, Passive, Quiet, Uncertain, Waiting
<1>2. sched.enabled => month + 1 <= sched.expires
  BY <1>0, PayTyped
<1>3. RowPaid'
  BY <1>0, <1>1, <1>2 DEF PayInv, RowPaid
<1>4. \A v \in Workers : ThreadPaid(v)'
  BY <1>1, PayIdle
<1>5. PeriodsPaid'
  BY <1>0 DEF PayInv, PeriodsPaid, Paid
<1> QED BY <1>3, <1>4, <1>5 DEF PayInv

\* Threads that give up before the reservation.
LEMMA PayGivesUp ==
  ASSUME ~LocalErrors, TInv, TInv', PayInv, NEW w \in Workers, work[w].pc = "quote",
         \/ \E status \in {"config_blocked", "provider_balance_low"} : Postpone(w, status)
         \/ \E status \in {"cost_limit", "insufficient_points"} : Disable(w, status)
         \/ TryLater(w)
         \/ \E definitive \in BOOLEAN : QuoteError(w, definitive)
  PROVE  PayInv'
<1>0. /\ sched.res = None /\ hold[supplier] = "none" /\ sched.expires = supplier
      /\ sched.status # "extending"
      /\ \A v \in Workers : v # w => ~Busy(v)
  BY DEF PayInv, ThreadPaid, Owned
<1>1. Busy(w) /\ sched.status # "none"
  <2>1. Busy(w)
    BY DEF Busy, PayInv, ThreadPaid, Renewing
  <2> QED BY <2>1, PayBusy
<1>2. Return(w) /\ hold' = hold /\ supplier' = supplier /\ month' = month
  BY <1>0 DEF Postpone, Disable, TryLater, QuoteError, ProviderError
<1>3. work'[w] = Idle /\ \A v \in Workers : v # w => work'[v] = work[v]
  BY <1>2, PayTyped DEF Return
<1>4. /\ sched'.key = sched.key /\ sched'.expires = sched.expires /\ sched'.res = sched.res
      /\ sched'.base = sched.base /\ (sched'.enabled => sched.enabled)
      /\ sched'.status \notin {"none", "missing_expiry"}
  <2>1. sched.status \notin {"none", "missing_expiry"}
    BY <1>1 DEF PayInv, RowPaid
  <2>2. CASE \E status \in {"config_blocked", "provider_balance_low"} : Postpone(w, status)
    <3>1. PICK status \in {"config_blocked", "provider_balance_low"} : Postpone(w, status)
      BY <2>2
    <3>2. \/ sched' = sched
          \/ \E so : sched' = [NoLease(sched) EXCEPT !.status = status, !.soon = so]
      BY <3>1 DEF Postpone
    <3>3. CASE sched' = sched
      BY <2>1, <3>3
    <3>4. CASE \E so : sched' = [NoLease(sched) EXCEPT !.status = status, !.soon = so]
      BY <3>4, PayRow
    <3> QED BY <3>2, <3>3, <3>4
  <2>3. CASE \E status \in {"cost_limit", "insufficient_points"} : Disable(w, status)
    <3>1. PICK status \in {"cost_limit", "insufficient_points"} :
            sched' = [NoLease(sched) EXCEPT !.enabled = FALSE, !.status = status]
      BY <2>3 DEF Disable
    <3> QED BY <3>1, PayRow
  <2>4. CASE TryLater(w)
    <3>1. sched' = [NoLease(sched) EXCEPT !.status = "scheduled", !.soon = TRUE]
      BY <1>0, <2>4 DEF TryLater
    <3> QED BY <3>1, PayRow
  <2>5. CASE \E definitive \in BOOLEAN : QuoteError(w, definitive)
    <3>1. sched' = [NoLease(sched) EXCEPT !.status = "provider_unknown"]
      BY <1>0, <2>5 DEF QuoteError, ProviderError
    <3> QED BY <3>1, PayRow
  <2> QED BY <2>2, <2>3, <2>4, <2>5
<1>5. \A v \in Workers : ~Busy(v)' /\ work'[v].pc \notin {"quote", "extend"}
  <2>1. \A v \in Workers : v # w => work[v].pc \notin {"quote", "extend"}
    <3>1. \A v \in Workers : work[v].pc \in {"quote", "extend"} => Busy(v)
      BY DEF PayInv, ThreadPaid, Busy, Renewing
    <3> QED BY <1>0, <3>1
  <2> QED BY <1>0, <1>3, <2>1 DEF Busy, Idle
<1>6. Quiet'
  BY <1>0, <1>2, <1>4, <1>5 DEF Quiet
<1>7. \A v \in Workers : work'[v] = work[v] \/ work'[v] = Idle
  BY <1>3
<1> QED BY <1>0, <1>1, <1>2, <1>4, <1>5, <1>6, <1>7, PayRests

\* Threads that leave the outcome open.
LEMMA PayUncertain ==
  ASSUME TInv, TInv', PayInv, NEW w \in Workers,
         \/ ApplyUnconfirmed(w) \/ OutcomeUnknown(w)
         \/ Rejected(w) /\ sched.res = None
  PROVE  PayInv'
<1>0. ThreadPaid(w)
  BY DEF PayInv
<1>1. Busy(w) /\ work[w].kind # "admin"
  BY <1>0 DEF ApplyUnconfirmed, OutcomeUnknown, Rejected, At, Busy, ThreadPaid, Renewing
<1>2. Return(w) /\ hold' = hold /\ supplier' = supplier /\ month' = month
  BY DEF ApplyUnconfirmed, OutcomeUnknown, Rejected, ProviderError
<1>3. sched' = [NoLease(sched) EXCEPT !.status = "provider_unknown"]
  BY <1>1 DEF ApplyUnconfirmed, OutcomeUnknown, Rejected, ProviderError
<1>4. /\ sched'.key = sched.key /\ sched'.expires = sched.expires /\ sched'.res = sched.res
      /\ sched'.base = sched.base /\ sched'.status = "provider_unknown"
      /\ sched'.enabled = sched.enabled
  BY <1>3, PayRow
<1>5. Uncertain' /\ ~Waiting'
  BY <1>4 DEF Uncertain, Waiting
<1>6. work'[w] = Idle /\ \A v \in Workers : v # w => work'[v] = work[v]
  BY <1>2, PayTyped DEF Return
<1>7. \A v \in Workers : work'[v].pc # "quote"
  BY <1>1, <1>6, PayBusy DEF Idle
<1>8. sched.status # "none"
  BY <1>1, PayBusy
<1>9. \A v \in Workers : work'[v] = work[v] \/ work'[v] = Idle
  BY <1>6
<1> QED BY <1>2, <1>4, <1>5, <1>7, <1>8, <1>9, PayRests

\* A renewal is completed, once or again.
LEMMA PayCompleted ==
  ASSUME TInv, TInv', PayInv, NEW w \in Workers, Busy(w), Of(w) + 1 = supplier,
         supplier' = supplier, month' = month, Return(w),
         NEW k \in Expiries, hold' = Settle(k), CompleteRenewal(supplier)
  PROVE  PayInv'
<1>0. RowPaid /\ PeriodsPaid /\ \A v \in Workers : ThreadPaid(v)
  BY DEF PayInv
<1>1. work'[w] = Idle /\ \A v \in Workers : v # w => work'[v] = work[v]
  BY PayTyped DEF Return
<1>2. /\ sched'.status = "scheduled" /\ sched'.expires = supplier /\ sched'.key = supplier
      /\ sched'.res = None /\ sched'.base = 0 /\ sched'.soon = FALSE
      /\ sched'.enabled = sched.enabled /\ sched'.lease = None
  BY PayTyped DEF CompleteRenewal, NoLease, ScheduleRow
<1>3. \A e \in Expiries : (hold[e] = "none" => hold'[e] = "none") /\ (Paid(e) => Paid(e)')
  BY PayTyped DEF Settle, Paid
<1>4. sched.status # "none" /\ month < supplier
  <2>1. sched.status # "none"
    BY PayBusy
  <2>2. month <= Of(w)
    BY <1>0 DEF ThreadPaid
  <2> QED BY <2>1, <2>2, PayTyped
<1>5. /\ hold[supplier] = "none"
      /\ \A v \in Workers : work[v].pc \notin {"quote", "extend", "rejected"}
      /\ \A v \in Workers : Busy(v) => Of(v) + 1 = supplier \/ Passive(v)
  <2>1. CASE sched.expires = supplier
    <3>1. Behind(w)
      BY <2>1, PayTyped DEF Behind
    <3>2. Quiet
      BY <1>0, <3>1 DEF ThreadPaid
    <3>3. \A v \in Workers : Busy(v) => Of(v) + 1 = supplier \/ Passive(v)
      <4> SUFFICES ASSUME NEW v \in Workers, Busy(v), ~Passive(v) PROVE Of(v) + 1 = supplier
        OBVIOUS
      <4>1. Of(v) < supplier
        BY <2>1, <3>2 DEF Quiet, Behind
      <4>2. Of(v) = sched.expires \/ Of(v) + 1 = supplier
        BY <1>0 DEF ThreadPaid
      <4> QED BY <2>1, <4>1, <4>2, PayTyped
    <3>4. ASSUME NEW v \in Workers, work[v].pc \in {"quote", "extend", "rejected"} PROVE FALSE
      <4>1. work[v].pc \in Renewing /\ Of(v) = supplier
        BY <1>0, <3>4 DEF ThreadPaid, Of, Renewing
      <4>2. Busy(v) /\ ~Passive(v)
        BY <1>0, <3>4, <4>1 DEF ThreadPaid, Busy, Passive
      <4> QED BY <3>3, <4>1, <4>2, PayTyped
    <3> QED BY <3>2, <3>3, <3>4 DEF Quiet
  <2>2. CASE sched.expires # supplier
    <3>1. /\ hold[supplier] = "none" /\ sched.expires + 1 = supplier
          /\ \A v \in Workers : work[v].pc \notin {"quote", "extend", "rejected"}
      BY <1>0, <1>4, <2>2 DEF RowPaid
    <3>2. \A v \in Workers : Busy(v) => Of(v) + 1 = supplier
      BY <1>0, <3>1 DEF ThreadPaid
    <3> QED BY <3>1, <3>2
  <2> QED BY <2>1, <2>2
<1>6. \A v \in Workers : v # w =>
        /\ (Busy(v)' <=> Busy(v)) /\ Of(v)' = Of(v) /\ (Passive(v)' <=> Passive(v))
        /\ Behind(v)' <=> Busy(v) /\ Of(v) < supplier
  BY <1>1, <1>2 DEF Busy, Of, Passive, Behind
<1>7. ~Busy(w)' /\ ~Behind(w)' /\ work'[w].pc = "idle" /\ work'[w].kind = "none"
  BY <1>1 DEF Busy, Behind, Idle
<1>8. Quiet'
  <2>1. \A v \in Workers : Busy(v)' => Behind(v)' \/ Passive(v)'
    <3> SUFFICES ASSUME NEW v \in Workers, Busy(v)' PROVE Behind(v)' \/ Passive(v)'
      OBVIOUS
    <3>1. v # w /\ Busy(v)
      BY <1>6, <1>7
    <3>2. Of(v) + 1 = supplier => Of(v) < supplier
      BY PayTyped
    <3> QED BY <1>5, <1>6, <3>1, <3>2
  <2> QED BY <1>2, <1>3, <1>5, <2>1, PayTyped DEF Quiet
<1>9. RowPaid'
  <2>1. \A e \in Expiries : e > supplier' => hold'[e] = "none"
    BY <1>0, <1>3 DEF RowPaid
  <2>2. month <= supplier /\ supplier >= 1
    BY <1>4, PayTyped
  <2> QED BY <1>2, <1>4, <1>8, <2>1, <2>2 DEF RowPaid
<1>10. ASSUME NEW v \in Workers, v # w PROVE ThreadPaid(v)'
  <2>1. ThreadPaid(v) /\ work'[v] = work[v]
    BY <1>0, <1>1, <1>10
  <2>2. work[v].pc \notin {"quote", "extend", "rejected"}
    BY <1>5
  <2>3. Busy(v)' => /\ Of(v)' = sched'.expires \/ (Of(v)' + 1 = supplier' /\ sched'.expires = supplier')
                    /\ month' <= Of(v)'
    <3>1. sched.expires = supplier \/ sched.expires + 1 = supplier
      BY <1>0, <1>4 DEF RowPaid
    <3> QED BY <1>2, <1>6, <1>10, <2>1, <3>1 DEF ThreadPaid
  <2>4. work[v].pc \in Renewing => \A u \in Workers : u # v => work'[u].pc \notin Renewing
    BY <1>1, <1>7, <2>1 DEF ThreadPaid, Renewing
  <2> QED BY <1>8, <2>1, <2>2, <2>3, <2>4 DEF ThreadPaid
<1>11. ThreadPaid(w)'
  BY <1>7, PayIdle
<1>12. PeriodsPaid'
  <2>1. 1 .. (supplier - 1) \subseteq Expiries
    BY PayTyped, Periods DEF Expiries
  <2> QED BY <1>0, <1>3, <2>1 DEF PeriodsPaid
<1> QED BY <1>9, <1>10, <1>11, <1>12 DEF PayInv

LEMMA PayCompletes ==
  ASSUME TInv, TInv', PayInv, NEW w \in Workers, Complete(w) \/ ApplyExtended(w)
  PROVE  PayInv'
<1>0. ThreadPaid(w) /\ RowPaid
  BY DEF PayInv
<1>1. CASE Complete(w)
  <2>1. /\ work[w].pc = "complete" /\ Return(w) /\ supplier' = supplier /\ month' = month
        /\ hold' = Settle(work[w].key) /\ CompleteRenewal(work[w].got)
    BY <1>1 DEF Complete, At
  <2>2. work[w].pc \in Renewing /\ work[w].kind = "none"
    BY <1>0, <2>1 DEF ThreadPaid, Renewing
  <2>3. work[w].got = supplier /\ Of(w) + 1 = supplier /\ Busy(w)
    BY <1>0, <2>1, <2>2 DEF ThreadPaid, Of, Busy
  <2>4. work[w].key \in Expiries
    BY <2>2 DEF TInv, KeysKnown
  <2> QED BY <2>1, <2>3, <2>4, PayCompleted
<1>2. CASE ApplyExtended(w)
  <2>1. /\ work[w].pc = "apply" /\ work[w].kind \in {"uncertain", "admin"}
        /\ work[w].got > work[w].base
        /\ Return(w) /\ supplier' = supplier /\ month' = month /\ CompleteRenewal(work[w].got)
    BY <1>2 DEF ApplyExtended, At, ExtensionSeen
  <2>2. work[w].kind = "uncertain" /\ work[w].got <= supplier
    BY <1>0, <2>1 DEF ThreadPaid
  <2>3. work[w].key # None /\ hold' = Settle(work[w].key)
    BY <1>2, <2>2 DEF ApplyExtended
  <2>4. work[w].key \in Expiries
    BY <2>3, PayTyped DEF ThreadRow
  <2>5. Busy(w) /\ Of(w) = work[w].base
    BY <2>1, <2>2 DEF Busy, Of, Renewing
  <2>6. sched.expires = supplier \/ sched.expires + 1 = supplier
    BY <1>0, <2>5, PayBusy DEF RowPaid
  <2>7. Of(w) = supplier \/ Of(w) + 1 = supplier
    BY <1>0, <2>5, <2>6 DEF ThreadPaid
  <2>8. Of(w) + 1 = supplier /\ work[w].got = supplier
    BY <2>1, <2>2, <2>5, <2>7, PayTyped
  <2> QED BY <2>1, <2>3, <2>4, <2>5, <2>8, PayCompleted
<1> QED BY <1>1, <1>2

\* A due row is claimed: no thread works on it.
LEMMA PayClaims ==
  ASSUME TInv, TInv', PayInv, NEW w \in Workers, Claim(w)
  PROVE  PayInv'
<1>0. /\ work[w].pc = "idle" /\ Waiting /\ (sched.soon \/ sched.expires <= month)
      /\ UNCHANGED <<hold, supplier, month>>
  BY DEF Claim, Claimable, At, Waiting
<1>1. Quiet /\ RowPaid /\ month <= sched.expires /\ sched.status # "none"
  BY <1>0 DEF PayInv, RowPaid, Waiting
<1>2. \A v \in Workers : ~Busy(v)
  BY <1>0, <1>1, PayTyped DEF RowPaid
<1>3. sched.expires = supplier /\ sched.key = supplier
  BY <1>0, <1>1 DEF RowPaid, Waiting, Uncertain
<1>4. /\ sched'.status = "quoting" /\ sched'.lease = w /\ sched'.key = sched.key
      /\ sched'.expires = sched.expires /\ sched'.res = sched.res /\ sched'.base = sched.base
      /\ sched'.enabled = sched.enabled
  BY PayTyped DEF Claim, ScheduleRow
<1>5. /\ work'[w].pc = "quote" /\ work'[w].kind = "none" /\ work'[w].key = sched.key
      /\ \A v \in Workers : v # w => work'[v] = work[v]
  BY PayTyped DEF Claim, Idle
<1>6. \A v \in Workers : v # w => ~Busy(v)' /\ ~Behind(v)'
  BY <1>2, <1>5 DEF Busy, Behind
<1>7. \A v \in Workers : work[v].pc \notin Renewing
  BY <1>2 DEF PayInv, ThreadPaid, Busy, Renewing
<1>8. RowPaid'
  <2>1. ~Waiting'
    BY <1>4 DEF Waiting
  <2> QED BY <1>0, <1>1, <1>3, <1>4, <2>1 DEF RowPaid
<1>9. ThreadPaid(w)'
  <2>1. Of(w)' = sched.expires /\ ~Behind(w)'
    BY <1>3, <1>4, <1>5, PayTyped DEF Of, Renewing, Behind
  <2>2. Owned(w)'
    BY <1>4 DEF Owned
  <2>3. \A v \in Workers : v # w => work'[v].pc \notin Renewing
    BY <1>5, <1>7
  <2> QED BY <1>0, <1>1, <1>3, <1>4, <1>5, <1>6, <2>1, <2>2, <2>3 DEF ThreadPaid, Quiet, Renewing
<1>10. ASSUME NEW v \in Workers, v # w PROVE ThreadPaid(v)'
  <2>1. ThreadPaid(v) /\ work'[v] = work[v] /\ work[v].pc \notin Renewing
    BY <1>5, <1>7, <1>10 DEF PayInv
  <2> QED BY <1>0, <1>6, <1>10, <2>1 DEF ThreadPaid, Renewing
<1>11. PeriodsPaid'
  BY <1>0 DEF PayInv, PeriodsPaid, Paid
<1> QED BY <1>8, <1>9, <1>10, <1>11 DEF PayInv

\* While a thread renews the current period, no other is behind it.
LEMMA PayRenewing ==
  ASSUME TInv, PayInv, NEW w \in Workers, work[w].pc \in {"quote", "extend", "rejected"}
  PROVE  /\ sched.expires = supplier /\ work[w].key = supplier /\ sched.key = supplier
         /\ month <= supplier /\ ~Quiet /\ sched.status # "none" /\ ~Waiting
         /\ work[w].kind = "none"
         /\ \A v \in Workers : /\ ~Behind(v) /\ (v # w => work[v].pc \notin Renewing)
                               /\ Busy(v) => Of(v) = supplier
<1>1. ThreadPaid(w) /\ RowPaid
  BY DEF PayInv
<1>2. /\ sched.expires = supplier /\ work[w].key = supplier /\ work[w].kind = "none"
      /\ \A v \in Workers : v # w => work[v].pc \notin Renewing
  BY <1>1 DEF ThreadPaid, Renewing
<1>3. Busy(w) /\ ~Passive(w) /\ Of(w) = supplier /\ ~Behind(w)
  BY <1>2, PayTyped DEF Busy, Passive, Of, Behind, Renewing
<1>4. ~Quiet
  BY <1>3 DEF Quiet
<1>5. sched.status # "none" /\ sched.key = supplier
  BY <1>1, <1>2, <1>3, PayBusy DEF RowPaid
<1>6. \A v \in Workers : ~Behind(v)
  BY <1>4 DEF PayInv, ThreadPaid
<1>7. \A v \in Workers : Busy(v) => Of(v) = supplier
  <2> SUFFICES ASSUME NEW v \in Workers, Busy(v) PROVE Of(v) = supplier
    OBVIOUS
  <2>1. Of(v) = supplier \/ Of(v) + 1 = supplier
    BY <1>2 DEF PayInv, ThreadPaid
  <2>2. ~(Of(v) < supplier)
    BY <1>2, <1>6 DEF Behind
  <2> QED BY <2>1, <2>2, PayTyped
<1>8. ~Waiting /\ month <= supplier
  BY <1>1, <1>3, <1>4 DEF RowPaid, ThreadPaid
<1> QED BY <1>2, <1>4, <1>5, <1>6, <1>7, <1>8

\* Other threads during a step of a thread that renews the current period.
LEMMA PayOthers ==
  ASSUME TInv, TInv', PayInv, NEW w \in Workers, work[w].pc \in {"quote", "extend", "rejected"},
         sched'.expires = sched.expires, supplier' \in {supplier, supplier + 1}, month' = month,
         NEW v \in Workers, v # w, work'[v] = work[v]
  PROVE  ThreadPaid(v)' /\ work'[v].pc \notin Renewing
<1>1. /\ sched.expires = supplier /\ ~Behind(v) /\ work[v].pc \notin Renewing
      /\ Busy(v) => Of(v) = supplier
      /\ ThreadPaid(v)
  BY PayRenewing DEF PayInv
<1>2. ~Behind(v)' /\ (Busy(v)' <=> Busy(v)) /\ Of(v)' = Of(v)
  BY <1>1 DEF Behind, Busy, Of
<1>3. work'[v].pc = "apply" => work'[v].got <= supplier'
  BY <1>1, PayTyped DEF ThreadPaid
<1>4. Busy(v) => month <= Of(v)
  BY <1>1 DEF ThreadPaid
<1> QED BY <1>1, <1>2, <1>3, <1>4 DEF ThreadPaid, Renewing

\* The points are held, whether or not the row is still the thread's.
LEMMA PayReserves ==
  ASSUME TInv, TInv', PayInv, NEW w \in Workers, Reserve(w)
  PROVE  PayInv'
<1>0. work[w].pc = "quote" /\ ThreadPaid(w) /\ RowPaid /\ supplier' = supplier /\ month' = month
  BY DEF Reserve, At, PayInv
<1>1. /\ sched.expires = supplier /\ work[w].key = supplier /\ sched.key = supplier
      /\ sched.status # "none" /\ month <= supplier /\ work[w].kind = "none"
  BY <1>0, PayRenewing
<1>2. hold[supplier] = "none" /\ sched.res = None /\ Owned(w)
  BY <1>0 DEF ThreadPaid
<1>3. hold' = [hold EXCEPT ![supplier] = "held"]
  BY <1>1, <1>2 DEF Reserve
<1>4. /\ sched'.key = sched.key /\ sched'.expires = sched.expires
      /\ sched'.enabled = sched.enabled /\ sched'.status \notin {"none", "missing_expiry"}
      /\ \/ sched'.res = None /\ sched'.base = sched.base
         \/ sched'.res = supplier /\ sched'.base = supplier
      /\ sched'.enabled => sched'.status = "extending"
  <2>1. CASE sched.lease = w
    <3>1. sched' = [sched EXCEPT !.status = "extending", !.res = supplier, !.base = supplier]
      BY <1>1, <2>1 DEF Reserve
    <3> QED BY <3>1, PayTyped DEF ScheduleRow
  <2>2. CASE sched.lease # w
    <3>1. sched' = sched
      BY <2>2 DEF Reserve
    <3> QED BY <1>0, <1>1, <1>2, <2>2, <3>1 DEF Owned, RowPaid
  <2> QED BY <2>1, <2>2
<1>5. /\ work'[w].pc = "extend" /\ work'[w].key = work[w].key /\ work'[w].kind = work[w].kind
      /\ \A v \in Workers : v # w => work'[v] = work[v]
  BY PayTyped DEF Reserve, ThreadRow
<1>6. /\ hold'[supplier] = "held"
      /\ \A e \in Expiries : e > supplier => hold'[e] = "none"
      /\ \A e \in Expiries : Paid(e) => Paid(e)'
  <2>1. hold'[supplier] = "held" /\ \A e \in Expiries : e # supplier => hold'[e] = hold[e]
    BY <1>3, PayTyped
  <2>2. \A e \in Expiries : e > supplier => e # supplier /\ hold[e] = "none"
    BY <1>0, PayTyped, Periods DEF RowPaid
  <2>3. \A e \in Expiries : Paid(e) => Paid(e)'
    BY <1>2, <2>1 DEF Paid
  <2> QED BY <2>1, <2>2, <2>3
<1>7. ~Waiting' /\ Uncertain'
  BY <1>4 DEF Waiting, Uncertain
<1>8. RowPaid'
  <2>1. IF sched'.res = None THEN sched'.base = 0
        ELSE sched'.res = sched'.key /\ sched'.base = sched'.expires
    BY <1>0, <1>1, <1>2, <1>4, PayTyped DEF RowPaid
  <2>2. supplier >= 1
    BY PayTyped
  <2> QED BY <1>0, <1>1, <1>4, <1>6, <1>7, <2>1, <2>2 DEF RowPaid
<1>9. \A v \in Workers : v # w => ThreadPaid(v)' /\ work'[v].pc \notin Renewing
  BY <1>0, <1>4, <1>5, PayOthers
<1>10. ThreadPaid(w)'
  <2>1. Of(w)' = supplier /\ ~Behind(w)'
    BY <1>1, <1>4, <1>5, PayTyped DEF Of, Behind, Renewing
  <2> QED BY <1>0, <1>1, <1>4, <1>5, <1>6, <1>7, <1>9, <2>1 DEF ThreadPaid, Renewing
<1>11. PeriodsPaid'
  <2>1. 1 .. (supplier - 1) \subseteq Expiries
    BY PayTyped, Periods DEF Expiries
  <2> QED BY <1>0, <1>6, <2>1 DEF PayInv, PeriodsPaid
<1> QED BY <1>8, <1>9, <1>10, <1>11 DEF PayInv

\* The supplier extends the proxy: the key of the thread pays for this period.
LEMMA PayExtends ==
  ASSUME TInv, TInv', PayInv, NEW w \in Workers,
         \E answer \in {"complete", "confirm", "unknown"} : Extend(w, answer)
  PROVE  PayInv'
<1>0. /\ work[w].pc = "extend" /\ ThreadPaid(w) /\ RowPaid /\ supplier' = supplier + 1
      /\ UNCHANGED <<sched, hold, month>>
  BY DEF Extend, At, PayInv
<1>1. /\ sched.expires = supplier /\ work[w].key = supplier /\ sched.key = supplier
      /\ sched.status # "none" /\ ~Waiting /\ month <= supplier /\ work[w].kind = "none"
  BY <1>0, PayRenewing
<1>2. Uncertain /\ hold[supplier] = "held"
  BY <1>0 DEF ThreadPaid
<1>3. /\ work'[w].pc \in {"complete", "confirm", "unknown"} /\ work'[w].key = work[w].key
      /\ work'[w].kind = work[w].kind
      /\ work'[w].pc = "complete" => work'[w].got = supplier'
      /\ \A v \in Workers : v # w => work'[v] = work[v]
  <2>1. PICK answer \in {"complete", "confirm", "unknown"} : Extend(w, answer)
    OBVIOUS
  <2> DEFINE x == [work[w] EXCEPT !.pc = answer, !.got = IF answer = "complete" THEN supplier + 1 ELSE 0]
  <2>2. work' = [work EXCEPT ![w] = x]
    BY <2>1, PayTyped DEF Extend
  <2>3. /\ x.pc = answer /\ x.key = work[w].key /\ x.kind = work[w].kind
        /\ answer = "complete" => x.got = supplier + 1
    BY PayTyped DEF ThreadRow
  <2> HIDE DEF x
  <2> QED BY <1>0, <2>2, <2>3, PayTyped
<1>4. \A v \in Workers : v # w => ThreadPaid(v)' /\ work'[v].pc \notin Renewing
  BY <1>0, <1>3, PayOthers
<1>5. RowPaid'
  <2>1. hold[supplier + 1] = "none" /\ \A e \in Expiries : e > supplier + 1 => hold[e] = "none"
    <3>1. supplier + 1 \in Expiries
      BY <1>0, PayTyped, Periods DEF Expiries, TInv, TablesOK
    <3> QED BY <1>0, <3>1, PayTyped, Periods DEF RowPaid
  <2>2. \A v \in Workers : work'[v].pc \notin {"quote", "extend", "rejected"}
    BY <1>3, <1>4 DEF Renewing
  <2>3. Uncertain' /\ ~Waiting'
    BY <1>0, <1>1, <1>2 DEF Uncertain, Waiting
  <2> QED BY <1>0, <1>1, <2>1, <2>2, <2>3, PayTyped DEF RowPaid
<1>6. ThreadPaid(w)'
  <2>1. Of(w)' = supplier /\ ~Behind(w)' /\ work'[w].pc \in Renewing
    BY <1>0, <1>1, <1>3, PayTyped DEF Of, Behind, Renewing
  <2> QED BY <1>0, <1>1, <1>3, <1>4, <2>1 DEF ThreadPaid
<1>7. PeriodsPaid'
  <2>1. \A e \in 1 .. supplier : Paid(e)
    BY <1>0, <1>2, PayTyped DEF PayInv, PeriodsPaid, Paid
  <2>2. supplier' - 1 = supplier
    BY <1>0, PayTyped
  <2> QED BY <1>0, <2>1, <2>2 DEF PeriodsPaid, Paid
<1> QED BY <1>4, <1>5, <1>6, <1>7 DEF PayInv

\* Answers that leave the supplier's period alone.
LEMMA PayAnswers ==
  ASSUME ~Rejections, TInv, TInv', PayInv, NEW w \in Workers,
         \/ \E answer \in {"complete", "rejected", "unknown"} : ConfirmExpiry(w, answer)
         \/ \E outcome \in {"unknown", "rejected"} : ExtendFails(w, outcome)
  PROVE  PayInv'
<1>0. ThreadPaid(w) /\ RowPaid /\ UNCHANGED <<sched, hold, supplier, month>>
  BY DEF PayInv, ConfirmExpiry, ExtendFails
<1>1. /\ work[w].pc \in {"confirm", "extend"}
      /\ work'[w].pc \in {"complete", "unknown", "rejected"}
      /\ work'[w].pc = "rejected" => work[w].pc = "extend"
      /\ work'[w].pc = "complete" => work[w].pc = "confirm" /\ work'[w].got = supplier
      /\ work'[w].key = work[w].key /\ work'[w].kind = work[w].kind
      /\ \A v \in Workers : v # w => work'[v] = work[v]
  <2>1. CASE \E answer \in {"complete", "rejected", "unknown"} : ConfirmExpiry(w, answer)
    <3>1. PICK answer \in {"complete", "unknown"} : ConfirmExpiry(w, answer)
      BY <2>1 DEF ConfirmExpiry
    <3> DEFINE x == [work[w] EXCEPT !.pc = answer, !.got = IF answer = "complete" THEN supplier ELSE 0]
    <3>2. work' = [work EXCEPT ![w] = x] /\ work[w].pc = "confirm"
      BY <3>1, PayTyped DEF ConfirmExpiry, At
    <3>3. /\ x.pc = answer /\ x.kind = work[w].kind /\ x.key = work[w].key
          /\ answer = "complete" => x.got = supplier
      BY PayTyped DEF ThreadRow
    <3> HIDE DEF x
    <3> QED BY <3>2, <3>3, PayTyped
  <2>2. CASE \E outcome \in {"unknown", "rejected"} : ExtendFails(w, outcome)
    BY <2>2, PayTyped DEF ExtendFails, At, ThreadRow
  <2> QED BY <2>1, <2>2
<1>2. work[w].pc \in Renewing /\ work'[w].pc \in Renewing /\ work[w].kind = "none"
  BY <1>0, <1>1 DEF ThreadPaid, Renewing
<1>3. /\ Busy(w) /\ Busy(w)' /\ Of(w)' = Of(w) /\ (Behind(w)' <=> Behind(w))
      /\ ~Passive(w) /\ ~Passive(w)'
  BY <1>0, <1>1, <1>2 DEF Busy, Of, Behind, Passive, Renewing
<1>4. \A v \in Workers : v # w => work[v].pc \notin Renewing /\ work'[v].pc \notin Renewing
  BY <1>0, <1>1, <1>2 DEF ThreadPaid
<1>5. Quiet => Behind(w)
  BY <1>3 DEF Quiet
<1>6. Quiet => Quiet'
  <2>1. \A v \in Workers : v # w => /\ (Busy(v)' <=> Busy(v)) /\ (Behind(v)' <=> Behind(v))
                                    /\ (Passive(v)' <=> Passive(v))
    BY <1>0, <1>1 DEF Busy, Of, Behind, Passive
  <2> QED BY <1>0, <1>3, <1>5, <2>1 DEF Quiet
<1>7. work'[w].pc = "rejected" => sched.expires = supplier /\ hold[supplier] = "held" /\ work[w].key = supplier
  BY <1>0, <1>1 DEF ThreadPaid
<1>8. ThreadPaid(w)'
  <2>1. /\ Busy(w)' => /\ Of(w)' = sched'.expires \/ (Of(w)' + 1 = supplier' /\ sched'.expires = supplier')
                       /\ month' <= Of(w)'
        /\ Behind(w)' => Quiet'
    BY <1>0, <1>3, <1>6 DEF ThreadPaid
  <2>2. work'[w].pc = "complete" => work'[w].key + 1 = supplier
    BY <1>0, <1>1 DEF ThreadPaid
  <2> QED BY <1>0, <1>1, <1>2, <1>4, <1>7, <2>1, <2>2 DEF ThreadPaid
<1>9. /\ sched.status # "none"
      /\ Waiting => ~sched.soon /\ month < sched.expires
  BY <1>0, <1>3 DEF RowPaid
<1>10. \A v \in Workers \ {w} : work[v].pc # "quote" /\ work[v].pc \notin Renewing
  BY <1>4 DEF Renewing
<1>11. work'[w].pc \in {"quote", "extend", "rejected"} => sched.expires = supplier
  BY <1>1, <1>7
<1> QED BY <1>0, <1>1, <1>3, <1>5, <1>8, <1>9, <1>10, <1>11, PayMoves

\* A refusal gives the points back: no extension was made for them.
LEMMA PayRejected ==
  ASSUME TInv, TInv', PayInv, NEW w \in Workers, Rejected(w), sched.res # None
  PROVE  PayInv'
<1>0. work[w].pc = "rejected" /\ ThreadPaid(w) /\ RowPaid /\ supplier' = supplier /\ month' = month
  BY DEF Rejected, At, PayInv, ProviderError
<1>1. /\ sched.expires = supplier /\ sched.key = supplier
      /\ hold[supplier] = "held" /\ sched.res = supplier /\ sched.base = supplier
  BY <1>0, PayRenewing DEF ThreadPaid, RowPaid
<1>2. hold' = [hold EXCEPT ![supplier] = "released"]
  BY <1>1 DEF Rejected, ProviderError, Release
<1>3. /\ sched'.key = sched.key /\ sched'.expires = sched.expires /\ sched'.res = sched.res
      /\ sched'.base = sched.base /\ sched'.status = "failed" /\ sched'.enabled = FALSE
  <2>1. sched' = [NoLease(sched) EXCEPT !.enabled = FALSE, !.status = "failed"]
    BY DEF Rejected, ProviderError
  <2> QED BY <2>1, PayRow
<1>4. work'[w] = Idle /\ \A v \in Workers : v # w => work'[v] = work[v]
  BY PayTyped DEF Rejected, ProviderError, Return
<1>5. \A v \in Workers : v # w => ThreadPaid(v)'
  BY <1>0, <1>3, <1>4, PayOthers
<1>6. ThreadPaid(w)'
  BY <1>4, PayIdle DEF Idle
<1>7. RowPaid'
  <2>1. \A e \in Expiries : e > supplier => hold'[e] = "none"
    <3>1. \A e \in Expiries : e > supplier => e # supplier
      BY PayTyped, Periods
    <3> QED BY <1>0, <1>2, <3>1, PayTyped DEF RowPaid
  <2>2. ~Waiting' /\ supplier >= 1 /\ supplier # None
    BY <1>3, PayTyped DEF Waiting
  <2> QED BY <1>0, <1>1, <1>3, <2>1, <2>2 DEF RowPaid
<1>8. PeriodsPaid'
  <2>1. \A e \in 1 .. (supplier - 1) : e \in Expiries /\ e # supplier
    BY PayTyped, Periods DEF Expiries
  <2> QED BY <1>0, <1>2, <2>1, PayTyped DEF PayInv, PeriodsPaid, Paid
<1> QED BY <1>5, <1>6, <1>7, <1>8 DEF PayInv

LEMMA PayInit == ASSUME ~Gaps PROVE Init => PayInv
<1> SUFFICES ASSUME Init PROVE PayInv
  OBVIOUS
<1>1. /\ supplier = 1 /\ hold = [e \in Expiries |-> "none"] /\ asset = 1 /\ month = 0
      /\ \A w \in Workers : work[w] = Idle
  BY DEF Init, Answers
<1>2. \A w \in Workers : work[w].pc = "idle" /\ work[w].kind = "none" /\ ~Busy(w)
  BY <1>1 DEF Idle, Busy
<1>3. /\ sched.res = None /\ sched.base = 0
      /\ \/ sched.status = "none" /\ ~sched.enabled
         \/ sched.status = "scheduled" /\ sched.expires = 1 /\ sched.key = 1
  <2>1. PICK st \in {"scheduled", "missing_expiry"} :
          Judged(asset, st) /\ sched = IF renewal THEN NewSchedule(asset, st) ELSE NoSchedule
    BY DEF Init
  <2>2. st = "scheduled"
    BY <1>1, <2>1 DEF Judged
  <2>3. CASE renewal
    BY <1>1, <2>1, <2>2, <2>3 DEF NewSchedule
  <2>4. CASE ~renewal
    BY <2>1, <2>4 DEF NoSchedule, NewSchedule
  <2> QED BY <2>3, <2>4 DEF Init
<1>4. Quiet
  BY <1>1, <1>2, <1>3, Periods DEF Quiet, Expiries
<1>5. RowPaid
  BY <1>1, <1>2, <1>3, <1>4 DEF RowPaid, Waiting
<1>6. \A w \in Workers : ThreadPaid(w)
  BY <1>2 DEF ThreadPaid, Renewing, Behind
<1> QED BY <1>1, <1>5, <1>6 DEF PayInv, PeriodsPaid

LEMMA PayNext ==
  ASSUME ~Switches, ~Upserts, ~Admins, ~LocalErrors, ~Rejections, ~Gaps, ~Overdue
  PROVE  TInv /\ PayInv /\ [Next]_vars => PayInv'
<1> SUFFICES ASSUME TInv, PayInv, [Next]_vars PROVE PayInv'
  OBVIOUS
<1>0. TInv'
  BY TypeNext
<1>1. CASE UNCHANGED vars
  BY <1>1 DEF vars, PayInv, RowPaid, ThreadPaid, PeriodsPaid, Paid, Quiet, Uncertain, Waiting, Owned,
              Of, Busy, Behind, Passive
<1>2. CASE (\E on \in BOOLEAN : SetOrderRenewal(on)) \/ ConfirmNotExtended
  BY <1>2 DEF SetOrderRenewal, ConfirmNotExtended
<1>3. CASE LeaseExpires
  BY <1>0, <1>3, PayIdles
<1>4. CASE NextMonth
  BY <1>0, <1>4, PayMonth
<1>5. ASSUME NEW w \in Workers, (\E kind \in Kinds : Take(w, kind)) \/ ScanStep(w)
      PROVE  PayInv'
  <2>0. ThreadPaid(w)
    BY DEF PayInv
  <2>1. CASE \E kind \in Kinds : Take(w, kind)
    BY <1>0, <2>1, PayTakes
  <2>2. CASE Hears(w)
    BY <1>0, <2>2, PayHears
  <2>3. CASE ReadFails(w) \/ JobAborts(w) \/ ApplySync(w)
    BY <1>0, <2>3, PayIdles
  <2>4. CASE \/ \E status \in {"scheduled", "missing_expiry"} : ApplyMissing(w, status)
                                                               \/ ApplyReconcile(w, status)
             \/ ApplyWaiting(w)
    BY <2>0, <2>4 DEF ThreadPaid, ApplyMissing, ApplyReconcile, ApplyWaiting, At, Renewing
  <2>5. CASE ApplyEnded(w)
    BY <1>0, <2>5, PayEnds
  <2>6. CASE ApplyUnconfirmed(w)
    BY <1>0, <2>6, PayUncertain
  <2>7. CASE ApplyExtended(w)
    BY <1>0, <2>7, PayCompletes
  <2> QED BY <1>5, <2>1, <2>2, <2>3, <2>4, <2>5, <2>6, <2>7 DEF ScanStep, Hears
<1>6. ASSUME NEW w \in Workers, RenewStep(w) PROVE PayInv'
  <2>1. CASE \/ \E status \in {"config_blocked", "provider_balance_low"} : Postpone(w, status)
             \/ \E status \in {"cost_limit", "insufficient_points"} : Disable(w, status)
             \/ TryLater(w)
             \/ \E definitive \in BOOLEAN : QuoteError(w, definitive)
    <3>1. work[w].pc = "quote"
      BY <2>1 DEF Postpone, Disable, TryLater, QuoteError, At
    <3> QED BY <1>0, <2>1, <3>1, PayGivesUp
  <2>2. CASE Reserve(w)
    BY <1>0, <2>2, PayReserves
  <2>3. CASE \E answer \in {"complete", "confirm", "unknown"} : Extend(w, answer)
    BY <1>0, <2>3, PayExtends
  <2>4. CASE \/ \E answer \in {"complete", "rejected", "unknown"} : ConfirmExpiry(w, answer)
             \/ \E outcome \in {"unknown", "rejected"} : ExtendFails(w, outcome)
    BY <1>0, <2>4, PayAnswers
  <2>5. CASE Complete(w)
    BY <1>0, <2>5, PayCompletes
  <2>6. CASE OutcomeUnknown(w)
    BY <1>0, <2>6, PayUncertain
  <2>7. CASE Rejected(w)
    BY <1>0, <2>7, PayUncertain, PayRejected
  <2> QED BY <1>6, <2>1, <2>2, <2>3, <2>4, <2>5, <2>6, <2>7 DEF RenewStep
<1>7. ASSUME NEW w \in Workers, Claim(w) PROVE PayInv'
  BY <1>0, <1>7, PayClaims
<1>8. ASSUME NEW w \in Workers, Crash(w) PROVE PayInv'
  BY <1>0, <1>8, PayIdles
<1> QED BY <1>1, <1>2, <1>3, <1>4, <1>5, <1>6, <1>7, <1>8 DEF Next

\* As long as the row is left to the workers (no switch, upsert or resolution,
\* no failed transaction after an extension, no rejected confirmation), every
\* expiry is told and each renewal is done within its period, the platform never
\* pays twice for one charge: each extension is charged or its points are on
\* hold, whatever workers race, die, lose their lease or read of an ended proxy.
THEOREM EachExtensionPaid ==
  ASSUME ~Switches, ~Upserts, ~Admins, ~LocalErrors, ~Rejections, ~Gaps, ~Overdue
  PROVE  Spec => []ExtensionsPaid
<1>1. TInv /\ PayInv => ExtensionsPaid
  <2> SUFFICES ASSUME TInv, PayInv PROVE ExtensionsPaid
    OBVIOUS
  <2> DEFINE S == {e \in Expiries : hold[e] = "settled"}
             H == {e \in Expiries : hold[e] = "held"}
             A == 1 .. (supplier - 1)
  <2>1. IsFiniteSet(S) /\ IsFiniteSet(H)
    <3>1. IsFiniteSet(Expiries)
      BY Periods, FS_Interval DEF Expiries
    <3> QED BY <3>1, FS_Subset
  <2>2. IsFiniteSet(S \cup H) /\ Cardinality(S \cup H) = Cardinality(S) + Cardinality(H)
    <3>1. S \cap H = {}
      OBVIOUS
    <3> HIDE DEF S, H
    <3>2. Cardinality(S \cap H) = 0
      BY <3>1, FS_EmptySet
    <3>3. Cardinality(S) \in Nat /\ Cardinality(H) \in Nat
      BY <2>1, FS_CardinalityType
    <3>4. /\ IsFiniteSet(S \cup H)
          /\ Cardinality(S \cup H) = Cardinality(S) + Cardinality(H) - Cardinality(S \cap H)
      BY <2>1, FS_Union
    <3> QED BY <3>2, <3>3, <3>4
  <2>3. supplier \in Nat /\ 1 <= supplier /\ Charged = Cardinality(S) /\ Pending = Cardinality(H)
    BY PayTyped DEF Charged, Pending
  <2>4. A \subseteq S \cup H
    <3>1. A \subseteq Expiries
      BY PayTyped, Periods DEF Expiries
    <3>2. \A e \in A : Paid(e)
      BY DEF PayInv, PeriodsPaid
    <3> QED BY <3>1, <3>2 DEF Paid
  <2>5. IsFiniteSet(A) /\ Cardinality(A) = supplier - 1
    BY <2>3, FS_Interval
  <2> HIDE DEF A, S, H
  <2>6. Cardinality(A) <= Cardinality(S \cup H)
    BY <2>2, <2>4, FS_Subset
  <2> QED BY <2>2, <2>3, <2>5, <2>6 DEF ExtensionsPaid
<1>2. (Init => TInv /\ PayInv) /\ (TInv /\ PayInv /\ [Next]_vars => TInv' /\ PayInv')
  BY TypeInit, TypeNext, PayInit, PayNext
<1> QED BY <1>1, <1>2, PTL DEF Spec
=============================================================================
