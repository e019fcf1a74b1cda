-------------------------- MODULE SocialTasksProofs --------------------------
(***************************************************************************)
(* Proofs about SocialTasks: types, rows and their quota slots, at most    *)
(* one click per post, the order of a batch, the daily limit, silence      *)
(* after a cancellation, and the refinement of Escrow.                     *)
(*                                                                         *)
(* SInv is the inductive invariant.  NextStep reduces every action to      *)
(* Step, a few kinds of changes of a row and of a session; StepKeeps shows *)
(* that Step preserves SInv.  The last sections add what the slots, the    *)
(* limit, the points and the silence need on top of it.                    *)
(***************************************************************************)
EXTENDS SocialTasks, SumTheorems, FiniteSetTheorems, SequenceTheorems, TLAPS

-----------------------------------------------------------------------------
(* The inductive invariant *)

Pcs == {"idle", "claimed", "start", "next", "work", "armed", "ready", "clicked", "posted", "raised", "leaving"}
RowType == [status : Active \cup Final \cup Away, mark : {"none", "submitting", "submitted"},
            conf : 0..(Attempts + 1), result : {"plain", "noretry", "review"}, tries : 0..Retries]
SlotType == [state : Spent \cup {"none", "planned", "reserved", "released"}, day : 0..LastDay]
ClaimType == [by : Procs \cup {None, Gone}, live : BOOLEAN]
RunType == [pc : Pcs, items : Seq(Tasks), i : Nat, stop : BOOLEAN]
ReqType == [pc : {"none", "cancel", "stop"}, at : Procs \cup {None}, ts : SUBSET Tasks, of : SUBSET Tasks]

\* The confirmation attempts are used up only by the row that ends with them.
Exhausted(t) == task[t].conf = Attempts + 1 => task[t].result = "review" /\ Status(t) \notin Active

Typed ==
  /\ task \in [Tasks -> RowType] /\ slot \in [Tasks -> SlotType]
  /\ hold \in [Tasks -> {"none", "held", "settled", "released"}]
  /\ lease \in [Tasks -> ClaimType] /\ resv \in [Tasks -> ClaimType]
  /\ up \in [Procs -> {"up", "stopping", "down"}] /\ left \in [Procs -> SUBSET Tasks]
  /\ run \in [Procs -> [Accounts -> RunType]]
  /\ \A p \in Procs, a \in Accounts : Run(p, a).pc # "idle" => Run(p, a).i \in DOMAIN Run(p, a).items
  /\ req \in ReqType /\ post \in [Tasks -> SUBSET Tasks] /\ clicks \in [Tasks -> Nat]
  /\ day \in 0..LastDay /\ stops \in Nat /\ asked \in Nat
  /\ \A t \in Tasks : Exhausted(t)

\* A row with its slot, its claim and what was clicked for it.
RowOK(t) ==
  /\ Status(t) = "none" => /\ task[t] = NoRow /\ slot[t] = NoSlot /\ clicks[t] = 0 /\ post[t] = {t}
  /\ t \notin Publish => slot[t].state = "none" /\ task[t].conf = 0
  /\ t \in Publish =>
       /\ Status(t) \in Active => slot[t].state \notin {"none", "released"}
       /\ Committed(t) => slot[t].state \in Spent
       /\ Status(t) \in Active /\ slot[t].state \in Spent => Committed(t)
       /\ Status(t) = "queued" /\ task[t].conf = 0 => ~Committed(t)
       /\ Status(t) = "success" => Committed(t)
       /\ clicks[t] > 0 => Committed(t)
  /\ Status(t) \in Live => lease[t].by # None

\* A session that has begun with its item; it begins with its first one when it
\* claims the row, and with the others when it marks them.
On(p, a) ==
  \/ Run(p, a).pc \in {"claimed", "start", "work", "armed", "ready", "clicked", "posted"}
  \/ Run(p, a).pc = "next" /\ Run(p, a).i = 1
Before1(p, a) == On(p, a) /\ Run(p, a).pc \notin {"armed", "ready", "clicked", "posted"}
Sent(p, a) == Run(p, a).pc \in {"armed", "ready", "posted"}
\* An item the session has still to begin with.
Ahead(p, a, j) ==
  /\ Run(p, a).pc \notin {"idle", "raised", "leaving"}
  /\ j \in DOMAIN Run(p, a).items
  /\ j > Run(p, a).i \/ (j = Run(p, a).i /\ Run(p, a).pc = "next" /\ j > 1)

ItemsOK(p, a) ==
  LET s == Run(p, a).items IN
  /\ \A j \in DOMAIN s : Account[s[j]] = a /\ Status(s[j]) # "none"
  /\ \A j, k \in DOMAIN s : s[j] = s[k] => j = k
  /\ Run(p, a).pc = "claimed" => Run(p, a).i = 1 /\ Len(s) = 1
  /\ Run(p, a).pc = "start" => Run(p, a).i = 1

RunOK(p, a) ==
  LET t == Item(p, a) IN
  /\ up[p] = "down" => Run(p, a).pc = "idle"
  /\ Run(p, a).pc # "idle" => ItemsOK(p, a)
  /\ On(p, a) => \A x \in Before(t) : Status(x) \in {"success", "deleted"}
  /\ On(p, a) /\ t \in Publish /\ task[t].conf = 0
       => Status(t) # "queued" /\ (Status(t) \in Live => lease[t].by = p)
  /\ Before1(p, a) /\ t \in Publish /\ Status(t) \in Live /\ task[t].conf = 0 => ~Committed(t)
  /\ Run(p, a).pc = "clicked" => t \notin Publish
  /\ Run(p, a).pc = "ready" => Kind[t] = "threads"
  /\ Sent(p, a) /\ t \in Publish => Committed(t)
  /\ Run(p, a).pc = "armed" /\ t \in Publish => task[t].conf = 0
  /\ Run(p, a).pc \in {"armed", "ready"} /\ t \in Publish => clicks[t] = 0
  /\ \A j \in DOMAIN Run(p, a).items : Ahead(p, a, j) /\ Status(Run(p, a).items[j]) \in Live
       => lease[Run(p, a).items[j]].by # p

\* Only one session ever submits for a row.
OneSender ==
  \A p, q \in Procs, a, b \in Accounts :
    /\ Sent(p, a) /\ Sent(q, b) /\ Item(p, a) = Item(q, b) /\ Item(p, a) \in Publish
    => p = q /\ a = b

ClickedOnce == \A t \in Publish : clicks[t] <= 1

\* Rows a request is about to delete have ended.
Clearing == \A t \in req.of : Status(t) \in Final \cup {"deleted"}

\* A Threads post is about to be clicked.
Ready(t) == \E p \in Procs, a \in Accounts : Run(p, a).pc = "ready" /\ Item(p, a) = t
\* It was not clicked and never will be: it is only looked for, or it has ended.
Unsent(t) == clicks[t] = 0 /\ ~Ready(t)
Looks(t) == task[t].conf > 0 \/ Status(t) \in {"success", "deleted"}
Cold(t) == Unsent(t) /\ (task[t].conf > 0 \/ Status(t) \in Final \cup {"deleted"})
RetryOK(t) ==
  /\ \A x \in post[t] : x = t \/ (Status(x) # "none" /\ Kind[x] = Kind[t])
  /\ Kind[t] = "threads" =>
       /\ ~Unsent(t) => Looks(t)
       /\ \A x \in post[t] \ {t} : Cold(x) \/ (Unsent(t) /\ Looks(t))

SInv ==
  /\ Typed /\ Clearing /\ ClickedOnce /\ OneSender
  /\ \A t \in Tasks : RowOK(t)
  /\ \A t \in Tasks : RetryOK(t)
  /\ \A p \in Procs, a \in Accounts : RunOK(p, a)
-----------------------------------------------------------------------------
(* Batches *)

\* A task has its place in its batch, the only one it is in.
LEMMA BatchFacts ==
  ASSUME NEW t \in Tasks
  PROVE  /\ BatchOf(t) \in Seq(Tasks) /\ Place(t) \in DOMAIN BatchOf(t) /\ BatchOf(t)[Place(t)] = t
         /\ \A i, j \in DOMAIN BatchOf(t) : BatchOf(t)[i] = BatchOf(t)[j] => i = j
         /\ \A i \in DOMAIN BatchOf(t) : /\ Account[BatchOf(t)[i]] = Account[t]
                                         /\ BatchOf(BatchOf(t)[i]) = BatchOf(t)
<1> DEFINE In(b, x) == \E i \in DOMAIN b : b[i] = x
<1> USE SocialConstants
<1>1. CASE InBatch(t)
  <2>1. BatchOf(t) = CHOOSE b \in Batches : In(b, t)
    BY <1>1 DEF BatchOf
  <2>2. \E b \in Batches : In(b, t)
    BY <1>1 DEF InBatch
  <2>3. BatchOf(t) \in Batches /\ In(BatchOf(t), t)
    BY <2>1, <2>2
  <2> DEFINE b == BatchOf(t)
  <2>4. b \in Seq(Tasks)
    BY <2>3
  <2>5. \A i, j \in DOMAIN b : b[i] = b[j] => i = j
    BY <2>3
  <2>6. \A i \in DOMAIN b : Account[b[i]] = Account[t]
    BY <2>3
  <2>7. ASSUME NEW i \in DOMAIN b PROVE BatchOf(b[i]) = b
    <3>1. InBatch(b[i])
      BY <2>3 DEF InBatch
    <3>2. BatchOf(b[i]) = CHOOSE c \in Batches : In(c, b[i])
      BY <3>1 DEF BatchOf
    <3>3. \E c \in Batches : In(c, b[i])
      BY <2>3
    <3>4. BatchOf(b[i]) \in Batches /\ In(BatchOf(b[i]), b[i])
      BY <3>2, <3>3
    <3> QED BY <2>3, <3>4
  <2>8. Place(t) \in DOMAIN b /\ b[Place(t)] = t
    BY <2>3 DEF Place
  <2> QED BY <2>4, <2>5, <2>6, <2>7, <2>8
<1>2. CASE ~InBatch(t)
  <2>1. BatchOf(t) = <<t>>
    BY <1>2 DEF BatchOf
  <2>2. BatchOf(t) \in Seq(Tasks) /\ DOMAIN BatchOf(t) = {1} /\ BatchOf(t)[1] = t
    BY <2>1
  <2>3. Place(t) \in DOMAIN BatchOf(t) /\ BatchOf(t)[Place(t)] = t
    BY <2>2 DEF Place
  <2> QED BY <2>2, <2>3
<1> QED BY <1>1, <1>2

\* What comes after a task in its batch has that task before it.
LEMMA BatchSides ==
  ASSUME NEW t \in Tasks
  PROVE  /\ Before(t) \subseteq Tasks /\ After(t) \subseteq Tasks
         /\ Members(BatchOf(t)) \subseteq Tasks /\ t \in Members(BatchOf(t)) /\ t \notin After(t)
         /\ \A x \in After(t) : t \in Before(x)
         /\ \A x \in Members(BatchOf(t)) : BatchOf(x) = BatchOf(t) /\ Account[x] = Account[t]
<1> DEFINE b == BatchOf(t)
<1>1. /\ b \in Seq(Tasks) /\ Place(t) \in DOMAIN b /\ b[Place(t)] = t
      /\ \A i, j \in DOMAIN b : b[i] = b[j] => i = j
      /\ \A i \in DOMAIN b : Account[b[i]] = Account[t] /\ BatchOf(b[i]) = b
  BY BatchFacts
<1>2. DOMAIN b = 1..Len(b) /\ Len(b) \in Nat /\ \A i \in 1..Len(b) : b[i] \in Tasks
  BY <1>1
<1> HIDE DEF b
<1>3. Before(t) = {b[i] : i \in 1..(Place(t) - 1)} /\ After(t) = {b[i] : i \in (Place(t) + 1)..Len(b)}
      /\ Members(BatchOf(t)) = {b[i] : i \in DOMAIN b} /\ BatchOf(t) = b
  BY DEF Before, After, Members, b
<1>4. \A i \in 1..(Place(t) - 1) : i \in DOMAIN b
  BY <1>1, <1>2
<1>5. \A i \in (Place(t) + 1)..Len(b) : i \in DOMAIN b /\ i # Place(t)
  BY <1>1, <1>2
<1>6. ASSUME NEW x \in After(t) PROVE t \in Before(x)
  <2>1. PICK i \in (Place(t) + 1)..Len(b) : x = b[i]
    BY <1>3
  <2>2. x \in Tasks /\ BatchOf(x) = b
    BY <1>1, <1>2, <1>5, <2>1
  <2>3. Place(x) \in DOMAIN b /\ b[Place(x)] = x
    BY <2>2, BatchFacts
  <2>4. Place(x) = i
    BY <1>1, <1>5, <2>1, <2>3
  <2>5. Before(x) = {b[k] : k \in 1..(Place(x) - 1)}
    BY <2>2 DEF Before
  <2>6. Place(t) \in 1..(Place(x) - 1)
    BY <1>1, <1>2, <2>1, <2>4
  <2> QED BY <1>1, <2>5, <2>6
<1>7. Before(t) \subseteq Tasks /\ After(t) \subseteq Tasks /\ t \notin After(t)
  BY <1>1, <1>2, <1>3, <1>4, <1>5
<1>8. Members(BatchOf(t)) \subseteq Tasks /\ t \in Members(BatchOf(t))
      /\ \A x \in Members(BatchOf(t)) : BatchOf(x) = BatchOf(t) /\ Account[x] = Account[t]
  BY <1>1, <1>2, <1>3
<1> QED BY <1>6, <1>7, <1>8

\* The rest of a batch that a session takes over is queued and follows directly.
LEMMA TailFacts ==
  ASSUME NEW p \in Procs, NEW t \in Tasks
  PROVE  /\ TailEnd(p, t) \in Place(t)..Len(BatchOf(t))
         /\ \A i \in (Place(t) + 1)..TailEnd(p, t) : Status(BatchOf(t)[i]) = "queued"
<1> DEFINE b == BatchOf(t)
           ok(i) == Status(b[i]) = "queued" /\ ~(resv[b[i]].live /\ resv[b[i]].by # p)
<1>1. b \in Seq(Tasks) /\ Place(t) \in 1..Len(b) /\ Len(b) \in Nat
  BY BatchFacts
<1> DEFINE k == Place(t)
           V == {n \in k..Len(b) : \A i \in (k + 1)..n : ok(i)}
           B == {(n + 1)..Len(b) : n \in V}
<1>2. TailEnd(p, t) = CHOOSE n \in k..Len(b) : /\ \A i \in (k + 1)..n : ok(i)
                                               /\ n < Len(b) => ~ok(n + 1)
  BY DEF TailEnd
<1> HIDE DEF ok, b, k
<1>3. k \in 1..Len(b) /\ Len(b) \in Nat
  BY <1>1 DEF k, b
<1>4. k \in V
  BY <1>3
<1>5. PICK T \in B : \A U \in B : U \subseteq T => U = T
  <2> DEFINE S == 1..Len(b)
  <2>1. IsFiniteSet(S)
    BY <1>3, FS_Interval
  <2>2. B \subseteq SUBSET S /\ B # {}
    BY <1>3, <1>4
  <2> HIDE DEF B, S
  <2> QED BY <2>1, <2>2, Minimal
<1>6. PICK n \in V : T = (n + 1)..Len(b)
  OBVIOUS
<1>7. ASSUME n < Len(b), ok(n + 1) PROVE FALSE
  <2>1. n + 1 \in V
    BY <1>3, <1>7
  <2>2. (n + 2)..Len(b) \in B
    BY <1>3, <2>1
  <2>3. (n + 2)..Len(b) \subseteq T /\ n + 1 \in T /\ n + 1 \notin (n + 2)..Len(b)
    BY <1>3, <1>6, <1>7
  <2> QED BY <1>5, <2>2, <2>3
<1>8. \E m \in k..Len(b) : /\ \A i \in (k + 1)..m : ok(i)
                           /\ m < Len(b) => ~ok(m + 1)
  BY <1>6, <1>7
<1>9. TailEnd(p, t) \in k..Len(b) /\ \A i \in (k + 1)..TailEnd(p, t) : ok(i)
  BY <1>2, <1>8
<1> QED BY <1>9 DEF ok, b, k
-----------------------------------------------------------------------------
(* Types *)

LEMMA Bounds ==
  /\ Attempts \in Nat \ {0} /\ Retries \in Nat /\ Limit \in Nat /\ LastDay \in Nat /\ MaxStops \in Nat
  /\ MaxRequests \in Nat /\ None \notin Procs /\ Gone \notin Procs /\ None # Gone
BY SocialConstants

Statuses == Active \cup Final \cup Away
Holds == {"none", "held", "settled", "released"}
RowsTyped ==
  /\ task \in [Tasks -> RowType] /\ slot \in [Tasks -> SlotType] /\ hold \in [Tasks -> Holds]
  /\ lease \in [Tasks -> ClaimType] /\ resv \in [Tasks -> ClaimType]
  /\ \A t \in Tasks : Exhausted(t)
EnvTyped ==
  /\ up \in [Procs -> {"up", "stopping", "down"}] /\ left \in [Procs -> SUBSET Tasks]
  /\ run \in [Procs -> [Accounts -> RunType]]
  /\ \A p \in Procs, a \in Accounts : Run(p, a).pc # "idle" => Run(p, a).i \in DOMAIN Run(p, a).items
  /\ req \in ReqType /\ post \in [Tasks -> SUBSET Tasks] /\ clicks \in [Tasks -> Nat]
  /\ day \in 0..LastDay /\ stops \in Nat /\ asked \in Nat

LEMMA TypedParts == Typed <=> RowsTyped /\ EnvTyped
BY DEF Typed, RowsTyped, EnvTyped, Holds

\* What the helpers return.
LEMMA RowHelpers ==
  ASSUME NEW r \in RowType, NEW s \in Statuses
  PROVE  /\ With(r, s) \in RowType /\ With(r, s).status = s /\ With(r, s).mark = r.mark
         /\ With(r, s).conf = r.conf /\ With(r, s).result = r.result /\ With(r, s).tries = r.tries
BY DEF With, RowType, Statuses

LEMMA ClaimHelpers == NoClaim \in ClaimType /\ \A p \in Procs : Claim(p) \in ClaimType /\ Claim(p).by = p
BY DEF NoClaim, Claim, ClaimType

LEMMA SlotHelpers ==
  ASSUME NEW s \in SlotType, day \in 0..LastDay
  PROVE  /\ ReleaseSlot(s) \in SlotType /\ Reserved(s) \in SlotType
         /\ \A st \in Spent \cup {"reserved"} : SetSlot(s, st) \in SlotType /\ SetSlotToday(s, st) \in SlotType
         /\ ReleaseSlot(s).day = s.day
         /\ ReleaseSlot(s).state = IF s.state = "armed" THEN "unknown"
                                   ELSE IF s.state \in Spent \cup {"none"} THEN s.state ELSE "released"
         /\ Reserved(s).state = IF s.state \in Spent \cup {"none"} THEN s.state ELSE "reserved"
         /\ \A st \in Spent \cup {"reserved"} :
              /\ SetSlot(s, st).state = IF s.state = "none" THEN "none" ELSE st
              /\ SetSlot(s, st).day = s.day
              /\ SetSlotToday(s, st).state = IF s.state = "none" THEN "none" ELSE st
<1>1. s = [state |-> s.state, day |-> s.day] /\ s.day \in 0..LastDay
      /\ s.state \in Spent \cup {"none", "planned", "reserved", "released"}
  BY DEF SlotType
<1>2. /\ ReleaseSlot(s) \in SlotType /\ ReleaseSlot(s).day = s.day
      /\ ReleaseSlot(s).state = IF s.state = "armed" THEN "unknown"
                                ELSE IF s.state \in Spent \cup {"none"} THEN s.state ELSE "released"
  <2>1. CASE s.state = "armed"
    BY <1>1, <2>1 DEF ReleaseSlot, SlotType, Spent
  <2>2. CASE s.state # "armed" /\ s.state \in Spent \cup {"none"}
    BY <1>1, <2>2 DEF ReleaseSlot, SlotType
  <2>3. CASE s.state \notin Spent \cup {"none"}
    <3>1. s.state # "armed"
      BY <2>3 DEF Spent
    <3>2. ReleaseSlot(s) = [s EXCEPT !.state = "released"]
      BY <2>3, <3>1 DEF ReleaseSlot
    <3> QED BY <1>1, <2>3, <3>1, <3>2 DEF SlotType
  <2> QED BY <2>1, <2>2, <2>3
<1>3. \A st \in Spent \cup {"reserved"} :
        /\ SetSlot(s, st) \in SlotType /\ SetSlot(s, st).day = s.day
        /\ SetSlot(s, st).state = IF s.state = "none" THEN "none" ELSE st
  BY <1>1 DEF SetSlot, SlotType
<1>4. \A st \in Spent \cup {"reserved"} :
        /\ SetSlotToday(s, st) \in SlotType
        /\ SetSlotToday(s, st).state = IF s.state = "none" THEN "none" ELSE st
  BY <1>1 DEF SetSlotToday, SlotType
<1>5. /\ Reserved(s) \in SlotType
      /\ Reserved(s).state = IF s.state \in Spent \cup {"none"} THEN s.state ELSE "reserved"
  BY <1>4 DEF Reserved
<1> QED BY <1>2, <1>3, <1>4, <1>5

LEMMA HoldHelpers ==
  ASSUME RowsTyped, NEW t \in Tasks
  PROVE  /\ Settle(hold[t]) \in Holds /\ Release(hold[t]) \in Holds
         /\ ReleaseHold(t) \in Holds /\ SettleOrRelease(t) \in Holds
<1>1. hold[t] \in Holds
  BY DEF RowsTyped
<1> QED BY <1>1 DEF Settle, Release, ReleaseHold, SettleOrRelease, Holds


LEMMA CancelRowsTyped ==
  ASSUME RowsTyped, NEW ts, CancelRows(ts), day \in 0..LastDay
  PROVE  RowsTyped'
<1> DEFINE c == {t \in ts : Status(t) \in Active}
<1>1. /\ task' = [t \in Tasks |-> IF t \in c THEN With(task[t], "cancelled") ELSE task[t]]
      /\ slot' = [t \in Tasks |-> IF t \in c THEN ReleaseSlot(slot[t]) ELSE slot[t]]
      /\ hold' = [t \in Tasks |-> IF t \in c THEN SettleOrRelease(t) ELSE hold[t]]
      /\ UNCHANGED <<lease, resv>>
  BY DEF CancelRows
<1> HIDE DEF c
<1>2. \A t \in Tasks : /\ With(task[t], "cancelled") \in RowType /\ With(task[t], "cancelled").status = "cancelled"
                       /\ With(task[t], "cancelled").result = task[t].result
                       /\ With(task[t], "cancelled").conf = task[t].conf
  BY RowHelpers DEF RowsTyped, Statuses, Final
<1>3. \A t \in Tasks : ReleaseSlot(slot[t]) \in SlotType /\ SettleOrRelease(t) \in Holds
  BY SlotHelpers, HoldHelpers DEF RowsTyped
<1>4. task' \in [Tasks -> RowType] /\ slot' \in [Tasks -> SlotType] /\ hold' \in [Tasks -> Holds]
  BY <1>1, <1>2, <1>3 DEF RowsTyped
<1>5. \A t \in Tasks : Exhausted(t)'
  BY <1>1, <1>2 DEF RowsTyped, Exhausted, Status, Active
<1> QED BY <1>1, <1>4, <1>5 DEF RowsTyped

LEMMA EndRowTyped ==
  ASSUME RowsTyped, day \in 0..LastDay, NEW t \in Tasks, NEW r \in RowType, NEW s \in SlotType, NEW h \in Holds,
         EndRow(t, r, s, h), r.conf = Attempts + 1 => r.result = "review", r.status \notin Active
  PROVE  RowsTyped'
<1> DEFINE tail == IF r.status = "failed" THEN {x \in After(t) : Status(x) \in Active} ELSE {}
<1>1. /\ task' = [x \in Tasks |-> CASE x = t -> r [] x \in tail -> With(task[x], "failed") [] OTHER -> task[x]]
      /\ slot' = [x \in Tasks |-> CASE x = t -> s [] x \in tail -> ReleaseSlot(slot[x]) [] OTHER -> slot[x]]
      /\ hold' = [x \in Tasks |-> CASE x = t -> h [] x \in tail -> ReleaseHold(x) [] OTHER -> hold[x]]
      /\ lease' = [x \in Tasks |-> IF x \in tail \cup {t} THEN NoClaim ELSE lease[x]]
      /\ resv' = [x \in Tasks |-> IF x \in tail \cup {t} THEN NoClaim ELSE resv[x]]
  BY DEF EndRow
<1> HIDE DEF tail
<1>2. \A x \in Tasks : /\ With(task[x], "failed") \in RowType /\ With(task[x], "failed").status = "failed"
                       /\ With(task[x], "failed").result = task[x].result
                       /\ With(task[x], "failed").conf = task[x].conf
  BY RowHelpers DEF RowsTyped, Statuses, Final
<1>3. \A x \in Tasks : ReleaseSlot(slot[x]) \in SlotType /\ ReleaseHold(x) \in Holds
  BY SlotHelpers, HoldHelpers DEF RowsTyped
<1>4. task' \in [Tasks -> RowType]
  BY <1>1, <1>2 DEF RowsTyped
<1>5. slot' \in [Tasks -> SlotType] /\ hold' \in [Tasks -> Holds]
  BY <1>1, <1>3 DEF RowsTyped
<1>6. lease' \in [Tasks -> ClaimType] /\ resv' \in [Tasks -> ClaimType]
  BY <1>1, ClaimHelpers DEF RowsTyped
<1>7. ASSUME NEW x \in Tasks PROVE Exhausted(x)'
  <2>1. task'[x] = r \/ task'[x] = With(task[x], "failed") \/ task'[x] = task[x]
    BY <1>1
  <2>2. Exhausted(x)
    BY DEF RowsTyped
  <2> QED BY <1>2, <2>1, <2>2 DEF Exhausted, Status, Active
<1> QED BY <1>4, <1>5, <1>6, <1>7 DEF RowsTyped
LEMMA RequeueRowTyped ==
  ASSUME RowsTyped, NEW t \in Tasks, NEW r \in RowType, r.conf # Attempts + 1, RequeueRow(t, r),
         slot' \in [Tasks -> SlotType]
  PROVE  RowsTyped'
<1>1. /\ task' = [task EXCEPT ![t] = With(r, "queued")] /\ lease' = [lease EXCEPT ![t] = NoClaim]
      /\ resv' = [x \in Tasks |-> IF x \in Members(BatchOf(t)) THEN NoClaim ELSE resv[x]] /\ hold' = hold
  BY DEF RequeueRow
<1>2. With(r, "queued") \in RowType /\ With(r, "queued").conf = r.conf
  BY RowHelpers DEF Statuses, Active
<1>3. task' \in [Tasks -> RowType] /\ lease' \in [Tasks -> ClaimType] /\ resv' \in [Tasks -> ClaimType]
  BY <1>1, <1>2, ClaimHelpers DEF RowsTyped
<1>4. \A x \in Tasks : Exhausted(x)'
  BY <1>1, <1>2 DEF RowsTyped, Exhausted, Status
<1> QED BY <1>1, <1>3, <1>4 DEF RowsTyped

LEMMA FinishLateTyped ==
  ASSUME RowsTyped, NEW t \in Tasks, FinishLate(t)
  PROVE  RowsTyped'
<1>1. SettleOrRelease(t) \in Holds
  BY HoldHelpers
<1>2. hold' \in [Tasks -> Holds]
  BY <1>1 DEF FinishLate, RowsTyped
<1> QED BY <1>2 DEF FinishLate, RowsTyped, Exhausted, Status

LEMMA UnmarkedFacts ==
  ASSUME NEW t \in Tasks, NEW r \in RowType
  PROVE  /\ Unmarked(t, r) \in RowType /\ Unmarked(t, r).status = r.status /\ Unmarked(t, r).conf = r.conf
         /\ Unmarked(t, r).result = r.result /\ (t \in Publish => Unmarked(t, r) = r)
BY DEF Unmarked, RowType

LEMMA FinishSuccessTyped ==
  ASSUME RowsTyped, day \in 0..LastDay, NEW t \in Tasks, FinishSuccess(t)
  PROVE  RowsTyped'
<1>1. CASE Status(t) \notin Live
  BY <1>1, FinishLateTyped DEF FinishSuccess
<1>2. CASE Status(t) \in Live
  <2> DEFINE r0 == [task[t] EXCEPT !.status = "success", !.mark = "submitted", !.conf = 0, !.result = "plain"]
             s == IF Committed(t) THEN SetSlot(slot[t], "confirmed") ELSE SetSlotToday(slot[t], "confirmed")
  <2>1. EndRow(t, Unmarked(t, r0), s, Settle(hold[t]))
    BY <1>2 DEF FinishSuccess
  <2>2. r0 \in RowType /\ r0.status = "success" /\ r0.conf = 0
    <3>1. task[t] \in RowType
      BY DEF RowsTyped
    <3>2. 0 \in 0..(Attempts + 1)
      BY Bounds
    <3> QED BY <3>1, <3>2 DEF RowType, Final
  <2>3. s \in SlotType
    BY SlotHelpers DEF RowsTyped, Spent
  <2>4. Settle(hold[t]) \in Holds
    BY HoldHelpers
  <2> HIDE DEF r0, s
  <2>5. /\ Unmarked(t, r0) \in RowType /\ Unmarked(t, r0).status \notin Active
        /\ Unmarked(t, r0).conf # Attempts + 1
    BY <2>2, UnmarkedFacts, Bounds DEF Active
  <2> QED BY <2>1, <2>3, <2>4, <2>5, EndRowTyped
<1> QED BY <1>1, <1>2

LEMMA FinishFailedTyped ==
  ASSUME RowsTyped, day \in 0..LastDay, NEW t \in Tasks, NEW r \in RowType, NEW result \in {"plain", "noretry", "review"},
         FinishFailedAs(t, r, result), Status(t) \in Live /\ r.conf = Attempts + 1 => result = "review"
  PROVE  RowsTyped'
<1>1. CASE Status(t) \notin Live
  BY <1>1, FinishLateTyped DEF FinishFailedAs
<1>2. CASE Status(t) \in Live
  <2> DEFINE r0 == [r EXCEPT !.status = "failed", !.result = result]
             s == IF result = "review" \/ r.mark = "submitted" THEN SetSlot(slot[t], "unknown") ELSE ReleaseSlot(slot[t])
             h == IF r.mark = "submitted" THEN Settle(hold[t]) ELSE ReleaseHold(t)
  <2>1. EndRow(t, Unmarked(t, r0), s, h)
    BY <1>2 DEF FinishFailedAs
  <2>2. r0 \in RowType /\ r0.status = "failed" /\ r0.conf = r.conf /\ r0.result = result
    BY DEF RowType, Final
  <2>3. s \in SlotType
    BY SlotHelpers DEF RowsTyped, Spent
  <2>4. h \in Holds
    BY HoldHelpers
  <2>5. /\ Unmarked(t, r0) \in RowType /\ Unmarked(t, r0).status \notin Active
        /\ Unmarked(t, r0).conf = Attempts + 1 => Unmarked(t, r0).result = "review"
    BY <1>2, <2>2, UnmarkedFacts DEF Active
  <2> HIDE DEF r0, s, h
  <2> QED BY <2>1, <2>3, <2>4, <2>5, EndRowTyped
<1> QED BY <1>1, <1>2

\* FinishFailed of a row as it is.
LEMMA FailTyped ==
  ASSUME RowsTyped, day \in 0..LastDay, NEW t \in Tasks, NEW result \in {"plain", "noretry", "review"},
         FinishFailed(t, result)
  PROVE  RowsTyped'
<1>1. task[t] \in RowType /\ Exhausted(t)
  BY DEF RowsTyped
<1>2. Status(t) \in Live => task[t].conf # Attempts + 1
  BY <1>1 DEF Exhausted, Live, Active
<1> QED BY <1>1, <1>2, FinishFailedTyped DEF FinishFailed

LEMMA ConfirmationTyped ==
  ASSUME RowsTyped, day \in 0..LastDay, NEW t \in Tasks, RequeuePublishConfirmation(t)
  PROVE  RowsTyped'
<1> DEFINE sent == [task[t] EXCEPT !.conf = Attempt(t) + 1, !.mark = "submitted"]
           quiet == [sent EXCEPT !.result = "noretry"]
<1>1. task[t] \in RowType /\ Exhausted(t) /\ slot[t] \in SlotType
  BY DEF RowsTyped
<1>2. CASE Status(t) # "running"
  BY <1>2, FailTyped DEF RequeuePublishConfirmation
<1>3. CASE Status(t) = "running"
  <2>1. Attempt(t) \in 1..Attempts
    BY <1>1, <1>3, Bounds DEF Attempt, Exhausted, RowType, Active
  <2>2. sent \in RowType /\ sent.conf = Attempt(t) + 1
    <3>1. Attempt(t) + 1 \in 0..(Attempts + 1)
      BY <2>1, Bounds
    <3> QED BY <1>1, <3>1 DEF RowType
  <2>3. quiet \in RowType /\ quiet.conf = Attempt(t) + 1
    BY <2>2 DEF RowType
  <2>4. CASE Attempt(t) < Attempts
    <3>1. RequeueRow(t, quiet) /\ slot' = [slot EXCEPT ![t] = SetSlot(@, "submitted")]
      BY <1>3, <2>4 DEF RequeuePublishConfirmation
    <3>2. slot' \in [Tasks -> SlotType]
      BY <1>1, <3>1, SlotHelpers DEF RowsTyped, Spent
    <3>3. quiet.conf # Attempts + 1
      BY <2>1, <2>3, <2>4, Bounds
    <3> HIDE DEF quiet
    <3> QED BY <2>3, <3>1, <3>2, <3>3, RequeueRowTyped
  <2>5. CASE ~(Attempt(t) < Attempts)
    <3>1. FinishFailedAs(t, sent, "review")
      BY <1>3, <2>5 DEF RequeuePublishConfirmation
    <3> HIDE DEF sent
    <3> QED BY <2>2, <3>1, FinishFailedTyped
  <2> QED BY <2>4, <2>5
<1> QED BY <1>2, <1>3

LEMMA ShutdownRowTyped ==
  ASSUME RowsTyped, day \in 0..LastDay, NEW t \in Tasks, ShutdownRow(t)
  PROVE  RowsTyped'
<1>1. task[t] \in RowType /\ Exhausted(t) /\ slot[t] \in SlotType
  BY DEF RowsTyped
<1>2. CASE task[t].conf > 0 /\ Status(t) \in Live
  <2>1. RequeueRow(t, task[t]) /\ UNCHANGED slot
    BY <1>2 DEF ShutdownRow
  <2>2. task[t].conf # Attempts + 1
    BY <1>1, <1>2 DEF Exhausted, Live, Active
  <2> QED BY <1>1, <2>1, <2>2, RequeueRowTyped DEF RowsTyped
<1>3. CASE ~(task[t].conf > 0 /\ Status(t) \in Live) /\ t \in Publish /\ Committed(t) /\ Status(t) \in Active
  <2>1. /\ task' = [task EXCEPT ![t].status = "failed", ![t].result = "review"]
        /\ slot' = [slot EXCEPT ![t] = SetSlot(@, "unknown")]
        /\ lease' = [lease EXCEPT ![t] = NoClaim]
        /\ resv' = [resv EXCEPT ![t] = NoClaim]
        /\ UNCHANGED hold
    BY <1>3 DEF ShutdownRow
  <2>2. task' \in [Tasks -> RowType]
    BY <1>1, <2>1 DEF RowsTyped, RowType, Final
  <2>3. slot' \in [Tasks -> SlotType]
    BY <1>1, <2>1, SlotHelpers DEF RowsTyped, Spent
  <2>4. \A x \in Tasks : Exhausted(x)'
    BY <1>1, <2>1 DEF RowsTyped, RowType, Exhausted, Status, Active
  <2> QED BY <2>1, <2>2, <2>3, <2>4, ClaimHelpers DEF RowsTyped
<1>4. CASE ~(task[t].conf > 0 /\ Status(t) \in Live) /\ ~(t \in Publish /\ Committed(t) /\ Status(t) \in Active)
  BY <1>4, CancelRowsTyped DEF ShutdownRow
<1> QED BY <1>2, <1>3, <1>4
-----------------------------------------------------------------------------
(* What one step does to a row.  Each action is reduced to these, so that the *)
(* invariant is proved for a handful of changes and not for every handler.    *)

SameClaim(x) == lease'[x].by = lease[x].by
\* The claims of a process that ends pass to nobody.
ClaimKept(x) == SameClaim(x) \/ (lease'[x].by = Gone /\ \A a \in Accounts : run'[lease[x].by][a] = Idle)
SameRow(x) == task'[x] = task[x] /\ slot'[x] = slot[x]
Alone(x) == \A y \in Tasks \ {x} : SameRow(y)

Stays(x) == SameRow(x) /\ ClaimKept(x)
Enters(x) ==
  /\ Status(x) = "none" /\ SameClaim(x)
  /\ task'[x] = [NoRow EXCEPT !.status = "queued", !.conf = task'[x].conf]
  /\ \/ task'[x].conf = 0
     \/ /\ "retry" \in Requests /\ ~InBatch(x)
        /\ \E t \in Tasks : Kind[t] = Kind[x] /\ task[t].conf = task'[x].conf
  /\ slot'[x] = IF x \in Publish THEN [state |-> "planned", day |-> day] ELSE slot[x]
TakenBy(p, x) ==
  /\ lease'[x].by = p
  /\ \/ Run(p, Account[x]).pc = "idle" /\ QuotaFree(x) /\ slot'[x] = Reserved(slot[x])
     \/ /\ \E a \in Accounts : Run(p, a).pc = "next" /\ Item(p, a) = x /\ run'[p][a].pc = "work"
        /\ slot'[x] = slot[x] /\ resv[x] = Claim(p)
IsTaken(x) ==
  /\ Status(x) = "queued" /\ task'[x] = With(task[x], "running") /\ Alone(x)
  /\ \E p \in Procs : TakenBy(p, x)
Reslots(x) ==
  /\ task'[x] = task[x] /\ SameClaim(x)
  /\ \/ Before(x) # {} /\ Status(x) = "queued" /\ slot'[x] = Reserved(slot[x])
     \/ Status(x) = "queued" /\ slot[x].state = "reserved" /\ slot'[x] = [slot[x] EXCEPT !.state = "planned"]
     \/ Status(x) \notin Active /\ slot'[x] = ReleaseSlot(slot[x])
IsCancelled(x) ==
  /\ Status(x) \in Active
  /\ task'[x] = With(task[x], "cancelled") /\ slot'[x] = ReleaseSlot(slot[x])
IsDropped(x) ==
  /\ Status(x) \in Active /\ \E t \in Before(x) : Status(t) \notin {"success", "deleted"}
  /\ task'[x] \in {With(task[x], "failed"), With(task[x], "cancelled")} /\ slot'[x] = ReleaseSlot(slot[x])
\* The row is looked for, or a session has just submitted it.
MayLook(x) == task[x].conf > 0 \/ \E p \in Procs, a \in Accounts : Run(p, a).pc = "posted" /\ Item(p, a) = x
Requeues(x) ==
  /\ x \in Publish /\ Status(x) \in Live /\ MayLook(x)
  /\ task'[x].status = "queued" /\ task'[x].conf > 0
  /\ \/ task'[x].mark = task[x].mark /\ slot'[x] = slot[x]
     \/ task'[x].mark = "submitted" /\ slot'[x] = SetSlot(slot[x], "submitted")
Repeats(x) ==
  /\ x \notin Publish /\ Status(x) = "running" /\ slot'[x] = slot[x]
  /\ task'[x].status = "queued" /\ task'[x].conf = task[x].conf
Fails(x) ==
  /\ Status(x) \in Live \/ (Status(x) = "queued" /\ x \in Publish /\ Committed(x))
  /\ task'[x].status = "failed"
  /\ task'[x].conf = task[x].conf \/ (x \in Publish /\ task'[x].conf > 0 /\ MayLook(x))
  /\ x \in Publish => \/ task'[x].mark = task[x].mark
                      \/ task'[x].mark = "submitted" /\ slot'[x] = SetSlot(slot[x], "unknown") /\ MayLook(x)
  /\ \/ slot'[x] = ReleaseSlot(slot[x])
     \/ /\ slot'[x] = SetSlot(slot[x], "unknown")
        /\ x \in Publish => \/ task'[x].mark = "submitted"
                            \/ Status(x) = "need_manual" /\ task[x].conf > 0
Wins(x) ==
  /\ Status(x) \in Live /\ MayLook(x) /\ task'[x].status = "success" /\ task'[x].conf = 0
  /\ x \in Publish => task'[x].mark = "submitted"
  /\ \/ Committed(x) /\ slot'[x] = SetSlot(slot[x], "confirmed")
     \/ ~Committed(x) /\ slot'[x] = SetSlotToday(slot[x], "confirmed")
IsArmed(x) ==
  /\ Status(x) \in Live /\ task[x].conf = 0
  /\ \E p \in Procs, a \in Accounts : Run(p, a).pc = "work" /\ Item(p, a) = x /\ run'[p][a].pc = "armed"
  /\ Status(x)' = Status(x) /\ task'[x].conf = task[x].conf /\ SameClaim(x)
  /\ x \in Publish => task'[x].mark = "submitted"
  /\ slot'[x] = SetSlotToday(slot[x], "armed")
IsConfirmed(x) ==
  /\ Status(x) = "running" /\ Kind[x] = "threads"
  /\ \E p \in Procs, a \in Accounts : Run(p, a).pc = "armed" /\ Item(p, a) = x /\ run'[p][a].pc = "ready"
  /\ Status(x)' = Status(x) /\ task'[x].conf > 0 /\ task'[x].mark = "submitted" /\ SameClaim(x)
  /\ slot'[x] = SetSlotToday(slot[x], "armed")
  /\ slot[x].day = day \/ Cardinality(Executing \ {x}) < Limit
  /\ Alone(x)
IsCounted(x) ==
  /\ x \notin Publish /\ Status(x) \in Live
  /\ Status(x)' = Status(x) /\ task'[x].conf = task[x].conf /\ slot'[x] = slot[x] /\ SameClaim(x)
ChangesHands(x) ==
  /\ Status(x) \in Live /\ task'[x].status \in Live
  /\ task'[x].status = "need_manual" => "takeover" \in Requests
  /\ task'[x].conf = task[x].conf /\ task'[x].mark = task[x].mark /\ SameClaim(x)
  /\ \/ slot'[x] = slot[x]
     \/ slot'[x] = SetSlot(slot[x], IF Committed(x) THEN "unknown" ELSE "reserved")
IsDeleted(x) ==
  /\ x \in req.of /\ task'[x] = With(task[x], "deleted") /\ slot'[x] = slot[x]

RowStep(x) ==
  \/ Stays(x) \/ Enters(x) \/ IsTaken(x) \/ Reslots(x) \/ IsCancelled(x) \/ IsDropped(x)
  \/ Requeues(x) \/ Repeats(x) \/ Fails(x) \/ Wins(x)
  \/ IsArmed(x) \/ IsConfirmed(x) \/ IsCounted(x) \/ ChangesHands(x) \/ IsDeleted(x)

(* And to a session. *)

SamePlace(p, a) == run'[p][a].items = run[p][a].items /\ run'[p][a].i = run[p][a].i
Waits(p, a) == SamePlace(p, a) /\ run'[p][a].pc = run[p][a].pc
Ends(p, a) == run'[p][a] = Idle
Begins(p, a) ==
  /\ Run(p, a).pc = "idle" /\ up[p] = "up"
  /\ \E t \in Tasks :
       /\ Account[t] = a /\ Status(t) = "queued" /\ \A x \in Before(t) : Status(x) = "success"
       /\ run'[p][a] = [pc |-> "claimed", items |-> <<t>>, i |-> 1, stop |-> FALSE]
       /\ task'[t] = With(task[t], "running") /\ lease'[t].by = p
Extends(p, a) ==
  LET s == run'[p][a].items IN
  /\ Run(p, a).pc = "claimed" /\ run'[p][a].pc = "start" /\ run'[p][a].i = Run(p, a).i
  /\ Len(s) >= 1 /\ s[1] = Item(p, a)
  /\ \A j, k \in DOMAIN s : s[j] = s[k] => j = k
  /\ \A j \in DOMAIN s : s[j] \in Tasks /\ Account[s[j]] = a
  /\ \A j \in DOMAIN s : j > 1 => Status(s[j]) = "queued"
  /\ task' = task
Moves(p, a) ==
  LET t == Item(p, a)
      from == Run(p, a).pc
      to == run'[p][a].pc
  IN
  /\ SamePlace(p, a) /\ from # "idle" /\ (to = "next" => Len(run[p][a].items) > 1)
  /\ \/ to \in {"raised", "leaving"}
     \/ from = "start" /\ up[p] = "up" /\ to \in {"next", "work"} /\ task' = task
     \/ from = "next" /\ to = "work" /\ MayMark(p, t) /\ Status(t)' \in Live /\ lease'[t].by = p
        /\ task'[t].mark = task[t].mark /\ task'[t].conf = task[t].conf
     \/ from = "work" /\ to = "armed" /\ IsArmed(t)
     \/ from = "armed" /\ to = "ready" /\ IsConfirmed(t)
     \/ from = "ready" /\ to = "posted" /\ Kind[t] = "threads"
     \/ from = "armed" /\ to = "posted" /\ Kind[t] = "instagram"
     \/ from = "armed" /\ to = "clicked" /\ t \notin Publish
     \/ from = "clicked" /\ to = "posted" /\ t \notin Publish
GoesOn(p, a) ==
  /\ Run(p, a).pc \in {"posted", "work"} /\ run'[p][a].pc = "next"
  /\ run'[p][a].items = run[p][a].items /\ run'[p][a].i = run[p][a].i + 1
  /\ run'[p][a].i \in DOMAIN run[p][a].items
RunStep(p, a) == Waits(p, a) \/ Ends(p, a) \/ Begins(p, a) \/ Extends(p, a) \/ Moves(p, a) \/ GoesOn(p, a)

(* Clicks, deletions and retries *)
Clicks ==
  \/ clicks' = clicks
  \/ \E p \in Procs, a \in Accounts :
       /\ Run(p, a).pc = "ready" \/ (Run(p, a).pc = "armed" /\ Kind[Item(p, a)] # "threads")
       /\ run'[p][a].pc \in {"posted", "clicked"} /\ SamePlace(p, a)
       /\ clicks' = [clicks EXCEPT ![Item(p, a)] = @ + 1]
       /\ task' = task /\ hold' = hold
Posts ==
  \/ post' = post
  \/ \E t, n \in Tasks :
       /\ Status(t) = "failed" /\ Status(n) = "none" /\ Kind[n] = Kind[t]
       /\ task'[n].conf = task[t].conf /\ task'[n].status = "queued" /\ post' = [post EXCEPT ![n] = @ \cup post[t]]
       /\ \A x \in Tasks \ {n} : task'[x] = task[x]
       /\ run' = run /\ clicks' = clicks
\* The points of a row: held when it is created, charged or given back when it ends.
Refunds(x) == x \in Publish /\ "stop_all" \notin Requests => ~Committed(x)' \/ IsDropped(x) \/ Status(x) = "need_manual"
HoldStep(x) ==
  /\ Status(x) = "none" /\ Status(x)' # "none" => hold'[x] = "held"
  /\ \/ hold'[x] = hold[x]
     \/ Status(x) = "none" /\ hold'[x] = "held" /\ Status(x)' # "none"
     \/ Status(x)' \notin Active \cup {"none"} /\ hold'[x] = Settle(hold[x])
     \/ Status(x)' \notin Active \cup {"none"} /\ hold'[x] = Release(hold[x]) /\ Refunds(x)
DayStep == day' = day \/ (day' = day + 1 /\ slot' = slot)
Clears == req'.of \subseteq req.of \/ \A x \in req'.of : Status(x)' \in Final
Quits == \A p \in Procs : up'[p] = "down" => up[p] = "down" \/ \A a \in Accounts : run'[p][a] = Idle

Step ==
  /\ \A x \in Tasks : RowStep(x) /\ HoldStep(x)
  /\ \A p \in Procs, a \in Accounts : RunStep(p, a)
  /\ Clicks /\ Posts /\ Clears /\ Quits /\ DayStep
-----------------------------------------------------------------------------
(* A step preserves the invariant *)

\* What a step cannot do to a row, and what only some steps can.
LEMMA RowMonotone ==
  ASSUME SInv, Typed', NEW x \in Tasks, RowStep(x)
  PROVE  /\ Status(x) \in {"success", "deleted"} => Status(x)' \in {"success", "deleted"}
         /\ Status(x) \in Final \cup {"deleted"} => Status(x)' \in Final \cup {"deleted"}
         /\ Status(x) # "none" => Status(x)' # "none"
         /\ x \in Publish /\ Committed(x) => Committed(x)'
         /\ task[x].conf > 0 => task'[x].conf > 0 \/ Status(x)' = "success"
         /\ x \in Publish /\ task'[x].conf = 0 /\ Status(x)' = "queued" => Status(x) \in {"queued", "none"}
         /\ Status(x)' \in Live => IsTaken(x) \/ (Status(x) \in Live /\ ClaimKept(x))
         /\ task[x].conf = 0 /\ task'[x].conf > 0
              => Status(x) = "none" \/ IsConfirmed(x)
                 \/ \E p \in Procs, a \in Accounts : Run(p, a).pc = "posted" /\ Item(p, a) = x
         /\ x \in Publish /\ ~Committed(x) /\ Committed(x)' /\ Status(x)' \in Live /\ task'[x].conf = 0 => IsArmed(x)
<1> DEFINE P ==
  /\ Status(x) \in {"success", "deleted"} => Status(x)' \in {"success", "deleted"}
  /\ Status(x) \in Final \cup {"deleted"} => Status(x)' \in Final \cup {"deleted"}
  /\ Status(x) # "none" => Status(x)' # "none"
  /\ x \in Publish /\ Committed(x) => Committed(x)'
  /\ task[x].conf > 0 => task'[x].conf > 0 \/ Status(x)' = "success"
  /\ x \in Publish /\ task'[x].conf = 0 /\ Status(x)' = "queued" => Status(x) \in {"queued", "none"}
  /\ Status(x)' \in Live => IsTaken(x) \/ (Status(x) \in Live /\ ClaimKept(x))
  /\ task[x].conf = 0 /\ task'[x].conf > 0
       => Status(x) = "none" \/ IsConfirmed(x)
          \/ \E p \in Procs, a \in Accounts : Run(p, a).pc = "posted" /\ Item(p, a) = x
  /\ x \in Publish /\ ~Committed(x) /\ Committed(x)' /\ Status(x)' \in Live /\ task'[x].conf = 0 => IsArmed(x)
<1>0. /\ task[x] \in RowType /\ task'[x] \in RowType /\ RowOK(x) /\ Clearing
      /\ Status(x) = task[x].status /\ Status(x)' = task'[x].status
      /\ (Committed(x) <=> task[x].mark = "submitted") /\ (Committed(x)' <=> task'[x].mark = "submitted")
  BY DEF SInv, Typed, Status, Committed
<1>n. task[x].conf \in Nat /\ task'[x].conf \in Nat
  BY <1>0, Bounds DEF RowType
<1> USE DEF Active, Live, Final
<1>w. \A st \in Statuses : /\ With(task[x], st).status = st /\ With(task[x], st).mark = task[x].mark
                           /\ With(task[x], st).conf = task[x].conf
  BY <1>0, RowHelpers
<1>1. CASE Stays(x)
  BY <1>0, <1>n, <1>1 DEF Stays, SameRow
<1>2. CASE Enters(x)
  <2>1. task[x] = NoRow /\ task'[x].status = "queued" /\ task'[x].mark = "none"
    BY <1>0, <1>2 DEF Enters, RowOK, NoRow
  <2> QED BY <1>0, <1>n, <1>2, <2>1 DEF Enters, NoRow
<1>3. CASE IsTaken(x)
  <2>1. Status(x) = "queued" /\ task'[x].status = "running" /\ task'[x].mark = task[x].mark /\ task'[x].conf = task[x].conf
    BY <1>0, <1>w, <1>3 DEF IsTaken, Statuses
  <2> QED BY <1>0, <1>n, <1>3, <2>1
<1>4. CASE Reslots(x)
  BY <1>0, <1>n, <1>4 DEF Reslots, ClaimKept
<1>5. CASE IsCancelled(x)
  <2>1. Status(x) \in Active /\ task'[x].status = "cancelled" /\ task'[x].mark = task[x].mark /\ task'[x].conf = task[x].conf
    BY <1>0, <1>w, <1>5 DEF IsCancelled, Statuses
  <2> QED BY <1>0, <1>n, <2>1
<1>6. CASE IsDropped(x)
  <2>1. Status(x) \in Active /\ task'[x].status \in {"failed", "cancelled"} /\ task'[x].mark = task[x].mark
        /\ task'[x].conf = task[x].conf
    BY <1>0, <1>w, <1>6 DEF IsDropped, Statuses
  <2> QED BY <1>0, <1>n, <2>1
<1>7. CASE Requeues(x)
  <2>1. /\ x \in Publish /\ Status(x) \in Live /\ task'[x].status = "queued" /\ task'[x].conf > 0
        /\ task'[x].mark = task[x].mark \/ task'[x].mark = "submitted"
        /\ MayLook(x)
    BY <1>7 DEF Requeues
  <2>2. task[x].conf > 0 \/ \E p \in Procs, a \in Accounts : Run(p, a).pc = "posted" /\ Item(p, a) = x
    BY <2>1 DEF MayLook
  <2> QED BY <1>0, <1>n, <2>1, <2>2
<1>8. CASE Repeats(x)
  BY <1>0, <1>n, <1>8 DEF Repeats
<1>9. CASE Fails(x)
  <2>1. /\ Status(x) \in Active /\ task'[x].status = "failed"
        /\ task'[x].conf = task[x].conf \/ (task'[x].conf > 0 /\ MayLook(x))
        /\ x \in Publish => task'[x].mark = task[x].mark \/ task'[x].mark = "submitted"
    BY <1>9 DEF Fails
  <2>2. MayLook(x) => task[x].conf > 0 \/ \E p \in Procs, a \in Accounts : Run(p, a).pc = "posted" /\ Item(p, a) = x
    BY DEF MayLook
  <2> QED BY <1>0, <1>n, <2>1, <2>2
<1>10. CASE Wins(x)
  <2>1. /\ Status(x) \in Live /\ task'[x].status = "success" /\ task'[x].conf = 0
        /\ x \in Publish => task'[x].mark = "submitted"
    BY <1>10 DEF Wins
  <2> QED BY <1>0, <1>n, <2>1
<1>11. CASE IsArmed(x)
  <2>1. /\ Status(x) \in Live /\ Status(x)' = Status(x) /\ task'[x].conf = task[x].conf /\ SameClaim(x)
        /\ x \in Publish => task'[x].mark = "submitted"
    BY <1>11 DEF IsArmed
  <2> QED BY <1>0, <1>n, <1>11, <2>1 DEF ClaimKept
<1>12. CASE IsConfirmed(x)
  <2>1. /\ Status(x) = "running" /\ Status(x)' = Status(x) /\ task'[x].conf > 0 /\ task'[x].mark = "submitted"
        /\ SameClaim(x)
    BY <1>12 DEF IsConfirmed
  <2> QED BY <1>0, <1>n, <1>12, <2>1 DEF ClaimKept
<1>13. CASE IsCounted(x)
  BY <1>0, <1>n, <1>13 DEF IsCounted, ClaimKept
<1>14. CASE ChangesHands(x)
  BY <1>0, <1>n, <1>14 DEF ChangesHands, ClaimKept
<1>15. CASE IsDeleted(x)
  <2>1. Status(x) \in Final \cup {"deleted"}
    BY <1>0, <1>15 DEF IsDeleted, Clearing
  <2>2. task'[x].status = "deleted" /\ task'[x].mark = task[x].mark /\ task'[x].conf = task[x].conf
    BY <1>w, <1>15 DEF IsDeleted, Statuses, Away
  <2> QED BY <1>0, <1>n, <2>1, <2>2
<1>q. P
  BY <1>1, <1>2, <1>3, <1>4, <1>5, <1>6, <1>7, <1>8, <1>9, <1>10, <1>11, <1>12, <1>13, <1>14, <1>15 DEF RowStep
<1> QED BY <1>q
\* The row and its slot after a step.
RowPart(t) ==
  /\ t \notin Publish => slot[t].state = "none" /\ task[t].conf = 0
  /\ t \in Publish =>
       /\ Status(t) \in Active => slot[t].state \notin {"none", "released"}
       /\ Committed(t) => slot[t].state \in Spent
       /\ Status(t) \in Active /\ slot[t].state \in Spent => Committed(t)
       /\ Status(t) = "queued" /\ task[t].conf = 0 => ~Committed(t)
       /\ Status(t) = "success" => Committed(t)

LEMMA RowPartKept ==
  ASSUME SInv, Typed', NEW x \in Tasks, RowStep(x)
  PROVE  RowPart(x)'
<1>0. /\ task[x] \in RowType /\ task'[x] \in RowType /\ RowOK(x) /\ Clearing
      /\ slot[x] \in SlotType /\ slot'[x] \in SlotType /\ day \in 0..LastDay
      /\ Status(x) = task[x].status /\ Status(x)' = task'[x].status
      /\ (Committed(x) <=> task[x].mark = "submitted") /\ (Committed(x)' <=> task'[x].mark = "submitted")
  BY DEF SInv, Typed, Status, Committed
<1>n. task[x].conf \in Nat /\ task'[x].conf \in Nat
  BY <1>0, Bounds DEF RowType
<1>w. \A st \in Statuses : /\ With(task[x], st).status = st /\ With(task[x], st).mark = task[x].mark
                           /\ With(task[x], st).conf = task[x].conf
  BY <1>0, RowHelpers
<1>r. RowPart(x)
  BY <1>0 DEF RowOK, RowPart
<1>s. /\ ReleaseSlot(slot[x]).state = IF slot[x].state = "armed" THEN "unknown"
                                      ELSE IF slot[x].state \in Spent \cup {"none"} THEN slot[x].state ELSE "released"
      /\ Reserved(slot[x]).state = IF slot[x].state \in Spent \cup {"none"} THEN slot[x].state ELSE "reserved"
      /\ \A st \in Spent \cup {"reserved"} :
           /\ SetSlot(slot[x], st).state = IF slot[x].state = "none" THEN "none" ELSE st
           /\ SetSlotToday(slot[x], st).state = IF slot[x].state = "none" THEN "none" ELSE st
  BY <1>0, SlotHelpers
<1> DEFINE v == slot[x].state
           w == slot'[x].state
<1> SUFFICES
  /\ x \notin Publish => w = "none" /\ task'[x].conf = 0
  /\ x \in Publish =>
       /\ Status(x)' \in Active => w \notin {"none", "released"}
       /\ task'[x].mark = "submitted" => w \in Spent
       /\ Status(x)' \in Active /\ w \in Spent => task'[x].mark = "submitted"
       /\ Status(x)' = "queued" /\ task'[x].conf = 0 => task'[x].mark # "submitted"
       /\ Status(x)' = "success" => task'[x].mark = "submitted"
  BY <1>0 DEF RowPart
<1>p. /\ x \notin Publish => v = "none" /\ task[x].conf = 0
      /\ x \in Publish =>
           /\ task[x].status \in Active => v \notin {"none", "released"}
           /\ task[x].mark = "submitted" => v \in Spent
           /\ task[x].status \in Active /\ v \in Spent => task[x].mark = "submitted"
           /\ task[x].status = "queued" /\ task[x].conf = 0 => task[x].mark # "submitted"
           /\ task[x].status = "success" => task[x].mark = "submitted"
  BY <1>0, <1>r DEF RowPart
<1> USE DEF Active, Live, Final, Spent
<1>1. CASE Stays(x)
  BY <1>0, <1>p, <1>1 DEF Stays, SameRow
<1>2. CASE Enters(x)
  <2>1. /\ task[x] = NoRow /\ slot[x] = NoSlot /\ task'[x].status = "queued" /\ task'[x].mark = "none"
        /\ slot'[x] = IF x \in Publish THEN [state |-> "planned", day |-> day] ELSE slot[x]
    BY <1>0, <1>2 DEF Enters, RowOK, NoRow
  <2>2. ASSUME x \notin Publish PROVE task'[x].conf = 0
    <3>1. SUFFICES ASSUME NEW t \in Tasks, Kind[t] = Kind[x], task[t].conf = task'[x].conf PROVE task'[x].conf = 0
      BY <1>2 DEF Enters
    <3>2. t \notin Publish /\ RowOK(t)
      BY <2>2, <3>1 DEF Publish, SInv
    <3> QED BY <3>1, <3>2 DEF RowOK
  <2> QED BY <1>0, <1>p, <2>1, <2>2 DEF NoSlot
<1>3. CASE IsTaken(x)
  <2>1. /\ Status(x) = "queued" /\ task'[x].status = "running" /\ task'[x].mark = task[x].mark
        /\ task'[x].conf = task[x].conf
    BY <1>0, <1>w, <1>3 DEF IsTaken, Statuses
  <2>2. w = v \/ w = Reserved(slot[x]).state
    BY <1>3 DEF IsTaken, TakenBy
  <2> QED BY <1>0, <1>p, <1>s, <2>1, <2>2
<1>4. CASE Reslots(x)
  <2>1. task'[x] = task[x]
    BY <1>4 DEF Reslots
  <2>2. \/ task[x].status = "queued" /\ w = Reserved(slot[x]).state
        \/ task[x].status = "queued" /\ v = "reserved" /\ w = "planned"
        \/ task[x].status \notin Active /\ w = ReleaseSlot(slot[x]).state
    BY <1>0, <1>4 DEF Reslots, SlotType
  <2> QED BY <1>0, <1>p, <1>s, <2>1, <2>2
<1>5. CASE IsCancelled(x) \/ IsDropped(x)
  <2>1. /\ task'[x].status \in {"cancelled", "failed"} /\ task'[x].mark = task[x].mark
        /\ task'[x].conf = task[x].conf /\ w = ReleaseSlot(slot[x]).state
    BY <1>0, <1>w, <1>5 DEF IsCancelled, IsDropped, Statuses
  <2> QED BY <1>0, <1>p, <1>s, <2>1
<1>7. CASE Requeues(x)
  <2>1. /\ x \in Publish /\ Status(x) \in Live /\ task'[x].status = "queued" /\ task'[x].conf > 0
        /\ \/ task'[x].mark = task[x].mark /\ w = v
           \/ task'[x].mark = "submitted" /\ w = SetSlot(slot[x], "submitted").state
    BY <1>7 DEF Requeues
  <2> QED BY <1>0, <1>n, <1>p, <1>s, <2>1
<1>8. CASE Repeats(x)
  BY <1>0, <1>p, <1>8 DEF Repeats
<1>9. CASE Fails(x)
  <2>1. /\ Status(x) \in Active /\ task'[x].status = "failed"
        /\ x \notin Publish => task'[x].conf = task[x].conf
        /\ x \in Publish => \/ task'[x].mark = task[x].mark
                            \/ task'[x].mark = "submitted" /\ w = SetSlot(slot[x], "unknown").state
        /\ w = ReleaseSlot(slot[x]).state \/ w = SetSlot(slot[x], "unknown").state
    BY <1>9 DEF Fails
  <2> QED BY <1>0, <1>p, <1>s, <2>1
<1>10. CASE Wins(x)
  <2>1. /\ Status(x) \in Live /\ task'[x].status = "success" /\ task'[x].conf = 0
        /\ x \in Publish => task'[x].mark = "submitted"
        /\ w = SetSlot(slot[x], "confirmed").state \/ w = SetSlotToday(slot[x], "confirmed").state
    BY <1>10 DEF Wins
  <2> QED BY <1>0, <1>p, <1>s, <2>1
<1>11. CASE IsArmed(x)
  <2>1. /\ Status(x) \in Live /\ Status(x)' = Status(x) /\ task'[x].conf = task[x].conf
        /\ x \in Publish => task'[x].mark = "submitted"
        /\ w = SetSlotToday(slot[x], "armed").state
    BY <1>11 DEF IsArmed
  <2> QED BY <1>0, <1>p, <1>s, <2>1
<1>12. CASE IsConfirmed(x)
  <2>1. /\ Status(x) = "running" /\ Status(x)' = Status(x) /\ task'[x].mark = "submitted" /\ x \in Publish
        /\ w = SetSlotToday(slot[x], "armed").state
    BY <1>12 DEF IsConfirmed, Publish
  <2> QED BY <1>0, <1>p, <1>s, <2>1
<1>13. CASE IsCounted(x)
  BY <1>0, <1>p, <1>13 DEF IsCounted
<1>14. CASE ChangesHands(x)
  <2>1. /\ Status(x) \in Live /\ task'[x].status \in Live
        /\ task'[x].conf = task[x].conf /\ task'[x].mark = task[x].mark
        /\ \/ w = v
           \/ w = SetSlot(slot[x], IF Committed(x) THEN "unknown" ELSE "reserved").state
    BY <1>14 DEF ChangesHands
  <2> QED BY <1>0, <1>p, <1>s, <2>1
<1>15. CASE IsDeleted(x)
  <2>1. Status(x) \in Final \cup {"deleted"}
    BY <1>0, <1>15 DEF IsDeleted, Clearing
  <2>2. /\ task'[x].status = "deleted" /\ task'[x].mark = task[x].mark /\ task'[x].conf = task[x].conf
        /\ w = v
    BY <1>w, <1>15 DEF IsDeleted, Statuses, Away
  <2> QED BY <1>0, <1>p, <2>1, <2>2
<1> QED
  BY <1>1, <1>2, <1>3, <1>4, <1>5, <1>7, <1>8, <1>9, <1>10, <1>11, <1>12, <1>13, <1>14, <1>15 DEF RowStep
LEMMA ItemFacts ==
  ASSUME SInv, NEW p \in Procs, NEW a \in Accounts, Run(p, a).pc # "idle"
  PROVE  /\ Item(p, a) \in Tasks /\ Account[Item(p, a)] = a /\ Status(Item(p, a)) # "none"
         /\ Run(p, a).i \in DOMAIN Run(p, a).items /\ Run(p, a).items \in Seq(Tasks)
         /\ Run(p, a) \in RunType /\ ItemsOK(p, a)
<1>1. Run(p, a) \in RunType /\ Run(p, a).i \in DOMAIN Run(p, a).items
  BY DEF SInv, Typed, Run
<1>2. Run(p, a).items \in Seq(Tasks)
  BY <1>1 DEF RunType
<1>3. ItemsOK(p, a)
  BY DEF SInv, RunOK
<1>4. Item(p, a) \in Tasks
  BY <1>1, <1>2 DEF Item
<1> QED BY <1>1, <1>2, <1>3, <1>4 DEF ItemsOK, Item

\* A click is made by a session that has armed the row and clicked nothing yet.
LEMMA ClickFacts ==
  ASSUME SInv, Clicks, NEW x \in Publish
  PROVE  \/ clicks'[x] = clicks[x]
         \/ /\ clicks[x] = 0 /\ clicks'[x] = 1 /\ Committed(x) /\ Status(x) # "none" /\ task' = task /\ hold' = hold
            /\ \E p \in Procs, a \in Accounts :
                 /\ Sent(p, a) /\ Item(p, a) = x /\ run'[p][a].pc \in {"posted", "clicked"} /\ SamePlace(p, a)
                 /\ Kind[x] = "threads" => Run(p, a).pc = "ready"
<1>1. CASE clicks' = clicks
  BY <1>1
<1>2. CASE clicks' # clicks
  <2>1. PICK p \in Procs, a \in Accounts :
          /\ Run(p, a).pc = "ready" \/ (Run(p, a).pc = "armed" /\ Kind[Item(p, a)] # "threads")
          /\ run'[p][a].pc \in {"posted", "clicked"} /\ SamePlace(p, a)
          /\ clicks' = [clicks EXCEPT ![Item(p, a)] = @ + 1]
          /\ task' = task /\ hold' = hold
    BY <1>2 DEF Clicks
  <2>2. Item(p, a) \in Tasks /\ Status(Item(p, a)) # "none"
    BY <2>1, ItemFacts
  <2>3. clicks \in [Tasks -> Nat] /\ x \in Tasks
    BY DEF SInv, Typed, Publish
  <2>4. CASE Item(p, a) # x
    BY <2>1, <2>2, <2>3, <2>4
  <2>5. CASE Item(p, a) = x
    <3>1. RunOK(p, a) /\ Sent(p, a)
      BY <2>1 DEF SInv, Sent
    <3>2. Committed(x) /\ clicks[x] = 0
      BY <2>1, <2>5, <3>1 DEF RunOK
    <3>3. clicks'[x] = 1
      BY <2>1, <2>3, <2>5, <3>2
    <3> QED BY <2>1, <2>2, <2>5, <3>1, <3>2, <3>3
  <2> QED BY <2>4, <2>5
<1> QED BY <1>1, <1>2

LEMMA RowKept ==
  ASSUME SInv, Typed', Step, NEW x \in Tasks
  PROVE  RowOK(x)'
<1>0. RowStep(x) /\ RowOK(x) /\ Clicks /\ Posts
  BY DEF SInv, Step
<1>1. RowPart(x)'
  BY <1>0, RowPartKept
<1>m. /\ Status(x) # "none" => Status(x)' # "none"
      /\ x \in Publish /\ Committed(x) => Committed(x)'
      /\ Status(x)' \in Live => IsTaken(x) \/ (Status(x) \in Live /\ ClaimKept(x))
  BY <1>0, RowMonotone
<1>2. ASSUME Status(x)' = "none" PROVE task'[x] = NoRow /\ slot'[x] = NoSlot /\ clicks'[x] = 0 /\ post'[x] = {x}
  <2>1. Status(x) = "none" /\ task[x] = NoRow /\ slot[x] = NoSlot /\ clicks[x] = 0 /\ post[x] = {x}
    BY <1>0, <1>m, <1>2 DEF RowOK
  <2>2. task'[x] = NoRow /\ slot'[x] = NoSlot
    <3>1. Status(x)' = task'[x].status /\ task[x] \in RowType
      BY DEF Status, SInv, Typed
    <3>2. Stays(x) \/ Reslots(x) \/ IsDeleted(x)
      <4>1. ~Enters(x)
        BY <1>2, <3>1 DEF Enters, NoRow
      <4>2. ~IsTaken(x) /\ ~IsCancelled(x) /\ ~IsDropped(x) /\ ~Requeues(x) /\ ~Repeats(x) /\ ~Fails(x) /\ ~Wins(x)
            /\ ~IsArmed(x) /\ ~IsConfirmed(x) /\ ~IsCounted(x) /\ ~ChangesHands(x)
        BY <2>1 DEF IsTaken, IsCancelled, IsDropped, Requeues, Repeats, Fails, Wins, IsArmed, IsConfirmed, IsCounted,
                    ChangesHands, Active, Live
      <4> QED BY <1>0, <4>1, <4>2 DEF RowStep
    <3>3. ~IsDeleted(x)
      BY <2>1 DEF IsDeleted, SInv, Clearing, Final
    <3>4. ReleaseSlot(NoSlot) = NoSlot
      BY DEF ReleaseSlot, NoSlot, Spent
    <3> QED BY <2>1, <3>2, <3>3, <3>4 DEF Stays, SameRow, Reslots, NoSlot
  <2>3. clicks'[x] = 0
    <3>1. CASE clicks' = clicks
      BY <2>1, <3>1
    <3>2. CASE clicks' # clicks
      <4>1. PICK p \in Procs, a \in Accounts :
              /\ Run(p, a).pc = "ready" \/ (Run(p, a).pc = "armed" /\ Kind[Item(p, a)] # "threads")
              /\ clicks' = [clicks EXCEPT ![Item(p, a)] = @ + 1]
        BY <1>0, <3>2 DEF Clicks
      <4>2. Item(p, a) \in Tasks /\ Item(p, a) # x
        BY <2>1, <4>1, ItemFacts
      <4> QED BY <2>1, <4>1, <4>2 DEF SInv, Typed
    <3> QED BY <3>1, <3>2
  <2>4. post'[x] = {x}
    <3>1. CASE post' = post
      BY <2>1, <3>1
    <3>2. CASE post' # post
      <4>1. PICK n \in Tasks, t \in Tasks : task'[n].status = "queued" /\ post' = [post EXCEPT ![n] = @ \cup post[t]]
        BY <1>0, <3>2 DEF Posts
      <4>2. n # x
        BY <1>2, <4>1 DEF Status
      <4> QED BY <2>1, <4>1, <4>2 DEF SInv, Typed
    <3> QED BY <3>1, <3>2
  <2> QED BY <2>2, <2>3, <2>4
<1>3. ASSUME x \in Publish, clicks'[x] > 0 PROVE Committed(x)'
  <2>1. clicks[x] \in Nat
    BY DEF SInv, Typed
  <2>2. Committed(x)
    BY <1>0, <1>3, <2>1, ClickFacts DEF RowOK
  <2> QED BY <1>3, <1>m, <2>2
<1>4. ASSUME Status(x)' \in Live PROVE lease'[x].by # None
  <2>1. CASE IsTaken(x)
    BY <2>1, Bounds DEF IsTaken, TakenBy
  <2>2. CASE Status(x) \in Live /\ ClaimKept(x)
    BY <1>0, <2>2, Bounds DEF RowOK, ClaimKept, SameClaim
  <2> QED BY <1>4, <1>m, <2>1, <2>2
<1> QED BY <1>1, <1>2, <1>3, <1>4 DEF RowOK, RowPart

LEMMA ClicksKept ==
  ASSUME SInv, Typed', Step
  PROVE  ClickedOnce' /\ Clearing'
<1>1. ASSUME NEW x \in Publish PROVE clicks'[x] <= 1
  <2>1. clicks[x] <= 1 /\ Clicks
    BY DEF SInv, ClickedOnce, Step
  <2> QED BY <2>1, ClickFacts
<1>2. ASSUME NEW x \in req'.of PROVE Status(x)' \in Final \cup {"deleted"}
  <2>1. x \in Tasks
    BY DEF Typed, ReqType
  <2>2. CASE x \in req.of
    BY <2>1, <2>2, RowMonotone DEF SInv, Clearing, Step
  <2>3. CASE x \notin req.of
    BY <2>3 DEF Step, Clears
  <2> QED BY <2>2, <2>3
<1> QED BY <1>1, <1>2 DEF ClickedOnce, Clearing

\* The session that arms a post is the only one that has begun with it.
LEMMA ArmFacts ==
  ASSUME SInv, NEW p \in Procs, NEW a \in Accounts, Run(p, a).pc = "work", NEW t, Item(p, a) = t, t \in Publish,
         Status(t) \in Live, task[t].conf = 0
  PROVE  /\ ~Committed(t)
         /\ \A q \in Procs, b \in Accounts : On(q, b) /\ Item(q, b) = t => q = p /\ b = a
<1>1. On(p, a) /\ Before1(p, a) /\ RunOK(p, a)
  BY DEF On, Before1, SInv
<1>2. ~Committed(t) /\ lease[t].by = p
  BY <1>1 DEF RunOK
<1>3. ASSUME NEW q \in Procs, NEW b \in Accounts, On(q, b), Item(q, b) = t PROVE q = p /\ b = a
  <2>1. RunOK(q, b)
    BY DEF SInv
  <2>2. lease[t].by = q
    BY <1>3, <2>1 DEF RunOK
  <2>3. Account[t] = a
    BY ItemFacts
  <2>4. Account[t] = b
    BY <1>3, ItemFacts DEF On
  <2> QED BY <1>2, <2>2, <2>3, <2>4
<1> QED BY <1>2, <1>3

LEMMA SentFacts ==
  ASSUME SInv, Typed', Step, NEW p \in Procs, NEW a \in Accounts, Sent(p, a)', Item(p, a)' \in Publish
  PROVE  /\ Item(p, a)' = Item(p, a)
         /\ \/ Sent(p, a)
            \/ Run(p, a).pc = "work" /\ run'[p][a].pc = "armed" /\ IsArmed(Item(p, a))
<1>0. RunStep(p, a) /\ run'[p][a].pc \in {"armed", "ready", "posted"}
  BY DEF Step, Sent, Run
<1>i. SamePlace(p, a) => Item(p, a)' = Item(p, a)
  BY DEF SamePlace, Item, Run
<1>1. CASE Waits(p, a)
  BY <1>0, <1>1, <1>i DEF Waits, Sent, Run
<1>2. CASE Ends(p, a) \/ Begins(p, a) \/ Extends(p, a) \/ GoesOn(p, a)
  <2>1. ~Ends(p, a)
    BY <1>0 DEF Ends, Idle
  <2>2. ~Begins(p, a)
    <3>1. SUFFICES ASSUME Begins(p, a) PROVE FALSE
      OBVIOUS
    <3>2. PICK t \in Tasks : run'[p][a] = [pc |-> "claimed", items |-> <<t>>, i |-> 1, stop |-> FALSE]
      BY <3>1 DEF Begins
    <3> QED BY <1>0, <3>2
  <2>3. ~Extends(p, a)
    BY <1>0 DEF Extends
  <2>4. ~GoesOn(p, a)
    BY <1>0 DEF GoesOn
  <2> QED BY <1>2, <2>1, <2>2, <2>3, <2>4
<1>3. CASE Moves(p, a)
  <2>1. Item(p, a)' = Item(p, a)
    BY <1>3, <1>i DEF Moves
  <2>2. CASE Run(p, a).pc = "clicked"
    BY <1>0, <1>3, <2>1, <2>2 DEF Moves
  <2> QED BY <1>0, <1>3, <2>1, <2>2 DEF Moves, Sent
<1> QED BY <1>0, <1>1, <1>2, <1>3 DEF RunStep

LEMMA OneSenderKept ==
  ASSUME SInv, Typed', Step
  PROVE  OneSender'
<1> SUFFICES ASSUME NEW p \in Procs, NEW q \in Procs, NEW a \in Accounts, NEW b \in Accounts,
                    Sent(p, a)', Sent(q, b)', Item(p, a)' = Item(q, b)', Item(p, a)' \in Publish
             PROVE  p = q /\ a = b
  BY DEF OneSender
<1> DEFINE New(pp, aa) == Run(pp, aa).pc = "work" /\ run'[pp][aa].pc = "armed" /\ IsArmed(Item(pp, aa))
<1>1. Item(p, a)' = Item(p, a) /\ (Sent(p, a) \/ New(p, a))
  BY SentFacts
<1>2. Item(q, b)' = Item(q, b) /\ (Sent(q, b) \/ New(q, b))
  BY SentFacts
<1>3. Item(p, a) = Item(q, b) /\ Item(p, a) \in Publish
  BY <1>1, <1>2
<1>4. \A pp \in Procs, aa \in Accounts : Sent(pp, aa) => On(pp, aa)
  BY DEF Sent, On
<1>5. CASE Sent(p, a) /\ Sent(q, b)
  BY <1>3, <1>5 DEF SInv, OneSender
<1>6. CASE New(p, a)
  <2>1. Status(Item(p, a)) \in Live /\ task[Item(p, a)].conf = 0
    BY <1>6 DEF IsArmed
  <2>2. On(q, b)
    BY <1>2, <1>4 DEF On
  <2> QED BY <1>3, <1>6, <2>1, <2>2, ArmFacts
<1>7. CASE New(q, b)
  <2>1. Status(Item(q, b)) \in Live /\ task[Item(q, b)].conf = 0
    BY <1>7 DEF IsArmed
  <2>2. On(p, a)
    BY <1>1, <1>4 DEF On
  <2> QED BY <1>3, <1>7, <2>1, <2>2, ArmFacts
<1> QED BY <1>1, <1>2, <1>5, <1>6, <1>7
\* RunOK of a session with state r, in terms of the next state.
Begun(r) ==
  \/ r.pc \in {"claimed", "start", "work", "armed", "ready", "clicked", "posted"}
  \/ r.pc = "next" /\ r.i = 1
StillAhead(r, j) ==
  /\ r.pc \notin {"idle", "raised", "leaving"}
  /\ j > r.i \/ (j = r.i /\ r.pc = "next" /\ j > 1)
NextItems(r, a) ==
  /\ \A j \in DOMAIN r.items : Account[r.items[j]] = a /\ Status(r.items[j])' # "none"
  /\ \A j, k \in DOMAIN r.items : r.items[j] = r.items[k] => j = k
  /\ r.pc = "claimed" => r.i = 1 /\ Len(r.items) = 1
  /\ r.pc = "start" => r.i = 1
NextBegun(r, p, t) ==
  Begun(r) => /\ \A x \in Before(t) : Status(x)' \in {"success", "deleted"}
              /\ t \in Publish /\ task'[t].conf = 0 => Status(t)' # "queued" /\ (Status(t)' \in Live => lease'[t].by = p)
NextArms(r, t) ==
  /\ Begun(r) /\ r.pc \notin {"armed", "ready", "clicked", "posted"} /\ t \in Publish /\ Status(t)' \in Live
     /\ task'[t].conf = 0 => ~Committed(t)'
  /\ r.pc = "clicked" => t \notin Publish
  /\ r.pc = "ready" => Kind[t] = "threads"
  /\ r.pc \in {"armed", "ready", "posted"} /\ t \in Publish => Committed(t)'
  /\ r.pc = "armed" /\ t \in Publish => task'[t].conf = 0
  /\ r.pc \in {"armed", "ready"} /\ t \in Publish => clicks'[t] = 0
NextAhead(r, p) ==
  \A j \in DOMAIN r.items : StillAhead(r, j) /\ Status(r.items[j])' \in Live => lease'[r.items[j]].by # p

LEMMA RunNext ==
  ASSUME NEW p, NEW a, NEW r, r = run'[p][a], NEW t, t = r.items[r.i],
         up'[p] = "down" => r.pc = "idle", r.pc # "idle" => NextItems(r, a),
         NextBegun(r, p, t), NextArms(r, t), NextAhead(r, p)
  PROVE  RunOK(p, a)'
<1>1. Run(p, a)' = r /\ Item(p, a)' = t
  BY DEF Run, Item
<1>2. /\ On(p, a)' <=> Begun(r)
      /\ Before1(p, a)' <=> Begun(r) /\ r.pc \notin {"armed", "ready", "clicked", "posted"}
      /\ Sent(p, a)' <=> r.pc \in {"armed", "ready", "posted"}
  BY <1>1 DEF On, Before1, Begun, Sent
<1>3. \A j \in DOMAIN r.items : Ahead(p, a, j)' <=> StillAhead(r, j)
  BY <1>1 DEF Ahead, StillAhead
<1>4. r.pc # "idle" => ItemsOK(p, a)'
  <2> SUFFICES ASSUME r.pc # "idle" PROVE ItemsOK(p, a)'
    OBVIOUS
  <2>1. NextItems(r, a)
    OBVIOUS
  <2>2. /\ \A j \in DOMAIN run'[p][a].items :
             Account[run'[p][a].items[j]] = a /\ task'[run'[p][a].items[j]].status # "none"
        /\ \A j, k \in DOMAIN run'[p][a].items : run'[p][a].items[j] = run'[p][a].items[k] => j = k
    BY <2>1 DEF NextItems, Status
  <2>3. /\ run'[p][a].pc = "claimed" => run'[p][a].i = 1 /\ Len(run'[p][a].items) = 1
        /\ run'[p][a].pc = "start" => run'[p][a].i = 1
    BY <2>1 DEF NextItems
  <2> QED BY <2>2, <2>3 DEF ItemsOK, Run, Status
<1>5. (On(p, a) => \A x \in Before(Item(p, a)) : Status(x) \in {"success", "deleted"})'
  BY <1>1, <1>2 DEF NextBegun
<1>6. (On(p, a) /\ Item(p, a) \in Publish /\ task[Item(p, a)].conf = 0
         => Status(Item(p, a)) # "queued" /\ (Status(Item(p, a)) \in Live => lease[Item(p, a)].by = p))'
  BY <1>1, <1>2 DEF NextBegun
<1>7. (/\ Before1(p, a) /\ Item(p, a) \in Publish /\ Status(Item(p, a)) \in Live /\ task[Item(p, a)].conf = 0
          => ~Committed(Item(p, a))
       /\ Run(p, a).pc = "clicked" => Item(p, a) \notin Publish
       /\ Run(p, a).pc = "ready" => Kind[Item(p, a)] = "threads"
       /\ Sent(p, a) /\ Item(p, a) \in Publish => Committed(Item(p, a))
       /\ Run(p, a).pc = "armed" /\ Item(p, a) \in Publish => task[Item(p, a)].conf = 0
       /\ Run(p, a).pc \in {"armed", "ready"} /\ Item(p, a) \in Publish => clicks[Item(p, a)] = 0)'
  BY <1>1, <1>2 DEF NextArms
<1>8. (\A j \in DOMAIN Run(p, a).items : Ahead(p, a, j) /\ Status(Run(p, a).items[j]) \in Live
         => lease[Run(p, a).items[j]].by # p)'
  BY <1>1, <1>3 DEF NextAhead
<1> QED BY <1>1, <1>4, <1>5, <1>6, <1>7, <1>8 DEF RunOK

\* A session that has begun with its item keeps what it found.
LEMMA BegunKept ==
  ASSUME SInv, Typed', Step, NEW p \in Procs, NEW a \in Accounts, On(p, a), NEW t, t = Item(p, a),
         run'[p][a].pc # "idle"
  PROVE  /\ \A x \in Before(t) : Status(x)' \in {"success", "deleted"}
         /\ t \in Publish /\ task'[t].conf = 0
              => /\ Status(t)' # "queued"
                 /\ Status(t)' \in Live => Status(t) \in Live /\ task[t].conf = 0 /\ lease'[t].by = p
<1>0. RunOK(p, a) /\ t \in Tasks /\ Status(t) # "none" /\ Run(p, a).pc # "idle"
  BY ItemFacts DEF SInv, On
<1>1. ASSUME NEW x \in Before(t) PROVE Status(x)' \in {"success", "deleted"}
  <2>1. x \in Tasks /\ Status(x) \in {"success", "deleted"}
    BY <1>0, BatchSides DEF RunOK
  <2> QED BY <2>1, RowMonotone DEF Step
<1>2. ASSUME t \in Publish, task'[t].conf = 0
      PROVE  /\ Status(t)' # "queued"
             /\ Status(t)' \in Live => Status(t) \in Live /\ task[t].conf = 0 /\ lease'[t].by = p
  <2>m. /\ task[t].conf > 0 => task'[t].conf > 0 \/ Status(t)' = "success"
        /\ Status(t)' = "queued" => Status(t) \in {"queued", "none"}
        /\ Status(t)' \in Live => IsTaken(t) \/ (Status(t) \in Live /\ ClaimKept(t))
    BY <1>0, <1>2, RowMonotone DEF Step
  <2>0. task[t].conf \in Nat
    BY <1>0, Bounds DEF SInv, Typed, RowType
  <2>1. CASE task[t].conf > 0
    BY <1>2, <2>m, <2>1 DEF Live
  <2>2. CASE task[t].conf = 0
    <3>1. Status(t) # "queued" /\ (Status(t) \in Live => lease[t].by = p)
      BY <1>0, <1>2, <2>2 DEF RunOK
    <3>2. ~IsTaken(t)
      BY <3>1 DEF IsTaken
    <3>3. ASSUME Status(t)' \in Live PROVE lease'[t].by = p
      <4>1. Status(t) \in Live /\ ClaimKept(t) /\ lease[t].by = p
        BY <2>m, <3>1, <3>2, <3>3
      <4>2. CASE SameClaim(t)
        BY <4>1, <4>2 DEF SameClaim
      <4>3. CASE run'[p][a] = Idle
        BY <4>3 DEF Idle
      <4> QED BY <4>1, <4>2, <4>3 DEF ClaimKept
    <3> QED BY <1>0, <2>m, <2>2, <3>1, <3>2, <3>3
  <2> QED BY <2>0, <2>1, <2>2
<1> QED BY <1>1, <1>2

\* What a session has still to begin with is not taken by its own process.
LEMMA AheadKept ==
  ASSUME SInv, Typed', Step, NEW p \in Procs, NEW a \in Accounts, NEW j \in DOMAIN Run(p, a).items,
         Ahead(p, a, j), NEW x, x = Run(p, a).items[j],
         ~(Run(p, a).pc = "next" /\ j = Run(p, a).i /\ run'[p][a].pc = "work"), Status(x)' \in Live
  PROVE  lease'[x].by # p
<1>0. /\ RunOK(p, a) /\ Run(p, a).pc # "idle" /\ ItemsOK(p, a) /\ Run(p, a).items \in Seq(Tasks)
      /\ Run(p, a).i \in DOMAIN Run(p, a).items
  BY ItemFacts DEF SInv, Ahead
<1>1. x \in Tasks /\ Account[x] = a
  BY <1>0 DEF ItemsOK
<1>2. IsTaken(x) \/ (Status(x) \in Live /\ ClaimKept(x))
  BY <1>1, RowMonotone DEF Step
<1>3. CASE Status(x) \in Live /\ ClaimKept(x)
  <2>1. lease[x].by # p
    BY <1>0, <1>3 DEF RunOK
  <2> QED BY <1>3, <2>1, Bounds DEF ClaimKept, SameClaim
<1>4. CASE IsTaken(x)
  <2>1. PICK q \in Procs : TakenBy(q, x)
    BY <1>4 DEF IsTaken
  <2>2. SUFFICES ASSUME q = p PROVE FALSE
    BY <2>1 DEF TakenBy
  <2>3. PICK b \in Accounts : Run(p, b).pc = "next" /\ Item(p, b) = x /\ run'[p][b].pc = "work"
    BY <1>0, <1>1, <2>1, <2>2 DEF TakenBy
  <2>4. b = a
    BY <1>1, <2>3, ItemFacts
  <2>5. Run(p, a).items[Run(p, a).i] = Run(p, a).items[j]
    BY <2>3, <2>4 DEF Item
  <2>6. Run(p, a).i = j
    BY <1>0, <2>5 DEF ItemsOK
  <2> QED BY <2>3, <2>4, <2>6
<1> QED BY <1>2, <1>3, <1>4
\* What other sessions cannot do to the item of a session.
LEMMA Undisturbed ==
  ASSUME SInv, Typed', Step, NEW p \in Procs, NEW a \in Accounts, NEW t, t = Item(p, a), t \in Publish,
         run'[p][a].pc # "idle"
  PROVE  /\ Before1(p, a) /\ run'[p][a].pc # "armed" /\ Status(t)' \in Live /\ task'[t].conf = 0 => ~Committed(t)'
         /\ Sent(p, a) => Committed(t)'
         /\ Run(p, a).pc = "armed" /\ run'[p][a].pc = "armed" => task'[t].conf = 0
         /\ Run(p, a).pc \in {"armed", "ready"} /\ run'[p][a].pc \in {"armed", "ready"} => clicks'[t] = 0
<1>0. RunOK(p, a) /\ RowStep(t) /\ t \in Tasks /\ Clicks
  BY DEF SInv, Step, Publish
<1>s. \A q \in Procs, b \in Accounts : Sent(p, a) /\ Sent(q, b) /\ Item(q, b) = t => q = p /\ b = a
  BY DEF SInv, OneSender
<1>1. ASSUME Before1(p, a), run'[p][a].pc # "armed", Status(t)' \in Live, task'[t].conf = 0, Committed(t)'
      PROVE  FALSE
  <2>1. On(p, a)
    BY <1>1 DEF Before1
  <2>2. Status(t) \in Live /\ task[t].conf = 0
    BY <1>1, <2>1, BegunKept
  <2>3. ~Committed(t)
    BY <1>0, <1>1, <2>2 DEF RunOK
  <2>4. IsArmed(t)
    BY <1>0, <1>1, <2>3, RowMonotone
  <2>5. PICK q \in Procs, b \in Accounts : Run(q, b).pc = "work" /\ Item(q, b) = t /\ run'[q][b].pc = "armed"
    BY <2>4 DEF IsArmed
  <2>6. p = q /\ a = b
    BY <2>1, <2>2, <2>5, ArmFacts
  <2> QED BY <1>1, <2>5, <2>6
<1>2. ASSUME Sent(p, a) PROVE Committed(t)'
  <2>1. Committed(t)
    BY <1>0, <1>2 DEF RunOK
  <2> QED BY <1>0, <2>1, RowMonotone
<1>3. ASSUME Run(p, a).pc = "armed", run'[p][a].pc = "armed" PROVE task'[t].conf = 0
  <2>1. task[t].conf = 0 /\ task'[t].conf \in Nat /\ Status(t) # "none" /\ Sent(p, a)
    <3>1. task[t].conf = 0 /\ Sent(p, a)
      BY <1>0, <1>3 DEF RunOK, Sent
    <3>2. task'[t].conf \in Nat
      BY <1>0, Bounds DEF Typed, RowType
    <3>3. Status(t) # "none"
      BY <1>3, ItemFacts
    <3> QED BY <3>1, <3>2, <3>3
  <2>2. ~IsConfirmed(t)
    <3>1. SUFFICES ASSUME NEW q \in Procs, NEW b \in Accounts, Run(q, b).pc = "armed", Item(q, b) = t,
                          run'[q][b].pc = "ready"
                   PROVE  FALSE
      BY DEF IsConfirmed
    <3>2. Sent(q, b)
      BY <3>1 DEF Sent
    <3> QED BY <1>s, <1>3, <2>1, <3>1, <3>2
  <2>3. ~\E q \in Procs, b \in Accounts : Run(q, b).pc = "posted" /\ Item(q, b) = t
    <3>1. SUFFICES ASSUME NEW q \in Procs, NEW b \in Accounts, Run(q, b).pc = "posted", Item(q, b) = t PROVE FALSE
      OBVIOUS
    <3>2. Sent(q, b)
      BY <3>1 DEF Sent
    <3> QED BY <1>s, <1>3, <2>1, <3>1, <3>2
  <2> QED BY <1>0, <2>1, <2>2, <2>3, RowMonotone
<1>4. ASSUME Run(p, a).pc \in {"armed", "ready"}, run'[p][a].pc \in {"armed", "ready"} PROVE clicks'[t] = 0
  <2>1. clicks[t] = 0 /\ Sent(p, a)
    BY <1>0, <1>4 DEF RunOK, Sent
  <2>2. ASSUME NEW q \in Procs, NEW b \in Accounts, Sent(q, b), Item(q, b) = t, run'[q][b].pc \in {"posted", "clicked"}
        PROVE  FALSE
    BY <1>s, <1>4, <2>1, <2>2
  <2> QED BY <1>0, <2>1, <2>2, ClickFacts
<1> QED BY <1>1, <1>2, <1>3, <1>4

\* A session that stays with its items.
LEMMA PlaceKept ==
  ASSUME SInv, Typed', Step, NEW p \in Procs, NEW a \in Accounts, Run(p, a).pc # "idle", NEW r, r = run'[p][a],
         r.items = Run(p, a).items, r.pc \notin {"claimed", "start"} \/ Waits(p, a)
  PROVE  /\ up'[p] = "down" => r.pc = "idle"
         /\ NextItems(r, a)
<1>0. ItemsOK(p, a) /\ Run(p, a).items \in Seq(Tasks) /\ up[p] # "down"
  BY ItemFacts DEF SInv, RunOK
<1>1. up'[p] = "down" => r.pc = "idle"
  BY <1>0 DEF Step, Quits, Idle
<1>2. ASSUME NEW j \in DOMAIN r.items PROVE Account[r.items[j]] = a /\ Status(r.items[j])' # "none"
  <2>1. r.items[j] \in Tasks /\ Account[r.items[j]] = a /\ Status(r.items[j]) # "none"
    BY <1>0 DEF ItemsOK
  <2>2. RowStep(r.items[j])
    BY <2>1 DEF Step
  <2>3. Status(r.items[j])' # "none"
    BY <2>1, <2>2, RowMonotone
  <2> QED BY <2>1, <2>3
<1>3. \A j, k \in DOMAIN r.items : r.items[j] = r.items[k] => j = k
  BY <1>0 DEF ItemsOK
<1>4. /\ r.pc = "claimed" => r.i = 1 /\ Len(r.items) = 1
      /\ r.pc = "start" => r.i = 1
  BY <1>0 DEF ItemsOK, Waits, SamePlace, Run
<1> QED BY <1>1, <1>2, <1>3, <1>4 DEF NextItems

LEMMA WaitsKept ==
  ASSUME SInv, Typed', Step, NEW p \in Procs, NEW a \in Accounts, Waits(p, a)
  PROVE  RunOK(p, a)'
<1>1. PICK r : r = run'[p][a]
  OBVIOUS
<1>2. r.items = Run(p, a).items /\ r.i = Run(p, a).i /\ r.pc = Run(p, a).pc
  BY <1>1 DEF Waits, SamePlace, Run
<1>3. PICK t : t = r.items[r.i]
  OBVIOUS
<1>4. t = Item(p, a) /\ (Begun(r) <=> On(p, a)) /\ \A j \in DOMAIN r.items : StillAhead(r, j) <=> Ahead(p, a, j)
  BY <1>2, <1>3 DEF Item, Begun, On, StillAhead, Ahead
<1>5. CASE r.pc = "idle"
  <2>1. ~Begun(r) /\ \A j : ~StillAhead(r, j)
    BY <1>5 DEF Begun, StillAhead
  <2>2. NextBegun(r, p, t) /\ NextArms(r, t) /\ NextAhead(r, p)
    BY <1>5, <2>1 DEF NextBegun, NextArms, NextAhead
  <2> QED BY <1>1, <1>3, <1>5, <2>2, RunNext
<1>6. CASE r.pc # "idle"
  <2>1. (up'[p] = "down" => r.pc = "idle") /\ NextItems(r, a)
    BY <1>1, <1>2, <1>6, PlaceKept
  <2>2. NextBegun(r, p, t)
    BY <1>1, <1>4, <1>6, BegunKept DEF NextBegun
  <2>3. NextArms(r, t)
    <3>1. /\ Run(p, a).pc = "clicked" => t \notin Publish
          /\ Run(p, a).pc = "ready" => Kind[t] = "threads"
      BY <1>4 DEF SInv, RunOK
    <3>2. CASE t \in Publish
      <4>1. /\ Before1(p, a) /\ run'[p][a].pc # "armed" /\ Status(t)' \in Live /\ task'[t].conf = 0 => ~Committed(t)'
            /\ Sent(p, a) => Committed(t)'
            /\ Run(p, a).pc = "armed" /\ run'[p][a].pc = "armed" => task'[t].conf = 0
            /\ Run(p, a).pc \in {"armed", "ready"} /\ run'[p][a].pc \in {"armed", "ready"} => clicks'[t] = 0
        BY <1>1, <1>4, <1>6, <3>2, Undisturbed
      <4> QED BY <1>1, <1>2, <1>4, <3>1, <4>1 DEF NextArms, Before1, Sent
    <3>3. CASE t \notin Publish
      BY <1>2, <3>1, <3>3 DEF NextArms
    <3> QED BY <3>2, <3>3
  <2>4. NextAhead(r, p)
    <3>1. SUFFICES ASSUME NEW j \in DOMAIN r.items, StillAhead(r, j), Status(r.items[j])' \in Live
                   PROVE  lease'[r.items[j]].by # p
      BY DEF NextAhead
    <3>2. PICK x : x = r.items[j]
      OBVIOUS
    <3>3. j \in DOMAIN Run(p, a).items /\ Ahead(p, a, j) /\ x = Run(p, a).items[j] /\ Status(x)' \in Live
          /\ ~(Run(p, a).pc = "next" /\ j = Run(p, a).i /\ run'[p][a].pc = "work")
      BY <1>1, <1>2, <1>4, <3>1, <3>2
    <3>4. lease'[x].by # p
      BY <3>3, AheadKept
    <3> QED BY <3>2, <3>4
  <2> QED BY <1>1, <1>3, <2>1, <2>2, <2>3, <2>4, RunNext
<1> QED BY <1>5, <1>6
LEMMA BeginsKept ==
  ASSUME SInv, Typed', Step, NEW p \in Procs, NEW a \in Accounts, Begins(p, a)
  PROVE  RunOK(p, a)'
<1>1. PICK r : r = run'[p][a]
  OBVIOUS
<1>2. PICK t \in Tasks :
        /\ Account[t] = a /\ Status(t) = "queued" /\ \A x \in Before(t) : Status(x) = "success"
        /\ r = [pc |-> "claimed", items |-> <<t>>, i |-> 1, stop |-> FALSE]
        /\ task'[t] = With(task[t], "running") /\ lease'[t].by = p
  BY <1>1 DEF Begins
<1>3. r.pc = "claimed" /\ r.items = <<t>> /\ r.i = 1 /\ DOMAIN r.items = {1} /\ t = r.items[r.i] /\ Len(r.items) = 1
  BY <1>2
<1>4. /\ task'[t].status = "running" /\ task'[t].mark = task[t].mark /\ task'[t].conf = task[t].conf
  BY <1>2, RowHelpers DEF SInv, Typed, Statuses, Active
<1>5. up'[p] # "down"
  BY <1>1, <1>3 DEF Begins, Step, Quits, Idle
<1>6. NextItems(r, a)
  BY <1>2, <1>3, <1>4 DEF NextItems, Status
<1>7. NextBegun(r, p, t)
  <2>1. ASSUME NEW x \in Before(t) PROVE Status(x)' \in {"success", "deleted"}
    <3>1. x \in Tasks /\ Status(x) = "success"
      BY <1>2, BatchSides
    <3> QED BY <3>1, RowMonotone DEF Step
  <2> QED BY <1>2, <1>4, <2>1 DEF NextBegun, Status
<1>8. NextArms(r, t)
  <2>1. t \in Publish /\ task'[t].conf = 0 => ~Committed(t)'
    BY <1>2, <1>4 DEF SInv, RowOK, Committed
  <2> QED BY <1>3, <2>1 DEF NextArms
<1>9. NextAhead(r, p)
  BY <1>3 DEF NextAhead, StillAhead
<1> QED BY <1>1, <1>3, <1>5, <1>6, <1>7, <1>8, <1>9, RunNext

LEMMA ExtendsKept ==
  ASSUME SInv, Typed', Step, NEW p \in Procs, NEW a \in Accounts, Extends(p, a)
  PROVE  RunOK(p, a)'
<1>1. PICK r : r = run'[p][a]
  OBVIOUS
<1>2. /\ Run(p, a).pc = "claimed" /\ r.pc = "start" /\ r.i = Run(p, a).i
      /\ Len(r.items) >= 1 /\ r.items[1] = Item(p, a)
      /\ \A j, k \in DOMAIN r.items : r.items[j] = r.items[k] => j = k
      /\ \A j \in DOMAIN r.items : r.items[j] \in Tasks /\ Account[r.items[j]] = a
      /\ \A j \in DOMAIN r.items : j > 1 => Status(r.items[j]) = "queued"
      /\ task' = task
  BY <1>1 DEF Extends
<1>3. r.i = 1 /\ Status(Item(p, a)) # "none" /\ up[p] # "down"
  BY <1>2, ItemFacts DEF ItemsOK, SInv, RunOK
<1>4. DOMAIN r.items = 1..Len(r.items) /\ Len(r.items) \in Nat
  BY <1>1 DEF Typed, Run, RunType
<1>5. PICK t : t = r.items[r.i] /\ t = Item(p, a)
  BY <1>2, <1>3
<1>6. up'[p] # "down"
  BY <1>1, <1>2, <1>3 DEF Step, Quits, Idle
<1>7. NextItems(r, a)
  <2>1. ASSUME NEW j \in DOMAIN r.items PROVE Status(r.items[j])' # "none"
    <3>1. j = 1 \/ j > 1
      BY <1>4
    <3>2. Status(r.items[j]) # "none"
      BY <1>2, <1>3, <3>1
    <3> QED BY <1>2, <3>2 DEF Status
  <2> QED BY <1>2, <1>3, <2>1 DEF NextItems
<1>8. On(p, a) /\ Before1(p, a)
  BY <1>2 DEF On, Before1
<1>9. NextBegun(r, p, t)
  BY <1>1, <1>2, <1>5, <1>8, BegunKept DEF NextBegun
<1>10. NextArms(r, t)
  <2>1. t \in Publish /\ Status(t)' \in Live /\ task'[t].conf = 0 => ~Committed(t)'
    BY <1>1, <1>2, <1>5, <1>8, Undisturbed
  <2> QED BY <1>2, <2>1 DEF NextArms
<1>11. NextAhead(r, p)
  <2>1. ASSUME NEW j \in DOMAIN r.items, StillAhead(r, j), Status(r.items[j])' \in Live PROVE FALSE
    <3>1. j > 1
      BY <1>3, <1>4, <2>1 DEF StillAhead
    <3>2. Status(r.items[j])' = "queued"
      BY <1>2, <3>1 DEF Status
    <3> QED BY <2>1, <3>2 DEF Live
  <2> QED BY <2>1 DEF NextAhead
<1> QED BY <1>1, <1>5, <1>6, <1>7, <1>9, <1>10, <1>11, RunNext

LEMMA GoesOnKept ==
  ASSUME SInv, Typed', Step, NEW p \in Procs, NEW a \in Accounts, GoesOn(p, a)
  PROVE  RunOK(p, a)'
<1>1. PICK r : r = run'[p][a]
  OBVIOUS
<1>2. /\ Run(p, a).pc \in {"posted", "work"} /\ r.pc = "next" /\ r.items = Run(p, a).items /\ r.i = Run(p, a).i + 1
  BY <1>1 DEF GoesOn, Run
<1>3. PICK t : t = r.items[r.i]
  OBVIOUS
<1>4. Run(p, a).i \in 1..Len(r.items) /\ DOMAIN r.items = 1..Len(r.items) /\ Len(r.items) \in Nat
  BY <1>2, ItemFacts
<1>5. r.i \in Nat /\ r.i > 1
  BY <1>2, <1>4
<1>6. (up'[p] = "down" => r.pc = "idle") /\ NextItems(r, a)
  BY <1>1, <1>2, PlaceKept
<1>7. ~Begun(r)
  BY <1>2, <1>5 DEF Begun
<1>8. NextBegun(r, p, t) /\ NextArms(r, t)
  BY <1>2, <1>7 DEF NextBegun, NextArms
<1>9. NextAhead(r, p)
  <2>1. SUFFICES ASSUME NEW j \in DOMAIN r.items, StillAhead(r, j), Status(r.items[j])' \in Live
                 PROVE  lease'[r.items[j]].by # p
    BY DEF NextAhead
  <2>2. PICK x : x = r.items[j]
    OBVIOUS
  <2>3. j > Run(p, a).i
    BY <1>2, <1>4, <1>5, <2>1 DEF StillAhead
  <2>4. Ahead(p, a, j) /\ j \in DOMAIN Run(p, a).items
    BY <1>2, <2>3 DEF Ahead
  <2>5. lease'[x].by # p
    BY <1>2, <2>1, <2>2, <2>4, AheadKept
  <2> QED BY <2>2, <2>5
<1> QED BY <1>1, <1>3, <1>6, <1>8, <1>9, RunNext

LEMMA MovesKept ==
  ASSUME SInv, Typed', Step, NEW p \in Procs, NEW a \in Accounts, Moves(p, a)
  PROVE  RunOK(p, a)'
<1>1. PICK r : r = run'[p][a]
  OBVIOUS
<1>2. r.items = Run(p, a).items /\ r.i = Run(p, a).i /\ Run(p, a).pc # "idle"
  BY <1>1 DEF Moves, SamePlace, Run
<1>3. PICK t : t = r.items[r.i] /\ t = Item(p, a)
  BY <1>2 DEF Item
<1>4. t \in Tasks /\ RunOK(p, a) /\ ItemsOK(p, a) /\ RowStep(t) /\ Clicks /\ RowOK(t) /\ Status(t) # "none"
  BY <1>2, <1>3, ItemFacts DEF SInv, Step
<1>5. \/ r.pc \in {"raised", "leaving"}
      \/ Run(p, a).pc = "start" /\ r.pc \in {"next", "work"}
      \/ Run(p, a).pc = "next" /\ r.pc = "work" /\ MayMark(p, t) /\ Status(t)' \in Live /\ lease'[t].by = p
         /\ task'[t].mark = task[t].mark /\ task'[t].conf = task[t].conf
      \/ Run(p, a).pc = "work" /\ r.pc = "armed" /\ IsArmed(t)
      \/ Run(p, a).pc = "armed" /\ r.pc = "ready" /\ IsConfirmed(t)
      \/ Run(p, a).pc = "ready" /\ r.pc = "posted"
      \/ Run(p, a).pc = "armed" /\ r.pc = "posted"
      \/ Run(p, a).pc \in {"armed", "clicked"} /\ r.pc \in {"clicked", "posted"} /\ t \notin Publish
  <2>1. Item(p, a)' = t
    BY <1>1, <1>3 DEF Item, Run
  <2> QED BY <1>1, <1>3, <2>1 DEF Moves, IsArmed, IsConfirmed, SameClaim, Status
<1>6. r.pc \notin {"idle", "claimed", "start"}
  BY <1>5
<1>7. (up'[p] = "down" => r.pc = "idle") /\ NextItems(r, a)
  BY <1>1, <1>2, <1>6, PlaceKept
<1>8. NextAhead(r, p)
  <2>1. SUFFICES ASSUME NEW j \in DOMAIN r.items, StillAhead(r, j), Status(r.items[j])' \in Live
                 PROVE  lease'[r.items[j]].by # p
    BY DEF NextAhead
  <2>2. PICK x : x = r.items[j]
    OBVIOUS
  <2>3. Run(p, a).i \in Nat /\ j \in Nat /\ (Run(p, a).pc = "start" => Run(p, a).i = 1)
    <3>1. r.items \in Seq(Tasks) /\ Run(p, a).i \in DOMAIN r.items
      BY <1>2, ItemFacts
    <3> QED BY <1>4, <3>1 DEF ItemsOK
  <2>4. j > Run(p, a).i
    BY <1>2, <1>5, <2>1, <2>3 DEF StillAhead
  <2>5. Ahead(p, a, j) /\ j \in DOMAIN Run(p, a).items
    BY <1>2, <1>5, <2>1, <2>4 DEF Ahead, StillAhead
  <2>6. lease'[x].by # p
    BY <1>2, <2>1, <2>2, <2>3, <2>4, <2>5, AheadKept
  <2> QED BY <2>2, <2>6
<1>9. CASE On(p, a)
  <2>1. NextBegun(r, p, t)
    BY <1>1, <1>3, <1>6, <1>9, BegunKept DEF NextBegun
  <2>2. ASSUME t \in Publish
        PROVE  /\ Before1(p, a) /\ r.pc # "armed" /\ Status(t)' \in Live /\ task'[t].conf = 0 => ~Committed(t)'
               /\ Sent(p, a) => Committed(t)'
               /\ Run(p, a).pc \in {"armed", "ready"} /\ r.pc \in {"armed", "ready"} => clicks'[t] = 0
    BY <1>1, <1>3, <1>6, <2>2, Undisturbed
  <2>3. ASSUME t \in Publish, r.pc = "armed"
        PROVE  Committed(t)' /\ task'[t].conf = 0 /\ clicks'[t] = 0
    <3>1. Run(p, a).pc = "work" /\ IsArmed(t)
      BY <1>5, <2>3
    <3>2. Status(t) \in Live /\ task[t].conf = 0 /\ task'[t].conf = task[t].conf /\ task'[t].mark = "submitted"
      BY <2>3, <3>1 DEF IsArmed
    <3>3. ~Committed(t)
      BY <1>3, <2>3, <3>1, <3>2, ArmFacts
    <3>4. clicks[t] = 0 /\ clicks'[t] = clicks[t]
      <4>1. clicks[t] \in Nat
        BY <1>4 DEF SInv, Typed
      <4>2. ~(clicks[t] > 0)
        BY <1>4, <2>3, <3>3 DEF RowOK
      <4>3. clicks'[t] = clicks[t]
        BY <1>4, <2>3, <3>3, ClickFacts
      <4> QED BY <4>1, <4>2, <4>3
    <3> QED BY <3>2, <3>4 DEF Committed
  <2>4. /\ r.pc = "ready" => Run(p, a).pc = "armed" /\ Kind[t] = "threads"
        /\ r.pc = "clicked" => t \notin Publish
        /\ r.pc = "posted" /\ t \in Publish => Sent(p, a)
        /\ r.pc \in {"next", "work"} => Run(p, a).pc \in {"start", "next"}
    BY <1>5 DEF IsConfirmed, Sent
  <2>5. Run(p, a).pc = "armed" => Sent(p, a)
    BY DEF Sent
  <2>6. Run(p, a).pc \in {"start", "next"} => Before1(p, a)
    BY <1>9 DEF Before1
  <2>7. NextArms(r, t)
    <3>1. CASE t \notin Publish
      BY <2>4, <3>1 DEF NextArms
    <3>2. CASE t \in Publish
      <4>1. CASE r.pc \in {"next", "work"}
        BY <2>2, <2>4, <2>6, <3>2, <4>1 DEF NextArms
      <4>2. CASE r.pc = "armed"
        BY <2>3, <3>2, <4>2 DEF NextArms
      <4>3. CASE r.pc = "ready"
        BY <2>2, <2>4, <2>5, <3>2, <4>3 DEF NextArms
      <4>4. CASE r.pc = "posted"
        BY <2>2, <2>4, <3>2, <4>4 DEF NextArms
      <4>5. CASE r.pc \in {"raised", "leaving", "clicked"}
        BY <2>4, <3>2, <4>5 DEF NextArms, Begun
      <4> QED BY <1>5, <4>1, <4>2, <4>3, <4>4, <4>5
    <3> QED BY <3>1, <3>2
  <2> QED BY <1>1, <1>3, <1>7, <1>8, <2>1, <2>7, RunNext
<1>10. CASE ~On(p, a)
  <2>1. Run(p, a).pc \in {"next", "raised", "leaving"} /\ (Run(p, a).pc = "next" => Run(p, a).i # 1)
    <3>1. Run(p, a).pc \in Pcs
      BY DEF SInv, Typed, Run, RunType
    <3> QED BY <1>2, <1>10, <3>1 DEF On, Pcs
  <2>2. CASE r.pc \in {"raised", "leaving"}
    <3>1. ~Begun(r)
      BY <2>2 DEF Begun
    <3>2. NextBegun(r, p, t) /\ NextArms(r, t)
      BY <2>2, <3>1 DEF NextBegun, NextArms
    <3> QED BY <1>1, <1>3, <1>7, <1>8, <3>2, RunNext
  <2>3. CASE r.pc \notin {"raised", "leaving"}
    <3>1. /\ Run(p, a).pc = "next" /\ r.pc = "work" /\ MayMark(p, t) /\ Status(t)' \in Live /\ lease'[t].by = p
          /\ task'[t].mark = task[t].mark /\ task'[t].conf = task[t].conf
      BY <1>5, <2>1, <2>3
    <3>2. Ahead(p, a, Run(p, a).i)
      <4>1. Run(p, a).i \in DOMAIN Run(p, a).items /\ Run(p, a).items \in Seq(Tasks)
        BY <1>2, ItemFacts
      <4>2. Run(p, a).i > 1
        BY <2>1, <3>1, <4>1
      <4> QED BY <3>1, <4>1, <4>2 DEF Ahead
    <3>3. ~(Status(t) \in Live /\ lease[t].by = p)
      BY <1>3, <1>4, <3>2 DEF RunOK, Item, Ahead
    <3>4. Status(t) = "queued" /\ \A x \in Before(t) : Status(x) = "success"
      BY <3>1, <3>3 DEF MayMark
    <3>5. NextBegun(r, p, t)
      <4>1. ASSUME NEW x \in Before(t) PROVE Status(x)' \in {"success", "deleted"}
        <5>1. x \in Tasks /\ Status(x) = "success"
          BY <1>4, <3>4, BatchSides
        <5> QED BY <5>1, RowMonotone DEF Step
      <4> QED BY <3>1, <4>1 DEF NextBegun, Live
    <3>6. NextArms(r, t)
      <4>1. t \in Publish /\ task'[t].conf = 0 => ~Committed(t)'
        BY <1>4, <3>1, <3>4 DEF RowOK, Committed
      <4> QED BY <3>1, <4>1 DEF NextArms
    <3> QED BY <1>1, <1>3, <1>7, <1>8, <3>5, <3>6, RunNext
  <2> QED BY <2>2, <2>3
<1> QED BY <1>9, <1>10

LEMMA RunKept ==
  ASSUME SInv, Typed', Step, NEW p \in Procs, NEW a \in Accounts
  PROVE  RunOK(p, a)'
<1>1. RunStep(p, a)
  BY DEF Step
<1>2. CASE Ends(p, a)
  <2>1. PICK r : r = run'[p][a]
    OBVIOUS
  <2>2. r.pc = "idle"
    BY <1>2, <2>1 DEF Ends, Idle
  <2>3. PICK t : t = r.items[r.i]
    OBVIOUS
  <2>4. ~Begun(r) /\ \A j : ~StillAhead(r, j)
    BY <2>2 DEF Begun, StillAhead
  <2>5. NextBegun(r, p, t) /\ NextArms(r, t) /\ NextAhead(r, p)
    BY <2>2, <2>4 DEF NextBegun, NextArms, NextAhead
  <2> QED BY <2>1, <2>2, <2>3, <2>5, RunNext
<1> QED BY <1>1, <1>2, WaitsKept, BeginsKept, ExtendsKept, MovesKept, GoesOnKept DEF RunStep
\* Only the confirmation context, saved under the lock, makes a Threads post
\* ready to go out; a row that is looked for or has ended never gets there.
LEMMA UnsentKept ==
  ASSUME SInv, Typed', Step, NEW x \in Tasks, Kind[x] = "threads", Unsent(x)
  PROVE  /\ Unsent(x)' \/ IsConfirmed(x)
         /\ task[x].conf > 0 \/ Status(x) \in Final \cup {"deleted"} => Unsent(x)'
<1>0. x \in Publish /\ clicks[x] = 0 /\ ~Ready(x) /\ clicks' \in [Tasks -> Nat] /\ Clicks
  BY DEF Publish, Unsent, Typed, Step
<1>1. clicks'[x] = 0
  <2>1. CASE clicks'[x] = clicks[x]
    BY <1>0, <2>1
  <2>2. ASSUME NEW p \in Procs, NEW a \in Accounts, Item(p, a) = x, Run(p, a).pc = "ready" PROVE FALSE
    BY <1>0, <2>2 DEF Ready
  <2> QED BY <1>0, <2>1, <2>2, ClickFacts
<1>2. ASSUME Ready(x)' PROVE IsConfirmed(x)
  <2>1. PICK p \in Procs, a \in Accounts : run'[p][a].pc = "ready" /\ Item(p, a)' = x
    BY <1>2 DEF Ready, Run
  <2>2. Sent(p, a)'
    BY <2>1 DEF Sent, Run
  <2>3. Item(p, a) = x /\ Sent(p, a)
    BY <1>0, <2>1, <2>2, SentFacts
  <2>4. RunStep(p, a) /\ Run(p, a).pc # "ready"
    BY <1>0, <2>3 DEF Ready, Step
  <2>5. Moves(p, a)
    <3>1. ~Waits(p, a) /\ ~Extends(p, a) /\ ~GoesOn(p, a) /\ ~Ends(p, a)
      BY <2>1, <2>4 DEF Waits, Extends, GoesOn, Ends, Idle, Run
    <3>2. Run(p, a).pc # "idle"
      BY <2>3 DEF Sent
    <3> QED BY <2>4, <3>1, <3>2 DEF RunStep, Begins
  <2>6. IsConfirmed(Item(p, a))
    BY <2>1, <2>3, <2>4, <2>5 DEF Moves
  <2> QED BY <2>1, <2>3, <2>6 DEF IsConfirmed, SameClaim, Status
<1>3. ASSUME IsConfirmed(x) PROVE task[x].conf = 0 /\ Status(x) = "running"
  <2>1. PICK p \in Procs, a \in Accounts : Run(p, a).pc = "armed" /\ Item(p, a) = x
    BY <1>3 DEF IsConfirmed
  <2>2. RunOK(p, a) /\ Status(x) = "running"
    BY <1>3 DEF SInv, IsConfirmed
  <2> QED BY <1>0, <2>1, <2>2 DEF RunOK
<1>4. Unsent(x)' \/ IsConfirmed(x)
  BY <1>1, <1>2 DEF Unsent
<1> QED BY <1>3, <1>4 DEF Final

LEMMA LooksKept ==
  ASSUME SInv, Typed', Step, NEW x \in Tasks, Kind[x] = "threads"
  PROVE  /\ Looks(x) => Looks(x)'
         /\ Unsent(x) /\ Looks(x) => Unsent(x)'
         /\ Cold(x) => Cold(x)'
         /\ (~Unsent(x) => Looks(x)) => (~Unsent(x)' => Looks(x)')
<1>1. /\ Status(x) \in {"success", "deleted"} => Status(x)' \in {"success", "deleted"}
      /\ Status(x) \in Final \cup {"deleted"} => Status(x)' \in Final \cup {"deleted"}
      /\ task[x].conf > 0 => task'[x].conf > 0 \/ Status(x)' = "success"
  BY RowMonotone DEF Step
<1>2. Looks(x) => Looks(x)'
  BY <1>1 DEF Looks
<1>3. Unsent(x) /\ Looks(x) => Unsent(x)'
  BY UnsentKept DEF Looks, Final
<1>4. ASSUME Cold(x) PROVE Cold(x)'
  <2>1. Unsent(x) /\ (task[x].conf > 0 \/ Status(x) \in Final \cup {"deleted"})
    BY <1>4 DEF Cold
  <2>2. Unsent(x)'
    BY <2>1, UnsentKept
  <2> QED BY <1>1, <2>1, <2>2 DEF Cold, Final
<1>5. ASSUME ~Unsent(x) => Looks(x), ~Unsent(x)' PROVE Looks(x)'
  <2>1. CASE Unsent(x)
    <3>1. IsConfirmed(x)
      BY <1>5, <2>1, UnsentKept
    <3> QED BY <3>1 DEF IsConfirmed, Looks
  <2> QED BY <1>2, <1>5, <2>1
<1> QED BY <1>2, <1>3, <1>4, <1>5

LEMMA RetryKept ==
  ASSUME SInv, Typed', Step, NEW u \in Tasks
  PROVE  RetryOK(u)'
<1>0. RetryOK(u) /\ post \in [Tasks -> SUBSET Tasks] /\ Posts
  BY DEF SInv, Typed, Step
<1>1. ASSUME post'[u] = post[u] PROVE RetryOK(u)'
  <2>1. ASSUME NEW x \in post[u], x # u PROVE Status(x)' # "none" /\ Kind[x] = Kind[u]
    <3>1. x \in Tasks /\ Status(x) # "none" /\ Kind[x] = Kind[u]
      BY <1>0, <2>1 DEF RetryOK
    <3> QED BY <3>1, RowMonotone DEF Step
  <2>2. ASSUME Kind[u] = "threads" PROVE ~Unsent(u)' => Looks(u)'
    <3>1. ~Unsent(u) => Looks(u)
      BY <1>0, <2>2 DEF RetryOK
    <3> QED BY <2>2, <3>1, LooksKept
  <2>3. ASSUME Kind[u] = "threads", NEW x \in post[u] \ {u} PROVE Cold(x)' \/ (Unsent(u)' /\ Looks(u)')
    <3>1. x \in Tasks /\ Kind[x] = "threads"
      BY <1>0, <2>3 DEF RetryOK
    <3>2. Cold(x) \/ (Unsent(u) /\ Looks(u))
      BY <1>0, <2>3 DEF RetryOK
    <3> QED BY <2>3, <3>1, <3>2, LooksKept
  <2> QED BY <1>1, <2>1, <2>2, <2>3 DEF RetryOK
<1>2. ASSUME post'[u] # post[u] PROVE RetryOK(u)'
  <2>1. PICK t \in Tasks, n \in Tasks :
          /\ Status(t) = "failed" /\ Status(n) = "none" /\ Kind[n] = Kind[t]
          /\ task'[n].conf = task[t].conf /\ task'[n].status = "queued" /\ post' = [post EXCEPT ![n] = @ \cup post[t]]
    BY <1>2, <1>0 DEF Posts
  <2>2. u = n /\ post'[n] = post[n] \cup post[t]
    BY <1>0, <1>2, <2>1
  <2>3. post[n] = {n} /\ clicks[n] = 0 /\ RetryOK(t)
    BY <2>1 DEF SInv, RowOK
  <2>4. ASSUME NEW x \in post[t] PROVE x \in Tasks /\ Status(x) # "none" /\ Status(x)' # "none" /\ Kind[x] = Kind[n]
    <3>1. x \in Tasks /\ Status(x) # "none" /\ Kind[x] = Kind[n]
      BY <1>0, <2>1, <2>3, <2>4 DEF RetryOK
    <3> QED BY <3>1, RowMonotone DEF Step
  <2>5. ASSUME Kind[n] = "threads" PROVE Unsent(n)'
    <3>1. ~Ready(n)
      BY <2>1, ItemFacts DEF Ready
    <3>2. ~IsConfirmed(n)
      BY <2>1 DEF IsConfirmed
    <3> QED BY <2>1, <2>3, <2>5, <3>1, <3>2, UnsentKept DEF Unsent
  <2>6. ASSUME Kind[n] = "threads", NEW x \in post[t] PROVE Cold(x)' \/ (Unsent(n)' /\ Looks(n)')
    <3>1. CASE task[t].conf > 0
      BY <2>1, <2>5, <2>6, <3>1 DEF Looks
    <3>2. CASE ~(task[t].conf > 0)
      <4>1. ~Looks(t)
        BY <2>1, <3>2 DEF Looks
      <4>2. Unsent(t) /\ \A y \in post[t] \ {t} : Cold(y)
        BY <2>1, <2>3, <2>6, <4>1 DEF RetryOK
      <4>3. Cold(x)
        <5>1. CASE x = t
          BY <2>1, <4>2, <5>1 DEF Cold, Final
        <5>2. CASE x # t
          BY <4>2, <5>2
        <5> QED BY <5>1, <5>2
      <4>4. x \in Tasks /\ Kind[x] = "threads"
        BY <2>4, <2>6
      <4> QED BY <4>3, <4>4, LooksKept
    <3> QED BY <3>1, <3>2
  <2>7. /\ \A x \in post'[n] : x = n \/ (Status(x)' # "none" /\ Kind[x] = Kind[n])
        /\ Kind[n] = "threads" =>
             /\ ~Unsent(n)' => Looks(n)'
             /\ \A x \in post'[n] \ {n} : Cold(x)' \/ (Unsent(n)' /\ Looks(n)')
    BY <2>2, <2>3, <2>4, <2>5, <2>6
  <2> QED BY <2>2, <2>7 DEF RetryOK
<1> QED BY <1>1, <1>2

\* The invariant is preserved by whatever the abstract step allows.
LEMMA StepKeeps ==
  ASSUME SInv, Typed', Step
  PROVE  SInv'
<1>1. \A x \in Tasks : RowOK(x)'
  BY RowKept
<1>2. \A x \in Tasks : RetryOK(x)'
  BY RetryKept
<1>3. \A p \in Procs, a \in Accounts : RunOK(p, a)'
  BY RunKept
<1>4. ClickedOnce' /\ Clearing' /\ OneSender'
  BY ClicksKept, OneSenderKept
<1> QED BY <1>1, <1>2, <1>3, <1>4 DEF SInv
-----------------------------------------------------------------------------
(* The transactions, as steps of the rows *)

RowsStep == RowsTyped' /\ \A x \in Tasks : RowStep(x) /\ HoldStep(x)

LEMMA RowFacts ==
  ASSUME SInv, NEW x \in Tasks
  PROVE  /\ RowsTyped /\ EnvTyped /\ task[x] \in RowType /\ slot[x] \in SlotType /\ hold[x] \in Holds
         /\ lease[x] \in ClaimType /\ day \in 0..LastDay /\ RowOK(x) /\ Exhausted(x) /\ x \in DOMAIN task
         /\ Status(x) = task[x].status /\ Status(x)' = task'[x].status /\ Status(x) \in Statuses
         /\ (Committed(x) <=> task[x].mark = "submitted") /\ (Committed(x)' <=> task'[x].mark = "submitted")
<1>1. RowsTyped /\ EnvTyped
  BY TypedParts DEF SInv
<1> QED BY <1>1 DEF RowsTyped, EnvTyped, SInv, Status, Committed, RowType, Statuses

LEMMA HoldFacts ==
  ASSUME NEW x \in Tasks
  PROVE  /\ \/ SettleOrRelease(x) = hold[x]
            \/ Committed(x) /\ SettleOrRelease(x) = Settle(hold[x])
            \/ ~Committed(x) /\ SettleOrRelease(x) = Release(hold[x])
         /\ ReleaseHold(x) = hold[x] \/ ReleaseHold(x) = Release(hold[x])
BY DEF SettleOrRelease, ReleaseHold

\* The points of a row that has ended.
LEMMA EndHold ==
  ASSUME NEW x \in Tasks, Status(x) # "none", Status(x)' \in Final \cup {"deleted"},
         \/ hold'[x] = hold[x] \/ hold'[x] = Settle(hold[x])
         \/ hold'[x] = Release(hold[x]) /\ Refunds(x)
         \/ hold'[x] = SettleOrRelease(x) /\ task'[x].mark = task[x].mark
  PROVE  HoldStep(x)
<1>1. Status(x)' \notin Active \cup {"none"}
  BY DEF Final, Active
<1>2. task'[x].mark = task[x].mark => (Committed(x)' <=> Committed(x))
  BY DEF Committed
<1>3. ~Committed(x)' => Refunds(x)
  BY DEF Refunds
<1>4. \/ hold'[x] = hold[x] \/ hold'[x] = Settle(hold[x])
      \/ hold'[x] = Release(hold[x]) /\ Refunds(x)
  BY <1>2, <1>3, HoldFacts
<1> QED BY <1>1, <1>4 DEF HoldStep

LEMMA RowsSame ==
  ASSUME SInv, UNCHANGED rows
  PROVE  RowsStep
<1>1. UNCHANGED <<task, slot, hold, lease, resv>>
  BY DEF rows
<1>2. RowsTyped'
  BY <1>1, TypedParts DEF SInv, RowsTyped, Exhausted, Status
<1>3. \A x \in Tasks : RowStep(x) /\ HoldStep(x)
  BY <1>1 DEF RowStep, HoldStep, Stays, SameRow, ClaimKept, SameClaim, Status
<1> QED BY <1>2, <1>3 DEF RowsStep

LEMMA FinishLateStep ==
  ASSUME SInv, NEW t \in Tasks, FinishLate(t)
  PROVE  RowsStep
<1>1. RowsTyped'
  BY FinishLateTyped, TypedParts DEF SInv
<1>2. ASSUME NEW x \in Tasks PROVE RowStep(x) /\ HoldStep(x)
  <2>0. hold[x] \in Holds /\ hold \in [Tasks -> Holds]
    BY RowFacts DEF RowsTyped
  <2>1. UNCHANGED <<task, slot, lease, resv>>
        /\ hold' = [hold EXCEPT ![t] = IF Status(t) \in {"failed", "cancelled"} THEN SettleOrRelease(t) ELSE @]
    BY DEF FinishLate
  <2>2. RowStep(x)
    BY <2>1 DEF RowStep, Stays, SameRow, ClaimKept, SameClaim
  <2>3. CASE hold'[x] = hold[x]
    <3>1. Status(x)' = Status(x)
      BY <2>1 DEF Status
    <3> QED BY <2>2, <2>3, <3>1 DEF HoldStep
  <2>4. CASE hold'[x] # hold[x]
    <3>1. hold'[x] = SettleOrRelease(x) /\ Status(x) \in {"failed", "cancelled"}
      BY <2>0, <2>1, <2>4
    <3>2. Status(x)' = Status(x) /\ task'[x].mark = task[x].mark
      BY <2>1 DEF Status
    <3> QED BY <2>2, <3>1, <3>2, EndHold DEF Final
  <2> QED BY <2>2, <2>3, <2>4
<1> QED BY <1>1, <1>2 DEF RowsStep

LEMMA CancelRowsStep ==
  ASSUME SInv, NEW ts, CancelRows(ts)
  PROVE  RowsStep
<1>1. RowsTyped'
  BY CancelRowsTyped, TypedParts DEF SInv, EnvTyped
<1>2. ASSUME NEW x \in Tasks PROVE RowStep(x) /\ HoldStep(x)
  <2>0. task[x] \in RowType /\ Status(x) = task[x].status /\ Status(x)' = task'[x].status
    BY RowFacts
  <2>1. CASE x \in ts /\ Status(x) \in Active
    <3>1. task'[x] = With(task[x], "cancelled") /\ slot'[x] = ReleaseSlot(slot[x]) /\ hold'[x] = SettleOrRelease(x)
      BY <2>1 DEF CancelRows
    <3>2. task'[x].status = "cancelled" /\ task'[x].mark = task[x].mark
      BY <2>0, <3>1, RowHelpers DEF Statuses, Final
    <3>3. HoldStep(x)
      BY <2>0, <2>1, <3>1, <3>2, EndHold DEF Final, Active
    <3> QED BY <2>1, <3>1, <3>3 DEF RowStep, IsCancelled
  <2>2. CASE ~(x \in ts /\ Status(x) \in Active)
    <3>1. task'[x] = task[x] /\ slot'[x] = slot[x] /\ hold'[x] = hold[x] /\ lease' = lease
      BY <2>2 DEF CancelRows
    <3> QED BY <2>0, <3>1 DEF RowStep, HoldStep, Stays, SameRow, ClaimKept, SameClaim
  <2> QED BY <2>1, <2>2
<1> QED BY <1>1, <1>2 DEF RowsStep

\* The rows a transaction leaves alone.
LEMMA Untouched ==
  ASSUME NEW x \in Tasks, task'[x] = task[x], slot'[x] = slot[x], hold'[x] = hold[x], lease'[x].by = lease[x].by
  PROVE  RowStep(x) /\ HoldStep(x)
BY DEF RowStep, HoldStep, Stays, SameRow, ClaimKept, SameClaim, Status

LEMMA RequeueRowStep ==
  ASSUME SInv, NEW t \in Publish, NEW r \in RowType, RequeueRow(t, r), r.conf > 0, r.conf # Attempts + 1,
         Status(t) \in Live, MayLook(t),
         \/ r.mark = task[t].mark /\ UNCHANGED slot
         \/ r.mark = "submitted" /\ slot' = [slot EXCEPT ![t] = SetSlot(@, "submitted")]
  PROVE  RowsStep
<1>0. t \in Tasks /\ task \in [Tasks -> RowType] /\ slot \in [Tasks -> SlotType] /\ lease \in [Tasks -> ClaimType]
      /\ RowsTyped /\ slot[t] \in SlotType /\ day \in 0..LastDay
  BY RowFacts DEF Publish, RowsTyped
<1>1. slot' \in [Tasks -> SlotType]
  BY <1>0, SlotHelpers DEF Spent
<1>2. RowsTyped'
  BY <1>0, <1>1, RequeueRowTyped
<1>3. /\ task' = [task EXCEPT ![t] = With(r, "queued")] /\ lease' = [lease EXCEPT ![t] = NoClaim] /\ hold' = hold
  BY DEF RequeueRow
<1>4. ASSUME NEW x \in Tasks, x # t PROVE RowStep(x) /\ HoldStep(x)
  <2>1. task'[x] = task[x] /\ slot'[x] = slot[x] /\ hold'[x] = hold[x] /\ lease'[x].by = lease[x].by
    BY <1>0, <1>3, <1>4
  <2> QED BY <2>1, Untouched
<1>5. RowStep(t) /\ HoldStep(t)
  <2>1. With(r, "queued").status = "queued" /\ With(r, "queued").mark = r.mark /\ With(r, "queued").conf = r.conf
    BY RowHelpers DEF Statuses, Active
  <2>2. task'[t] = With(r, "queued")
    BY <1>0, <1>3
  <2>3. \/ r.mark = task[t].mark /\ slot'[t] = slot[t]
        \/ r.mark = "submitted" /\ slot'[t] = SetSlot(slot[t], "submitted")
    BY <1>0
  <2>4. Requeues(t)
    BY <2>1, <2>2, <2>3 DEF Requeues
  <2>5. HoldStep(t)
    BY <1>3 DEF HoldStep, Live
  <2> QED BY <2>4, <2>5 DEF RowStep
<1> QED BY <1>2, <1>4, <1>5 DEF RowsStep

\* A row that ends, and the rest of its batch.
LEMMA EndRowStep ==
  ASSUME SInv, NEW t \in Tasks, NEW r, NEW s, NEW h, EndRow(t, r, s, h), Status(t) \in Active
  PROVE  /\ task'[t] = r /\ slot'[t] = s /\ hold'[t] = h
         /\ \A x \in Tasks \ {t} : RowStep(x) /\ HoldStep(x)
<1> DEFINE tail == IF r.status = "failed" THEN {x \in After(t) : Status(x) \in Active} ELSE {}
<1>1. /\ task' = [x \in Tasks |-> CASE x = t -> r [] x \in tail -> With(task[x], "failed") [] OTHER -> task[x]]
      /\ slot' = [x \in Tasks |-> CASE x = t -> s [] x \in tail -> ReleaseSlot(slot[x]) [] OTHER -> slot[x]]
      /\ hold' = [x \in Tasks |-> CASE x = t -> h [] x \in tail -> ReleaseHold(x) [] OTHER -> hold[x]]
      /\ lease' = [x \in Tasks |-> IF x \in tail \cup {t} THEN NoClaim ELSE lease[x]]
  BY DEF EndRow
<1>2. tail \subseteq {x \in After(t) : Status(x) \in Active} /\ t \notin tail
  BY BatchSides
<1> HIDE DEF tail
<1>3. task'[t] = r /\ slot'[t] = s /\ hold'[t] = h
  BY <1>1, <1>2
<1>4. ASSUME NEW x \in Tasks \ {t} PROVE RowStep(x) /\ HoldStep(x)
  <2>1. CASE x \in tail
    <3>1. task'[x] = With(task[x], "failed") /\ slot'[x] = ReleaseSlot(slot[x]) /\ hold'[x] = ReleaseHold(x)
      BY <1>1, <1>4, <2>1
    <3>2. Status(x) \in Active /\ t \in Before(x) /\ Status(t) \notin {"success", "deleted"}
      BY <1>2, <2>1, BatchSides DEF Active
    <3>3. IsDropped(x)
      BY <3>1, <3>2 DEF IsDropped
    <3>4. Status(x)' = "failed"
      BY <3>1, RowFacts, RowHelpers DEF Statuses, Final
    <3>5. HoldStep(x)
      BY <3>1, <3>2, <3>3, <3>4, HoldFacts, EndHold DEF Refunds, Final, Active
    <3> QED BY <3>3, <3>5 DEF RowStep
  <2>2. CASE x \notin tail
    <3>1. task'[x] = task[x] /\ slot'[x] = slot[x] /\ hold'[x] = hold[x] /\ lease'[x].by = lease[x].by
      BY <1>1, <1>4, <2>2
    <3> QED BY <3>1, Untouched
  <2> QED BY <2>1, <2>2
<1> QED BY <1>3, <1>4
LEMMA FinishSuccessStep ==
  ASSUME SInv, NEW t \in Tasks, FinishSuccess(t), Status(t) \in Live => MayLook(t)
  PROVE  RowsStep
<1>0. RowsTyped /\ day \in 0..LastDay /\ task[t] \in RowType /\ Status(t)' = task'[t].status
  BY RowFacts
<1>1. CASE Status(t) \notin Live
  BY <1>1, FinishLateStep DEF FinishSuccess
<1>2. CASE Status(t) \in Live
  <2> DEFINE r0 == [task[t] EXCEPT !.status = "success", !.mark = "submitted", !.conf = 0, !.result = "plain"]
             s == IF Committed(t) THEN SetSlot(slot[t], "confirmed") ELSE SetSlotToday(slot[t], "confirmed")
  <2>1. EndRow(t, Unmarked(t, r0), s, Settle(hold[t]))
    BY <1>2 DEF FinishSuccess
  <2>2. r0 \in RowType /\ r0.status = "success" /\ r0.conf = 0 /\ r0.mark = "submitted"
    <3>2. 0 \in 0..(Attempts + 1)
      BY Bounds
    <3> QED BY <1>0, <3>2 DEF RowType, Final
  <2>3. \/ Committed(t) /\ s = SetSlot(slot[t], "confirmed")
        \/ ~Committed(t) /\ s = SetSlotToday(slot[t], "confirmed")
    OBVIOUS
  <2> HIDE DEF r0, s
  <2>4. /\ Unmarked(t, r0).status = "success" /\ Unmarked(t, r0).conf = 0
        /\ t \in Publish => Unmarked(t, r0).mark = "submitted"
    BY <2>2, UnmarkedFacts
  <2>5. /\ task'[t] = Unmarked(t, r0) /\ slot'[t] = s /\ hold'[t] = Settle(hold[t])
        /\ \A x \in Tasks \ {t} : RowStep(x) /\ HoldStep(x)
    BY <1>2, <2>1, EndRowStep DEF Live, Active
  <2>6. Wins(t)
    BY <1>2, <2>3, <2>4, <2>5 DEF Wins
  <2>7. HoldStep(t)
    BY <1>0, <1>2, <2>4, <2>5, EndHold DEF Final, Live
  <2>8. RowsTyped'
    BY <1>0, FinishSuccessTyped
  <2> QED BY <2>5, <2>6, <2>7, <2>8 DEF RowsStep, RowStep
<1> QED BY <1>1, <1>2

LEMMA FinishFailedStep ==
  ASSUME SInv, NEW t \in Tasks, NEW r \in RowType, NEW result \in {"plain", "noretry", "review"},
         FinishFailedAs(t, r, result), Status(t) \in Live /\ r.conf = Attempts + 1 => result = "review",
         r.conf = task[t].conf \/ (t \in Publish /\ r.conf > 0 /\ MayLook(t)),
         r.mark = task[t].mark \/ (t \in Publish /\ r.mark = "submitted" /\ MayLook(t)),
         t \in Publish /\ Status(t) \in Live /\ result = "review" =>
           r.mark = "submitted" \/ (Status(t) = "need_manual" /\ task[t].conf > 0)
  PROVE  RowsStep
<1>0. RowsTyped /\ day \in 0..LastDay /\ task[t] \in RowType /\ Status(t)' = task'[t].status
      /\ (Committed(t)' <=> task'[t].mark = "submitted")
  BY RowFacts
<1>1. CASE Status(t) \notin Live
  BY <1>1, FinishLateStep DEF FinishFailedAs
<1>2. CASE Status(t) \in Live
  <2> DEFINE r0 == [r EXCEPT !.status = "failed", !.result = result]
             s == IF result = "review" \/ r.mark = "submitted" THEN SetSlot(slot[t], "unknown") ELSE ReleaseSlot(slot[t])
             h == IF r.mark = "submitted" THEN Settle(hold[t]) ELSE ReleaseHold(t)
  <2>1. EndRow(t, Unmarked(t, r0), s, h)
    BY <1>2 DEF FinishFailedAs
  <2>2. r0 \in RowType /\ r0.status = "failed" /\ r0.conf = r.conf /\ r0.mark = r.mark
    BY DEF RowType, Final
  <2>3. \/ s = SetSlot(slot[t], "unknown") /\ (result = "review" \/ r.mark = "submitted")
        \/ s = ReleaseSlot(slot[t]) /\ r.mark # "submitted"
    OBVIOUS
  <2>4. \/ h = Settle(hold[t])
        \/ h = hold[t]
        \/ r.mark # "submitted" /\ h = Release(hold[t])
    BY HoldFacts
  <2> HIDE DEF r0, s, h
  <2>5. /\ Unmarked(t, r0).status = "failed" /\ Unmarked(t, r0).conf = r.conf
        /\ t \in Publish => Unmarked(t, r0).mark = r.mark
    BY <2>2, UnmarkedFacts
  <2>6. /\ task'[t] = Unmarked(t, r0) /\ slot'[t] = s /\ hold'[t] = h
        /\ \A x \in Tasks \ {t} : RowStep(x) /\ HoldStep(x)
    BY <1>2, <2>1, EndRowStep DEF Live, Active
  <2>7. Fails(t)
    <3>1. /\ task'[t].status = "failed"
          /\ task'[t].conf = task[t].conf \/ (t \in Publish /\ task'[t].conf > 0 /\ MayLook(t))
      BY <2>5, <2>6
    <3>2. t \in Publish => \/ task'[t].mark = task[t].mark
                           \/ task'[t].mark = "submitted" /\ slot'[t] = SetSlot(slot[t], "unknown") /\ MayLook(t)
      BY <2>3, <2>5, <2>6
    <3>3. \/ slot'[t] = ReleaseSlot(slot[t])
          \/ /\ slot'[t] = SetSlot(slot[t], "unknown")
             /\ t \in Publish => \/ task'[t].mark = "submitted"
                                 \/ Status(t) = "need_manual" /\ task[t].conf > 0
      BY <1>2, <2>3, <2>5, <2>6
    <3> QED BY <1>2, <3>1, <3>2, <3>3 DEF Fails
  <2>8. HoldStep(t)
    <3>1. r.mark # "submitted" => Refunds(t)
      BY <1>0, <2>5, <2>6 DEF Refunds
    <3>2. Status(t) # "none" /\ Status(t)' = "failed"
      BY <1>0, <1>2, <2>5, <2>6 DEF Live
    <3> QED BY <2>4, <2>6, <3>1, <3>2, EndHold DEF Final
  <2>9. RowsTyped'
    BY <1>0, FinishFailedTyped
  <2> QED BY <2>6, <2>7, <2>8, <2>9 DEF RowsStep, RowStep
<1> QED BY <1>1, <1>2

LEMMA FailStep ==
  ASSUME SInv, NEW t \in Tasks, NEW result \in {"plain", "noretry", "review"}, FinishFailed(t, result),
         t \in Publish /\ Status(t) \in Live /\ result = "review" =>
           Committed(t) \/ (Status(t) = "need_manual" /\ task[t].conf > 0)
  PROVE  RowsStep
<1>1. task[t] \in RowType /\ Exhausted(t) /\ (Committed(t) <=> task[t].mark = "submitted")
  BY RowFacts
<1>2. Status(t) \in Live => task[t].conf # Attempts + 1
  BY <1>1 DEF Exhausted, Live, Active
<1>3. PICK r \in RowType : r = task[t]
  BY <1>1
<1>4. FinishFailedAs(t, r, result)
  BY <1>3 DEF FinishFailed
<1> QED BY <1>1, <1>2, <1>3, <1>4, FinishFailedStep

LEMMA MayLookFacts ==
  ASSUME SInv, NEW t \in Publish, MayLook(t)
  PROVE  task[t].conf > 0 \/ Committed(t)
<1>1. ASSUME NEW p \in Procs, NEW a \in Accounts, Run(p, a).pc = "posted", Item(p, a) = t PROVE Committed(t)
  BY <1>1 DEF SInv, RunOK, Sent
<1> QED BY <1>1 DEF MayLook

LEMMA ConfirmationStep ==
  ASSUME SInv, NEW t \in Publish, RequeuePublishConfirmation(t), MayLook(t)
  PROVE  RowsStep
<1> DEFINE sent == [task[t] EXCEPT !.conf = Attempt(t) + 1, !.mark = "submitted"]
           quiet == [sent EXCEPT !.result = "noretry"]
<1>1. task[t] \in RowType /\ Exhausted(t) /\ slot[t] \in SlotType /\ t \in Tasks
  BY RowFacts DEF Publish
<1>2. CASE Status(t) # "running"
  <2>1. Status(t) \in Live => Status(t) = "need_manual"
    BY <1>2 DEF Live
  <2> QED BY <1>1, <1>2, <2>1, FailStep, MayLookFacts DEF RequeuePublishConfirmation
<1>3. CASE Status(t) = "running"
  <2>1. Attempt(t) \in 1..Attempts
    BY <1>1, <1>3, Bounds DEF Attempt, Exhausted, RowType, Active
  <2>2. sent \in RowType /\ sent.conf = Attempt(t) + 1 /\ sent.mark = "submitted"
    <3>1. Attempt(t) + 1 \in 0..(Attempts + 1)
      BY <2>1, Bounds
    <3> QED BY <1>1, <3>1 DEF RowType
  <2>3. quiet \in RowType /\ quiet.conf = Attempt(t) + 1 /\ quiet.mark = "submitted"
    BY <2>2 DEF RowType
  <2>4. Attempt(t) + 1 > 0
    BY <2>1, Bounds
  <2>5. Status(t) \in Live
    BY <1>3 DEF Live
  <2>6. CASE Attempt(t) < Attempts
    <3>1. RequeueRow(t, quiet) /\ slot' = [slot EXCEPT ![t] = SetSlot(@, "submitted")]
      BY <1>3, <2>6 DEF RequeuePublishConfirmation
    <3>2. quiet.conf # Attempts + 1
      BY <2>1, <2>3, <2>6, Bounds
    <3> HIDE DEF quiet
    <3> QED BY <2>3, <2>4, <2>5, <3>1, <3>2, RequeueRowStep
  <2>7. CASE ~(Attempt(t) < Attempts)
    <3>1. FinishFailedAs(t, sent, "review")
      BY <1>3, <2>7 DEF RequeuePublishConfirmation
    <3> HIDE DEF sent
    <3> QED BY <1>1, <2>2, <2>4, <3>1, FinishFailedStep
  <2> QED BY <2>6, <2>7
<1> QED BY <1>2, <1>3

LEMMA ShutdownRowStep ==
  ASSUME SInv, NEW t \in Tasks, ShutdownRow(t)
  PROVE  RowsStep
<1>1. /\ task[t] \in RowType /\ Exhausted(t) /\ RowOK(t) /\ RowsTyped /\ day \in 0..LastDay
      /\ (Committed(t) <=> task[t].mark = "submitted") /\ Status(t) = task[t].status /\ Status(t)' = task'[t].status
  BY RowFacts
<1>2. CASE task[t].conf > 0 /\ Status(t) \in Live
  <2>1. RequeueRow(t, task[t]) /\ UNCHANGED slot
    BY <1>2 DEF ShutdownRow
  <2>2. task[t].conf # Attempts + 1
    BY <1>1, <1>2 DEF Exhausted, Live, Active
  <2>3. t \in Publish /\ MayLook(t)
    BY <1>1, <1>2 DEF RowOK, MayLook
  <2>4. PICK r \in RowType : r = task[t]
    BY <1>1
  <2>5. RequeueRow(t, r)
    BY <2>1, <2>4
  <2> QED BY <1>2, <2>1, <2>2, <2>3, <2>4, <2>5, RequeueRowStep
<1>3. CASE ~(task[t].conf > 0 /\ Status(t) \in Live) /\ t \in Publish /\ Committed(t) /\ Status(t) \in Active
  <2>1. /\ task' = [task EXCEPT ![t].status = "failed", ![t].result = "review"]
        /\ slot' = [slot EXCEPT ![t] = SetSlot(@, "unknown")]
        /\ lease' = [lease EXCEPT ![t] = NoClaim]
        /\ UNCHANGED hold
    BY <1>3 DEF ShutdownRow
  <2>2. task \in [Tasks -> RowType] /\ slot \in [Tasks -> SlotType] /\ lease \in [Tasks -> ClaimType]
    BY <1>1 DEF RowsTyped
  <2>3. /\ task'[t].status = "failed" /\ task'[t].mark = "submitted" /\ task'[t].mark = task[t].mark
        /\ task'[t].conf = task[t].conf /\ slot'[t] = SetSlot(slot[t], "unknown")
    BY <1>1, <1>3, <2>1, <2>2 DEF RowType
  <2>4. Fails(t)
    BY <1>3, <2>3 DEF Fails, Active, Live
  <2>5. HoldStep(t)
    BY <1>1, <1>3, <2>1, <2>3, EndHold DEF Active, Final
  <2>6. ASSUME NEW x \in Tasks \ {t} PROVE RowStep(x) /\ HoldStep(x)
    <3>1. task'[x] = task[x] /\ slot'[x] = slot[x] /\ hold'[x] = hold[x] /\ lease'[x].by = lease[x].by
      BY <2>1, <2>2
    <3> QED BY <3>1, Untouched
  <2>7. RowsTyped'
    BY <1>1, ShutdownRowTyped
  <2> QED BY <2>4, <2>5, <2>6, <2>7 DEF RowsStep, RowStep
<1>4. CASE ~(task[t].conf > 0 /\ Status(t) \in Live) /\ ~(t \in Publish /\ Committed(t) /\ Status(t) \in Active)
  BY <1>4, CancelRowsStep DEF ShutdownRow
<1> QED BY <1>2, <1>3, <1>4

LEMMA RetryRowStep ==
  ASSUME SInv, NEW t \in Tasks, RetryRow(t), t \notin Publish, Status(t) = "running", task[t].tries < Retries
  PROVE  RowsStep
<1>0. task[t] \in RowType /\ RowsTyped /\ Status(t) = task[t].status /\ Status(t)' = task'[t].status
  BY RowFacts
<1>1. /\ task \in [Tasks -> RowType] /\ slot \in [Tasks -> SlotType] /\ lease \in [Tasks -> ClaimType]
      /\ resv \in [Tasks -> ClaimType]
  BY <1>0 DEF RowsTyped
<1>2. /\ task' = [task EXCEPT ![t].status = "queued", ![t].tries = @ + 1]
      /\ lease' = [lease EXCEPT ![t] = NoClaim] /\ resv' = [resv EXCEPT ![t] = NoClaim]
      /\ UNCHANGED <<slot, hold>>
  BY DEF RetryRow
<1>3. task[t].tries + 1 \in 0..Retries
  BY <1>0, Bounds DEF RowType
<1>4. task'[t].status = "queued" /\ task'[t].conf = task[t].conf /\ task'[t] \in RowType
  BY <1>0, <1>1, <1>2, <1>3 DEF RowType, Active
<1>5. task' \in [Tasks -> RowType]
  BY <1>1, <1>2, <1>4
<1>6. ASSUME NEW x \in Tasks PROVE Exhausted(x)'
  <2>1. CASE x = t
    <3>1. task[t].conf # Attempts + 1
      BY <1>0 DEF RowsTyped, Exhausted, Active
    <3> QED BY <1>4, <2>1, <3>1 DEF Exhausted
  <2>2. CASE x # t
    <3>1. task'[x] = task[x] /\ Exhausted(x)
      BY <1>0, <1>1, <1>2, <2>2 DEF RowsTyped
    <3> QED BY <3>1 DEF Exhausted, Status
  <2> QED BY <2>1, <2>2
<1>7. RowsTyped'
  BY <1>0, <1>1, <1>2, <1>5, <1>6, ClaimHelpers DEF RowsTyped
<1>8. Repeats(t) /\ HoldStep(t)
  BY <1>0, <1>2, <1>4 DEF Repeats, HoldStep
<1>9. ASSUME NEW x \in Tasks \ {t} PROVE RowStep(x) /\ HoldStep(x)
  <2>1. task'[x] = task[x] /\ slot'[x] = slot[x] /\ hold'[x] = hold[x] /\ lease'[x].by = lease[x].by
    BY <1>1, <1>2
  <2> QED BY <2>1, Untouched
<1> QED BY <1>7, <1>8, <1>9 DEF RowsStep, RowStep
-----------------------------------------------------------------------------
(* The actions, as abstract steps *)

LEMMA TypedNext == RowsTyped' /\ EnvTyped' => Typed'
BY DEF Typed, RowsTyped, EnvTyped, Holds

LEMMA RunSame ==
  ASSUME run' = run
  PROVE  \A p \in Procs, a \in Accounts : RunStep(p, a)
BY DEF RunStep, Waits, SamePlace

LEMMA EnvSame ==
  ASSUME SInv, UNCHANGED env, RowsStep
  PROVE  Typed' /\ Step
<1>1. UNCHANGED <<up, run, left, req, post, clicks, day, stops, asked>>
  BY DEF env
<1>2. EnvTyped'
  BY <1>1, TypedParts DEF SInv, EnvTyped, Run
<1>3. Clicks /\ Posts /\ Clears /\ Quits /\ DayStep
  BY <1>1 DEF Clicks, Posts, Clears, Quits, DayStep
<1>4. Typed'
  BY <1>2, TypedNext DEF RowsStep
<1> QED BY <1>1, <1>3, <1>4, RunSame DEF RowsStep, Step

\* A step of one session.
LEMMA OneRun ==
  ASSUME SInv, NEW p \in Procs, NEW a \in Accounts, NEW r \in RunType, run' = [run EXCEPT ![p][a] = r],
         r.pc # "idle" => r.i \in DOMAIN r.items
  PROVE  /\ run' \in [Procs -> [Accounts -> RunType]]
         /\ \A q \in Procs, b \in Accounts : (Run(q, b).pc # "idle" => Run(q, b).i \in DOMAIN Run(q, b).items)'
         /\ run'[p][a] = r
         /\ \A q \in Procs, b \in Accounts : q # p \/ b # a => RunStep(q, b)
<1>1. run \in [Procs -> [Accounts -> RunType]]
      /\ \A q \in Procs, b \in Accounts : Run(q, b).pc # "idle" => Run(q, b).i \in DOMAIN Run(q, b).items
  BY DEF SInv, Typed
<1>2. run' \in [Procs -> [Accounts -> RunType]] /\ run'[p][a] = r
  BY <1>1
<1>3. \A q \in Procs, b \in Accounts : q # p \/ b # a => run'[q][b] = run[q][b]
  BY <1>1
<1>4. ASSUME NEW q \in Procs, NEW b \in Accounts
      PROVE  run'[q][b].pc # "idle" => run'[q][b].i \in DOMAIN run'[q][b].items
  BY <1>1, <1>2, <1>3 DEF Run
<1>5. \A q \in Procs, b \in Accounts : q # p \/ b # a => RunStep(q, b)
  BY <1>3 DEF RunStep, Waits, SamePlace
<1> QED BY <1>2, <1>4, <1>5 DEF Run

LEMMA GoFacts ==
  ASSUME SInv, NEW p \in Procs, NEW a \in Accounts, NEW pc \in Pcs \ {"idle"}, Go(p, a, pc), Run(p, a).pc # "idle"
  PROVE  /\ run' \in [Procs -> [Accounts -> RunType]]
         /\ \A q \in Procs, b \in Accounts : (Run(q, b).pc # "idle" => Run(q, b).i \in DOMAIN Run(q, b).items)'
         /\ SamePlace(p, a) /\ run'[p][a].pc = pc /\ run[p][a] = Run(p, a)
         /\ \A q \in Procs, b \in Accounts : q # p \/ b # a => RunStep(q, b)
<1>1. run \in [Procs -> [Accounts -> RunType]] /\ Run(p, a).i \in DOMAIN Run(p, a).items
  BY DEF SInv, Typed
<1>2. run[p][a] \in RunType /\ Run(p, a) = run[p][a]
  BY <1>1 DEF Run
<1>3. PICK r : r = [run[p][a] EXCEPT !.pc = pc]
  OBVIOUS
<1>4. r \in RunType /\ r.pc = pc /\ r.items = run[p][a].items /\ r.i = run[p][a].i
  BY <1>2, <1>3 DEF RunType
<1>5. run' = [run EXCEPT ![p][a] = r]
  BY <1>1, <1>3 DEF Go
<1>6. r.i \in DOMAIN r.items
  BY <1>1, <1>2, <1>4
<1>7. /\ run' \in [Procs -> [Accounts -> RunType]]
      /\ \A q \in Procs, b \in Accounts : (Run(q, b).pc # "idle" => Run(q, b).i \in DOMAIN Run(q, b).items)'
      /\ run'[p][a] = r
      /\ \A q \in Procs, b \in Accounts : q # p \/ b # a => RunStep(q, b)
  BY <1>4, <1>5, <1>6, OneRun
<1> QED BY <1>2, <1>4, <1>7 DEF SamePlace

\* What a session leaves alone.
LEMMA OthersSame ==
  ASSUME SInv, UNCHANGED others, run' \in [Procs -> [Accounts -> RunType]],
         \A q \in Procs, b \in Accounts : (Run(q, b).pc # "idle" => Run(q, b).i \in DOMAIN Run(q, b).items)',
         clicks' \in [Tasks -> Nat]
  PROVE  EnvTyped' /\ Posts /\ Clears /\ Quits /\ DayStep
<1>1. UNCHANGED <<up, left, req, post, day, stops, asked>>
  BY DEF others
<1>2. EnvTyped
  BY TypedParts DEF SInv
<1>3. EnvTyped'
  BY <1>1, <1>2 DEF EnvTyped
<1> QED BY <1>1, <1>3 DEF Posts, Clears, Quits, DayStep

LEMMA SessionStep ==
  ASSUME SInv, NEW p \in Procs, NEW a \in Accounts, NEW pc \in Pcs \ {"idle"}, Go(p, a, pc), Run(p, a).pc # "idle",
         UNCHANGED <<clicks, others>>, Moves(p, a), RowsStep
  PROVE  Typed' /\ Step
<1>1. /\ run' \in [Procs -> [Accounts -> RunType]]
      /\ \A q \in Procs, b \in Accounts : (Run(q, b).pc # "idle" => Run(q, b).i \in DOMAIN Run(q, b).items)'
      /\ \A q \in Procs, b \in Accounts : q # p \/ b # a => RunStep(q, b)
  BY GoFacts
<1>2. clicks' \in [Tasks -> Nat]
  BY DEF SInv, Typed
<1>3. EnvTyped' /\ Posts /\ Clears /\ Quits /\ DayStep
  BY <1>1, <1>2, OthersSame
<1>4. Clicks
  BY DEF Clicks
<1>5. \A q \in Procs, b \in Accounts : RunStep(q, b)
  BY <1>1 DEF RunStep
<1> QED BY <1>3, <1>4, <1>5, TypedNext DEF RowsStep, Step

\* A session that leaves its work.
LEMMA LeavesStep ==
  ASSUME SInv, NEW p \in Procs, NEW a \in Accounts, NEW pc \in {"raised", "leaving"}, Go(p, a, pc),
         Run(p, a).pc # "idle", UNCHANGED <<clicks, others>>, RowsStep
  PROVE  Typed' /\ Step
<1>1. pc \in Pcs \ {"idle"} /\ pc # "next"
  BY DEF Pcs
<1>2. SamePlace(p, a) /\ run'[p][a].pc = pc
  BY <1>1, GoFacts
<1>3. Moves(p, a)
  BY <1>1, <1>2 DEF Moves
<1> QED BY <1>1, <1>3, SessionStep

LEMMA SweepStep ==
  ASSUME SInv, NEW p \in Procs, Sweep(p)
  PROVE  Typed' /\ Step
<1>1. hold' = Swept /\ UNCHANGED <<task, slot, lease, resv>> /\ UNCHANGED env
  BY DEF Sweep
<1>2. ASSUME NEW x \in Tasks PROVE RowStep(x) /\ HoldStep(x)
  <2>1. RowStep(x)
    BY <1>1 DEF RowStep, Stays, SameRow, ClaimKept, SameClaim
  <2>2. CASE Status(x) \in {"failed", "cancelled"}
    <3>1. hold'[x] = SettleOrRelease(x) /\ Status(x)' = Status(x) /\ task'[x].mark = task[x].mark
      BY <1>1, <2>2 DEF Swept, Status
    <3>2. HoldStep(x)
      BY <2>2, <3>1, EndHold DEF Final
    <3> QED BY <2>1, <3>2
  <2>3. CASE Status(x) \notin {"failed", "cancelled"}
    <3>1. hold'[x] = hold[x] /\ Status(x)' = Status(x)
      BY <1>1, <2>3 DEF Swept, Status
    <3> QED BY <2>1, <3>1 DEF HoldStep
  <2> QED BY <2>2, <2>3
<1>3. RowsTyped'
  <2>1. RowsTyped
    BY TypedParts DEF SInv
  <2>2. hold' \in [Tasks -> Holds]
    BY <1>1, <2>1, HoldHelpers DEF Swept, RowsTyped
  <2> QED BY <1>1, <2>1, <2>2 DEF RowsTyped, Exhausted, Status
<1> QED BY <1>1, <1>2, <1>3, EnvSame DEF RowsStep

LEMMA CancelStaleStep ==
  ASSUME SInv, NEW p \in Procs, NEW b \in Batches, CancelStaleBatch(p, b)
  PROVE  Typed' /\ Step
<1>1. CancelRows(Members(b)) /\ UNCHANGED env
  BY DEF CancelStaleBatch
<1> QED BY <1>1, CancelRowsStep, EnvSame

LEMMA EndTailStep ==
  ASSUME SInv, NEW p \in Procs, NEW t \in Tasks, EndTail(p, t)
  PROVE  Typed' /\ Step
<1> DEFINE tail == {x \in After(t) : Status(x) \in Active}
<1>1. /\ task' = [x \in Tasks |-> IF x \in tail THEN With(task[x], Status(t)) ELSE task[x]]
      /\ slot' = [x \in Tasks |-> IF x \in tail THEN ReleaseSlot(slot[x]) ELSE slot[x]]
      /\ hold' = [x \in Tasks |-> IF x \in tail THEN ReleaseHold(x) ELSE hold[x]]
      /\ lease' = [x \in Tasks |-> IF x \in tail THEN NoClaim ELSE lease[x]]
      /\ resv' = [x \in Tasks |-> IF x \in tail THEN NoClaim ELSE resv[x]]
      /\ UNCHANGED env /\ Status(t) \in {"failed", "cancelled"}
  BY DEF EndTail
<1>2. ASSUME NEW x \in tail, x \in Tasks PROVE Status(x) \in Active /\ t \in Before(x)
  BY <1>2, BatchSides
<1> HIDE DEF tail
<1>0. RowsTyped
  BY TypedParts DEF SInv
<1>3. PICK st \in {"failed", "cancelled"} : st = Status(t)
  BY <1>1
<1>4. \A x \in Tasks : /\ With(task[x], st) \in RowType /\ With(task[x], st).status = st
                       /\ With(task[x], st).mark = task[x].mark /\ With(task[x], st).conf = task[x].conf
                       /\ With(task[x], st).result = task[x].result
  BY <1>0, RowHelpers DEF RowsTyped, Statuses, Final
<1>5. \A x \in Tasks : ReleaseSlot(slot[x]) \in SlotType /\ ReleaseHold(x) \in Holds
  BY <1>0, SlotHelpers, HoldHelpers DEF RowsTyped, SInv, Typed
<1>6. task' \in [Tasks -> RowType] /\ slot' \in [Tasks -> SlotType] /\ hold' \in [Tasks -> Holds]
  BY <1>0, <1>1, <1>3, <1>4, <1>5 DEF RowsTyped
<1>7. lease' \in [Tasks -> ClaimType] /\ resv' \in [Tasks -> ClaimType]
  BY <1>0, <1>1, ClaimHelpers DEF RowsTyped
<1>8. ASSUME NEW x \in Tasks PROVE Exhausted(x)'
  <2>1. task'[x] = With(task[x], st) \/ task'[x] = task[x]
    BY <1>1, <1>3
  <2>2. Exhausted(x)
    BY <1>0 DEF RowsTyped
  <2> QED BY <1>4, <2>1, <2>2 DEF Exhausted, Status, Active
<1>9. RowsTyped'
  BY <1>6, <1>7, <1>8 DEF RowsTyped
<1>10. ASSUME NEW x \in Tasks PROVE RowStep(x) /\ HoldStep(x)
  <2>1. CASE x \in tail
    <3>1. task'[x] = With(task[x], st) /\ slot'[x] = ReleaseSlot(slot[x]) /\ hold'[x] = ReleaseHold(x)
      BY <1>1, <1>3, <2>1
    <3>2. IsDropped(x)
      BY <1>1, <1>2, <1>3, <2>1, <3>1 DEF IsDropped
    <3>3. Status(x)' = st /\ Status(x) \in Active
      BY <1>2, <1>4, <2>1, <3>1 DEF Status
    <3>4. HoldStep(x)
      BY <3>1, <3>2, <3>3, HoldFacts, EndHold DEF Refunds, Final, Active
    <3> QED BY <3>2, <3>4 DEF RowStep
  <2>2. CASE x \notin tail
    <3>1. task'[x] = task[x] /\ slot'[x] = slot[x] /\ hold'[x] = hold[x] /\ lease'[x].by = lease[x].by
      BY <1>1, <2>2
    <3> QED BY <3>1, Untouched
  <2> QED BY <2>1, <2>2
<1> QED BY <1>1, <1>9, <1>10, EnvSame DEF RowsStep
\* The sweep a claim begins with, for a row that stays or enters the work.
LEMMA SweptHold ==
  ASSUME NEW x \in Tasks, hold' = Swept, Status(x) \in {"failed", "cancelled"} => task'[x] = task[x],
         Status(x) = "none" => Status(x)' = "none"
  PROVE  HoldStep(x)
<1>1. CASE Status(x) \in {"failed", "cancelled"}
  <2>1. hold'[x] = SettleOrRelease(x) /\ Status(x)' = Status(x) /\ task'[x].mark = task[x].mark
    BY <1>1 DEF Swept, Status
  <2> QED BY <1>1, <2>1, EndHold DEF Final
<1>2. CASE Status(x) \notin {"failed", "cancelled"}
  BY <1>2 DEF Swept, HoldStep
<1> QED BY <1>1, <1>2

LEMMA SweptTyped ==
  ASSUME RowsTyped
  PROVE  Swept \in [Tasks -> Holds]
BY HoldHelpers DEF Swept, RowsTyped

LEMMA RecoverRunningStep ==
  ASSUME SInv, NEW p \in Procs, NEW t \in Tasks, RecoverRunning(p, t)
  PROVE  Typed' /\ Step
<1>0. /\ task[t] \in RowType /\ slot[t] \in SlotType /\ Exhausted(t) /\ RowOK(t) /\ RowsTyped /\ day \in 0..LastDay
      /\ (Committed(t) <=> task[t].mark = "submitted") /\ (Committed(t)' <=> task'[t].mark = "submitted")
      /\ Status(t) = "running" /\ Status(t)' = task'[t].status /\ UNCHANGED env
  BY RowFacts DEF RecoverRunning
<1>c. task[t].conf \in Nat
  BY <1>0, Bounds DEF RowType
<1>1. CASE task[t].conf > 0
  <2>1. RequeueRow(t, task[t]) /\ UNCHANGED slot
    BY <1>1 DEF RecoverRunning
  <2>2. task[t].conf # Attempts + 1 /\ Status(t) \in Live
    BY <1>0, <1>1 DEF Exhausted, Live, Active
  <2>3. t \in Publish /\ MayLook(t)
    BY <1>0, <1>1 DEF RowOK, MayLook
  <2>4. PICK r \in RowType : r = task[t]
    BY <1>0
  <2>5. RequeueRow(t, r)
    BY <2>1, <2>4
  <2>6. RowsStep
    BY <1>1, <2>1, <2>2, <2>3, <2>4, <2>5, RequeueRowStep
  <2> QED BY <1>0, <2>6, EnvSame
<1>2. CASE ~(task[t].conf > 0)
  <2> DEFINE sent == t \in Publish /\ Committed(t)
             r == [task[t] EXCEPT !.status = "failed", !.result = IF sent THEN "review" ELSE "noretry"]
             s == IF sent THEN SetSlot(slot[t], "unknown") ELSE ReleaseSlot(slot[t])
             h == IF sent THEN hold[t] ELSE ReleaseHold(t)
  <2>1. EndRow(t, r, s, h)
    BY <1>2 DEF RecoverRunning
  <2>2. r \in RowType /\ r.status = "failed" /\ r.conf = task[t].conf /\ r.mark = task[t].mark
    BY <1>0 DEF RowType, Final
  <2>3. \/ sent /\ s = SetSlot(slot[t], "unknown") /\ h = hold[t]
        \/ ~sent /\ s = ReleaseSlot(slot[t]) /\ h = ReleaseHold(t)
    OBVIOUS
  <2>4. s \in SlotType /\ h \in Holds
    BY <1>0, SlotHelpers, HoldHelpers DEF Spent, RowsTyped
  <2> HIDE DEF r, s, h
  <2>5. r.conf # Attempts + 1 /\ r.status \notin Active
    BY <1>c, <1>2, <2>2, Bounds DEF Active
  <2>6. RowsTyped'
    BY <1>0, <2>1, <2>2, <2>4, <2>5, EndRowTyped
  <2>7. /\ task'[t] = r /\ slot'[t] = s /\ hold'[t] = h
        /\ \A x \in Tasks \ {t} : RowStep(x) /\ HoldStep(x)
    BY <1>0, <2>1, EndRowStep DEF Active
  <2>8. Fails(t)
    BY <1>0, <2>2, <2>3, <2>7 DEF Fails, Live
  <2>9. HoldStep(t)
    <3>1. ~sent => Refunds(t)
      BY <1>0, <2>2, <2>7 DEF Refunds
    <3>2. Status(t) # "none" /\ Status(t)' = "failed"
      BY <1>0, <2>2, <2>7
    <3> QED BY <2>3, <2>7, <3>1, <3>2, HoldFacts, EndHold DEF Final
  <2> QED BY <1>0, <2>6, <2>7, <2>8, <2>9, EnvSame DEF RowsStep, RowStep
<1> QED BY <1>1, <1>2

LEMMA RecoverManualStep ==
  ASSUME SInv, NEW p \in Procs, NEW t \in Tasks, RecoverManual(p, t)
  PROVE  Typed' /\ Step
<1>0. /\ task[t] \in RowType /\ slot[t] \in SlotType /\ Exhausted(t) /\ RowsTyped /\ day \in 0..LastDay
      /\ Status(t)' = task'[t].status
  BY RowFacts
<1>1. /\ Status(t) = "need_manual" /\ task' = [task EXCEPT ![t].status = "failed", ![t].result = "noretry"]
      /\ slot' = [slot EXCEPT ![t] = ReleaseSlot(@)]
      /\ hold' = [hold EXCEPT ![t] = ReleaseHold(t)]
      /\ UNCHANGED <<lease, resv>> /\ UNCHANGED env
  BY DEF RecoverManual
<1>2. task \in [Tasks -> RowType] /\ slot \in [Tasks -> SlotType] /\ hold \in [Tasks -> Holds]
  BY <1>0 DEF RowsTyped
<1>3. /\ task'[t] \in RowType /\ task'[t].status = "failed" /\ task'[t].mark = task[t].mark
      /\ task'[t].conf = task[t].conf /\ slot'[t] = ReleaseSlot(slot[t]) /\ hold'[t] = ReleaseHold(t)
  BY <1>0, <1>1, <1>2 DEF RowType, Final
<1>4. task' \in [Tasks -> RowType] /\ slot' \in [Tasks -> SlotType] /\ hold' \in [Tasks -> Holds]
  BY <1>0, <1>1, <1>2, <1>3, SlotHelpers, HoldHelpers
<1>5. ASSUME NEW x \in Tasks \ {t} PROVE RowStep(x) /\ HoldStep(x) /\ Exhausted(x)'
  <2>1. task'[x] = task[x] /\ slot'[x] = slot[x] /\ hold'[x] = hold[x] /\ lease'[x].by = lease[x].by
    BY <1>1, <1>2
  <2>2. Exhausted(x)'
    BY <1>0, <2>1 DEF RowsTyped, Exhausted, Status
  <2> QED BY <2>1, <2>2, Untouched
<1>6. Fails(t)
  BY <1>1, <1>3 DEF Fails, Live
<1>7. HoldStep(t)
  BY <1>0, <1>1, <1>3, HoldFacts, EndHold DEF Final, Refunds
<1>8. Exhausted(t)'
  BY <1>0, <1>1, <1>3 DEF Exhausted, Active
<1>9. RowsTyped'
  BY <1>0, <1>1, <1>4, <1>5, <1>8 DEF RowsTyped
<1> QED BY <1>1, <1>5, <1>6, <1>7, <1>9, EnvSame DEF RowsStep, RowStep

LEMMA DeferStep ==
  ASSUME SInv, NEW p \in Procs, NEW t \in Tasks, Defer(p, t)
  PROVE  Typed' /\ Step
<1>0. slot[t] \in SlotType /\ RowsTyped
  BY RowFacts
<1>1. /\ Status(t) = "queued" /\ slot[t].state = "reserved"
      /\ hold' = Swept /\ slot' = [slot EXCEPT ![t].state = "planned"]
      /\ UNCHANGED <<task, lease, resv>> /\ UNCHANGED env
  BY DEF Defer
<1>2. slot \in [Tasks -> SlotType]
  BY <1>0 DEF RowsTyped
<1>3. slot'[t] = [slot[t] EXCEPT !.state = "planned"] /\ slot'[t] \in SlotType
  BY <1>0, <1>1, <1>2 DEF SlotType
<1>4. slot' \in [Tasks -> SlotType]
  BY <1>1, <1>2, <1>3
<1>5. RowsTyped'
  BY <1>0, <1>1, <1>4, SweptTyped DEF RowsTyped, Exhausted, Status
<1>6. ASSUME NEW x \in Tasks PROVE RowStep(x) /\ HoldStep(x)
  <2>1. HoldStep(x)
    BY <1>1, SweptHold DEF Status
  <2>2. CASE x = t
    BY <1>1, <1>3, <2>1, <2>2 DEF RowStep, Reslots, SameClaim
  <2>3. CASE x # t
    <3>1. slot'[x] = slot[x]
      BY <1>1, <1>2, <2>3
    <3> QED BY <1>1, <2>1, <3>1 DEF RowStep, Stays, SameRow, ClaimKept, SameClaim
  <2> QED BY <2>2, <2>3
<1> QED BY <1>1, <1>5, <1>6, EnvSame DEF RowsStep

LEMMA ClaimTaskStep ==
  ASSUME SInv, NEW p \in Procs, NEW t \in Tasks, ClaimTask(p, t)
  PROVE  Typed' /\ Step
<1>0. task[t] \in RowType /\ slot[t] \in SlotType /\ RowsTyped /\ Exhausted(t) /\ day \in 0..LastDay
  BY RowFacts
<1>1. PICK a \in Accounts : a = Account[t]
  BY DEF Accounts
<1>2. /\ up[p] = "up" /\ Status(t) = "queued" /\ BatchReady(t) /\ AccountFree(p, a) /\ QuotaFree(t)
      /\ hold' = Swept
      /\ slot' = [slot EXCEPT ![t] = Reserved(@)]
      /\ task' = [task EXCEPT ![t] = With(@, "running")]
      /\ lease' = [lease EXCEPT ![t] = Claim(p)]
      /\ run' = [run EXCEPT ![p][a] = [pc |-> "claimed", items |-> <<t>>, i |-> 1, stop |-> FALSE]]
      /\ UNCHANGED <<resv, up, left, req, post, clicks, day, stops, asked>>
  BY <1>1 DEF ClaimTask
<1>3. task \in [Tasks -> RowType] /\ slot \in [Tasks -> SlotType] /\ lease \in [Tasks -> ClaimType]
  BY <1>0 DEF RowsTyped
<1>4. /\ task'[t] = With(task[t], "running") /\ slot'[t] = Reserved(slot[t]) /\ lease'[t] = Claim(p)
      /\ \A x \in Tasks \ {t} : task'[x] = task[x] /\ slot'[x] = slot[x] /\ lease'[x] = lease[x]
  BY <1>2, <1>3
<1>5. With(task[t], "running") \in RowType /\ With(task[t], "running").conf = task[t].conf
  BY <1>0, RowHelpers DEF Statuses, Active
<1>6. Reserved(slot[t]) \in SlotType /\ Claim(p) \in ClaimType /\ Claim(p).by = p
  BY <1>0, SlotHelpers, ClaimHelpers
<1>7. task' \in [Tasks -> RowType] /\ slot' \in [Tasks -> SlotType] /\ lease' \in [Tasks -> ClaimType]
  BY <1>2, <1>3, <1>5, <1>6
<1>8. ASSUME NEW x \in Tasks PROVE Exhausted(x)'
  <2>1. Exhausted(x) /\ (x = t => task[t].conf # Attempts + 1)
    BY <1>0, <1>2 DEF RowsTyped, Exhausted, Active
  <2> QED BY <1>4, <1>5, <2>1 DEF Exhausted, Status
<1>9. RowsTyped'
  BY <1>0, <1>2, <1>7, <1>8, SweptTyped DEF RowsTyped
<1>10. IsTaken(t)
  <2>1. Run(p, Account[t]).pc = "idle"
    BY <1>1, <1>2 DEF AccountFree
  <2>2. TakenBy(p, t)
    BY <1>2, <1>4, <1>6, <2>1 DEF TakenBy
  <2>3. Alone(t)
    BY <1>4 DEF Alone, SameRow
  <2> QED BY <1>2, <1>4, <2>2, <2>3 DEF IsTaken
<1>11. ASSUME NEW x \in Tasks PROVE RowStep(x) /\ HoldStep(x)
  <2>1. HoldStep(x)
    <3>1. Status(x) \in {"failed", "cancelled", "none"} => task'[x] = task[x]
      BY <1>2, <1>4
    <3> QED BY <1>2, <3>1, SweptHold DEF Status
  <2>2. RowStep(x)
    BY <1>4, <1>10 DEF RowStep, Stays, SameRow, ClaimKept, SameClaim
  <2> QED BY <2>1, <2>2
<1>12. PICK r : r = [pc |-> "claimed", items |-> <<t>>, i |-> 1, stop |-> FALSE]
  OBVIOUS
<1>13. r \in RunType /\ r.i \in DOMAIN r.items
  BY <1>12 DEF RunType, Pcs
<1>14. /\ run' \in [Procs -> [Accounts -> RunType]]
       /\ \A q \in Procs, b \in Accounts : (Run(q, b).pc # "idle" => Run(q, b).i \in DOMAIN Run(q, b).items)'
       /\ run'[p][a] = r
       /\ \A q \in Procs, b \in Accounts : q # p \/ b # a => RunStep(q, b)
  <2>1. run' = [run EXCEPT ![p][a] = r]
    BY <1>2, <1>12
  <2> QED BY <1>13, <2>1, OneRun
<1>15. Begins(p, a)
  <2>1. Run(p, a).pc = "idle" /\ \A x \in Before(t) : Status(x) = "success"
    BY <1>2 DEF AccountFree, BatchReady
  <2> QED BY <1>1, <1>2, <1>4, <1>6, <1>12, <1>14, <2>1 DEF Begins
<1>16. clicks' \in [Tasks -> Nat] /\ Clicks
  BY <1>2 DEF SInv, Typed, Clicks
<1>17. EnvTyped' /\ Posts /\ Clears /\ Quits /\ DayStep
  BY <1>2, <1>14, <1>16, OthersSame DEF others
<1>18. \A q \in Procs, b \in Accounts : RunStep(q, b)
  BY <1>14, <1>15 DEF RunStep
<1> QED BY <1>9, <1>11, <1>16, <1>17, <1>18, TypedNext DEF Step
LEMMA TailItems ==
  ASSUME NEW p \in Procs, NEW t \in Tasks, NEW s, s = SubSeq(BatchOf(t), Place(t), TailEnd(p, t)) \/ s = <<t>>
  PROVE  /\ s \in Seq(Tasks) /\ Len(s) >= 1 /\ s[1] = t
         /\ \A j, k \in DOMAIN s : s[j] = s[k] => j = k
         /\ \A j \in DOMAIN s : s[j] \in Tasks /\ Account[s[j]] = Account[t]
         /\ \A j \in DOMAIN s : j > 1 => Status(s[j]) = "queued" /\ Before(s[j]) # {}
<1>1. CASE s = <<t>>
  BY <1>1
<1>2. CASE s = SubSeq(BatchOf(t), Place(t), TailEnd(p, t))
  <2>1. PICK b, k, n : b = BatchOf(t) /\ k = Place(t) /\ n = TailEnd(p, t)
    OBVIOUS
  <2>2. /\ b \in Seq(Tasks) /\ k \in DOMAIN b /\ b[k] = t
        /\ \A i, j \in DOMAIN b : b[i] = b[j] => i = j
        /\ \A i \in DOMAIN b : Account[b[i]] = Account[t]
    BY <2>1, BatchFacts
  <2>3. n \in k..Len(b) /\ \A i \in (k + 1)..n : Status(b[i]) = "queued"
    BY <2>1, TailFacts
  <2>4. /\ DOMAIN b = 1..Len(b) /\ Len(b) \in Nat /\ k \in 1..Len(b) /\ k \in Int /\ n \in Int
        /\ \A i \in k..n : i \in DOMAIN b /\ b[i] \in Tasks
    BY <2>2, <2>3
  <2>5. /\ s \in Seq(Tasks) /\ Len(s) = IF k <= n THEN n - k + 1 ELSE 0
        /\ \A i \in 1..(n - k + 1) : s[i] = b[k + i - 1]
    <3>1. s = SubSeq(b, k, n)
      BY <1>2, <2>1
    <3> QED BY <2>4, <3>1, SubSeqProperties
  <2>6. Len(s) = n - k + 1 /\ DOMAIN s = 1..(n - k + 1)
    BY <2>3, <2>4, <2>5
  <2>7. \A j \in DOMAIN s : s[j] = b[k + j - 1] /\ k + j - 1 \in k..n /\ (j > 1 => k + j - 1 \in (k + 1)..n)
    BY <2>4, <2>5, <2>6
  <2>8. \A j, l \in DOMAIN s : s[j] = s[l] => j = l
    <3>1. SUFFICES ASSUME NEW j \in DOMAIN s, NEW l \in DOMAIN s, s[j] = s[l] PROVE j = l
      OBVIOUS
    <3>2. k + j - 1 = k + l - 1
      BY <2>2, <2>4, <2>7, <3>1
    <3> QED BY <2>4, <2>6, <3>2
  <2>9. Len(s) >= 1 /\ s[1] = t
    <3>1. 1 \in DOMAIN s
      BY <2>3, <2>4, <2>6
    <3> QED BY <2>2, <2>3, <2>4, <2>6, <2>7, <3>1
  <2>10. ASSUME NEW j \in DOMAIN s, j > 1 PROVE Before(s[j]) # {}
    <3> DEFINE i == k + j - 1
    <3>1. i \in DOMAIN b /\ i \in (k + 1)..n /\ s[j] = b[i] /\ s[j] \in Tasks
      BY <2>4, <2>7, <2>10
    <3> HIDE DEF i
    <3>2. b[i] \in After(t)
      BY <2>1, <2>3, <2>4, <3>1 DEF After
    <3> QED BY <3>1, <3>2, BatchSides
  <2>11. \A j \in DOMAIN s : s[j] \in Tasks /\ Account[s[j]] = Account[t]
    BY <2>2, <2>4, <2>7
  <2>12. \A j \in DOMAIN s : j > 1 => Status(s[j]) = "queued"
    BY <2>3, <2>7
  <2> QED BY <2>5, <2>8, <2>9, <2>10, <2>11, <2>12
<1> QED BY <1>1, <1>2

LEMMA ClaimTailStep ==
  ASSUME SInv, NEW p \in Procs, NEW a \in Accounts, ClaimTail(p, a)
  PROVE  Typed' /\ Step
<1> DEFINE mine == Status(Item(p, a)) \in Live /\ lease[Item(p, a)].by \in {p, None}
<1>1. PICK t, s : /\ t = Item(p, a)
                  /\ s = IF mine THEN SubSeq(BatchOf(t), Place(t), TailEnd(p, t)) ELSE <<t>>
  OBVIOUS
<1>2. /\ Run(p, a).pc = "claimed" /\ up[p] # "down"
      /\ lease' = IF mine /\ InBatch(t) /\ lease[t].by = None THEN [lease EXCEPT ![t] = Claim(p)] ELSE lease
      /\ slot' = [x \in Tasks |-> IF x \in Members(s) \ {t} THEN Reserved(slot[x]) ELSE slot[x]]
      /\ resv' = [x \in Tasks |-> IF x \in Members(s) \ {t} THEN Claim(p) ELSE resv[x]]
      /\ run' = [run EXCEPT ![p][a].items = s, ![p][a].pc = "start"]
      /\ UNCHANGED <<task, hold, clicks, others>>
  BY <1>1 DEF ClaimTail, At
<1>3. t \in Tasks /\ Account[t] = a /\ Run(p, a).i = 1 /\ run[p][a] \in RunType /\ Run(p, a) = run[p][a]
  BY <1>1, <1>2, ItemFacts DEF ItemsOK, Run
<1>4. lease' = lease
  BY <1>1, <1>2, <1>3, RowFacts DEF RowOK
<1>5. s = SubSeq(BatchOf(t), Place(t), TailEnd(p, t)) \/ s = <<t>>
  BY <1>1
<1> HIDE DEF mine
<1>6. /\ s \in Seq(Tasks) /\ Len(s) >= 1 /\ s[1] = t
      /\ \A j, k \in DOMAIN s : s[j] = s[k] => j = k
      /\ \A j \in DOMAIN s : s[j] \in Tasks /\ Account[s[j]] = a
      /\ \A j \in DOMAIN s : j > 1 => Status(s[j]) = "queued" /\ Before(s[j]) # {}
  BY <1>3, <1>5, TailItems
<1>7. DOMAIN s = 1..Len(s) /\ Len(s) \in Nat
  BY <1>6
<1>8. \A x \in Members(s) \ {t} : Status(x) = "queued" /\ Before(x) # {}
  <2>1. SUFFICES ASSUME NEW j \in DOMAIN s, s[j] # t PROVE Status(s[j]) = "queued" /\ Before(s[j]) # {}
    BY DEF Members
  <2>2. j > 1
    BY <1>6, <1>7, <2>1
  <2> QED BY <1>6, <1>7, <2>2
<1>9. RowsTyped
  BY TypedParts DEF SInv
<1>10. \A x \in Tasks : Reserved(slot[x]) \in SlotType
  BY <1>9, SlotHelpers DEF RowsTyped, SInv, Typed
<1>11. slot' \in [Tasks -> SlotType] /\ resv' \in [Tasks -> ClaimType]
  BY <1>2, <1>9, <1>10, ClaimHelpers DEF RowsTyped
<1>12. RowsTyped'
  BY <1>2, <1>4, <1>9, <1>11 DEF RowsTyped, Exhausted, Status
<1>13. ASSUME NEW x \in Tasks PROVE RowStep(x) /\ HoldStep(x)
  <2>1. HoldStep(x)
    BY <1>2 DEF HoldStep, Status
  <2>2. CASE x \in Members(s) \ {t}
    BY <1>2, <1>4, <1>8, <2>1, <2>2 DEF RowStep, Reslots, SameClaim
  <2>3. CASE x \notin Members(s) \ {t}
    BY <1>2, <1>4, <2>1, <2>3 DEF RowStep, Stays, SameRow, ClaimKept, SameClaim
  <2> QED BY <2>2, <2>3
<1>14. PICK r : r = [run[p][a] EXCEPT !.items = s, !.pc = "start"]
  OBVIOUS
<1>15. r \in RunType /\ r.items = s /\ r.pc = "start" /\ r.i = Run(p, a).i
  BY <1>3, <1>6, <1>14 DEF RunType, Pcs
<1>16. r.i \in DOMAIN r.items
  BY <1>3, <1>6, <1>7, <1>15
<1>17. run' = [run EXCEPT ![p][a] = r]
  BY <1>2, <1>14 DEF SInv, Typed
<1>18. /\ run' \in [Procs -> [Accounts -> RunType]]
       /\ \A q \in Procs, b \in Accounts : (Run(q, b).pc # "idle" => Run(q, b).i \in DOMAIN Run(q, b).items)'
       /\ run'[p][a] = r
       /\ \A q \in Procs, b \in Accounts : q # p \/ b # a => RunStep(q, b)
  BY <1>15, <1>16, <1>17, OneRun
<1>19. Extends(p, a)
  <2>1. run'[p][a].items = s /\ run'[p][a].pc = "start" /\ run'[p][a].i = Run(p, a).i
    BY <1>15, <1>18
  <2>2. task' = task /\ s[1] = Item(p, a)
    BY <1>1, <1>2, <1>6
  <2>3. \A j, k \in DOMAIN run'[p][a].items : run'[p][a].items[j] = run'[p][a].items[k] => j = k
    BY <1>6, <2>1
  <2>4. \A j \in DOMAIN run'[p][a].items : run'[p][a].items[j] \in Tasks /\ Account[run'[p][a].items[j]] = a
    BY <1>6, <2>1
  <2>5. \A j \in DOMAIN run'[p][a].items : j > 1 => Status(run'[p][a].items[j]) = "queued"
    BY <1>6, <2>1
  <2>6. Len(run'[p][a].items) >= 1
    BY <1>6, <2>1
  <2> QED BY <1>2, <2>1, <2>2, <2>3, <2>4, <2>5, <2>6 DEF Extends
<1>20. clicks' \in [Tasks -> Nat] /\ Clicks
  BY <1>2 DEF SInv, Typed, Clicks
<1>21. EnvTyped' /\ Posts /\ Clears /\ Quits /\ DayStep
  BY <1>2, <1>18, <1>20, OthersSame
<1>22. \A q \in Procs, b \in Accounts : RunStep(q, b)
  BY <1>18, <1>19 DEF RunStep
<1> QED BY <1>12, <1>13, <1>20, <1>21, <1>22, TypedNext DEF Step

LEMMA StartStep ==
  ASSUME SInv, NEW p \in Procs, NEW a \in Accounts, Start(p, a)
  PROVE  Typed' /\ Step
<1>1. PICK pc : pc = IF Len(Run(p, a).items) > 1 THEN "next" ELSE "work"
  OBVIOUS
<1>2. /\ Run(p, a).pc = "start" /\ up[p] = "up" /\ Go(p, a, pc) /\ UNCHANGED rows /\ UNCHANGED <<clicks, others>>
  BY <1>1 DEF Start, At
<1>3. pc \in Pcs \ {"idle"}
  BY <1>1 DEF Pcs
<1>4. SamePlace(p, a) /\ run'[p][a].pc = pc /\ run[p][a] = Run(p, a)
  BY <1>2, <1>3, GoFacts
<1>5. Moves(p, a)
  BY <1>1, <1>2, <1>4 DEF Moves, rows
<1> QED BY <1>2, <1>3, <1>5, RowsSame, SessionStep

LEMMA StartStoppedStep ==
  ASSUME SInv, NEW p \in Procs, NEW a \in Accounts, StartStopped(p, a)
  PROVE  Typed' /\ Step
<1>1. /\ Run(p, a).pc = "start" /\ Go(p, a, "leaving")
      /\ \/ left' = [left EXCEPT ![p] = @ \cup Members(Run(p, a).items)]
         \/ UNCHANGED left
      /\ UNCHANGED <<rows, up, req, post, clicks, day, stops, asked>>
  BY DEF StartStopped, At
<1>2. "leaving" \in Pcs \ {"idle"}
  BY DEF Pcs
<1>3. /\ run' \in [Procs -> [Accounts -> RunType]]
      /\ \A q \in Procs, b \in Accounts : (Run(q, b).pc # "idle" => Run(q, b).i \in DOMAIN Run(q, b).items)'
      /\ SamePlace(p, a) /\ run'[p][a].pc = "leaving"
      /\ \A q \in Procs, b \in Accounts : q # p \/ b # a => RunStep(q, b)
  BY <1>1, <1>2, GoFacts
<1>4. Members(Run(p, a).items) \subseteq Tasks
  <2>1. Run(p, a).items \in Seq(Tasks)
    BY <1>1, ItemFacts
  <2> QED BY <2>1 DEF Members
<1>5. EnvTyped
  BY TypedParts DEF SInv
<1>6. left' \in [Procs -> SUBSET Tasks]
  BY <1>1, <1>4, <1>5 DEF EnvTyped
<1>7. EnvTyped'
  BY <1>1, <1>3, <1>5, <1>6 DEF EnvTyped
<1>8. Clicks /\ Posts /\ Clears /\ Quits /\ DayStep
  BY <1>1 DEF Clicks, Posts, Clears, Quits, DayStep
<1>9. Moves(p, a)
  BY <1>1, <1>3 DEF Moves
<1>10. RowsStep
  BY <1>1, RowsSame
<1>11. \A q \in Procs, b \in Accounts : RunStep(q, b)
  BY <1>3, <1>9 DEF RunStep
<1> QED BY <1>7, <1>8, <1>10, <1>11, TypedNext DEF RowsStep, Step
\* A transaction on one row.
LEMMA OneRow ==
  ASSUME SInv, NEW t \in Tasks, NEW r \in RowType, NEW s \in SlotType, NEW c \in ClaimType,
         task' = [task EXCEPT ![t] = r], slot' = [slot EXCEPT ![t] = s], lease' = [lease EXCEPT ![t] = c],
         UNCHANGED <<hold, resv>>, r.conf = Attempts + 1 => r.result = "review" /\ r.status \notin Active
  PROVE  /\ RowsTyped' /\ task'[t] = r /\ slot'[t] = s /\ lease'[t] = c /\ hold'[t] = hold[t] /\ Alone(t)
         /\ \A x \in Tasks \ {t} : RowStep(x) /\ HoldStep(x)
<1>1. /\ task \in [Tasks -> RowType] /\ slot \in [Tasks -> SlotType] /\ lease \in [Tasks -> ClaimType] /\ RowsTyped
  BY TypedParts DEF SInv, RowsTyped
<1>2. task'[t] = r /\ slot'[t] = s /\ lease'[t] = c
  BY <1>1
<1>3. task' \in [Tasks -> RowType] /\ slot' \in [Tasks -> SlotType] /\ lease' \in [Tasks -> ClaimType]
  BY <1>1
<1>4. ASSUME NEW x \in Tasks \ {t}
      PROVE  task'[x] = task[x] /\ slot'[x] = slot[x] /\ hold'[x] = hold[x] /\ lease'[x].by = lease[x].by
  BY <1>1
<1>5. ASSUME NEW x \in Tasks PROVE Exhausted(x)'
  <2>1. CASE x = t
    BY <1>2, <2>1 DEF Exhausted, Status
  <2>2. CASE x # t
    BY <1>1, <1>4, <2>2 DEF RowsTyped, Exhausted, Status
  <2> QED BY <2>1, <2>2
<1>6. RowsTyped'
  BY <1>1, <1>3, <1>5 DEF RowsTyped
<1> QED BY <1>2, <1>4, <1>6, Untouched DEF Alone, SameRow

LEMMA SameExcept ==
  ASSUME SInv, NEW t \in Tasks
  PROVE  /\ [task EXCEPT ![t] = task[t]] = task /\ [slot EXCEPT ![t] = slot[t]] = slot
         /\ [lease EXCEPT ![t] = lease[t]] = lease
BY DEF SInv, Typed

LEMMA RaiseStep ==
  ASSUME SInv, NEW p \in Procs, NEW a \in Accounts, Raise(p, a)
  PROVE  Typed' /\ Step
<1>1. Run(p, a).pc # "idle" /\ Go(p, a, "raised") /\ UNCHANGED rows /\ UNCHANGED <<clicks, others>>
  BY DEF Raise, At
<1> QED BY <1>1, RowsSame, LeavesStep

LEMMA MarkItemStep ==
  ASSUME SInv, NEW p \in Procs, NEW a \in Accounts, MarkItem(p, a)
  PROVE  Typed' /\ Step
<1>1. PICK t : t = Item(p, a)
  OBVIOUS
<1>2. Run(p, a).pc = "next" /\ UNCHANGED <<slot, hold, resv>> /\ UNCHANGED <<clicks, others>>
  BY DEF MarkItem, At
<1>3. /\ t \in Tasks /\ task[t] \in RowType /\ slot[t] \in SlotType /\ lease[t] \in ClaimType /\ Exhausted(t)
      /\ Status(t) = task[t].status /\ Status(t)' = task'[t].status
  BY <1>1, <1>2, ItemFacts, RowFacts
<1>4. CASE ~MayMark(p, t)
  <2>1. UNCHANGED <<task, lease>> /\ Go(p, a, "raised")
    BY <1>1, <1>4 DEF MarkItem
  <2>2. UNCHANGED rows
    BY <1>2, <2>1 DEF rows
  <2> QED BY <1>2, <2>1, <2>2, RowsSame, LeavesStep
<1>5. CASE MayMark(p, t)
  <2>1. PICK r, c : /\ r = IF Status(t) = "queued" THEN With(task[t], "running") ELSE task[t]
                    /\ c = IF Status(t) = "queued" THEN Claim(p) ELSE lease[t]
    OBVIOUS
  <2>2. task' = [task EXCEPT ![t] = r] /\ lease' = [lease EXCEPT ![t] = c] /\ Go(p, a, "work")
    BY <1>1, <1>5, <2>1 DEF MarkItem
  <2>3. /\ r \in RowType /\ r.conf = task[t].conf /\ r.mark = task[t].mark
        /\ r.status = IF Status(t) = "queued" THEN "running" ELSE Status(t)
    BY <1>3, <2>1, RowHelpers DEF Statuses, Active
  <2>4. c \in ClaimType /\ c.by = p
    BY <1>3, <1>5, <2>1, ClaimHelpers DEF MayMark
  <2>5. Status(t) \in {"queued", "running", "need_manual"}
    BY <1>5 DEF MayMark, Live
  <2>6. r.conf # Attempts + 1
    BY <1>3, <2>3, <2>5 DEF Exhausted, Active
  <2>7. slot' = [slot EXCEPT ![t] = slot[t]]
    BY <1>2, <1>3, SameExcept
  <2>8. /\ RowsTyped' /\ task'[t] = r /\ slot'[t] = slot[t] /\ lease'[t] = c /\ hold'[t] = hold[t] /\ Alone(t)
        /\ \A x \in Tasks \ {t} : RowStep(x) /\ HoldStep(x)
    BY <1>2, <1>3, <2>2, <2>3, <2>4, <2>6, <2>7, OneRow
  <2>9. "work" \in Pcs \ {"idle"}
    BY DEF Pcs
  <2>10. SamePlace(p, a) /\ run'[p][a].pc = "work"
    BY <1>2, <2>2, <2>9, GoFacts
  <2>11. RowStep(t)
    <3>1. CASE Status(t) = "queued"
      <4>1. task'[t] = With(task[t], "running")
        BY <2>1, <2>8, <3>1
      <4>2. TakenBy(p, t)
        <5>1. resv[t] = Claim(p)
          BY <1>5, <3>1 DEF MayMark, Live
        <5> QED BY <1>1, <1>2, <2>4, <2>8, <2>10, <5>1 DEF TakenBy
      <4>3. IsTaken(t)
        BY <2>8, <3>1, <4>1, <4>2 DEF IsTaken
      <4> QED BY <4>3 DEF RowStep
    <3>2. CASE Status(t) # "queued"
      <4>1. task'[t] = task[t] /\ lease'[t] = lease[t]
        BY <2>1, <2>8, <3>2
      <4> QED BY <2>8, <4>1 DEF RowStep, Stays, SameRow, ClaimKept, SameClaim
    <3> QED BY <3>1, <3>2
  <2>12. HoldStep(t)
    BY <2>5, <2>8 DEF HoldStep
  <2>13. Moves(p, a)
    <3>1. Item(p, a)' = t
      BY <1>1, <2>10 DEF SamePlace, Item, Run
    <3>2. Status(t)' \in Live
      BY <1>3, <2>3, <2>5, <2>8 DEF Live
    <3>3. /\ MayMark(p, Item(p, a)) /\ Status(Item(p, a))' \in Live /\ lease'[Item(p, a)].by = p
          /\ task'[Item(p, a)].mark = task[Item(p, a)].mark /\ task'[Item(p, a)].conf = task[Item(p, a)].conf
      BY <1>1, <1>5, <2>3, <2>4, <2>8, <3>1, <3>2 DEF Status
    <3> QED BY <1>2, <2>10, <3>3 DEF Moves
  <2> QED BY <1>2, <2>2, <2>8, <2>9, <2>11, <2>12, <2>13, SessionStep DEF RowsStep
<1> QED BY <1>4, <1>5

LEMMA ArmStep ==
  ASSUME SInv, NEW p \in Procs, NEW a \in Accounts, Arm(p, a)
  PROVE  Typed' /\ Step
<1>1. PICK t : t = Item(p, a)
  OBVIOUS
<1>2. /\ Run(p, a).pc = "work" /\ task[t].conf = 0 /\ UNCHANGED <<hold, lease, resv>> /\ UNCHANGED <<clicks, others>>
  BY <1>1 DEF Arm, At
<1>3. /\ t \in Tasks /\ task[t] \in RowType /\ slot[t] \in SlotType /\ lease[t] \in ClaimType /\ day \in 0..LastDay
      /\ Status(t) = task[t].status /\ Status(t)' = task'[t].status
  BY <1>1, <1>2, ItemFacts, RowFacts
<1>4. CASE Run(p, a).stop \/ Status(t) \notin Live
  <2>1. UNCHANGED <<task, slot>> /\ Go(p, a, "raised")
    BY <1>1, <1>4 DEF Arm
  <2>2. UNCHANGED rows
    BY <1>2, <2>1 DEF rows
  <2> QED BY <1>2, <2>1, <2>2, RowsSame, LeavesStep
<1>5. CASE ~Run(p, a).stop /\ Status(t) \in Live
  <2>1. PICK m : m = IF t \in Publish THEN "submitted" ELSE IF task[t].mark = "none" THEN "submitting" ELSE task[t].mark
    OBVIOUS
  <2>2. PICK r : r = [task[t] EXCEPT !.mark = m]
    OBVIOUS
  <2>3. /\ task' = [task EXCEPT ![t].mark = m] /\ slot' = [slot EXCEPT ![t] = SetSlotToday(@, "armed")]
        /\ Go(p, a, "armed")
    BY <1>1, <1>5, <2>1 DEF Arm
  <2>4. m \in {"none", "submitting", "submitted"}
    BY <1>3, <2>1 DEF RowType
  <2>5. /\ r \in RowType /\ r.conf = 0 /\ r.status = Status(t) /\ r.mark = m
    BY <1>2, <1>3, <2>2, <2>4 DEF RowType
  <2>6. task' = [task EXCEPT ![t] = r] /\ lease' = [lease EXCEPT ![t] = lease[t]]
    BY <1>2, <1>3, <2>2, <2>3, SameExcept
  <2>7. PICK s \in SlotType : s = SetSlotToday(slot[t], "armed")
    BY <1>3, SlotHelpers DEF Spent
  <2>14. slot' = [slot EXCEPT ![t] = s]
    BY <2>3, <2>7
  <2>8. /\ RowsTyped' /\ task'[t] = r /\ slot'[t] = SetSlotToday(slot[t], "armed") /\ lease'[t] = lease[t]
        /\ hold'[t] = hold[t] /\ \A x \in Tasks \ {t} : RowStep(x) /\ HoldStep(x)
    <3>1. r.conf # Attempts + 1
      BY <2>5, Bounds
    <3>2. PICK c \in ClaimType : c = lease[t]
      BY <1>3
    <3>3. lease' = [lease EXCEPT ![t] = c] /\ UNCHANGED <<hold, resv>>
      BY <1>2, <2>6, <3>2
    <3>4. /\ RowsTyped' /\ task'[t] = r /\ slot'[t] = s /\ lease'[t] = c
          /\ hold'[t] = hold[t] /\ \A x \in Tasks \ {t} : RowStep(x) /\ HoldStep(x)
      <4>1. t \in Tasks /\ r \in RowType /\ task' = [task EXCEPT ![t] = r]
        BY <1>3, <2>5, <2>6
      <4> QED BY <2>14, <3>1, <3>3, <4>1, OneRow
    <3> QED BY <2>7, <3>2, <3>4
  <2>9. "armed" \in Pcs \ {"idle"}
    BY DEF Pcs
  <2>10. SamePlace(p, a) /\ run'[p][a].pc = "armed"
    BY <1>2, <2>3, <2>9, GoFacts
  <2>11. IsArmed(t)
    <3>1. Status(t)' = Status(t) /\ task'[t].conf = task[t].conf /\ SameClaim(t)
          /\ (t \in Publish => task'[t].mark = "submitted")
      BY <1>2, <1>3, <2>1, <2>5, <2>8 DEF SameClaim
    <3> QED BY <1>1, <1>2, <1>5, <2>8, <2>10, <3>1 DEF IsArmed
  <2>12. HoldStep(t)
    BY <1>5, <2>8 DEF HoldStep, Live
  <2>13. Moves(p, a)
    <3>1. Item(p, a)' = t
      BY <1>1, <2>10 DEF SamePlace, Item, Run
    <3>2. IsArmed(Item(p, a))
      BY <1>1, <2>11, <3>1 DEF IsArmed, SameClaim, Status
    <3> QED BY <1>2, <2>10, <3>2 DEF Moves
  <2> QED BY <1>2, <2>3, <2>8, <2>9, <2>11, <2>12, <2>13, SessionStep DEF RowsStep, RowStep
<1> QED BY <1>4, <1>5

LEMMA PersistStep ==
  ASSUME SInv, NEW p \in Procs, NEW a \in Accounts, PersistConfirmation(p, a)
  PROVE  Typed' /\ Step
<1>1. PICK t : t = Item(p, a)
  OBVIOUS
<1> DEFINE fits == slot[t].day = day \/ Cardinality(Executing \ {t}) < Limit
<1>2. /\ Run(p, a).pc = "armed" /\ Kind[t] = "threads" /\ UNCHANGED <<hold, lease, resv>>
      /\ UNCHANGED <<clicks, others>>
  BY <1>1 DEF PersistConfirmation, At
<1>3. /\ t \in Tasks /\ task[t] \in RowType /\ slot[t] \in SlotType /\ lease[t] \in ClaimType /\ day \in 0..LastDay
      /\ Status(t) = task[t].status /\ Status(t)' = task'[t].status /\ Exhausted(t)
  BY <1>1, <1>2, ItemFacts, RowFacts
<1>4. CASE ~(Status(t) = "running" /\ fits)
  <2>1. UNCHANGED <<task, slot>> /\ Go(p, a, "raised")
    BY <1>1, <1>4 DEF PersistConfirmation
  <2>2. UNCHANGED rows
    BY <1>2, <2>1 DEF rows
  <2> QED BY <1>2, <2>1, <2>2, RowsSame, LeavesStep
<1>5. CASE Status(t) = "running" /\ fits
  <2>1. PICK c : c = IF task[t].conf = 0 THEN 1 ELSE task[t].conf
    OBVIOUS
  <2>2. PICK r : r = [task[t] EXCEPT !.conf = c, !.mark = "submitted"]
    OBVIOUS
  <2>3. /\ task' = [task EXCEPT ![t].conf = c, ![t].mark = "submitted"]
        /\ slot' = [slot EXCEPT ![t] = SetSlotToday(@, "armed")] /\ Go(p, a, "ready")
    BY <1>1, <1>5, <2>1 DEF PersistConfirmation
  <2>4. c \in 0..(Attempts + 1) /\ c > 0 /\ c # Attempts + 1
    <3>1. task[t].conf # Attempts + 1 /\ task[t].conf \in 0..(Attempts + 1)
      BY <1>3, <1>5 DEF Exhausted, Active, RowType
    <3> QED BY <2>1, <3>1, Bounds
  <2>5. /\ r \in RowType /\ r.conf = c /\ r.status = Status(t) /\ r.mark = "submitted"
    BY <1>3, <2>2, <2>4 DEF RowType
  <2>6. task' = [task EXCEPT ![t] = r] /\ lease' = [lease EXCEPT ![t] = lease[t]]
    <3>1. task' = [task EXCEPT ![t] = r]
      BY <1>3, <2>2, <2>3 DEF SInv, Typed
    <3> QED BY <1>2, <1>3, <3>1, SameExcept
  <2>7. PICK s \in SlotType : s = SetSlotToday(slot[t], "armed")
    BY <1>3, SlotHelpers DEF Spent
  <2>14. slot' = [slot EXCEPT ![t] = s]
    BY <2>3, <2>7
  <2>8. /\ RowsTyped' /\ task'[t] = r /\ slot'[t] = SetSlotToday(slot[t], "armed") /\ lease'[t] = lease[t]
        /\ hold'[t] = hold[t] /\ Alone(t) /\ \A x \in Tasks \ {t} : RowStep(x) /\ HoldStep(x)
    <3>1. r.conf # Attempts + 1
      BY <2>4, <2>5
    <3>2. PICK cl \in ClaimType : cl = lease[t]
      BY <1>3
    <3>3. lease' = [lease EXCEPT ![t] = cl] /\ UNCHANGED <<hold, resv>>
      BY <1>2, <2>6, <3>2
    <3>4. /\ RowsTyped' /\ task'[t] = r /\ slot'[t] = s /\ lease'[t] = cl
          /\ hold'[t] = hold[t] /\ Alone(t) /\ \A x \in Tasks \ {t} : RowStep(x) /\ HoldStep(x)
      <4>1. t \in Tasks /\ r \in RowType /\ task' = [task EXCEPT ![t] = r]
        BY <1>3, <2>5, <2>6
      <4> QED BY <2>14, <3>1, <3>3, <4>1, OneRow
    <3> QED BY <2>7, <3>2, <3>4
  <2>9. "ready" \in Pcs \ {"idle"}
    BY DEF Pcs
  <2>10. SamePlace(p, a) /\ run'[p][a].pc = "ready"
    BY <1>2, <2>3, <2>9, GoFacts
  <2>11. IsConfirmed(t)
    <3>1. Status(t)' = Status(t) /\ task'[t].conf > 0 /\ SameClaim(t) /\ task'[t].mark = "submitted"
      BY <1>3, <2>4, <2>5, <2>8 DEF SameClaim
    <3> QED BY <1>1, <1>2, <1>5, <2>8, <2>10, <3>1 DEF IsConfirmed
  <2>12. HoldStep(t)
    BY <1>5, <2>8 DEF HoldStep
  <2>13. Moves(p, a)
    <3>1. Item(p, a)' = t
      BY <1>1, <2>10 DEF SamePlace, Item, Run
    <3>2. IsConfirmed(Item(p, a))
      BY <1>1, <2>11, <3>1 DEF IsConfirmed, SameClaim, Status, Alone
    <3> QED BY <1>2, <2>10, <3>2 DEF Moves
  <2> QED BY <1>2, <2>3, <2>8, <2>9, <2>11, <2>12, <2>13, SessionStep DEF RowsStep, RowStep
<1> QED BY <1>4, <1>5
LEMMA ClickStep ==
  ASSUME SInv, NEW p \in Procs, NEW a \in Accounts, Click(p, a)
  PROVE  Typed' /\ Step
<1>1. PICK t : t = Item(p, a)
  OBVIOUS
<1>2. PICK pc : pc = IF Kind[t] = "comment" THEN "clicked" ELSE "posted"
  OBVIOUS
<1>3. /\ Run(p, a).pc = "ready" \/ (Run(p, a).pc = "armed" /\ Kind[t] # "threads")
      /\ clicks' = [clicks EXCEPT ![t] = @ + 1] /\ Go(p, a, pc) /\ UNCHANGED rows /\ UNCHANGED others
  BY <1>1, <1>2 DEF Click, At
<1>4. t \in Tasks /\ Run(p, a).pc # "idle"
  BY <1>1, <1>3, ItemFacts
<1>5. Kind[t] \in {"threads", "instagram", "comment"}
  BY <1>4, SocialConstants
<1>6. pc \in Pcs \ {"idle"} /\ pc # "next"
  BY <1>2 DEF Pcs
<1>7. /\ run' \in [Procs -> [Accounts -> RunType]]
      /\ \A q \in Procs, b \in Accounts : (Run(q, b).pc # "idle" => Run(q, b).i \in DOMAIN Run(q, b).items)'
      /\ SamePlace(p, a) /\ run'[p][a].pc = pc
      /\ \A q \in Procs, b \in Accounts : q # p \/ b # a => RunStep(q, b)
  BY <1>3, <1>4, <1>6, GoFacts
<1>8. clicks' \in [Tasks -> Nat]
  <2>1. clicks \in [Tasks -> Nat]
    BY DEF SInv, Typed
  <2>2. clicks[t] + 1 \in Nat
    BY <1>4, <2>1
  <2> QED BY <1>3, <2>1, <2>2
<1>9. EnvTyped' /\ Posts /\ Clears /\ Quits /\ DayStep
  BY <1>3, <1>7, <1>8, OthersSame
<1>10. Clicks
  <2>1. run'[p][a].pc \in {"posted", "clicked"}
    BY <1>2, <1>7
  <2>2. task' = task /\ hold' = hold
    BY <1>3 DEF rows
  <2> QED BY <1>1, <1>3, <1>7, <2>1, <2>2 DEF Clicks
<1>11. Moves(p, a)
  <2>1. CASE Run(p, a).pc = "ready"
    <3>1. Kind[t] = "threads"
      BY <1>1, <2>1 DEF SInv, RunOK
    <3> QED BY <1>1, <1>2, <1>6, <1>7, <2>1, <3>1 DEF Moves
  <2>2. CASE Run(p, a).pc = "armed" /\ Kind[t] = "instagram"
    BY <1>1, <1>2, <1>6, <1>7, <2>2 DEF Moves
  <2>3. CASE Run(p, a).pc = "armed" /\ Kind[t] = "comment"
    <3>1. t \notin Publish
      BY <2>3 DEF Publish
    <3> QED BY <1>1, <1>2, <1>6, <1>7, <2>3, <3>1 DEF Moves
  <2> QED BY <1>3, <1>5, <2>1, <2>2, <2>3
<1>12. RowsStep
  BY <1>3, RowsSame
<1>13. \A q \in Procs, b \in Accounts : RunStep(q, b)
  BY <1>7, <1>11 DEF RunStep
<1> QED BY <1>9, <1>10, <1>12, <1>13, TypedNext DEF RowsStep, Step

LEMMA CommitActionStep ==
  ASSUME SInv, NEW p \in Procs, NEW a \in Accounts, CommitAction(p, a)
  PROVE  Typed' /\ Step
<1>1. PICK t : t = Item(p, a)
  OBVIOUS
<1>2. Run(p, a).pc = "clicked" /\ UNCHANGED <<slot, hold, lease, resv>> /\ UNCHANGED <<clicks, others>>
  BY DEF CommitAction, At
<1>3. /\ t \in Tasks /\ task[t] \in RowType /\ slot[t] \in SlotType /\ lease[t] \in ClaimType /\ Exhausted(t)
      /\ Status(t) = task[t].status /\ Status(t)' = task'[t].status
  BY <1>1, <1>2, ItemFacts, RowFacts
<1>4. t \notin Publish
  BY <1>1, <1>2 DEF SInv, RunOK
<1>5. CASE Status(t) \notin Live
  <2>1. UNCHANGED task /\ Go(p, a, "raised")
    BY <1>1, <1>5 DEF CommitAction
  <2>2. UNCHANGED rows
    BY <1>2, <2>1 DEF rows
  <2> QED BY <1>2, <2>1, <2>2, RowsSame, LeavesStep
<1>6. CASE Status(t) \in Live
  <2>1. PICK r : r = [task[t] EXCEPT !.mark = "submitted"]
    OBVIOUS
  <2>2. task' = [task EXCEPT ![t] = r] /\ Go(p, a, "posted")
    BY <1>1, <1>6, <2>1 DEF CommitAction
  <2>3. r \in RowType /\ r.conf = task[t].conf /\ r.status = Status(t)
    BY <1>3, <2>1 DEF RowType
  <2>4. r.conf # Attempts + 1
    BY <1>3, <1>6, <2>3 DEF Exhausted, Live, Active
  <2>5. PICK s \in SlotType, c \in ClaimType : s = slot[t] /\ c = lease[t]
    BY <1>3
  <2>6. slot' = [slot EXCEPT ![t] = s] /\ lease' = [lease EXCEPT ![t] = c] /\ UNCHANGED <<hold, resv>>
    BY <1>2, <1>3, <2>5, SameExcept
  <2>7. /\ RowsTyped' /\ task'[t] = r /\ slot'[t] = s /\ lease'[t] = c /\ hold'[t] = hold[t]
        /\ \A x \in Tasks \ {t} : RowStep(x) /\ HoldStep(x)
    <3>1. t \in Tasks /\ r \in RowType /\ task' = [task EXCEPT ![t] = r]
      BY <1>3, <2>2, <2>3
    <3> QED BY <2>4, <2>6, <3>1, OneRow
  <2>8. "posted" \in Pcs \ {"idle"}
    BY DEF Pcs
  <2>9. SamePlace(p, a) /\ run'[p][a].pc = "posted"
    BY <1>2, <2>2, <2>8, GoFacts
  <2>10. IsCounted(t)
    BY <1>3, <1>4, <1>6, <2>3, <2>5, <2>7 DEF IsCounted, SameClaim
  <2>11. HoldStep(t)
    BY <1>6, <2>7 DEF HoldStep, Live
  <2>12. Moves(p, a)
    BY <1>1, <1>2, <1>4, <2>9 DEF Moves
  <2> QED BY <1>2, <2>2, <2>7, <2>8, <2>10, <2>11, <2>12, SessionStep DEF RowsStep, RowStep
<1> QED BY <1>5, <1>6

\* A row whose post is visible, or is looked for.
LEMMA LooksFacts ==
  ASSUME SInv, NEW p \in Procs, NEW a \in Accounts, NEW t, t = Item(p, a),
         At(p, a, {"posted"}) \/ Confirming(p, a)
  PROVE  t \in Tasks /\ MayLook(t) /\ Run(p, a).pc \in {"posted", "work"}
<1>1. /\ Run(p, a).pc = "posted" \/ (Run(p, a).pc = "work" /\ task[t].conf > 0)
  BY DEF At, Confirming
<1>2. t \in Tasks
  BY <1>1, ItemFacts
<1> QED BY <1>1, <1>2 DEF MayLook

LEMMA SucceedStep ==
  ASSUME SInv, NEW p \in Procs, NEW a \in Accounts, Succeed(p, a)
  PROVE  Typed' /\ Step
<1>1. PICK t : t = Item(p, a)
  OBVIOUS
<1>2. PICK r : r = IF ~(Run(p, a).i < Len(Run(p, a).items)) THEN [run[p][a] EXCEPT !.pc = "leaving"]
                   ELSE IF Status(Item(p, a)) \in Live THEN [run[p][a] EXCEPT !.pc = "next", !.i = Run(p, a).i + 1]
                   ELSE [run[p][a] EXCEPT !.pc = "raised"]
  OBVIOUS
<1>3. /\ At(p, a, {"posted"}) \/ Confirming(p, a)
      /\ Unless(t, FinishSuccess(t)) /\ UNCHANGED <<clicks, others>>
  BY <1>1 DEF Succeed
<1>4. run' = [run EXCEPT ![p][a] = r]
  BY <1>2 DEF Succeed
<1>5. t \in Tasks /\ MayLook(t) /\ Run(p, a).pc \in {"posted", "work"}
  BY <1>1, <1>3, LooksFacts
<1>6. run[p][a] \in RunType /\ Run(p, a) = run[p][a] /\ Run(p, a).i \in DOMAIN Run(p, a).items
  BY <1>5 DEF SInv, Typed, Run
<1>7. /\ r \in RunType /\ r.items = run[p][a].items /\ r.i \in DOMAIN r.items
      /\ \/ r.pc \in {"leaving", "raised"} /\ r.i = run[p][a].i
         \/ r.pc = "next" /\ r.i = run[p][a].i + 1
  <2>1. run[p][a].items \in Seq(Tasks) /\ run[p][a].i \in Nat /\ DOMAIN run[p][a].items = 1..Len(run[p][a].items)
        /\ Len(run[p][a].items) \in Nat
    BY <1>6 DEF RunType
  <2>2. run[p][a].i < Len(run[p][a].items) => run[p][a].i + 1 \in DOMAIN run[p][a].items
    BY <1>6, <2>1
  <2>3. CASE r = [run[p][a] EXCEPT !.pc = "leaving"]
    BY <1>6, <2>3 DEF RunType, Pcs
  <2>4. CASE r = [run[p][a] EXCEPT !.pc = "raised"]
    BY <1>6, <2>4 DEF RunType, Pcs
  <2>5. CASE Run(p, a).i < Len(Run(p, a).items) /\ r = [run[p][a] EXCEPT !.pc = "next", !.i = Run(p, a).i + 1]
    <3>1. run[p][a].i + 1 \in Nat
      BY <2>1
    <3>2. r.pc = "next" /\ r.i = run[p][a].i + 1 /\ r.items = run[p][a].items /\ r \in RunType
      BY <1>6, <2>5, <3>1 DEF RunType, Pcs
    <3> QED BY <1>6, <2>2, <2>5, <3>2
  <2> QED BY <1>2, <2>3, <2>4, <2>5
<1>8. /\ run' \in [Procs -> [Accounts -> RunType]]
      /\ \A q \in Procs, b \in Accounts : (Run(q, b).pc # "idle" => Run(q, b).i \in DOMAIN Run(q, b).items)'
      /\ run'[p][a] = r
      /\ \A q \in Procs, b \in Accounts : q # p \/ b # a => RunStep(q, b)
  BY <1>4, <1>7, OneRun
<1>9. RunStep(p, a)
  <2>1. CASE r.pc \in {"leaving", "raised"} /\ r.i = run[p][a].i
    BY <1>5, <1>6, <1>7, <1>8, <2>1 DEF RunStep, Moves, SamePlace
  <2>2. CASE r.pc = "next" /\ r.i = run[p][a].i + 1
    BY <1>5, <1>6, <1>7, <1>8, <2>2 DEF RunStep, GoesOn
  <2> QED BY <1>7, <2>1, <2>2
<1>10. RowsStep
  <2>1. CASE Cancelled(t)
    BY <1>3, <2>1, RowsSame DEF Unless
  <2>2. CASE ~Cancelled(t)
    BY <1>3, <1>5, <2>2, FinishSuccessStep DEF Unless
  <2> QED BY <2>1, <2>2
<1>11. clicks' \in [Tasks -> Nat] /\ Clicks
  BY <1>3 DEF SInv, Typed, Clicks
<1>12. EnvTyped' /\ Posts /\ Clears /\ Quits /\ DayStep
  BY <1>3, <1>8, <1>11, OthersSame
<1>13. \A q \in Procs, b \in Accounts : RunStep(q, b)
  BY <1>8, <1>9
<1> QED BY <1>10, <1>11, <1>12, <1>13, TypedNext DEF RowsStep, Step

LEMMA PendingStep ==
  ASSUME SInv, NEW p \in Procs, NEW a \in Accounts, Pending(p, a)
  PROVE  Typed' /\ Step
<1>1. PICK t : t = Item(p, a)
  OBVIOUS
<1>2. /\ At(p, a, {"posted"}) \/ Confirming(p, a)
      /\ t \in Publish /\ Unless(t, RequeuePublishConfirmation(t)) /\ Go(p, a, "leaving")
      /\ UNCHANGED <<clicks, others>>
  BY <1>1 DEF Pending
<1>3. MayLook(t) /\ Run(p, a).pc # "idle"
  BY <1>1, <1>2, LooksFacts
<1>4. RowsStep
  <2>1. CASE Cancelled(t)
    BY <1>2, <2>1, RowsSame DEF Unless
  <2>2. CASE ~Cancelled(t)
    BY <1>2, <1>3, <2>2, ConfirmationStep DEF Unless
  <2> QED BY <2>1, <2>2
<1> QED BY <1>2, <1>3, <1>4, LeavesStep

LEMMA OutcomeUnknownStep ==
  ASSUME SInv, NEW p \in Procs, NEW a \in Accounts, OutcomeUnknown(p, a)
  PROVE  Typed' /\ Step
<1>1. PICK t : t = Item(p, a)
  OBVIOUS
<1>2. /\ Run(p, a).pc = "posted" /\ Unless(t, FinishFailed(t, "review")) /\ Go(p, a, "leaving")
      /\ UNCHANGED <<clicks, others>>
  BY <1>1 DEF OutcomeUnknown, At
<1>3. t \in Tasks /\ (t \in Publish => Committed(t))
  BY <1>1, <1>2, ItemFacts DEF SInv, RunOK, Sent
<1>4. RowsStep
  <2>1. CASE Cancelled(t)
    BY <1>2, <2>1, RowsSame DEF Unless
  <2>2. CASE ~Cancelled(t)
    BY <1>2, <1>3, <2>2, FailStep DEF Unless
  <2> QED BY <2>1, <2>2
<1> QED BY <1>2, <1>4, LeavesStep

LEMMA LoginFailedStep ==
  ASSUME SInv, NEW p \in Procs, NEW a \in Accounts, LoginFailed(p, a)
  PROVE  Typed' /\ Step
<1>1. PICK t : t = Item(p, a)
  OBVIOUS
<1>2. /\ Run(p, a).pc = "work" /\ Unless(t, FinishFailed(t, "plain")) /\ Go(p, a, "leaving")
      /\ UNCHANGED <<clicks, others>>
  BY <1>1 DEF LoginFailed, At
<1>3. t \in Tasks
  BY <1>1, <1>2, ItemFacts
<1>4. RowsStep
  <2>1. CASE Cancelled(t)
    BY <1>2, <2>1, RowsSame DEF Unless
  <2>2. CASE ~Cancelled(t)
    BY <1>2, <1>3, <2>2, FailStep DEF Unless
  <2> QED BY <2>1, <2>2
<1> QED BY <1>2, <1>4, LeavesStep
\* A person takes over, or gives back, or is asked for.
LEMMA HandsStep ==
  ASSUME SInv, NEW t \in Tasks, NEW r \in RowType, NEW s \in SlotType, task' = [task EXCEPT ![t] = r],
         slot' = [slot EXCEPT ![t] = s], UNCHANGED <<hold, lease, resv>>, Status(t) \in Live, r.status \in Live,
         r.status = "need_manual" => "takeover" \in Requests, r.conf = task[t].conf, r.mark = task[t].mark,
         s = slot[t] \/ s = SetSlot(slot[t], IF Committed(t) THEN "unknown" ELSE "reserved")
  PROVE  RowsStep
<1>1. lease[t] \in ClaimType /\ Exhausted(t) /\ Status(t)' = task'[t].status
  BY RowFacts
<1>2. r.conf # Attempts + 1
  BY <1>1 DEF Exhausted, Live, Active
<1>3. /\ task \in [Tasks -> RowType] /\ slot \in [Tasks -> SlotType] /\ RowsTyped
  BY TypedParts DEF SInv, RowsTyped
<1>4. /\ task'[t] = r /\ slot'[t] = s /\ lease'[t] = lease[t] /\ hold'[t] = hold[t]
      /\ task' \in [Tasks -> RowType] /\ slot' \in [Tasks -> SlotType]
  BY <1>3
<1>5. /\ RowsTyped' /\ \A x \in Tasks \ {t} : RowStep(x) /\ HoldStep(x)
  <2>1. ASSUME NEW x \in Tasks \ {t} PROVE task'[x] = task[x] /\ slot'[x] = slot[x]
    BY <1>3
  <2>2. ASSUME NEW x \in Tasks PROVE Exhausted(x)'
    <3>1. CASE x = t
      BY <1>2, <1>4, <3>1 DEF Exhausted
    <3>2. CASE x # t
      BY <1>3, <2>1, <3>2 DEF RowsTyped, Exhausted, Status
    <3> QED BY <3>1, <3>2
  <2>3. RowsTyped'
    BY <1>3, <1>4, <2>2 DEF RowsTyped
  <2> QED BY <2>1, <2>3, Untouched
<1>6. ChangesHands(t)
  BY <1>4 DEF ChangesHands, SameClaim
<1>7. HoldStep(t)
  BY <1>4 DEF HoldStep, Live
<1> QED BY <1>5, <1>6, <1>7 DEF RowsStep, RowStep

LEMMA NeedManualStep ==
  ASSUME SInv, NEW p \in Procs, NEW a \in Accounts, NeedManual(p, a)
  PROVE  Typed' /\ Step
<1>1. PICK t : t = Item(p, a)
  OBVIOUS
<1>2. Run(p, a).pc = "work" /\ "takeover" \in Requests /\ Go(p, a, "leaving") /\ UNCHANGED <<clicks, others>>
  BY DEF NeedManual, At
<1>3. t \in Tasks /\ task[t] \in RowType /\ slot[t] \in SlotType /\ day \in 0..LastDay
  BY <1>1, <1>2, ItemFacts, RowFacts
<1>4. CASE Status(t) \in Live
  <2>1. PICK r : r = [task[t] EXCEPT !.status = "need_manual", !.result = "plain"]
    OBVIOUS
  <2>2. PICK s : s = SetSlot(slot[t], IF Committed(t) THEN "unknown" ELSE "reserved")
    OBVIOUS
  <2>3. /\ task' = [task EXCEPT ![t].status = "need_manual", ![t].result = "plain"]
        /\ slot' = [slot EXCEPT ![t] = s] /\ UNCHANGED <<hold, lease, resv>>
    BY <1>1, <1>4, <2>2 DEF NeedManual
  <2>4. task' = [task EXCEPT ![t] = r]
    BY <1>3, <2>1, <2>3 DEF SInv, Typed
  <2>5. r \in RowType /\ r.status = "need_manual" /\ r.conf = task[t].conf /\ r.mark = task[t].mark
    BY <1>3, <2>1 DEF RowType, Active
  <2>6. s \in SlotType
    BY <1>3, <2>2, SlotHelpers DEF Spent
  <2>7. RowsStep
    BY <1>2, <1>3, <1>4, <2>2, <2>3, <2>4, <2>5, <2>6, HandsStep DEF Live
  <2> QED BY <1>2, <2>7, LeavesStep
<1>5. CASE Status(t) \notin Live
  <2>1. Unless(t, FinishLate(t))
    BY <1>1, <1>5 DEF NeedManual
  <2>2. RowsStep
    <3>1. CASE Cancelled(t)
      BY <2>1, <3>1, RowsSame DEF Unless
    <3>2. CASE ~Cancelled(t)
      BY <1>3, <2>1, <3>2, FinishLateStep DEF Unless
    <3> QED BY <3>1, <3>2
  <2> QED BY <1>2, <2>2, LeavesStep
<1> QED BY <1>4, <1>5

LEMMA FailSafelyStep ==
  ASSUME SInv, NEW p \in Procs, NEW a \in Accounts, FailSafely(p, a)
  PROVE  Typed' /\ Step
<1>1. PICK t : t = Item(p, a)
  OBVIOUS
<1>2. /\ Run(p, a).pc = "raised" /\ Go(p, a, "leaving") /\ UNCHANGED <<clicks, others>>
      /\ \/ UNCHANGED rows
         \/ Unless(t, IF task[t].conf > 0 THEN RequeuePublishConfirmation(t)
                      ELSE IF t \notin Publish /\ task[t].tries < Retries /\ Status(t) = "running" THEN RetryRow(t)
                      ELSE FinishFailed(t, "plain"))
  BY <1>1 DEF FailSafely, At
<1>3. t \in Tasks /\ RowOK(t)
  BY <1>1, <1>2, ItemFacts, RowFacts
<1>4. RowsStep
  <2>1. CASE UNCHANGED rows
    BY <2>1, RowsSame
  <2>2. CASE RequeuePublishConfirmation(t) /\ task[t].conf > 0
    <3>1. t \in Publish /\ MayLook(t)
      BY <1>3, <2>2 DEF RowOK, MayLook
    <3> QED BY <2>2, <3>1, ConfirmationStep
  <2>3. CASE RetryRow(t) /\ t \notin Publish /\ task[t].tries < Retries /\ Status(t) = "running"
    BY <1>3, <2>3, RetryRowStep
  <2>4. CASE FinishFailed(t, "plain")
    BY <1>3, <2>4, FailStep
  <2> QED BY <1>2, <2>1, <2>2, <2>3, <2>4 DEF Unless
<1> QED BY <1>2, <1>4, LeavesStep

LEMMA StopReturnStep ==
  ASSUME SInv, NEW p \in Procs, NEW a \in Accounts, StopReturn(p, a)
  PROVE  Typed' /\ Step
<1>1. PICK t : t = Item(p, a)
  OBVIOUS
<1>2. /\ Run(p, a).pc # "idle" /\ Go(p, a, "leaving") /\ UNCHANGED <<clicks, others>>
      /\ UNCHANGED rows \/ Unless(t, FinishFailed(t, "plain"))
  BY <1>1 DEF StopReturn, At
<1>3. t \in Tasks
  BY <1>1, <1>2, ItemFacts
<1>4. RowsStep
  <2>1. CASE UNCHANGED rows
    BY <2>1, RowsSame
  <2>2. CASE FinishFailed(t, "plain")
    BY <1>3, <2>2, FailStep
  <2> QED BY <1>2, <2>1, <2>2 DEF Unless
<1> QED BY <1>2, <1>4, LeavesStep

LEMMA LeaveStep ==
  ASSUME SInv, NEW p \in Procs, NEW a \in Accounts, Leave(p, a)
  PROVE  Typed' /\ Step
<1> DEFINE manual == {x \in Members(Run(p, a).items) : Status(x) = "need_manual"}
<1>1. /\ Run(p, a).pc = "leaving" /\ run' = [run EXCEPT ![p][a] = Idle] /\ UNCHANGED <<clicks, others>>
      /\ IF manual = {} THEN UNCHANGED rows ELSE FinishFailed(CHOOSE x \in manual : TRUE, "noretry")
  BY DEF Leave, At
<1>2. manual \subseteq Tasks
  <2>1. Run(p, a).items \in Seq(Tasks)
    BY <1>1, ItemFacts
  <2> QED BY <2>1 DEF Members
<1> HIDE DEF manual
<1>3. RowsStep
  <2>1. CASE manual = {}
    BY <1>1, <2>1, RowsSame
  <2>2. CASE manual # {}
    <3>1. PICK t \in Tasks : t = CHOOSE x \in manual : TRUE
      BY <1>2, <2>2
    <3>2. FinishFailed(t, "noretry")
      BY <1>1, <2>2, <3>1
    <3> QED BY <3>2, FailStep
  <2> QED BY <2>1, <2>2
<1>4. Idle \in RunType /\ Idle.pc = "idle"
  BY DEF Idle, RunType, Pcs
<1>5. PICK r \in RunType : r = Idle
  BY <1>4
<1>6. run' = [run EXCEPT ![p][a] = r]
  BY <1>1, <1>5
<1>7. /\ run' \in [Procs -> [Accounts -> RunType]]
      /\ \A q \in Procs, b \in Accounts : (Run(q, b).pc # "idle" => Run(q, b).i \in DOMAIN Run(q, b).items)'
      /\ run'[p][a] = r
      /\ \A q \in Procs, b \in Accounts : q # p \/ b # a => RunStep(q, b)
  BY <1>4, <1>5, <1>6, OneRun
<1>8. clicks' \in [Tasks -> Nat] /\ Clicks
  BY <1>1 DEF SInv, Typed, Clicks
<1>9. EnvTyped' /\ Posts /\ Clears /\ Quits /\ DayStep
  BY <1>1, <1>7, <1>8, OthersSame
<1>10. \A q \in Procs, b \in Accounts : RunStep(q, b)
  BY <1>5, <1>7 DEF RunStep, Ends
<1> QED BY <1>3, <1>8, <1>9, <1>10, TypedNext DEF RowsStep, Step

\* A request of a client or a tick of the clock: rows, the request and counters.
LEMMA QuietStep ==
  ASSUME SInv, RowsStep, UNCHANGED <<up, run, left, post, clicks>>, day' = day, req' \in ReqType, stops' \in Nat,
         asked' \in Nat, Clears
  PROVE  Typed' /\ Step
<1>1. EnvTyped'
  BY TypedParts DEF SInv, EnvTyped, Run
<1>2. Clicks /\ Posts /\ Quits /\ DayStep
  BY DEF Clicks, Posts, Quits, DayStep
<1>3. Typed'
  BY <1>1, TypedNext DEF RowsStep
<1> QED BY <1>2, <1>3, RunSame DEF RowsStep, Step

LEMMA EnvFacts ==
  ASSUME SInv
  PROVE  /\ req \in ReqType /\ stops \in Nat /\ asked \in Nat /\ day \in 0..LastDay /\ EnvTyped
         /\ asked + 1 \in Nat /\ stops + 1 \in Nat
<1>1. EnvTyped
  BY TypedParts DEF SInv
<1> QED BY <1>1 DEF EnvTyped

LEMMA TakeOverStep ==
  ASSUME SInv, NEW p \in Procs, NEW a \in Accounts, TakeOver(p, a)
  PROVE  Typed' /\ Step
<1>1. PICK t : t = Item(p, a)
  OBVIOUS
<1>2. /\ "takeover" \in Requests /\ Run(p, a).pc # "idle" /\ Status(t) = "running"
      /\ task' = [task EXCEPT ![t].status = "need_manual"] /\ asked' = asked + 1
      /\ UNCHANGED <<slot, hold, lease, resv, up, run, left, req, post, clicks, day, stops>>
  BY <1>1 DEF TakeOver, At
<1>3. t \in Tasks /\ task[t] \in RowType /\ slot[t] \in SlotType
  BY <1>1, <1>2, ItemFacts, RowFacts
<1>4. PICK r : r = [task[t] EXCEPT !.status = "need_manual"]
  OBVIOUS
<1>5. r \in RowType /\ r.status = "need_manual" /\ r.conf = task[t].conf /\ r.mark = task[t].mark
  BY <1>3, <1>4 DEF RowType, Active
<1>6. task' = [task EXCEPT ![t] = r] /\ UNCHANGED <<hold, lease, resv>>
  BY <1>2, <1>4
<1>7. PICK s \in SlotType : s = slot[t]
  BY <1>3
<1>8. slot' = [slot EXCEPT ![t] = s]
  BY <1>2, <1>3, <1>7, SameExcept
<1>9. Status(t) \in Live /\ r.status \in Live
  BY <1>2, <1>5 DEF Live
<1>10. RowsStep
  BY <1>2, <1>3, <1>5, <1>6, <1>7, <1>8, <1>9, HandsStep
<1> QED BY <1>2, <1>10, EnvFacts, QuietStep DEF Clears

LEMMA GiveBackStep ==
  ASSUME SInv, NEW p \in Procs, NEW a \in Accounts, GiveBack(p, a)
  PROVE  Typed' /\ Step
<1>1. PICK t : t = Item(p, a)
  OBVIOUS
<1>2. /\ Run(p, a).pc # "idle" /\ Status(t) = "need_manual"
      /\ task' = [task EXCEPT ![t].status = "running"]
      /\ UNCHANGED <<slot, hold, lease, resv>> /\ UNCHANGED env
  BY <1>1 DEF GiveBack, At
<1>3. t \in Tasks /\ task[t] \in RowType /\ slot[t] \in SlotType
  BY <1>1, <1>2, ItemFacts, RowFacts
<1>4. PICK r : r = [task[t] EXCEPT !.status = "running"]
  OBVIOUS
<1>5. r \in RowType /\ r.status = "running" /\ r.conf = task[t].conf /\ r.mark = task[t].mark
  BY <1>3, <1>4 DEF RowType, Active
<1>6. task' = [task EXCEPT ![t] = r] /\ UNCHANGED <<hold, lease, resv>>
  BY <1>2, <1>4
<1>7. PICK s \in SlotType : s = slot[t]
  BY <1>3
<1>8. slot' = [slot EXCEPT ![t] = s]
  BY <1>2, <1>3, <1>7, SameExcept
<1>9. Status(t) \in Live /\ r.status \in Live /\ r.status # "need_manual"
  BY <1>2, <1>5 DEF Live
<1>10. RowsStep
  BY <1>3, <1>5, <1>6, <1>7, <1>8, <1>9, HandsStep
<1> QED BY <1>2, <1>10, EnvSame
LEMMA NewTaskStep ==
  ASSUME SInv, NEW n \in Tasks, NEW conf \in 0..(Attempts + 1), NewTask(n, conf), conf # Attempts + 1,
         \/ conf = 0
         \/ /\ "retry" \in Requests /\ ~InBatch(n)
            /\ \E t \in Tasks : Kind[t] = Kind[n] /\ task[t].conf = conf
  PROVE  /\ RowsStep /\ Status(n) = "none" /\ task'[n].conf = conf /\ task'[n].status = "queued"
         /\ \A x \in Tasks \ {n} : task'[x] = task[x]
         /\ UNCHANGED <<up, run, left, req, clicks, day, stops>>
<1>1. /\ Status(n) = "none" /\ UNCHANGED <<lease, resv, up, run, left, req, clicks, day, stops>>
      /\ task' = [task EXCEPT ![n] = [NoRow EXCEPT !.status = "queued", !.conf = conf]]
      /\ slot' = IF n \in Publish THEN [slot EXCEPT ![n] = [state |-> "planned", day |-> day]] ELSE slot
      /\ hold' = [hold EXCEPT ![n] = "held"]
  BY DEF NewTask
<1>2. PICK r : r = [NoRow EXCEPT !.status = "queued", !.conf = conf]
  OBVIOUS
<1>3. /\ r.status = "queued" /\ r.conf = conf /\ r = [NoRow EXCEPT !.status = "queued", !.conf = r.conf]
      /\ r = [status |-> "queued", mark |-> "none", conf |-> conf, result |-> "plain", tries |-> 0]
  BY <1>2 DEF NoRow
<1>4. r \in RowType
  <2>1. 0 \in 0..Retries
    BY Bounds
  <2> QED BY <1>3, <2>1 DEF RowType, Active
<1>5. /\ RowsTyped /\ day \in 0..LastDay /\ task \in [Tasks -> RowType] /\ slot \in [Tasks -> SlotType]
      /\ hold \in [Tasks -> Holds] /\ slot[n] \in SlotType
  BY RowFacts DEF RowsTyped
<1>6. /\ task' = [task EXCEPT ![n] = r] /\ task'[n] = r /\ hold'[n] = "held"
      /\ task' \in [Tasks -> RowType] /\ hold' \in [Tasks -> Holds]
  BY <1>1, <1>2, <1>4, <1>5 DEF Holds
<1>7. /\ slot'[n] = IF n \in Publish THEN [state |-> "planned", day |-> day] ELSE slot[n]
      /\ slot' \in [Tasks -> SlotType]
  BY <1>1, <1>5 DEF SlotType
<1>8. ASSUME NEW x \in Tasks \ {n} PROVE task'[x] = task[x] /\ slot'[x] = slot[x] /\ hold'[x] = hold[x]
  BY <1>1, <1>5
<1>9. ASSUME NEW x \in Tasks PROVE Exhausted(x)'
  <2>1. CASE x = n
    BY <1>3, <1>6, <2>1 DEF Exhausted
  <2>2. CASE x # n
    BY <1>5, <1>8, <2>2 DEF RowsTyped, Exhausted, Status
  <2> QED BY <2>1, <2>2
<1>10. RowsTyped'
  BY <1>1, <1>5, <1>6, <1>7, <1>9 DEF RowsTyped
<1>11. Enters(n)
  <2>1. task'[n].conf = conf /\ task'[n] = [NoRow EXCEPT !.status = "queued", !.conf = task'[n].conf]
    BY <1>3, <1>6
  <2>2. SameClaim(n)
    BY <1>1 DEF SameClaim
  <2> QED BY <1>1, <1>7, <2>1, <2>2 DEF Enters
<1>12. HoldStep(n)
  <2>1. Status(n)' # "none"
    BY <1>3, <1>6 DEF Status
  <2> QED BY <1>1, <1>6, <2>1 DEF HoldStep
<1>13. \A x \in Tasks \ {n} : RowStep(x) /\ HoldStep(x)
  BY <1>1, <1>8, Untouched
<1>14. RowsStep
  BY <1>10, <1>11, <1>12, <1>13 DEF RowsStep, RowStep
<1> QED BY <1>1, <1>3, <1>6, <1>8, <1>14

LEMMA CreateStep ==
  ASSUME SInv, NEW t \in Tasks, Create(t)
  PROVE  Typed' /\ Step
<1>1. NewTask(t, 0) /\ UNCHANGED <<post, asked>>
  BY DEF Create
<1>2. PICK conf \in 0..(Attempts + 1) : conf = 0 /\ conf # Attempts + 1
  BY Bounds
<1>3. NewTask(t, conf)
  BY <1>1, <1>2
<1>4. RowsStep /\ UNCHANGED <<up, run, left, req, clicks, day, stops>>
  BY <1>2, <1>3, NewTaskStep
<1> QED BY <1>1, <1>4, EnvFacts, QuietStep DEF Clears

LEMMA RetryStep ==
  ASSUME SInv, NEW t \in Tasks, NEW n \in Tasks, Retry(t, n)
  PROVE  Typed' /\ Step
<1>1. /\ "retry" \in Requests /\ Status(t) = "failed" /\ task[t].result = "plain" /\ Kind[n] = Kind[t] /\ ~InBatch(n)
      /\ NewTask(n, task[t].conf) /\ post' = [post EXCEPT ![n] = @ \cup post[t]] /\ asked' = asked + 1
  BY DEF Retry
<1>2. task[t] \in RowType /\ Exhausted(t)
  BY RowFacts
<1>3. PICK conf \in 0..(Attempts + 1) : conf = task[t].conf
  BY <1>2 DEF RowType
<1>4. conf # Attempts + 1 /\ NewTask(n, conf)
  BY <1>1, <1>2, <1>3 DEF Exhausted
<1>5. /\ RowsStep /\ Status(n) = "none" /\ task'[n].conf = conf /\ task'[n].status = "queued"
      /\ \A x \in Tasks \ {n} : task'[x] = task[x]
      /\ UNCHANGED <<up, run, left, req, clicks, day, stops>>
  BY <1>1, <1>3, <1>4, NewTaskStep
<1>6. EnvTyped /\ asked + 1 \in Nat
  BY EnvFacts
<1>7. post' \in [Tasks -> SUBSET Tasks]
  BY <1>1, <1>6 DEF EnvTyped
<1>8. EnvTyped'
  BY <1>1, <1>5, <1>6, <1>7 DEF EnvTyped, Run
<1>9. Posts
  BY <1>1, <1>3, <1>5 DEF Posts
<1>10. Clicks /\ Clears /\ Quits /\ DayStep
  BY <1>5 DEF Clicks, Clears, Quits, DayStep
<1>11. \A p \in Procs, a \in Accounts : RunStep(p, a)
  BY <1>5, RunSame
<1> QED BY <1>5, <1>8, <1>9, <1>10, <1>11, TypedNext DEF RowsStep, Step

\* cancel_event of the sessions about some tasks is set.
LEMMA SignalStep ==
  ASSUME SInv, NEW ts, NEW p \in Procs \cup {None}, run' = Signalled(ts, p), UNCHANGED rows,
         UNCHANGED <<up, left, post, clicks, day>>, req' \in ReqType, stops' \in Nat, asked' \in Nat, Clears
  PROVE  Typed' /\ Step
<1>1. EnvTyped /\ run \in [Procs -> [Accounts -> RunType]]
      /\ \A q \in Procs, b \in Accounts : Run(q, b).pc # "idle" => Run(q, b).i \in DOMAIN Run(q, b).items
  BY TypedParts DEF SInv, EnvTyped
<1>2. run' = [run EXCEPT ![p] = [a \in Accounts |->
                IF Members(run[p][a].items) \cap ts # {} /\ run[p][a].pc \notin {"idle", "claimed"}
                THEN [run[p][a] EXCEPT !.stop = TRUE] ELSE run[p][a]]]
  BY DEF Signalled
<1>3. ASSUME NEW q \in Procs, NEW b \in Accounts
      PROVE  /\ run'[q][b] \in RunType /\ Waits(q, b)
             /\ run'[q][b].pc # "idle" => run'[q][b].i \in DOMAIN run'[q][b].items
  <2>1. run[q][b] \in RunType /\ (run[q][b].pc # "idle" => run[q][b].i \in DOMAIN run[q][b].items)
    BY <1>1 DEF Run
  <2>2. run'[q][b] = run[q][b] \/ run'[q][b] = [run[q][b] EXCEPT !.stop = TRUE]
    <3>1. CASE q # p
      BY <1>1, <1>2, <3>1
    <3>2. CASE q = p
      <4>1. run'[q] = [a \in Accounts |->
                IF Members(run[q][a].items) \cap ts # {} /\ run[q][a].pc \notin {"idle", "claimed"}
                THEN [run[q][a] EXCEPT !.stop = TRUE] ELSE run[q][a]]
        BY <1>1, <1>2, <3>2
      <4> QED BY <4>1
    <3> QED BY <3>1, <3>2
  <2>3. /\ run'[q][b] \in RunType /\ run'[q][b].pc = run[q][b].pc /\ run'[q][b].items = run[q][b].items
        /\ run'[q][b].i = run[q][b].i
    BY <2>1, <2>2 DEF RunType
  <2> QED BY <2>1, <2>3 DEF Waits, SamePlace
<1>4. run' \in [Procs -> [Accounts -> RunType]]
  <2>1. \A q \in Procs : DOMAIN run'[q] = Accounts /\ run'[q] = [b \in Accounts |-> run'[q][b]]
    BY <1>1, <1>2
  <2>2. DOMAIN run' = Procs /\ run' = [q \in Procs |-> run'[q]]
    BY <1>1, <1>2
  <2>3. \A q \in Procs : run'[q] \in [Accounts -> RunType]
    BY <1>3, <2>1
  <2> QED BY <2>2, <2>3
<1>5. EnvTyped'
  BY <1>1, <1>3, <1>4 DEF EnvTyped, Run
<1>6. Clicks /\ Posts /\ Quits /\ DayStep
  BY DEF Clicks, Posts, Quits, DayStep
<1>7. \A q \in Procs, b \in Accounts : RunStep(q, b)
  BY <1>3 DEF RunStep
<1> QED BY <1>5, <1>6, <1>7, RowsSame, TypedNext DEF RowsStep, Step

LEMMA NoReqFacts == NoReq \in ReqType /\ NoReq.of = {}
BY DEF NoReq, ReqType

LEMMA CancelSignalStep ==
  ASSUME SInv, NEW p \in Procs, NEW t \in Tasks, CancelSignal(p, t)
  PROVE  Typed' /\ Step
<1>1. /\ run' = Signalled({t}, p) /\ req' = [pc |-> "cancel", at |-> p, ts |-> {t}, of |-> {}]
      /\ asked' = asked + 1 /\ UNCHANGED rows /\ UNCHANGED <<up, left, post, clicks, day, stops>>
  BY DEF CancelSignal
<1>2. req' \in ReqType /\ req'.of = {}
  BY <1>1 DEF ReqType
<1>3. Clears
  BY <1>2 DEF Clears
<1>4. asked' \in Nat /\ stops' \in Nat
  BY <1>1, EnvFacts
<1> QED BY <1>1, <1>2, <1>3, <1>4, SignalStep

LEMMA StopOneStep ==
  ASSUME SInv, NEW t \in Tasks, StopOne(t)
  PROVE  Typed' /\ Step
<1>1. /\ run' = Signalled({t}, req.at) /\ UNCHANGED rows /\ UNCHANGED <<up, left, post, clicks, day, stops, asked>>
      /\ req' = NoReq \/ req' = [req EXCEPT !.ts = @ \ {t}]
  BY DEF StopOne
<1>2. req \in ReqType
  BY EnvFacts
<1>3. PICK p \in Procs \cup {None} : p = req.at
  BY <1>2 DEF ReqType
<1>4. req' \in ReqType /\ req'.of \subseteq req.of
  <2>1. CASE req' = NoReq
    BY <2>1, NoReqFacts
  <2>2. CASE req' = [req EXCEPT !.ts = @ \ {t}]
    BY <1>2, <2>2 DEF ReqType
  <2> QED BY <1>1, <2>1, <2>2
<1>5. run' = Signalled({t}, p)
  BY <1>1, <1>3
<1>6. asked' \in Nat /\ stops' \in Nat
  BY <1>1, EnvFacts
<1>7. Clears
  BY <1>4 DEF Clears
<1> QED BY <1>1, <1>4, <1>5, <1>6, <1>7, SignalStep

LEMMA CancelTxStep ==
  ASSUME SInv, NEW t \in Tasks, CancelTx(t)
  PROVE  Typed' /\ Step
<1>1. /\ UNCHANGED rows \/ FinishLate(t) \/ CancelRows(Members(BatchOf(t)))
      /\ req' = NoReq \/ req' = [req EXCEPT !.pc = "stop", !.ts = {BatchOf(t)[1]}]
      /\ UNCHANGED <<up, run, left, post, clicks, day, stops, asked>>
  BY DEF CancelTx
<1>2. req \in ReqType
  BY EnvFacts
<1>3. BatchOf(t)[1] \in Tasks
  <2>1. BatchOf(t) \in Seq(Tasks) /\ Place(t) \in DOMAIN BatchOf(t)
    BY BatchFacts
  <2>2. Place(t) \in 1..Len(BatchOf(t)) /\ Len(BatchOf(t)) \in Nat
    BY <2>1
  <2>3. 1 \in 1..Len(BatchOf(t))
    BY <2>2
  <2> QED BY <2>1, <2>3
<1>4. req' \in ReqType /\ req'.of \subseteq req.of
  <2>1. CASE req' = NoReq
    BY <2>1, NoReqFacts
  <2>2. CASE req' = [req EXCEPT !.pc = "stop", !.ts = {BatchOf(t)[1]}]
    <3>1. PICK ts \in SUBSET Tasks : ts = {BatchOf(t)[1]}
      BY <1>3
    <3>2. req' = [req EXCEPT !.pc = "stop", !.ts = ts]
      BY <2>2, <3>1
    <3> QED BY <1>2, <3>2 DEF ReqType
  <2> QED BY <1>1, <2>1, <2>2
<1>5. RowsStep
  BY <1>1, RowsSame, FinishLateStep, CancelRowsStep
<1> QED BY <1>1, <1>4, <1>5, EnvFacts, QuietStep DEF Clears
LEMMA StopAllStep ==
  ASSUME SInv, NEW p \in Procs, StopAll(p)
  PROVE  Typed' /\ Step
<1> DEFINE ts == {t \in Tasks : Status(t) \in Active}
<1>1. /\ "stop_all" \in Requests
      /\ task' = [t \in Tasks |-> IF t \in ts THEN With(task[t], "cancelled") ELSE task[t]]
      /\ slot' = [t \in Tasks |-> IF t \in ts THEN ReleaseSlot(slot[t]) ELSE slot[t]]
      /\ hold' = [t \in Tasks |-> IF t \in ts THEN Release(hold[t]) ELSE hold[t]]
      /\ req' = [pc |-> "stop", at |-> p, ts |-> ts, of |-> {}] /\ asked' = asked + 1
      /\ UNCHANGED <<lease, resv, up, run, left, post, clicks, day, stops>>
  BY DEF StopAll, Asks
<1>2. ts \subseteq Tasks /\ \A t \in ts : Status(t) \in Active
  OBVIOUS
<1> HIDE DEF ts
<1>3. req' \in ReqType /\ req'.of = {}
  BY <1>1, <1>2 DEF ReqType
<1>4. RowsTyped /\ day \in 0..LastDay
  BY TypedParts DEF SInv, EnvTyped
<1>5. \A t \in Tasks : /\ With(task[t], "cancelled") \in RowType /\ With(task[t], "cancelled").status = "cancelled"
                       /\ With(task[t], "cancelled").result = task[t].result
                       /\ With(task[t], "cancelled").conf = task[t].conf
  BY <1>4, RowHelpers DEF RowsTyped, Statuses, Final
<1>6. \A t \in Tasks : ReleaseSlot(slot[t]) \in SlotType /\ Release(hold[t]) \in Holds
  BY <1>4, SlotHelpers, HoldHelpers DEF RowsTyped
<1>7. task' \in [Tasks -> RowType] /\ slot' \in [Tasks -> SlotType] /\ hold' \in [Tasks -> Holds]
  BY <1>1, <1>4, <1>5, <1>6 DEF RowsTyped
<1>8. ASSUME NEW x \in Tasks PROVE RowStep(x) /\ HoldStep(x) /\ Exhausted(x)'
  <2>1. CASE x \in ts
    <3>1. task'[x] = With(task[x], "cancelled") /\ slot'[x] = ReleaseSlot(slot[x]) /\ hold'[x] = Release(hold[x])
      BY <1>1, <2>1
    <3>2. Status(x)' = "cancelled" /\ Status(x) \in Active
      BY <1>2, <1>5, <2>1, <3>1 DEF Status
    <3>3. HoldStep(x)
      BY <1>1, <3>1, <3>2, EndHold DEF Refunds, Final, Active
    <3>4. Exhausted(x)'
      BY <1>4, <1>5, <3>1, <3>2 DEF RowsTyped, Exhausted, Active
    <3> QED BY <3>1, <3>2, <3>3, <3>4 DEF RowStep, IsCancelled
  <2>2. CASE x \notin ts
    <3>1. task'[x] = task[x] /\ slot'[x] = slot[x] /\ hold'[x] = hold[x] /\ lease'[x].by = lease[x].by
      BY <1>1, <2>2
    <3>2. Exhausted(x)'
      BY <1>4, <3>1 DEF RowsTyped, Exhausted, Status
    <3> QED BY <3>1, <3>2, Untouched
  <2> QED BY <2>1, <2>2
<1>9. RowsTyped'
  BY <1>1, <1>4, <1>7, <1>8 DEF RowsTyped
<1>10. Clears /\ RowsStep /\ asked' \in Nat /\ stops' \in Nat
  BY <1>1, <1>3, <1>8, <1>9, EnvFacts DEF Clears, RowsStep
<1> QED BY <1>1, <1>3, <1>10, QuietStep

LEMMA ClearStep ==
  ASSUME SInv, NEW p \in Procs, NEW t \in Tasks, Clear(p, t)
  PROVE  Typed' /\ Step
<1> DEFINE ts == {x \in Members(BatchOf(t)) : Status(x) \notin Away}
<1>1. /\ task' = [x \in Tasks |-> IF x \in ts /\ Status(x) \in Active THEN With(task[x], "cancelled") ELSE task[x]]
      /\ slot' = [x \in Tasks |-> IF x \in ts THEN ReleaseSlot(slot[x]) ELSE slot[x]]
      /\ req' = [pc |-> "stop", at |-> p, ts |-> {x \in ts : Status(x) \in Live}, of |-> ts]
      /\ asked' = asked + 1
      /\ UNCHANGED <<hold, lease, resv, up, run, left, post, clicks, day, stops>>
  BY DEF Clear
<1>2. ts \subseteq Tasks /\ \A x \in ts : Status(x) \notin Away
  BY BatchSides
<1> HIDE DEF ts
<1>3. req' \in ReqType /\ req'.of = ts
  <2>1. PICK us \in SUBSET Tasks : us = {x \in ts : Status(x) \in Live}
    BY <1>2
  <2>2. req' = [pc |-> "stop", at |-> p, ts |-> us, of |-> ts]
    BY <1>1, <2>1
  <2> QED BY <1>2, <2>2 DEF ReqType
<1>4. RowsTyped /\ day \in 0..LastDay
  BY TypedParts DEF SInv, EnvTyped
<1>5. \A x \in Tasks : /\ With(task[x], "cancelled") \in RowType /\ With(task[x], "cancelled").status = "cancelled"
                       /\ With(task[x], "cancelled").result = task[x].result
                       /\ With(task[x], "cancelled").conf = task[x].conf
  BY <1>4, RowHelpers DEF RowsTyped, Statuses, Final
<1>6. \A x \in Tasks : ReleaseSlot(slot[x]) \in SlotType
  BY <1>4, SlotHelpers DEF RowsTyped
<1>7. task' \in [Tasks -> RowType] /\ slot' \in [Tasks -> SlotType]
  BY <1>1, <1>4, <1>5, <1>6 DEF RowsTyped
<1>8. ASSUME NEW x \in Tasks
      PROVE  RowStep(x) /\ HoldStep(x) /\ Exhausted(x)' /\ (x \in ts => Status(x)' \in Final)
  <2>0. Status(x) \in Statuses
    BY RowFacts
  <2>1. CASE x \in ts /\ Status(x) \in Active
    <3>1. task'[x] = With(task[x], "cancelled") /\ slot'[x] = ReleaseSlot(slot[x]) /\ hold'[x] = hold[x]
      BY <1>1, <2>1
    <3>2. Status(x)' = "cancelled"
      BY <1>5, <3>1 DEF Status
    <3>3. HoldStep(x)
      BY <2>1, <3>1 DEF HoldStep, Active
    <3>4. Exhausted(x)'
      BY <1>4, <1>5, <3>1, <3>2 DEF RowsTyped, Exhausted, Active
    <3> QED BY <2>1, <3>1, <3>2, <3>3, <3>4 DEF RowStep, IsCancelled, Final
  <2>2. CASE x \in ts /\ Status(x) \notin Active
    <3>1. task'[x] = task[x] /\ slot'[x] = ReleaseSlot(slot[x]) /\ hold'[x] = hold[x] /\ lease' = lease
      BY <1>1, <2>2
    <3>2. Status(x)' = Status(x) /\ Status(x) \in Final
      BY <1>2, <2>0, <2>2, <3>1 DEF Status, Statuses
    <3>3. Reslots(x) /\ HoldStep(x)
      BY <2>2, <3>1, <3>2 DEF Reslots, SameClaim, HoldStep
    <3>4. Exhausted(x)'
      BY <1>4, <3>1 DEF RowsTyped, Exhausted, Status
    <3> QED BY <3>2, <3>3, <3>4 DEF RowStep
  <2>3. CASE x \notin ts
    <3>1. task'[x] = task[x] /\ slot'[x] = slot[x] /\ hold'[x] = hold[x] /\ lease'[x].by = lease[x].by
      BY <1>1, <2>3
    <3>2. Exhausted(x)'
      BY <1>4, <3>1 DEF RowsTyped, Exhausted, Status
    <3> QED BY <2>3, <3>1, <3>2, Untouched
  <2> QED BY <2>1, <2>2, <2>3
<1>9. RowsTyped'
  BY <1>1, <1>4, <1>7, <1>8 DEF RowsTyped
<1>10. Clears
  BY <1>2, <1>3, <1>8 DEF Clears
<1>11. RowsStep /\ asked' \in Nat /\ stops' \in Nat
  BY <1>1, <1>8, <1>9, EnvFacts DEF RowsStep
<1> QED BY <1>1, <1>3, <1>10, <1>11, QuietStep

LEMMA WipeStep ==
  ASSUME SInv, Wipe
  PROVE  Typed' /\ Step
<1>1. PICK us : us = req.of
  OBVIOUS
<1>2. /\ hold' = [x \in Tasks |-> IF x \in us THEN SettleOrRelease(x) ELSE hold[x]]
      /\ task' = [x \in Tasks |-> IF x \in us THEN With(task[x], "deleted") ELSE task[x]]
      /\ req' = NoReq
      /\ UNCHANGED <<slot, lease, resv, up, run, left, post, clicks, day, stops, asked>>
  BY <1>1 DEF Wipe
<1>3. us \subseteq Tasks
  BY <1>1, EnvFacts DEF ReqType
<1>4. RowsTyped
  BY TypedParts DEF SInv
<1>5. \A x \in Tasks : /\ With(task[x], "deleted") \in RowType /\ With(task[x], "deleted").status = "deleted"
                       /\ With(task[x], "deleted").result = task[x].result
                       /\ With(task[x], "deleted").conf = task[x].conf
                       /\ With(task[x], "deleted").mark = task[x].mark
  BY <1>4, RowHelpers DEF RowsTyped, Statuses, Away
<1>6. \A x \in Tasks : SettleOrRelease(x) \in Holds
  BY <1>4, HoldHelpers
<1>7. task' \in [Tasks -> RowType] /\ hold' \in [Tasks -> Holds]
  BY <1>2, <1>4, <1>5, <1>6 DEF RowsTyped
<1>8. ASSUME NEW x \in Tasks PROVE RowStep(x) /\ HoldStep(x) /\ Exhausted(x)'
  <2>1. CASE x \in us
    <3>1. task'[x] = With(task[x], "deleted") /\ slot'[x] = slot[x] /\ hold'[x] = SettleOrRelease(x)
      BY <1>2, <2>1
    <3>2. Status(x)' = "deleted" /\ task'[x].mark = task[x].mark
      BY <1>5, <3>1 DEF Status
    <3>3. Status(x) # "none"
      BY <1>1, <2>1 DEF SInv, Clearing, Final
    <3>4. HoldStep(x)
      BY <3>1, <3>2, <3>3, EndHold
    <3>5. Exhausted(x)'
      BY <1>4, <1>5, <3>1, <3>2 DEF RowsTyped, Exhausted, Active
    <3> QED BY <1>1, <2>1, <3>1, <3>4, <3>5 DEF RowStep, IsDeleted
  <2>2. CASE x \notin us
    <3>1. task'[x] = task[x] /\ slot'[x] = slot[x] /\ hold'[x] = hold[x] /\ lease'[x].by = lease[x].by
      BY <1>2, <2>2
    <3>2. Exhausted(x)'
      BY <1>4, <3>1 DEF RowsTyped, Exhausted, Status
    <3> QED BY <3>1, <3>2, Untouched
  <2> QED BY <2>1, <2>2
<1>9. RowsTyped'
  BY <1>2, <1>4, <1>7, <1>8 DEF RowsTyped
<1>10. Clears /\ RowsStep /\ req' \in ReqType
  BY <1>2, <1>8, <1>9, NoReqFacts DEF Clears, RowsStep
<1> QED BY <1>2, <1>10, EnvFacts, QuietStep

LEMMA ShutdownStep ==
  ASSUME SInv, NEW p \in Procs, Shutdown(p)
  PROVE  Typed' /\ Step
<1>1. /\ up' = [up EXCEPT ![p] = "stopping"] /\ left' = [left EXCEPT ![p] = Controlled(p)] /\ stops' = stops + 1
      /\ UNCHANGED rows /\ UNCHANGED <<run, req, post, clicks, day, asked>>
  BY DEF Shutdown
<1>2. Controlled(p) \subseteq Tasks
  <2>1. ASSUME NEW a \in Accounts PROVE Members(Run(p, a).items) \subseteq Tasks
    <3>1. Run(p, a) \in RunType
      BY DEF SInv, Typed, Run
    <3>2. Run(p, a).items \in Seq(Tasks)
      BY <3>1 DEF RunType
    <3> QED BY <3>2 DEF Members
  <2> QED BY <2>1 DEF Controlled
<1>3. EnvTyped /\ stops + 1 \in Nat
  BY EnvFacts
<1>4. left' \in [Procs -> SUBSET Tasks] /\ up' \in [Procs -> {"up", "stopping", "down"}]
  BY <1>1, <1>2, <1>3 DEF EnvTyped
<1>5. EnvTyped'
  BY <1>1, <1>3, <1>4 DEF EnvTyped, Run
<1>6. Quits
  BY <1>1, <1>3 DEF Quits, EnvTyped
<1>7. Clicks /\ Posts /\ Clears /\ DayStep
  BY <1>1 DEF Clicks, Posts, Clears, DayStep
<1> QED BY <1>1, <1>5, <1>6, <1>7, RowsSame, RunSame, TypedNext DEF RowsStep, Step

LEMMA SaveShutdownStep ==
  ASSUME SInv, NEW p \in Procs, NEW t \in Tasks, SaveShutdown(p, t)
  PROVE  Typed' /\ Step
<1>1. /\ ShutdownRow(t) /\ left' = [left EXCEPT ![p] = @ \ {t}]
      /\ UNCHANGED <<up, run, req, post, clicks, day, stops, asked>>
  BY DEF SaveShutdown
<1>2. EnvTyped
  BY EnvFacts
<1>3. left' \in [Procs -> SUBSET Tasks]
  BY <1>1, <1>2 DEF EnvTyped
<1>4. EnvTyped'
  BY <1>1, <1>2, <1>3 DEF EnvTyped, Run
<1>5. Clicks /\ Posts /\ Clears /\ DayStep /\ Quits
  BY <1>1 DEF Clicks, Posts, Clears, DayStep, Quits
<1>6. RowsStep
  BY <1>1, ShutdownRowStep
<1> QED BY <1>1, <1>4, <1>5, <1>6, RunSame, TypedNext DEF RowsStep, Step

LEMMA ShutdownSignalStep ==
  ASSUME SInv, NEW p \in Procs, NEW a \in Accounts, ShutdownSignal(p, a)
  PROVE  Typed' /\ Step
<1>1. /\ Run(p, a).pc # "idle" /\ run' = [run EXCEPT ![p][a].stop = TRUE]
      /\ UNCHANGED rows /\ UNCHANGED <<clicks, others>>
  BY DEF ShutdownSignal
<1>2. run[p][a] \in RunType /\ Run(p, a) = run[p][a] /\ Run(p, a).i \in DOMAIN Run(p, a).items
  BY <1>1 DEF SInv, Typed, Run
<1>3. PICK r : r = [run[p][a] EXCEPT !.stop = TRUE]
  OBVIOUS
<1>4. r \in RunType /\ r.pc = run[p][a].pc /\ r.items = run[p][a].items /\ r.i = run[p][a].i
  BY <1>2, <1>3 DEF RunType
<1>5. run' = [run EXCEPT ![p][a] = r]
  BY <1>1, <1>3
<1>6. r.i \in DOMAIN r.items
  BY <1>2, <1>4
<1>7. /\ run' \in [Procs -> [Accounts -> RunType]]
      /\ \A q \in Procs, b \in Accounts : (Run(q, b).pc # "idle" => Run(q, b).i \in DOMAIN Run(q, b).items)'
      /\ run'[p][a] = r
      /\ \A q \in Procs, b \in Accounts : q # p \/ b # a => RunStep(q, b)
  BY <1>4, <1>5, <1>6, OneRun
<1>8. RunStep(p, a)
  BY <1>4, <1>7 DEF RunStep, Waits, SamePlace
<1>9. clicks' \in [Tasks -> Nat] /\ Clicks
  BY <1>1 DEF SInv, Typed, Clicks
<1>10. EnvTyped' /\ Posts /\ Clears /\ Quits /\ DayStep
  BY <1>1, <1>7, <1>9, OthersSame
<1>11. \A q \in Procs, b \in Accounts : RunStep(q, b)
  BY <1>7, <1>8
<1> QED BY <1>1, <1>9, <1>10, <1>11, RowsSame, TypedNext DEF RowsStep, Step
LEMMA EndStep ==
  ASSUME SInv, NEW p \in Procs, End(p), stops' \in Nat
  PROVE  Typed' /\ Step
<1>1. /\ up' = [up EXCEPT ![p] = "down"] /\ run' = [run EXCEPT ![p] = [a \in Accounts |-> Idle]]
      /\ left' = [left EXCEPT ![p] = {}] /\ req' = IF req.at = p THEN NoReq ELSE req
      /\ lease' = Orphaned(lease, p) /\ resv' = Orphaned(resv, p)
      /\ UNCHANGED <<task, slot, hold, post, clicks, day, asked>>
  BY DEF End
<1>2. EnvTyped /\ RowsTyped /\ run \in [Procs -> [Accounts -> RunType]]
  BY TypedParts DEF SInv, EnvTyped
<1>3. ASSUME NEW x \in Tasks, NEW c \in [Tasks -> ClaimType]
      PROVE  /\ Orphaned(c, p)[x] \in ClaimType
             /\ Orphaned(c, p)[x].by = IF c[x].by = p THEN Gone ELSE c[x].by
  <2>1. c[x] \in ClaimType
    OBVIOUS
  <2>2. Orphaned(c, p)[x] = IF c[x].by = p THEN [c[x] EXCEPT !.by = Gone] ELSE c[x]
    BY DEF Orphaned
  <2> QED BY <2>1, <2>2 DEF ClaimType
<1>4. \A c \in [Tasks -> ClaimType] : Orphaned(c, p) \in [Tasks -> ClaimType]
  BY <1>3 DEF Orphaned
<1>5. RowsTyped'
  BY <1>1, <1>2, <1>4 DEF RowsTyped, Exhausted, Status
<1>6. /\ \A a \in Accounts : run'[p][a] = Idle
      /\ \A q \in Procs, b \in Accounts : q # p => run'[q][b] = run[q][b]
  BY <1>1, <1>2
<1>7. Idle \in RunType /\ Idle.pc = "idle"
  BY DEF Idle, RunType, Pcs
<1>8. run' \in [Procs -> [Accounts -> RunType]]
  BY <1>1, <1>2, <1>7
<1>9. ASSUME NEW x \in Tasks PROVE RowStep(x) /\ HoldStep(x)
  <2>1. lease'[x].by = IF lease[x].by = p THEN Gone ELSE lease[x].by
    BY <1>1, <1>2, <1>3 DEF RowsTyped
  <2>2. ClaimKept(x)
    BY <1>6, <2>1 DEF ClaimKept, SameClaim
  <2>3. Stays(x)
    BY <1>1, <2>2 DEF Stays, SameRow
  <2> QED BY <1>1, <2>3 DEF RowStep, HoldStep, Status
<1>10. \A q \in Procs, b \in Accounts : RunStep(q, b)
  BY <1>6 DEF RunStep, Ends, Waits, SamePlace
<1>11. \A q \in Procs, b \in Accounts : (Run(q, b).pc # "idle" => Run(q, b).i \in DOMAIN Run(q, b).items)'
  BY <1>2, <1>6, <1>7 DEF EnvTyped, Run
<1>12. req' \in ReqType /\ req'.of \subseteq req.of
  BY <1>1, EnvFacts, NoReqFacts
<1>13. up' \in [Procs -> {"up", "stopping", "down"}] /\ left' \in [Procs -> SUBSET Tasks]
  BY <1>1, <1>2 DEF EnvTyped
<1>14. EnvTyped'
  BY <1>1, <1>2, <1>8, <1>11, <1>12, <1>13 DEF EnvTyped
<1>15. Quits
  <2>1. \A q \in Procs : q # p => up'[q] = up[q]
    BY <1>1, <1>2 DEF EnvTyped
  <2> QED BY <1>6, <2>1 DEF Quits
<1>16. Clicks /\ Posts /\ Clears /\ DayStep
  BY <1>1, <1>12 DEF Clicks, Posts, Clears, DayStep
<1> QED BY <1>5, <1>9, <1>10, <1>14, <1>15, <1>16, TypedNext DEF Step

LEMMA RestartStep ==
  ASSUME SInv, NEW p \in Procs, Restart(p)
  PROVE  Typed' /\ Step
<1>1. /\ up' = [up EXCEPT ![p] = "up"]
      /\ UNCHANGED rows /\ UNCHANGED <<run, left, req, post, clicks, day, stops, asked>>
  BY DEF Restart
<1>2. EnvTyped
  BY EnvFacts
<1>3. up' \in [Procs -> {"up", "stopping", "down"}]
  BY <1>1, <1>2 DEF EnvTyped
<1>4. EnvTyped'
  BY <1>1, <1>2, <1>3 DEF EnvTyped, Run
<1>5. Quits
  BY <1>1, <1>2 DEF Quits, EnvTyped
<1>6. Clicks /\ Posts /\ Clears /\ DayStep
  BY <1>1 DEF Clicks, Posts, Clears, DayStep
<1> QED BY <1>1, <1>4, <1>5, <1>6, RowsSame, RunSame, TypedNext DEF RowsStep, Step

\* A claim runs out or is renewed: it stays with whom it was.
LEMMA ClaimsStep ==
  ASSUME SInv, UNCHANGED <<task, slot, hold>>, lease' \in [Tasks -> ClaimType], resv' \in [Tasks -> ClaimType],
         \A x \in Tasks : lease'[x].by = lease[x].by
  PROVE  RowsStep
<1>1. RowsTyped'
  BY TypedParts DEF SInv, RowsTyped, Exhausted, Status
<1> QED BY <1>1, Untouched DEF RowsStep

LEMMA StalledFacts ==
  ASSUME SInv, NEW t, NEW c
  PROVE  Stalled(t, c) \in Nat
BY EnvFacts DEF Stalled

LEMMA ExpireLeaseStep ==
  ASSUME SInv, NEW t \in Tasks, ExpireLease(t)
  PROVE  Typed' /\ Step
<1>1. /\ lease' = [lease EXCEPT ![t].live = FALSE] /\ stops' = Stalled(t, lease[t])
      /\ UNCHANGED <<task, slot, hold, resv, up, run, left, req, post, clicks, day, asked>>
  BY DEF ExpireLease
<1>2. lease \in [Tasks -> ClaimType] /\ resv \in [Tasks -> ClaimType]
  BY DEF SInv, Typed
<1>3. lease' \in [Tasks -> ClaimType] /\ \A x \in Tasks : lease'[x].by = lease[x].by
  <2>1. PICK c : c = [lease[t] EXCEPT !.live = FALSE]
    OBVIOUS
  <2>2. c \in ClaimType /\ c.by = lease[t].by
    BY <1>2, <2>1 DEF ClaimType
  <2>3. lease' = [lease EXCEPT ![t] = c]
    BY <1>1, <2>1
  <2> QED BY <1>2, <2>2, <2>3
<1>4. RowsStep
  BY <1>1, <1>2, <1>3, ClaimsStep
<1>5. stops' \in Nat
  BY <1>1, StalledFacts
<1> QED BY <1>1, <1>4, <1>5, EnvFacts, QuietStep DEF Clears

LEMMA ExpireReservationStep ==
  ASSUME SInv, NEW t \in Tasks, ExpireReservation(t)
  PROVE  Typed' /\ Step
<1>1. /\ resv' = [resv EXCEPT ![t].live = FALSE] /\ stops' = Stalled(t, resv[t])
      /\ UNCHANGED <<task, slot, hold, lease, up, run, left, req, post, clicks, day, asked>>
  BY DEF ExpireReservation
<1>2. lease \in [Tasks -> ClaimType] /\ resv \in [Tasks -> ClaimType]
  BY DEF SInv, Typed
<1>3. resv' \in [Tasks -> ClaimType]
  <2>1. PICK c : c = [resv[t] EXCEPT !.live = FALSE]
    OBVIOUS
  <2>2. c \in ClaimType
    BY <1>2, <2>1 DEF ClaimType
  <2>3. resv' = [resv EXCEPT ![t] = c]
    BY <1>1, <2>1
  <2> QED BY <1>2, <2>2, <2>3
<1>4. RowsStep
  BY <1>1, <1>2, <1>3, ClaimsStep
<1>5. stops' \in Nat
  BY <1>1, StalledFacts
<1> QED BY <1>1, <1>4, <1>5, EnvFacts, QuietStep DEF Clears

LEMMA RenewStep ==
  ASSUME SInv, NEW p \in Procs, NEW a \in Accounts, Renew(p, a)
  PROVE  Typed' /\ Step
<1> DEFINE mine == Members(Run(p, a).items)
<1>1. /\ lease' = [t \in Tasks |-> IF t \in mine /\ Status(t) \in Live /\ lease[t].by = p THEN Claim(p) ELSE lease[t]]
      /\ resv' = [t \in Tasks |-> IF t \in mine /\ Status(t) \in Active /\ resv[t].by = p THEN Claim(p) ELSE resv[t]]
      /\ UNCHANGED <<task, slot, hold>> /\ UNCHANGED env
  BY DEF Renew
<1> HIDE DEF mine
<1>2. lease \in [Tasks -> ClaimType] /\ resv \in [Tasks -> ClaimType]
  BY DEF SInv, Typed
<1>3. lease' \in [Tasks -> ClaimType] /\ resv' \in [Tasks -> ClaimType] /\ \A x \in Tasks : lease'[x].by = lease[x].by
  BY <1>1, <1>2, ClaimHelpers
<1> QED BY <1>1, <1>3, ClaimsStep, EnvSame

LEMMA NextDayStep ==
  ASSUME SInv, NextDay
  PROVE  Typed' /\ Step
<1>1. /\ day < LastDay /\ day' = day + 1 /\ UNCHANGED rows
      /\ UNCHANGED <<up, run, left, req, post, clicks, stops, asked>>
  BY DEF NextDay
<1>2. day' \in 0..LastDay
  BY <1>1, EnvFacts, Bounds
<1>3. EnvTyped'
  BY <1>1, <1>2, EnvFacts DEF EnvTyped, Run
<1>4. DayStep
  BY <1>1 DEF DayStep, rows
<1>5. Clicks /\ Posts /\ Clears /\ Quits
  BY <1>1 DEF Clicks, Posts, Clears, Quits
<1> QED BY <1>1, <1>3, <1>4, <1>5, RowsSame, RunSame, TypedNext DEF RowsStep, Step
-----------------------------------------------------------------------------
(* Every action is an abstract step, and the invariant holds *)

LEMMA ClientStep ==
  ASSUME SInv, Client
  PROVE  Typed' /\ Step
BY CreateStep, RetryStep, CancelSignalStep, ClearStep, StopAllStep, TakeOverStep, GiveBackStep DEF Client

LEMMA ServeStep ==
  ASSUME SInv, Serve
  PROVE  Typed' /\ Step
BY CancelTxStep, StopOneStep, WipeStep DEF Serve

LEMMA TimeStep ==
  ASSUME SInv, Time
  PROVE  Typed' /\ Step
BY ExpireLeaseStep, ExpireReservationStep, NextDayStep DEF Time

LEMMA WorkerStep ==
  ASSUME SInv, NEW p \in Procs, Worker(p)
  PROVE  Typed' /\ Step
BY SweepStep, CancelStaleStep, EndTailStep, RecoverRunningStep, RecoverManualStep, ClaimTaskStep, DeferStep DEF Worker

LEMMA StoppingStep ==
  ASSUME SInv, NEW p \in Procs, Stopping(p) \/ Shutdown(p) \/ Crash(p)
  PROVE  Typed' /\ Step
<1>1. CASE Stopping(p)
  <2>1. CASE Exit(p)
    BY <2>1, EndStep, EnvFacts DEF Exit
  <2> QED BY <1>1, <2>1, SaveShutdownStep, ShutdownSignalStep, RestartStep DEF Stopping
<1>2. CASE Shutdown(p)
  BY <1>2, ShutdownStep
<1>3. CASE Crash(p)
  BY <1>3, EndStep, EnvFacts DEF Crash
<1> QED BY <1>1, <1>2, <1>3

LEMMA SessionsStep ==
  ASSUME SInv, NEW p \in Procs, NEW a \in Accounts, Session(p, a)
  PROVE  Typed' /\ Step
BY ClaimTailStep, StartStoppedStep, StartStep, MarkItemStep, ArmStep, PersistStep, ClickStep, CommitActionStep,
   SucceedStep, PendingStep, OutcomeUnknownStep, LoginFailedStep, NeedManualStep, RaiseStep, FailSafelyStep,
   StopReturnStep, LeaveStep DEF Session

LEMMA NextStep ==
  ASSUME SInv, [Next]_vars
  PROVE  Typed' /\ Step
<1>1. CASE UNCHANGED vars
  <2>1. UNCHANGED rows /\ UNCHANGED env
    BY <1>1 DEF vars
  <2> QED BY <2>1, RowsSame, EnvSame
<1>2. CASE Next
  <2>1. CASE Client \/ Serve \/ Time
    BY <2>1, ClientStep, ServeStep, TimeStep
  <2>2. CASE \E p \in Procs : Worker(p) \/ Stopping(p) \/ Shutdown(p) \/ Crash(p)
    BY <2>2, WorkerStep, StoppingStep
  <2>3. CASE \E p \in Procs, a \in Accounts : Session(p, a) \/ Renew(p, a)
    BY <2>3, SessionsStep, RenewStep
  <2> QED BY <1>2, <2>1, <2>2, <2>3 DEF Next
<1> QED BY <1>1, <1>2

LEMMA InitSInv ==
  ASSUME Init
  PROVE  SInv
<1>1. /\ \A t \in Tasks : task[t] = NoRow /\ slot[t] = NoSlot /\ hold[t] = "none" /\ lease[t] = NoClaim
      /\ \A t \in Tasks : post[t] = {t} /\ clicks[t] = 0
      /\ \A p \in Procs : up[p] = "up" /\ \A a \in Accounts : run[p][a] = Idle
      /\ req = NoReq
  BY DEF Init
<1>2. NoRow \in RowType /\ NoRow.status = "none" /\ NoRow.conf = 0 /\ NoRow.mark = "none"
  <2>1. 0 \in 0..Retries /\ 0 \in 0..(Attempts + 1)
    BY Bounds
  <2> QED BY <2>1 DEF NoRow, RowType, Away
<1>3. NoSlot \in SlotType /\ NoSlot.state = "none"
  <2>1. 0 \in 0..LastDay
    BY Bounds
  <2> QED BY <2>1 DEF NoSlot, SlotType
<1>4. Idle \in RunType /\ Idle.pc = "idle"
  BY DEF Idle, RunType, Pcs
<1>5. Typed
  <2>1. task \in [Tasks -> RowType] /\ slot \in [Tasks -> SlotType] /\ run \in [Procs -> [Accounts -> RunType]]
    BY <1>2, <1>3, <1>4 DEF Init
  <2>2. hold \in [Tasks -> {"none", "held", "settled", "released"}]
        /\ lease \in [Tasks -> ClaimType] /\ resv \in [Tasks -> ClaimType]
    BY ClaimHelpers DEF Init
  <2>3. /\ up \in [Procs -> {"up", "stopping", "down"}] /\ left \in [Procs -> SUBSET Tasks]
        /\ req \in ReqType /\ post \in [Tasks -> SUBSET Tasks] /\ clicks \in [Tasks -> Nat]
        /\ day \in 0..LastDay /\ stops \in Nat /\ asked \in Nat
    BY NoReqFacts, Bounds DEF Init
  <2>4. \A p \in Procs, a \in Accounts : Run(p, a).pc # "idle" => Run(p, a).i \in DOMAIN Run(p, a).items
    BY <1>1, <1>4 DEF Run
  <2>5. ASSUME NEW t \in Tasks PROVE Exhausted(t)
    <3>1. task[t].conf # Attempts + 1
      BY <1>1, <1>2, Bounds
    <3> QED BY <3>1 DEF Exhausted
  <2> QED BY <2>1, <2>2, <2>3, <2>4, <2>5 DEF Typed
<1>6. Clearing
  BY <1>1, NoReqFacts DEF Clearing
<1>7. ClickedOnce /\ OneSender
  <2>1. \A t \in Publish : clicks[t] = 0
    BY <1>1 DEF Publish
  <2>2. \A p \in Procs, a \in Accounts : ~Sent(p, a)
    BY <1>1, <1>4 DEF Sent, Run
  <2> QED BY <2>1, <2>2 DEF ClickedOnce, OneSender
<1>8. ASSUME NEW t \in Tasks PROVE RowOK(t)
  <2>1. Status(t) = "none" /\ slot[t].state = "none" /\ task[t].conf = 0 /\ ~Committed(t) /\ clicks[t] = 0
    BY <1>1, <1>2, <1>3 DEF Status, Committed
  <2>2. task[t] = NoRow /\ slot[t] = NoSlot /\ post[t] = {t}
    BY <1>1
  <2> QED BY <2>1, <2>2 DEF RowOK, Active, Live
<1>9. ASSUME NEW t \in Tasks PROVE RetryOK(t)
  <2>1. post[t] = {t} /\ clicks[t] = 0
    BY <1>1
  <2>2. ~Ready(t)
    BY <1>1, <1>4 DEF Ready, Run
  <2> QED BY <2>1, <2>2 DEF RetryOK, Unsent
<1>10. ASSUME NEW p \in Procs, NEW a \in Accounts PROVE RunOK(p, a)
  <2>1. Run(p, a).pc = "idle" /\ Run(p, a).items = <<>>
    BY <1>1 DEF Run, Idle
  <2>2. ~On(p, a) /\ ~Before1(p, a) /\ ~Sent(p, a) /\ \A j : ~Ahead(p, a, j)
    BY <2>1 DEF On, Before1, Sent, Ahead
  <2> QED BY <2>1, <2>2 DEF RunOK
<1> QED BY <1>5, <1>6, <1>7, <1>8, <1>9, <1>10 DEF SInv

\* The inductive invariant of rows, sessions and retries.
THEOREM Invariant == Spec => []SInv
<1>1. Init => SInv
  BY InitSInv
<1>2. SInv /\ [Next]_vars => SInv'
  BY NextStep, StepKeeps
<1> QED BY <1>1, <1>2, PTL DEF Spec

LEMMA TypesFollow ==
  ASSUME SInv
  PROVE  TypeOK
<1>1. Typed
  BY DEF SInv
<1>2. \A p \in Procs, a \in Accounts : Run(p, a).pc \in Pcs
  BY <1>1 DEF Typed, RunType, Run
<1>3. req.pc \in {"none", "cancel", "stop"}
  BY <1>1 DEF Typed, ReqType
<1> QED BY <1>1, <1>2, <1>3 DEF Typed, TypeOK, RowType, SlotType, ClaimType, Pcs

LEMMA OnceFollows ==
  ASSUME SInv
  PROVE  PostedOnce
<1>1. clicks \in [Tasks -> Nat] /\ post \in [Tasks -> SUBSET Tasks]
  BY DEF SInv, Typed
<1>2. \A t \in Publish : clicks[t] <= 1
  BY DEF SInv, ClickedOnce
<1>3. ASSUME NEW t \in Publish, Kind[t] = "threads", NEW n \in Tasks \ {t}, t \in post[n]
      PROVE  clicks[t] + clicks[n] <= 1
  <2>1. RetryOK(n)
    BY DEF SInv
  <2>2. Kind[n] = "threads"
    BY <1>3, <2>1 DEF RetryOK
  <2>3. n \in Publish /\ t \in Tasks
    BY <1>3, <2>2 DEF Publish
  <2>4. Cold(t) \/ Unsent(n)
    BY <1>3, <2>1, <2>2 DEF RetryOK
  <2>5. clicks[t] = 0 \/ clicks[n] = 0
    BY <2>4 DEF Cold, Unsent
  <2> QED BY <1>1, <1>2, <2>3, <2>5
<1> QED BY <1>2, <1>3 DEF PostedOnce

LEMMA OrderFollows ==
  ASSUME SInv
  PROVE  BatchOrder
BY DEF SInv, BatchOrder, RunOK, On, Locked

\* Rows, claims, sessions and requests keep their types.
THEOREM SocialTypes == Spec => []TypeOK
BY Invariant, TypesFollow, PTL

\* Whatever crashes, lost confirmations, lease expiries, recoveries and retries
\* happen, no row is clicked for twice, and a Threads post that a retry repeats
\* is clicked for by one of the two rows at most (_run_publish_submit_guard,
\* _persist_publish_confirmation_context, retry_social_task).
THEOREM NeverPostedTwice == Spec => []PostedOnce
BY Invariant, OnceFollows, PTL

\* The platform sees each post once and the items of a batch in their order: an
\* item is submitted only after the ones before it (_mark_publish_batch_item_running,
\* _publish_batch_ready_for_claim).
THEOREM OnceAndInOrder == Spec => []PostsInOrder
<1>1. SInv => PostsInOrder
  BY OnceFollows, OrderFollows DEF PostsInOrder
<1> QED BY <1>1, Invariant, PTL
-----------------------------------------------------------------------------
(* No slot is lost *)

\* Without retries, only a submitted post is looked for; without takeovers, no
\* row waits for a person.
SlotPart(t) ==
  /\ Status(t) \in {"failed", "cancelled", "deleted"} /\ ~Committed(t) => slot[t].state \in {"none", "released"}
  /\ "retry" \notin Requests => (task[t].conf > 0 => Committed(t))
  /\ "takeover" \notin Requests => Status(t) # "need_manual"
SlotsKept == \A t \in Publish : SlotPart(t)

LEMMA SlotPartKept ==
  ASSUME SInv, Typed', NEW x \in Publish, RowStep(x), SlotPart(x),
         "retry" \notin Requests \/ "takeover" \notin Requests
  PROVE  SlotPart(x)'
<1>0. /\ x \in Tasks /\ task[x] \in RowType /\ task'[x] \in RowType /\ RowOK(x) /\ Clearing
      /\ slot[x] \in SlotType /\ slot'[x] \in SlotType /\ day \in 0..LastDay
      /\ Status(x) = task[x].status /\ Status(x)' = task'[x].status
      /\ (Committed(x) <=> task[x].mark = "submitted") /\ (Committed(x)' <=> task'[x].mark = "submitted")
  BY DEF SInv, Typed, Status, Committed, Publish
<1>n. task[x].conf \in Nat /\ task'[x].conf \in Nat
  BY <1>0, Bounds DEF RowType
<1>w. \A st \in Statuses : /\ With(task[x], st).status = st /\ With(task[x], st).mark = task[x].mark
                           /\ With(task[x], st).conf = task[x].conf
  BY <1>0, RowHelpers
<1>s. /\ ReleaseSlot(slot[x]).state = IF slot[x].state = "armed" THEN "unknown"
                                      ELSE IF slot[x].state \in Spent \cup {"none"} THEN slot[x].state ELSE "released"
  BY <1>0, SlotHelpers
<1>l. MayLook(x) => task[x].conf > 0 \/ Committed(x)
  BY MayLookFacts
<1> DEFINE v == slot[x].state
           w == slot'[x].state
<1> SUFFICES
  /\ task'[x].status \in {"failed", "cancelled", "deleted"} /\ task'[x].mark # "submitted" => w \in {"none", "released"}
  /\ "retry" \notin Requests => (task'[x].conf > 0 => task'[x].mark = "submitted")
  /\ "takeover" \notin Requests => task'[x].status # "need_manual"
  BY <1>0 DEF SlotPart
<1>p. /\ task[x].status \in {"failed", "cancelled", "deleted"} /\ task[x].mark # "submitted" => v \in {"none", "released"}
      /\ "retry" \notin Requests => (task[x].conf > 0 => task[x].mark = "submitted")
      /\ "takeover" \notin Requests => task[x].status # "need_manual"
      /\ task[x].status \in Active /\ v \in Spent => task[x].mark = "submitted"
      /\ task[x].status = "success" => task[x].mark = "submitted"
  BY <1>0 DEF SlotPart, RowOK
<1> USE DEF Active, Live, Final, Spent
<1>1. CASE Stays(x)
  BY <1>0, <1>p, <1>1 DEF Stays, SameRow
<1>2. CASE Enters(x)
  <2>1. task'[x].conf = 0 \/ "retry" \in Requests
    BY <1>0, <1>2 DEF Enters, NoRow
  <2>2. task'[x].status = "queued"
    BY <1>0, <1>2 DEF Enters, NoRow
  <2> QED BY <2>1, <2>2
<1>3. CASE IsTaken(x)
  <2>1. /\ Status(x) = "queued" /\ task'[x].status = "running" /\ task'[x].mark = task[x].mark
        /\ task'[x].conf = task[x].conf
    BY <1>0, <1>w, <1>3 DEF IsTaken, Statuses
  <2> QED BY <1>0, <1>p, <2>1
<1>4. CASE Reslots(x)
  <2>1. task'[x] = task[x]
    BY <1>4 DEF Reslots
  <2>2. task[x].status = "queued" \/ (task[x].status \notin Active /\ w = ReleaseSlot(slot[x]).state)
    BY <1>0, <1>4 DEF Reslots
  <2> QED BY <1>0, <1>p, <1>s, <2>1, <2>2
<1>5. CASE IsCancelled(x) \/ IsDropped(x)
  <2>1. /\ task'[x].status \in {"cancelled", "failed"} /\ task'[x].mark = task[x].mark /\ task[x].status \in Active
        /\ task'[x].conf = task[x].conf /\ w = ReleaseSlot(slot[x]).state
    BY <1>0, <1>w, <1>5 DEF IsCancelled, IsDropped, Statuses
  <2>2. v \in Spent \cup {"none", "planned", "reserved", "released"}
    BY <1>0 DEF SlotType
  <2> QED BY <1>0, <1>p, <1>s, <2>1, <2>2
<1>7. CASE Requeues(x)
  <2>1. /\ MayLook(x) /\ task'[x].status = "queued"
        /\ task'[x].mark = task[x].mark \/ task'[x].mark = "submitted"
    BY <1>7 DEF Requeues
  <2> QED BY <1>0, <1>n, <1>p, <1>l, <2>1
<1>8. CASE Repeats(x)
  BY <1>8 DEF Repeats
<1>9. CASE Fails(x)
  <2>1. /\ Status(x) \in Active /\ task'[x].status = "failed"
        /\ task'[x].conf = task[x].conf \/ MayLook(x)
        /\ task'[x].mark = task[x].mark \/ task'[x].mark = "submitted"
    BY <1>9 DEF Fails
  <2>2. \/ w = ReleaseSlot(slot[x]).state
        \/ task'[x].mark = "submitted"
        \/ Status(x) = "need_manual" /\ task[x].conf > 0
    BY <1>9 DEF Fails
  <2>3. v \in Spent \cup {"none", "planned", "reserved", "released"}
    BY <1>0 DEF SlotType
  <2>4. task'[x].status # "need_manual" /\ ("retry" \notin Requests => (task'[x].conf > 0 => task'[x].mark = "submitted"))
    BY <1>0, <1>n, <1>p, <1>l, <2>1
  <2>5. task'[x].mark # "submitted" => w \in {"none", "released"}
    BY <1>0, <1>n, <1>p, <1>s, <2>1, <2>2, <2>3
  <2> QED BY <2>4, <2>5
<1>10. CASE Wins(x)
  BY <1>10 DEF Wins
<1>11. CASE IsArmed(x)
  BY <1>0, <1>p, <1>11 DEF IsArmed
<1>12. CASE IsConfirmed(x)
  BY <1>0, <1>p, <1>12 DEF IsConfirmed
<1>13. CASE IsCounted(x)
  BY <1>13 DEF IsCounted
<1>14. CASE ChangesHands(x)
  BY <1>0, <1>p, <1>14 DEF ChangesHands
<1>15. CASE IsDeleted(x)
  <2>1. Status(x) \in Final \cup {"deleted"}
    BY <1>0, <1>15 DEF IsDeleted, Clearing
  <2>2. /\ task'[x].status = "deleted" /\ task'[x].mark = task[x].mark /\ task'[x].conf = task[x].conf
        /\ w = v
    BY <1>w, <1>15 DEF IsDeleted, Statuses, Away
  <2> QED BY <1>0, <1>p, <2>1, <2>2
<1> QED
  BY <1>0, <1>1, <1>2, <1>3, <1>4, <1>5, <1>7, <1>8, <1>9, <1>10, <1>11, <1>12, <1>13, <1>14, <1>15 DEF RowStep

LEMMA SlotsStay ==
  ASSUME "retry" \notin Requests \/ "takeover" \notin Requests
  PROVE  Spec => []SlotsKept
<1>1. Init => SlotsKept
  <2> SUFFICES ASSUME Init PROVE SlotsKept
    OBVIOUS
  <2>1. \A t \in Publish : task[t] = NoRow
    BY DEF Init, Publish
  <2> QED BY <2>1 DEF SlotsKept, SlotPart, Status, NoRow
<1>2. SInv /\ SlotsKept /\ [Next]_vars => SlotsKept'
  <2> SUFFICES ASSUME SInv, SlotsKept, [Next]_vars PROVE SlotsKept'
    OBVIOUS
  <2>1. Typed' /\ Step
    BY NextStep
  <2>2. \A t \in Publish : RowStep(t)
    BY <2>1 DEF Step, Publish
  <2>3. ASSUME NEW t \in Publish PROVE SlotPart(t)'
    BY <2>1, <2>2, SlotPartKept DEF SlotsKept
  <2> QED BY <2>3 DEF SlotsKept
<1> QED BY <1>1, <1>2, Invariant, PTL DEF Spec

\* Rows, their slots in the daily quota and what was clicked stay consistent: a
\* post that may be on the platform stays counted, and a row that ended without a
\* submission has given its slot back (_release_daily_publish_slot,
\* _set_daily_publish_slot_state).  Where users both retry posts and take the
\* browser over, a slot can stay behind: see section 6 of the README.
THEOREM SlotsConsistent ==
  ASSUME "retry" \notin Requests \/ "takeover" \notin Requests
  PROVE  Spec => []RowsConsistent
<1>1. SInv /\ SlotsKept => RowsConsistent
  <2> SUFFICES ASSUME SInv, SlotsKept PROVE RowsConsistent
    OBVIOUS
  <2>1. TypeOK
    BY TypesFollow
  <2>2. SlotAccounts
    BY DEF SInv, RowOK, SlotAccounts, Publish
  <2>3. NoLostSlot
    BY DEF SlotsKept, SlotPart, NoLostSlot
  <2> QED BY <2>1, <2>2, <2>3 DEF RowsConsistent
<1> QED BY <1>1, SlotsStay, Invariant, PTL
-----------------------------------------------------------------------------
(* The daily limit *)

\* All tasks but the later items of batches.
Firsts == Tasks \ Later

\* The slot is one of the posts under way or made today; it counts for its day.
InExec(s) == s.state \in {"reserved", "armed"} \/ (s.day = day /\ s.state \in Spent)
Counted(s) == s.state \in Spent \cup {"reserved"}
Started == {t \in Firsts : InExec(slot[t])}
OnDay(d) == {t \in Firsts : Counted(slot[t]) /\ slot[t].day = d}
SlotDay(t) == slot[t].day <= day /\ (Status(t) \in Live => slot[t].state # "planned")
\* Reservations are for later items only, so no session takes another task
\* without the check of ClaimTask.
FirstsFree == \A t \in Firsts : resv[t].by \notin Procs
WithinLimit ==
  /\ Cardinality(Started) <= Limit
  /\ \A d \in 0..LastDay : Cardinality(OnDay(d)) <= Limit
  /\ \A t \in Publish \ Later : SlotDay(t)
  /\ FirstsFree

\* A slot becomes one of today's only when its row was executing before, or when
\* the row is taken alone and there is room.
Room(x) == Alone(x) /\ Cardinality(Started \ {x}) < Limit
SlotGain(x) ==
  /\ slot'[x].day <= day
  /\ Status(x)' \in Live => slot'[x].state # "planned"
  /\ Counted(slot'[x]) => slot'[x].day = day \/ (slot'[x].day = slot[x].day /\ Counted(slot[x]))
  /\ InExec(slot'[x]) => InExec(slot[x]) \/ Room(x)

LEMMA FewerExecuting ==
  ASSUME NEW S \in SUBSET Tasks, NEW x
  PROVE  /\ IsFiniteSet(S) /\ Cardinality(S) \in Nat
         /\ IsFiniteSet(S \ {x}) /\ Cardinality(S \ {x}) <= Cardinality(S)
         /\ Cardinality(S) <= Cardinality(S \ {x}) + 1
<1>1. IsFiniteSet(S)
  BY SocialConstants, FS_Subset
<1>2. IsFiniteSet(S \ {x}) /\ Cardinality(S) \in Nat /\ Cardinality(S \ {x}) \in Nat
  BY <1>1, FS_RemoveElement, FS_CardinalityType
<1>3. Cardinality(S \ {x}) = IF x \in S THEN Cardinality(S) - 1 ELSE Cardinality(S)
  BY <1>1, FS_RemoveElement
<1> QED BY <1>1, <1>2, <1>3

\* Room among all tasks is room among the firsts.
LEMMA RoomAmongFirsts ==
  ASSUME NEW x, Cardinality(Executing) < Limit \/ Cardinality(Executing \ {x}) < Limit
  PROVE  Cardinality(Started \ {x}) < Limit
<1>1. Executing \subseteq Tasks /\ Started \subseteq Executing
  BY DEF Executing, Started, InExec, Firsts
<1>2. /\ IsFiniteSet(Executing) /\ Cardinality(Executing) \in Nat
      /\ IsFiniteSet(Executing \ {x}) /\ Cardinality(Executing \ {x}) <= Cardinality(Executing)
  BY <1>1, FewerExecuting
<1>3. Started \ {x} \subseteq Executing \ {x}
  BY <1>1
<1>4. Cardinality(Started \ {x}) <= Cardinality(Executing \ {x}) /\ IsFiniteSet(Started \ {x})
  BY <1>2, <1>3, FS_Subset
<1>5. Cardinality(Executing \ {x}) \in Nat /\ Cardinality(Started \ {x}) \in Nat
  BY <1>2, <1>4, FS_CardinalityType
<1> QED BY <1>2, <1>4, <1>5, Bounds

LEMMA SlotGains ==
  ASSUME SInv, Typed', NEW x \in Publish \ Later, RowStep(x), WithinLimit
  PROVE  SlotGain(x)
<1>0. /\ x \in Tasks /\ task[x] \in RowType /\ task'[x] \in RowType /\ RowOK(x) /\ Clearing
      /\ slot[x] \in SlotType /\ slot'[x] \in SlotType /\ day \in 0..LastDay
      /\ Status(x) = task[x].status /\ Status(x)' = task'[x].status
      /\ (Committed(x) <=> task[x].mark = "submitted") /\ SlotDay(x)
  BY DEF SInv, Typed, Status, Committed, Publish, WithinLimit
<1> DEFINE v == slot[x].state
           w == slot'[x].state
           e == slot[x].day
           f == slot'[x].day
<1>t. e \in Nat /\ f \in Nat /\ day \in Nat /\ v \in Spent \cup {"none", "planned", "reserved", "released"}
  BY <1>0, Bounds DEF SlotType
<1>w. \A st \in Statuses : With(task[x], st).status = st
  BY <1>0, RowHelpers
<1>s. /\ ReleaseSlot(slot[x]).day = e
      /\ ReleaseSlot(slot[x]).state = IF v = "armed" THEN "unknown"
                                      ELSE IF v \in Spent \cup {"none"} THEN v ELSE "released"
      /\ \A st \in Spent \cup {"reserved"} :
           /\ SetSlot(slot[x], st).state = IF v = "none" THEN "none" ELSE st
           /\ SetSlot(slot[x], st).day = e
           /\ SetSlotToday(slot[x], st).state = IF v = "none" THEN "none" ELSE st
  BY <1>0, SlotHelpers
<1>d. \A st : v # "none" => SetSlotToday(slot[x], st).day = day
  BY DEF SetSlotToday
<1>p. /\ e <= day
      /\ task[x].status \in Live => v \in Spent \cup {"reserved"}
      /\ task[x].status \in Active /\ v \in Spent => task[x].mark = "submitted"
      /\ task[x].mark = "submitted" => v \in Spent
  BY <1>0, <1>t DEF SlotDay, RowOK, Live, Active
<1> USE DEF Active, Live, Final, Spent
<1>same. ASSUME slot'[x] = slot[x], task'[x].status \in Live => task[x].status \in Live
         PROVE SlotGain(x)
  BY <1>0, <1>t, <1>p, <1>same DEF SlotGain, Counted, InExec
<1>rel. ASSUME slot'[x] = ReleaseSlot(slot[x]), task'[x].status \notin Live
        PROVE SlotGain(x)
  <2>1. f = e /\ w = IF v = "armed" THEN "unknown" ELSE IF v \in Spent \cup {"none"} THEN v ELSE "released"
    BY <1>s, <1>rel
  <2>2. w \in Spent \cup {"reserved"} => v \in Spent
    BY <1>t, <2>1
  <2>3. w \notin {"reserved", "armed"}
    BY <1>t, <2>1
  <2> QED BY <1>0, <1>t, <1>p, <1>rel, <2>1, <2>2, <2>3 DEF SlotGain, Counted, InExec
<1>set. ASSUME NEW st \in Spent \cup {"reserved"}, slot'[x] = SetSlot(slot[x], st), v \in Spent \cup {"reserved"},
               st = "reserved" => v = "reserved", st # "armed"
        PROVE SlotGain(x)
  <2>1. f = e /\ w = st
    BY <1>s, <1>set
  <2> QED BY <1>0, <1>t, <1>p, <1>set, <2>1 DEF SlotGain, Counted, InExec
<1>1. CASE Stays(x)
  BY <1>0, <1>1, <1>same DEF Stays, SameRow
<1>2. CASE Enters(x)
  <2>1. task'[x].status = "queued"
    BY <1>2 DEF Enters, NoRow
  <2>2. slot'[x] = [state |-> "planned", day |-> day]
    BY <1>2 DEF Enters
  <2>3. w = "planned" /\ f = day
    BY <2>2
  <2> QED BY <1>0, <1>t, <2>1, <2>3 DEF SlotGain, Counted, InExec
<1>3. CASE IsTaken(x)
  <2>1. PICK p \in Procs : TakenBy(p, x)
    BY <1>3 DEF IsTaken
  <2>2. Alone(x) /\ Status(x) = "queued"
    BY <1>3 DEF IsTaken
  <2>3. resv[x] # Claim(p)
    BY <1>0 DEF WithinLimit, FirstsFree, Firsts, Claim
  <2>4. QuotaFree(x) /\ slot'[x] = Reserved(slot[x])
    BY <2>1, <2>3 DEF TakenBy
  <2>5. v # "none"
    BY <1>0, <2>2 DEF RowOK
  <2>6. CASE v \in Spent
    <3>1. slot'[x] = slot[x]
      BY <2>4, <2>6 DEF Reserved
    <3> QED BY <1>0, <1>t, <1>p, <2>6, <3>1 DEF SlotGain, Counted, InExec
  <2>7. CASE v \notin Spent
    <3>1. slot'[x] = SetSlotToday(slot[x], "reserved")
      BY <2>4, <2>7 DEF Reserved
    <3>2. w = "reserved" /\ f = day
      BY <1>s, <1>d, <2>5, <3>1
    <3>3. Cardinality(Executing) < Limit
      BY <2>4, <2>7 DEF QuotaFree
    <3>4. Cardinality(Started \ {x}) < Limit
      BY <3>3, RoomAmongFirsts
    <3> QED BY <1>t, <2>2, <3>2, <3>4 DEF SlotGain, Counted, InExec, Room
  <2> QED BY <2>6, <2>7
<1>4. CASE Reslots(x)
  <2>1. task'[x] = task[x]
    BY <1>4 DEF Reslots
  <2>2. \/ task[x].status = "queued" /\ w = "planned" /\ f = e
        \/ task[x].status \notin Active /\ slot'[x] = ReleaseSlot(slot[x])
    <3>1. Before(x) = {}
      BY <1>0 DEF Later
    <3> QED BY <1>0, <1>4, <3>1 DEF Reslots, SlotType
  <2>3. CASE task[x].status = "queued" /\ w = "planned" /\ f = e
    BY <1>0, <1>t, <1>p, <2>1, <2>3 DEF SlotGain, Counted, InExec
  <2> QED BY <1>rel, <2>1, <2>2, <2>3
<1>5. CASE IsCancelled(x) \/ IsDropped(x)
  <2>1. task'[x].status \in {"cancelled", "failed"} /\ slot'[x] = ReleaseSlot(slot[x])
    BY <1>0, <1>w, <1>5 DEF IsCancelled, IsDropped, Statuses
  <2> QED BY <1>rel, <2>1
<1>7. CASE Requeues(x)
  <2>1. /\ Status(x) \in Live /\ task'[x].status = "queued"
        /\ slot'[x] = slot[x] \/ slot'[x] = SetSlot(slot[x], "submitted")
    BY <1>7 DEF Requeues
  <2> QED BY <1>0, <1>p, <1>same, <1>set, <2>1
<1>8. CASE Repeats(x)
  BY <1>8 DEF Repeats
<1>9. CASE Fails(x)
  <2>1. /\ Status(x) \in Live \/ Committed(x)
        /\ task'[x].status = "failed"
        /\ slot'[x] = ReleaseSlot(slot[x]) \/ slot'[x] = SetSlot(slot[x], "unknown")
    BY <1>9 DEF Fails
  <2>2. v \in Spent \cup {"reserved"}
    BY <1>0, <1>p, <2>1
  <2> QED BY <1>rel, <1>set, <2>1, <2>2
<1>10. CASE Wins(x)
  <2>1. /\ Status(x) \in Live /\ task'[x].status = "success"
        /\ \/ slot'[x] = SetSlot(slot[x], "confirmed")
           \/ ~Committed(x) /\ slot'[x] = SetSlotToday(slot[x], "confirmed")
    BY <1>10 DEF Wins
  <2>2. v \in Spent \cup {"reserved"}
    BY <1>0, <1>p, <2>1
  <2>3. CASE ~Committed(x) /\ slot'[x] = SetSlotToday(slot[x], "confirmed")
    <3>1. w = "confirmed" /\ f = day /\ v = "reserved"
      BY <1>0, <1>p, <1>s, <1>d, <2>1, <2>2, <2>3
    <3> QED BY <1>t, <2>1, <3>1 DEF SlotGain, Counted, InExec
  <2> QED BY <1>set, <2>1, <2>2, <2>3
<1>11. CASE IsArmed(x)
  <2>1. PICK p \in Procs, a \in Accounts : Run(p, a).pc = "work" /\ Item(p, a) = x
    BY <1>11 DEF IsArmed
  <2>2. Status(x) \in Live /\ task[x].conf = 0 /\ slot'[x] = SetSlotToday(slot[x], "armed")
    BY <1>11 DEF IsArmed
  <2>3. ~Committed(x)
    <3>1. RunOK(p, a) /\ Before1(p, a)
      BY <2>1 DEF SInv, Before1, On
    <3> QED BY <2>1, <2>2, <3>1 DEF RunOK
  <2>4. v = "reserved"
    BY <1>0, <1>p, <2>2, <2>3
  <2>5. w = "armed" /\ f = day
    BY <1>s, <1>d, <2>2, <2>4
  <2> QED BY <1>t, <2>4, <2>5 DEF SlotGain, Counted, InExec
<1>12. CASE IsConfirmed(x)
  <2>1. /\ Status(x) = "running" /\ slot'[x] = SetSlotToday(slot[x], "armed") /\ Alone(x)
        /\ slot[x].day = day \/ Cardinality(Executing \ {x}) < Limit
    BY <1>12 DEF IsConfirmed
  <2>2. v \in Spent \cup {"reserved"}
    BY <1>0, <1>p, <2>1
  <2>3. w = "armed" /\ f = day
    BY <1>s, <1>d, <2>1, <2>2
  <2>4. slot[x].day = day \/ Cardinality(Started \ {x}) < Limit
    BY <2>1, RoomAmongFirsts
  <2> QED BY <1>t, <2>1, <2>2, <2>3, <2>4 DEF SlotGain, Counted, InExec, Room
<1>13. CASE IsCounted(x)
  BY <1>13 DEF IsCounted
<1>14. CASE ChangesHands(x)
  <2>1. /\ Status(x) \in Live
        /\ slot'[x] = slot[x] \/ slot'[x] = SetSlot(slot[x], IF Committed(x) THEN "unknown" ELSE "reserved")
    BY <1>14 DEF ChangesHands
  <2>2. v \in Spent \cup {"reserved"} /\ (~Committed(x) => v = "reserved")
    BY <1>0, <1>p, <2>1
  <2>3. CASE Committed(x)
    BY <1>0, <1>same, <1>set, <2>1, <2>2, <2>3
  <2>4. CASE ~Committed(x)
    BY <1>0, <1>same, <1>set, <2>1, <2>2, <2>4
  <2> QED BY <2>3, <2>4
<1>15. CASE IsDeleted(x)
  <2>1. slot'[x] = slot[x] /\ task'[x].status = "deleted"
    BY <1>w, <1>15 DEF IsDeleted, Statuses, Away
  <2> QED BY <1>same, <2>1
<1> QED
  BY <1>0, <1>1, <1>2, <1>3, <1>4, <1>5, <1>7, <1>8, <1>9, <1>10, <1>11, <1>12, <1>13, <1>14, <1>15 DEF RowStep
LEMMA FewerTasks ==
  ASSUME NEW S \in SUBSET Tasks, NEW T \in SUBSET S
  PROVE  Cardinality(S) \in Nat /\ Cardinality(T) \in Nat /\ Cardinality(T) <= Cardinality(S)
<1>1. IsFiniteSet(S) /\ IsFiniteSet(T) /\ Cardinality(T) <= Cardinality(S)
  BY SocialConstants, FS_Subset
<1> QED BY <1>1, FS_CardinalityType

\* What a step may do to a reservation of a row: leave it with its process, or
\* take it away.
Freed(x) == resv'[x].by = resv[x].by \/ resv'[x].by \notin Procs

LEMMA NobodysClaims == NoClaim.by \notin Procs /\ Gone \notin Procs
BY SocialConstants DEF NoClaim

LEMMA FreedSame ==
  ASSUME resv' = resv, NEW x
  PROVE  Freed(x)
BY DEF Freed

LEMMA FreedRequeue ==
  ASSUME NEW t, NEW r, RequeueRow(t, r), NEW x \in Tasks
  PROVE  Freed(x)
<1>1. resv'[x] = NoClaim \/ resv'[x] = resv[x]
  BY DEF RequeueRow
<1> QED BY <1>1, NobodysClaims DEF Freed

LEMMA FreedEnd ==
  ASSUME NEW t, NEW r, NEW s, NEW h, EndRow(t, r, s, h), NEW x \in Tasks
  PROVE  Freed(x)
<1>1. resv'[x] = NoClaim \/ resv'[x] = resv[x]
  BY DEF EndRow
<1> QED BY <1>1, NobodysClaims DEF Freed

LEMMA FreedLate ==
  ASSUME NEW t, FinishLate(t), NEW x
  PROVE  Freed(x)
BY FreedSame DEF FinishLate

LEMMA FreedFailed ==
  ASSUME NEW t, NEW r, NEW result, FinishFailedAs(t, r, result), NEW x \in Tasks
  PROVE  Freed(x)
BY FreedEnd, FreedLate DEF FinishFailedAs

LEMMA FreedSuccess ==
  ASSUME NEW t, FinishSuccess(t), NEW x \in Tasks
  PROVE  Freed(x)
BY FreedEnd, FreedLate DEF FinishSuccess

LEMMA FreedConfirmation ==
  ASSUME NEW t, RequeuePublishConfirmation(t), NEW x \in Tasks
  PROVE  Freed(x)
BY FreedRequeue, FreedFailed DEF RequeuePublishConfirmation, FinishFailed

LEMMA FreedUnless ==
  ASSUME NEW t, NEW A, Unless(t, A), ~A, NEW x
  PROVE  Freed(x)
<1>1. UNCHANGED rows
  BY DEF Unless
<1> QED BY <1>1, FreedSame DEF rows

LEMMA FreedExcept ==
  ASSUME resv \in [Tasks -> ClaimType], NEW t, resv' = [resv EXCEPT ![t] = NoClaim], NEW x \in Tasks
  PROVE  Freed(x)
<1>1. resv'[x] = NoClaim \/ resv'[x] = resv[x]
  OBVIOUS
<1> QED BY <1>1, NobodysClaims DEF Freed

LEMMA FreedShutdown ==
  ASSUME resv \in [Tasks -> ClaimType], NEW t, ShutdownRow(t), NEW x \in Tasks
  PROVE  Freed(x)
BY FreedRequeue, FreedExcept, FreedSame DEF ShutdownRow, CancelRows

\* Only the later items of a batch are reserved (_claim_publish_batch_tail).
LEMMA ClaimTailReserves ==
  ASSUME SInv, NEW p \in Procs, NEW a \in Accounts, ClaimTail(p, a), NEW x \in Firsts
  PROVE  Freed(x)
<1> DEFINE mine == Status(Item(p, a)) \in Live /\ lease[Item(p, a)].by \in {p, None}
<1>1. PICK t, s : /\ t = Item(p, a)
                  /\ s = IF mine THEN SubSeq(BatchOf(t), Place(t), TailEnd(p, t)) ELSE <<t>>
  OBVIOUS
<1>2. /\ Run(p, a).pc = "claimed"
      /\ resv' = [y \in Tasks |-> IF y \in Members(s) \ {t} THEN Claim(p) ELSE resv[y]]
  BY <1>1 DEF ClaimTail, At
<1>3. t \in Tasks
  BY <1>1, <1>2, ItemFacts
<1>4. s = SubSeq(BatchOf(t), Place(t), TailEnd(p, t)) \/ s = <<t>>
  BY <1>1
<1> HIDE DEF mine
<1>5. /\ s \in Seq(Tasks) /\ Len(s) >= 1 /\ s[1] = t
      /\ \A j \in DOMAIN s : j > 1 => Before(s[j]) # {}
  BY <1>3, <1>4, TailItems
<1>6. ASSUME x \in Members(s) \ {t} PROVE FALSE
  <2>1. PICK j \in DOMAIN s : s[j] = x
    BY <1>6 DEF Members
  <2>2. j \in 1..Len(s) /\ Len(s) \in Nat /\ j # 1
    BY <1>5, <1>6, <2>1
  <2>3. Before(x) # {}
    BY <1>5, <2>1, <2>2
  <2> QED BY <2>3 DEF Firsts, Later
<1> QED BY <1>2, <1>6 DEF Freed, Firsts

LEMMA SessionFrees ==
  ASSUME SInv, NEW p \in Procs, NEW a \in Accounts, Session(p, a), NEW x \in Firsts
  PROVE  Freed(x)
<1>0. resv \in [Tasks -> ClaimType] /\ x \in Tasks
  BY DEF SInv, Typed, Firsts
<1> DEFINE t == Item(p, a)
<1> HIDE DEF t
<1>1. CASE ClaimTail(p, a)
  BY <1>1, ClaimTailReserves
<1>2. CASE \/ StartStopped(p, a) \/ Start(p, a) \/ MarkItem(p, a) \/ Arm(p, a) \/ PersistConfirmation(p, a)
           \/ Click(p, a) \/ CommitAction(p, a) \/ Raise(p, a)
  <2>1. resv' = resv
    BY <1>2 DEF StartStopped, Start, MarkItem, Arm, PersistConfirmation, Click, CommitAction, Raise, rows
  <2> QED BY <2>1, FreedSame
<1>3. CASE Succeed(p, a)
  <2>1. Unless(t, FinishSuccess(t))
    BY <1>3 DEF Succeed, t
  <2> QED BY <1>0, <2>1, FreedSuccess, FreedUnless
<1>4. CASE Pending(p, a)
  <2>1. Unless(t, RequeuePublishConfirmation(t))
    BY <1>4 DEF Pending, t
  <2> QED BY <1>0, <2>1, FreedConfirmation, FreedUnless
<1>5. CASE OutcomeUnknown(p, a) \/ LoginFailed(p, a)
  <2>1. Unless(t, FinishFailed(t, "review")) \/ Unless(t, FinishFailed(t, "plain"))
    BY <1>5 DEF OutcomeUnknown, LoginFailed, t
  <2> QED BY <1>0, <2>1, FreedFailed, FreedUnless DEF FinishFailed
<1>6. CASE NeedManual(p, a)
  <2>1. resv' = resv \/ Unless(t, FinishLate(t))
    BY <1>6 DEF NeedManual, t
  <2> QED BY <2>1, FreedLate, FreedSame, FreedUnless
<1>7. CASE FailSafely(p, a)
  <2>1. \/ UNCHANGED rows
        \/ Unless(t, IF task[t].conf > 0 THEN RequeuePublishConfirmation(t)
                     ELSE IF t \notin Publish /\ task[t].tries < Retries /\ Status(t) = "running" THEN RetryRow(t)
                     ELSE FinishFailed(t, "plain"))
    BY <1>7 DEF FailSafely, t
  <2>2. \/ UNCHANGED rows
        \/ RequeuePublishConfirmation(t) \/ RetryRow(t) \/ FinishFailed(t, "plain")
    BY <2>1 DEF Unless
  <2>3. UNCHANGED rows => resv' = resv
    BY DEF rows
  <2> QED BY <1>0, <2>2, <2>3, FreedConfirmation, FreedFailed, FreedExcept, FreedSame DEF RetryRow, FinishFailed
<1>8. CASE StopReturn(p, a)
  <2>1. UNCHANGED rows \/ Unless(t, FinishFailed(t, "plain"))
    BY <1>8 DEF StopReturn, t
  <2>2. UNCHANGED rows => resv' = resv
    BY DEF rows
  <2> QED BY <1>0, <2>1, <2>2, FreedFailed, FreedSame, FreedUnless DEF FinishFailed
<1>9. CASE Leave(p, a)
  <2>1. UNCHANGED rows \/ \E y : FinishFailed(y, "noretry")
    BY <1>9 DEF Leave
  <2>2. UNCHANGED rows => resv' = resv
    BY DEF rows
  <2> QED BY <1>0, <2>1, <2>2, FreedFailed, FreedSame DEF FinishFailed
<1> QED BY <1>1, <1>2, <1>3, <1>4, <1>5, <1>6, <1>7, <1>8, <1>9 DEF Session

LEMMA WorkerFrees ==
  ASSUME SInv, NEW p \in Procs, Worker(p), NEW x \in Tasks
  PROVE  Freed(x)
<1>1. CASE Sweep(p) \/ (\E b \in Batches : CancelStaleBatch(p, b))
  BY <1>1, FreedSame DEF Sweep, CancelStaleBatch, CancelRows
<1>2. ASSUME NEW t \in Tasks, EndTail(p, t) PROVE Freed(x)
  <2>1. resv'[x] = NoClaim \/ resv'[x] = resv[x]
    BY <1>2 DEF EndTail
  <2> QED BY <2>1, NobodysClaims DEF Freed
<1>3. ASSUME NEW t \in Tasks, RecoverRunning(p, t) PROVE Freed(x)
  BY <1>3, FreedRequeue, FreedEnd DEF RecoverRunning
<1>4. ASSUME NEW t \in Tasks, RecoverManual(p, t) \/ ClaimTask(p, t) \/ Defer(p, t) PROVE Freed(x)
  BY <1>4, FreedSame DEF RecoverManual, ClaimTask, Defer
<1> QED BY <1>1, <1>2, <1>3, <1>4 DEF Worker

LEMMA StoppingFrees ==
  ASSUME SInv, NEW p \in Procs, Stopping(p) \/ Shutdown(p) \/ Crash(p), NEW x \in Tasks
  PROVE  Freed(x)
<1>0. resv \in [Tasks -> ClaimType]
  BY DEF SInv, Typed
<1>1. ASSUME NEW t \in Tasks, SaveShutdown(p, t) PROVE Freed(x)
  BY <1>0, <1>1, FreedShutdown DEF SaveShutdown
<1>2. CASE (\E a \in Accounts : ShutdownSignal(p, a)) \/ Restart(p) \/ Shutdown(p)
  <2>1. UNCHANGED rows
    BY <1>2 DEF ShutdownSignal, Restart, Shutdown
  <2> QED BY <2>1, FreedSame DEF rows
<1>3. CASE End(p)
  <2>1. resv' = Orphaned(resv, p)
    BY <1>3 DEF End
  <2>2. resv'[x] = IF resv[x].by = p THEN [resv[x] EXCEPT !.by = Gone] ELSE resv[x]
    BY <2>1 DEF Orphaned
  <2>3. resv'[x].by = Gone \/ resv'[x].by = resv[x].by
    BY <1>0, <2>2 DEF ClaimType
  <2> QED BY <2>3, NobodysClaims DEF Freed
<1> QED BY <1>1, <1>2, <1>3 DEF Stopping, Exit, Crash

LEMMA RenewFrees ==
  ASSUME NEW p \in Procs, NEW a \in Accounts, Renew(p, a), NEW x \in Tasks
  PROVE  Freed(x)
<1>1. resv'[x] = resv[x] \/ (resv[x].by = p /\ resv'[x] = Claim(p))
  BY DEF Renew
<1> QED BY <1>1 DEF Freed, Claim

LEMMA RequestFrees ==
  ASSUME SInv, Client \/ Serve \/ Time, NEW x \in Tasks
  PROVE  Freed(x)
<1>0. resv \in [Tasks -> ClaimType]
  BY DEF SInv, Typed
<1>1. CASE Client
  <2>1. resv' = resv
    BY <1>1 DEF Client, Create, Retry, NewTask, CancelSignal, Clear, StopAll, TakeOver, GiveBack, rows
  <2> QED BY <2>1, FreedSame
<1>2. CASE Serve
  <2>1. resv' = resv
    BY <1>2 DEF Serve, CancelTx, FinishLate, CancelRows, StopOne, Wipe, rows
  <2> QED BY <2>1, FreedSame
<1>3. CASE Time
  <2>1. CASE NextDay \/ \E t \in Tasks : ExpireLease(t)
    <3>1. resv' = resv
      BY <2>1 DEF NextDay, ExpireLease, rows
    <3> QED BY <3>1, FreedSame
  <2>2. ASSUME NEW t \in Tasks, ExpireReservation(t) PROVE Freed(x)
    <3>1. resv' = [resv EXCEPT ![t].live = FALSE]
      BY <2>2 DEF ExpireReservation
    <3>2. resv'[x].by = resv[x].by
      BY <1>0, <3>1 DEF ClaimType
    <3> QED BY <3>2 DEF Freed
  <2> QED BY <1>3, <2>1, <2>2 DEF Time
<1> QED BY <1>1, <1>2, <1>3

LEMMA FirstsFreeKept ==
  ASSUME SInv, [Next]_vars, FirstsFree
  PROVE  FirstsFree'
<1>1. ASSUME NEW x \in Firsts PROVE Freed(x)
  <2>0. x \in Tasks
    BY DEF Firsts
  <2>1. CASE UNCHANGED vars
    BY <2>1, FreedSame DEF vars, rows
  <2>2. CASE Client \/ Serve \/ Time
    BY <2>0, <2>2, RequestFrees
  <2>3. CASE \E p \in Procs : Worker(p) \/ Stopping(p) \/ Shutdown(p) \/ Crash(p)
    BY <2>0, <2>3, WorkerFrees, StoppingFrees
  <2>4. CASE \E p \in Procs, a \in Accounts : Session(p, a) \/ Renew(p, a)
    BY <2>0, <2>4, SessionFrees, RenewFrees
  <2> QED BY <2>1, <2>2, <2>3, <2>4 DEF Next
<1> QED BY <1>1 DEF FirstsFree, Freed, Firsts, Later, Before, BatchOf, InBatch, Place

LEMMA LimitKept ==
  ASSUME SInv, Typed', Step, WithinLimit, FirstsFree'
  PROVE  WithinLimit'
<1>0. /\ slot \in [Tasks -> SlotType] /\ slot' \in [Tasks -> SlotType] /\ day \in 0..LastDay /\ day' \in 0..LastDay
      /\ Publish \subseteq Tasks
  BY DEF SInv, Typed, Publish
<1>1. \A x \in Publish \ Later : SlotGain(x)
  BY SlotGains DEF Step, Publish
<1>2. \A x \in Tasks \ Publish : slot[x].state = "none" /\ slot'[x].state = "none"
  <2>1. \A x \in Tasks : RowOK(x) /\ RowOK(x)'
    BY RowKept DEF SInv
  <2> QED BY <2>1 DEF RowOK
<1>3. Later' = Later /\ Firsts' = Firsts /\ Publish \ Later \subseteq Firsts /\ Firsts \subseteq Tasks
  BY <1>0 DEF Later, Firsts, Before, BatchOf, InBatch, Place
<1>4. ASSUME NEW x \in Publish \ Later PROVE SlotDay(x)'
  <2>1. slot'[x].day \in Nat /\ day \in Nat /\ day' \in Nat /\ day <= day'
    BY <1>0, Bounds DEF SlotType, Step, DayStep
  <2> QED BY <1>1, <2>1 DEF SlotGain, SlotDay
<1>5. Started = {t \in Firsts : InExec(slot[t])} /\ Started' = {t \in Firsts : InExec(slot[t])'}
  BY <1>3 DEF Started
<1>6. Started \subseteq Tasks /\ Started' \subseteq Tasks
  BY <1>3, <1>5
<1>7. Cardinality(Started)' <= Limit
  <2>1. CASE day' = day
    <3>1. \A x \in Started' : InExec(slot'[x]) /\ x \in Publish \ Later
      BY <1>2, <1>5, <2>1 DEF InExec, Spent, Firsts
    <3>2. CASE Started' \subseteq Started
      <4>1. Cardinality(Started') <= Cardinality(Started) /\ Cardinality(Started') \in Nat /\ Cardinality(Started) \in Nat
        BY <1>6, <3>2, FewerTasks
      <4> QED BY <4>1, Bounds DEF WithinLimit
    <3>3. CASE ~(Started' \subseteq Started)
      <4>1. PICK x \in Started' : x \notin Started
        BY <3>3
      <4>2. x \in Publish \ Later /\ Room(x)
        BY <1>0, <1>1, <1>5, <3>1, <4>1 DEF SlotGain
      <4>3. \A y \in Tasks \ {x} : slot'[y] = slot[y]
        BY <4>2 DEF Room, Alone, SameRow
      <4>4. Started' \ {x} \subseteq Started \ {x}
        BY <1>3, <1>5, <2>1, <4>3 DEF InExec
      <4>5. Cardinality(Started' \ {x}) <= Cardinality(Started \ {x}) /\ Cardinality(Started' \ {x}) \in Nat /\ Cardinality(Started \ {x}) \in Nat
        BY <1>6, <4>4, FewerTasks
      <4>6. Cardinality(Started') <= Cardinality(Started' \ {x}) + 1 /\ Cardinality(Started') \in Nat
        BY <1>6, FewerExecuting
      <4>7. Cardinality(Started' \ {x}) \in Nat /\ Cardinality(Started \ {x}) \in Nat
        BY <1>6, FewerExecuting, FS_CardinalityType
      <4>8. Cardinality(Started \ {x}) < Limit
        BY <4>2 DEF Room
      <4> QED BY <4>5, <4>6, <4>7, <4>8, Bounds
    <3> QED BY <3>2, <3>3
  <2>2. CASE day' # day
    <3>1. day' = day + 1 /\ slot' = slot
      BY <2>2 DEF Step, DayStep
    <3>2. \A x \in Publish \ Later : slot[x].day <= day /\ slot[x].day \in Nat
      BY <1>0, Bounds DEF WithinLimit, SlotDay, SlotType
    <3>3. Started' \subseteq Started
      <4> SUFFICES ASSUME NEW x \in Started' PROVE x \in Started
        OBVIOUS
      <4>1. x \in Tasks /\ (slot[x].state \in {"reserved", "armed"} \/ (slot[x].day = day' /\ slot[x].state \in Spent))
        BY <1>3, <1>5, <3>1 DEF InExec
      <4>2. x \in Publish \ Later /\ x \in Firsts
        BY <1>2, <1>3, <4>1 DEF Spent, Started, Firsts
      <4>3. slot[x].day # day'
        BY <1>0, <3>1, <3>2, <4>2, Bounds
      <4> QED BY <4>1, <4>2, <4>3 DEF Started, InExec
    <3>4. Cardinality(Started') <= Cardinality(Started) /\ Cardinality(Started') \in Nat /\ Cardinality(Started) \in Nat
      BY <1>6, <3>3, FewerTasks
    <3> QED BY <3>4, Bounds DEF WithinLimit
  <2> QED BY <2>1, <2>2
<1>8. ASSUME NEW d \in 0..LastDay PROVE Cardinality(OnDay(d)') <= Limit
  <2>0. OnDay(d) \subseteq Tasks /\ OnDay(d)' \subseteq Tasks /\ Cardinality(OnDay(d)) <= Limit
    BY <1>3 DEF OnDay, WithinLimit
  <2>1. \A x \in OnDay(d)' : x \in Publish \ Later /\ Counted(slot'[x]) /\ slot'[x].day = d
    BY <1>2, <1>3 DEF OnDay, Counted, Spent, Firsts
  <2>2. CASE slot' = slot
    BY <1>3, <2>0, <2>2 DEF OnDay, Counted
  <2>3. CASE slot' # slot /\ d # day
    <3>1. OnDay(d)' \subseteq OnDay(d)
      BY <1>0, <1>1, <1>3, <2>1, <2>3 DEF SlotGain, OnDay
    <3>2. Cardinality(OnDay(d)') <= Cardinality(OnDay(d)) /\ Cardinality(OnDay(d)') \in Nat /\ Cardinality(OnDay(d)) \in Nat
      BY <2>0, <3>1, FewerTasks
    <3> QED BY <2>0, <3>2, Bounds
  <2>4. CASE slot' # slot /\ d = day
    <3>1. day' = day
      BY <2>4 DEF Step, DayStep
    <3>2. OnDay(d)' \subseteq Started'
      BY <1>0, <1>3, <1>5, <2>1, <2>4, <3>1 DEF Counted, InExec
    <3>3. Cardinality(OnDay(d)') <= Cardinality(Started') /\ Cardinality(OnDay(d)') \in Nat /\ Cardinality(Started') \in Nat
      BY <1>6, <3>2, FewerTasks
    <3> QED BY <1>7, <3>3, Bounds
  <2> QED BY <2>2, <2>3, <2>4
<1> QED BY <1>3, <1>4, <1>7, <1>8 DEF WithinLimit

\* No business day sees more posts than the limit, those with an unknown outcome
\* included, however claims, late confirmations and the change of the day
\* interleave (_daily_publish_execution_count, _claim_next_task,
\* _persist_publish_confirmation_context), among the posts that are claimed one
\* by one: the rest of a batch is reserved without a look at the limit
\* (_claim_publish_batch_tail; section 6 of the README), and the firsts hold to
\* the limit beside it, whatever batches there are.
THEOREM FirstsLimited == Spec => []FirstsWithinLimit
<1>1. Init => WithinLimit
  <2> SUFFICES ASSUME Init PROVE WithinLimit
    OBVIOUS
  <2>1. \A t \in Tasks : slot[t] = NoSlot /\ resv[t] = NoClaim
    BY DEF Init
  <2>2. Started = {} /\ \A d \in 0..LastDay : OnDay(d) = {}
    BY <2>1 DEF Started, OnDay, InExec, Counted, NoSlot, Spent, Firsts
  <2>3. Cardinality({}) <= Limit
    BY FS_EmptySet, Bounds
  <2>4. \A t \in Publish \ Later : SlotDay(t)
    BY <2>1 DEF SlotDay, NoSlot, Publish, Init
  <2>5. FirstsFree
    BY <2>1, NobodysClaims DEF FirstsFree, Firsts
  <2> QED BY <2>2, <2>3, <2>4, <2>5 DEF WithinLimit
<1>2. SInv /\ WithinLimit /\ [Next]_vars => WithinLimit'
  <2>1. ASSUME SInv, WithinLimit, [Next]_vars PROVE WithinLimit'
    <3>1. FirstsFree'
      BY <2>1, FirstsFreeKept DEF WithinLimit
    <3> QED BY <2>1, <3>1, NextStep, LimitKept
  <2> QED BY <2>1
<1>3. WithinLimit => FirstsWithinLimit
  <2> SUFFICES ASSUME WithinLimit, NEW d \in 0..LastDay
               PROVE  Cardinality({t \in Tasks \ Later : slot[t].state \in Spent /\ slot[t].day = d}) <= Limit
    BY DEF FirstsWithinLimit
  <2> DEFINE S == {t \in Tasks \ Later : slot[t].state \in Spent /\ slot[t].day = d}
  <2>1. S \subseteq OnDay(d) /\ OnDay(d) \subseteq Tasks
    BY DEF OnDay, Counted, Firsts
  <2> HIDE DEF S
  <2>2. Cardinality(S) <= Cardinality(OnDay(d)) /\ Cardinality(S) \in Nat /\ Cardinality(OnDay(d)) \in Nat
    BY <2>1, FewerTasks
  <2>3. Cardinality(S) <= Limit
    BY <2>2, Bounds DEF WithinLimit
  <2> QED BY <2>3 DEF S
<1> QED BY <1>1, <1>2, <1>3, Invariant, PTL DEF Spec

\* Without batches the limit holds for all posts of a day.
THEOREM LimitRespected ==
  ASSUME Batches = {}
  PROVE  Spec => []DailyLimit
<1>1. Later = {}
  <2>1. ASSUME NEW t \in Tasks PROVE Before(t) = {}
    <3>1. BatchOf(t) = <<t>>
      BY DEF BatchOf, InBatch
    <3>2. Place(t) = 1
      BY <3>1 DEF Place
    <3> QED BY <3>2 DEF Before
  <2> QED BY <2>1 DEF Later
<1>2. FirstsWithinLimit => DailyLimit
  BY <1>1 DEF FirstsWithinLimit, DailyLimit
<1> QED BY <1>2, FirstsLimited, PTL
-----------------------------------------------------------------------------
(* The refinement of Escrow *)

\* The points of a post follow its row; what was submitted has everything before
\* it in the batch published, so that a batch that fails drops nothing submitted.
PaidPart(t) ==
  /\ Status(t) = "none" => hold[t] = "none"
  /\ Status(t) \in Active => hold[t] = "held"
  /\ Committed(t) => hold[t] \in {"held", "settled"}
  /\ Committed(t) => \A x \in Before(t) : Status(x) \in {"success", "deleted"}
  /\ InBatch(t) /\ task[t].conf > 0 => Committed(t)
PaidInv == \A t \in Publish : PaidPart(t)

LEMMA AloneBefore ==
  ASSUME NEW t \in Tasks, ~InBatch(t)
  PROVE  Before(t) = {}
<1>1. BatchOf(t) = <<t>>
  BY DEF BatchOf
<1>2. Place(t) \in DOMAIN BatchOf(t)
  BY BatchFacts
<1>3. Place(t) = 1
  BY <1>1, <1>2
<1> QED BY <1>3 DEF Before

\* A row becomes submitted when a session arms it, or when a look for it, which a
\* retry has inherited, decides so.
LEMMA NewlyCommitted ==
  ASSUME SInv, Typed', NEW x \in Publish, RowStep(x), ~Committed(x), Committed(x)'
  PROVE  Status(x) \in Active /\ (IsArmed(x) \/ task[x].conf > 0)
<1>0. /\ x \in Tasks /\ task[x] \in RowType /\ RowOK(x)
      /\ (Committed(x) <=> task[x].mark = "submitted") /\ (Committed(x)' <=> task'[x].mark = "submitted")
  BY DEF SInv, Typed, Committed, Publish
<1>1. task[x].mark # "submitted" /\ task'[x].mark = "submitted"
  BY <1>0
<1>w. \A st \in Statuses : With(task[x], st).mark = task[x].mark
  BY <1>0, RowHelpers
<1>l. MayLook(x) => task[x].conf > 0
  BY MayLookFacts
<1> USE DEF Active, Live
<1>2. ~Stays(x) /\ ~Reslots(x) /\ ~ChangesHands(x)
  BY <1>1 DEF Stays, SameRow, Reslots, ChangesHands
<1>3. ~Enters(x)
  BY <1>1 DEF Enters, NoRow
<1>4. ~IsTaken(x) /\ ~IsCancelled(x) /\ ~IsDropped(x) /\ ~IsDeleted(x)
  BY <1>1, <1>w DEF IsTaken, IsCancelled, IsDropped, IsDeleted, Statuses, Final, Away
<1>5. ~Repeats(x) /\ ~IsCounted(x)
  BY DEF Repeats, IsCounted
<1>6. ~IsConfirmed(x)
  <2> SUFFICES ASSUME IsConfirmed(x) PROVE FALSE
    OBVIOUS
  <2>1. PICK p \in Procs, a \in Accounts : Run(p, a).pc = "armed" /\ Item(p, a) = x
    BY DEF IsConfirmed
  <2> QED BY <2>1 DEF SInv, RunOK, Sent
<1>7. CASE IsArmed(x)
  BY <1>7 DEF IsArmed
<1>8. CASE Requeues(x)
  BY <1>l, <1>8 DEF Requeues
<1>9. CASE Wins(x)
  BY <1>l, <1>9 DEF Wins
<1>10. CASE Fails(x)
  <2>1. MayLook(x) /\ Status(x) \in Live
    BY <1>1, <1>10 DEF Fails
  <2> QED BY <1>l, <2>1
<1> QED BY <1>0, <1>2, <1>3, <1>4, <1>5, <1>6, <1>7, <1>8, <1>9, <1>10 DEF RowStep

\* Points go back only for a post that was not submitted.
LEMMA RefundFacts ==
  ASSUME SInv, NEW x \in Publish, RowStep(x), PaidPart(x), Status(x) # "need_manual", Refunds(x),
         "stop_all" \notin Requests
  PROVE  ~Committed(x)'
<1>0. task[x] \in RowType /\ (Committed(x) <=> task[x].mark = "submitted") /\ (Committed(x)' <=> task'[x].mark = "submitted")
  BY DEF SInv, Typed, Publish, Committed
<1>1. CASE IsDropped(x)
  <2>1. ~Committed(x)
    BY <1>1 DEF IsDropped, PaidPart
  <2>2. task'[x].mark = task[x].mark
    BY <1>0, <1>1, RowHelpers DEF IsDropped, Statuses, Final
  <2> QED BY <1>0, <2>1, <2>2
<1> QED BY <1>1 DEF Refunds

LEMMA PaidPartKept ==
  ASSUME SInv, Typed', Step, NEW x \in Publish, PaidPart(x), Status(x) # "need_manual", "stop_all" \notin Requests
  PROVE  PaidPart(x)'
<1>0. /\ x \in Tasks /\ RowStep(x) /\ HoldStep(x) /\ RowOK(x) /\ hold[x] \in Holds /\ Before(x) \subseteq Tasks
      /\ task[x].conf \in Nat /\ task'[x].conf \in Nat /\ Status(x) \in Statuses
  BY BatchSides, Bounds DEF Step, SInv, Typed, Publish, Holds, RowType, Status, Statuses
<1>m. /\ Status(x) \in Final \cup {"deleted"} => Status(x)' \in Final \cup {"deleted"}
      /\ Status(x) # "none" => Status(x)' # "none"
      /\ Committed(x) => Committed(x)'
      /\ task[x].conf = 0 /\ task'[x].conf > 0
           => Status(x) = "none" \/ IsConfirmed(x)
              \/ \E p \in Procs, a \in Accounts : Run(p, a).pc = "posted" /\ Item(p, a) = x
  BY <1>0, RowMonotone
<1>c. ~Committed(x) /\ Committed(x)' => Status(x) \in Active /\ (IsArmed(x) \/ task[x].conf > 0)
  BY <1>0, NewlyCommitted
<1>r. Refunds(x) => ~Committed(x)'
  BY <1>0, RefundFacts
<1>1. ASSUME Status(x)' = "none" PROVE hold'[x] = "none"
  BY <1>0, <1>m, <1>1 DEF HoldStep, PaidPart
<1>2. ASSUME Status(x)' \in Active PROVE hold'[x] = "held"
  <2>1. Status(x) = "none" \/ Status(x) \in Active
    BY <1>0, <1>m, <1>2 DEF Statuses, Final, Active, Away
  <2>2. CASE Status(x) = "none"
    BY <1>0, <1>2, <2>2 DEF HoldStep, Active
  <2>3. CASE Status(x) \in Active
    BY <1>0, <1>2, <2>3 DEF HoldStep, PaidPart, Active
  <2> QED BY <2>1, <2>2, <2>3
<1>3. ASSUME Committed(x)' PROVE hold'[x] \in {"held", "settled"}
  <2>1. hold[x] \in {"held", "settled"}
    BY <1>c, <1>3 DEF PaidPart
  <2> QED BY <1>0, <1>r, <1>3, <2>1 DEF HoldStep, Settle
<1>4. ASSUME Committed(x)' PROVE \A y \in Before(x) : Status(y)' \in {"success", "deleted"}
  <2>1. \A y \in Before(x) : Status(y) \in {"success", "deleted"}
    <3>1. CASE Committed(x)
      BY <3>1 DEF PaidPart
    <3>2. CASE ~Committed(x) /\ IsArmed(x)
      <4>1. PICK p \in Procs, a \in Accounts : Run(p, a).pc = "work" /\ Item(p, a) = x
        BY <3>2 DEF IsArmed
      <4> QED BY <4>1 DEF SInv, RunOK, On
    <3>3. CASE ~Committed(x) /\ task[x].conf > 0
      BY <1>0, <3>3, AloneBefore DEF PaidPart
    <3> QED BY <1>c, <1>4, <3>1, <3>2, <3>3
  <2>2. \A y \in Before(x) : y \in Tasks /\ RowStep(y)
    BY <1>0 DEF Step
  <2> QED BY <2>1, <2>2, RowMonotone
<1>5. ASSUME InBatch(x), task'[x].conf > 0 PROVE Committed(x)'
  <2>1. CASE task[x].conf > 0
    BY <1>m, <1>5, <2>1 DEF PaidPart
  <2>2. CASE Status(x) = "none"
    <3>1. ~(Status(x)' = "none")
      BY <1>5, RowKept, <1>0 DEF RowOK, NoRow
    <3>2. Enters(x)
      <4>1. ~IsTaken(x) /\ ~IsCancelled(x) /\ ~IsDropped(x) /\ ~Requeues(x) /\ ~Repeats(x) /\ ~Fails(x) /\ ~Wins(x)
            /\ ~IsArmed(x) /\ ~IsConfirmed(x) /\ ~IsCounted(x) /\ ~ChangesHands(x)
        BY <2>2 DEF IsTaken, IsCancelled, IsDropped, Requeues, Repeats, Fails, Wins, IsArmed, IsConfirmed, IsCounted,
                    ChangesHands, Active, Live
      <4>2. ~Stays(x) /\ ~Reslots(x)
        BY <2>2, <3>1 DEF Stays, SameRow, Reslots, Status
      <4>3. ~IsDeleted(x)
        BY <2>2 DEF IsDeleted, SInv, Clearing, Final
      <4> QED BY <1>0, <4>1, <4>2, <4>3 DEF RowStep
    <3> QED BY <1>5, <3>2 DEF Enters
  <2>3. CASE IsConfirmed(x)
    BY <2>3 DEF IsConfirmed, Committed
  <2>4. CASE \E p \in Procs, a \in Accounts : Run(p, a).pc = "posted" /\ Item(p, a) = x
    BY <1>m, <2>4 DEF SInv, RunOK, Sent
  <2> QED BY <1>0, <1>m, <1>5, <2>1, <2>2, <2>3, <2>4
<1> QED BY <1>1, <1>2, <1>3, <1>4, <1>5 DEF PaidPart, InBatch
\* What one step does to the points and to the post of a task, in Escrow's terms.
LEMMA EscrowStep ==
  ASSUME SInv, SInv', Step, NEW x \in Publish, PaidPart(x), Status(x) # "need_manual", "stop_all" \notin Requests
  PROVE  \/ hold'[x] = hold[x] /\ (clicks'[x] > 0 <=> clicks[x] > 0)
         \/ hold[x] = "none" /\ hold'[x] = "held" /\ (clicks'[x] > 0 <=> clicks[x] > 0)
         \/ ~(clicks[x] > 0) /\ clicks'[x] > 0 /\ hold[x] \in {"held", "settled"} /\ hold'[x] = hold[x]
         \/ hold[x] = "held" /\ hold'[x] = "settled" /\ (clicks'[x] > 0 <=> clicks[x] > 0)
         \/ hold[x] = "held" /\ ~(clicks[x] > 0) /\ hold'[x] = "released" /\ (clicks'[x] > 0 <=> clicks[x] > 0)
<1>0. x \in Tasks /\ HoldStep(x) /\ RowStep(x) /\ RowOK(x) /\ RowOK(x)' /\ Clicks
  BY DEF Step, SInv, Publish
<1>1. CASE clicks'[x] = clicks[x]
  <2>1. hold'[x] = hold[x] \/ (hold[x] = "none" /\ hold'[x] = "held") \/ (hold[x] = "held" /\ hold'[x] = "settled")
        \/ (hold[x] = "held" /\ hold'[x] = "released" /\ Refunds(x))
    BY <1>0 DEF HoldStep, PaidPart, Settle, Release
  <2>2. Refunds(x) => ~(clicks[x] > 0)
    <3>1. Refunds(x) => ~Committed(x)'
      BY <1>0, RefundFacts
    <3>2. clicks'[x] > 0 => Committed(x)'
      BY <1>0 DEF RowOK
    <3> QED BY <1>1, <3>1, <3>2
  <2> QED BY <1>1, <2>1, <2>2
<1>2. CASE clicks'[x] # clicks[x]
  <2>1. clicks[x] = 0 /\ clicks'[x] = 1 /\ Committed(x) /\ hold' = hold
    BY <1>0, <1>2, ClickFacts
  <2>2. hold[x] \in {"held", "settled"}
    BY <2>1 DEF PaidPart
  <2> QED BY <2>1, <2>2
<1> QED BY <1>1, <1>2

\* The points of a post are held before it can go out, charged or returned once,
\* and returned only for a post that was not clicked for and never will be
\* (_settle_or_release_task_billing_reservation, _release_task_billing_reservation):
\* SocialTasks implements Escrow.  Two requests are left out because with them the
\* code does give points of a submitted post back: stop-all releases rows without
\* their payload, and a row that waits for a person is released when it is
\* recovered (section 6 of the README).
THEOREM ImplementsEscrow ==
  ASSUME "stop_all" \notin Requests, "takeover" \notin Requests
  PROVE  Spec => PaidSpec
<1>1. Init => PaidInv
  <2> SUFFICES ASSUME Init PROVE PaidInv
    OBVIOUS
  <2>1. \A t \in Publish : task[t] = NoRow /\ hold[t] = "none"
    BY DEF Init, Publish
  <2> QED BY <2>1 DEF PaidInv, PaidPart, Status, Committed, NoRow, Active
<1>2. SInv /\ SlotsKept /\ PaidInv /\ [Next]_vars => PaidInv'
  <2> SUFFICES ASSUME SInv, SlotsKept, PaidInv, [Next]_vars PROVE PaidInv'
    OBVIOUS
  <2>1. Typed' /\ Step
    BY NextStep
  <2>2. \A t \in Publish : Status(t) # "need_manual" /\ PaidPart(t)
    BY DEF SlotsKept, SlotPart, PaidInv
  <2> QED BY <2>1, <2>2, PaidPartKept DEF PaidInv
<1>3. Spec => []PaidInv
  BY <1>1, <1>2, Invariant, SlotsStay, PTL DEF Spec
<1>4. Init => Paid!Init
  <2> SUFFICES ASSUME Init PROVE Paid!Init
    OBVIOUS
  <2>1. \A t \in Publish : hold[t] = "none" /\ clicks[t] = 0
    BY DEF Init, Publish
  <2>2. Money = [t \in Publish |-> "none"]
    BY <2>1 DEF Money
  <2>3. \A t \in Publish : (clicks[t] > 0) = FALSE
    BY <2>1
  <2>4. Done = [t \in Publish |-> FALSE]
    BY <2>3, Zenon DEF Done
  <2> QED BY <2>2, <2>4 DEF Paid!Init
<1>5. SInv /\ SInv' /\ SlotsKept /\ PaidInv /\ [Next]_vars => [Paid!Next]_(Paid!vars)
  <2> SUFFICES ASSUME SInv, SInv', SlotsKept, PaidInv, [Next]_vars PROVE Paid!Next
    OBVIOUS
  <2>1. Step
    BY NextStep
  <2>2. \A t \in Publish : Status(t) # "need_manual" /\ PaidPart(t)
    BY DEF SlotsKept, SlotPart, PaidInv
  <2>3. /\ Money = [t \in Publish |-> CASE hold[t] = "settled" -> "charged" [] hold[t] = "released" -> "returned"
                                        [] OTHER -> hold[t]]
        /\ Money' = [t \in Publish |-> CASE hold'[t] = "settled" -> "charged" [] hold'[t] = "released" -> "returned"
                                         [] OTHER -> hold'[t]]
        /\ Done = [t \in Publish |-> clicks[t] > 0] /\ Done' = [t \in Publish |-> clicks'[t] > 0]
    BY DEF Money, Done
  <2>4. ASSUME NEW x \in Publish
        PROVE  Paid!Same(x) \/ Paid!Hold(x) \/ Paid!Perform(x) \/ Paid!Charge(x) \/ Paid!Return(x)
    <3>1. hold[x] \in Holds /\ hold'[x] \in Holds
      BY DEF SInv, Typed, Publish, Holds
    <3>2. /\ Money[x] = (CASE hold[x] = "settled" -> "charged" [] hold[x] = "released" -> "returned" [] OTHER -> hold[x])
          /\ Money'[x] = (CASE hold'[x] = "settled" -> "charged" [] hold'[x] = "released" -> "returned"
                            [] OTHER -> hold'[x])
          /\ Done[x] = (clicks[x] > 0) /\ Done'[x] = (clicks'[x] > 0)
      BY <2>3
    <3>3. CASE hold'[x] = hold[x] /\ (clicks'[x] > 0 <=> clicks[x] > 0)
      BY <3>2, <3>3 DEF Paid!Same
    <3>4. CASE hold[x] = "none" /\ hold'[x] = "held" /\ (clicks'[x] > 0 <=> clicks[x] > 0)
      BY <3>2, <3>4 DEF Paid!Hold
    <3>5. CASE ~(clicks[x] > 0) /\ clicks'[x] > 0 /\ hold[x] \in {"held", "settled"} /\ hold'[x] = hold[x]
      BY <3>2, <3>5 DEF Paid!Perform
    <3>6. CASE hold[x] = "held" /\ hold'[x] = "settled" /\ (clicks'[x] > 0 <=> clicks[x] > 0)
      BY <3>2, <3>6 DEF Paid!Charge
    <3>7. CASE hold[x] = "held" /\ ~(clicks[x] > 0) /\ hold'[x] = "released" /\ (clicks'[x] > 0 <=> clicks[x] > 0)
      <4>1. Money[x] = "held" /\ Money'[x] = "returned"
        BY <3>2, <3>7
      <4>2. ~Done[x] /\ Done'[x] = Done[x]
        <5>1. (clicks[x] > 0) = (clicks'[x] > 0)
          BY <3>7
        <5> QED BY <3>2, <3>7, <5>1, Zenon
      <4> QED BY <4>1, <4>2, Zenon DEF Paid!Return
    <3> QED BY <2>1, <2>2, <3>3, <3>4, <3>5, <3>6, <3>7, EscrowStep
  <2>5. DOMAIN Money' = Publish /\ DOMAIN Done' = Publish
    BY <2>3
  <2> QED BY <2>4, <2>5 DEF Paid!Next
<1> QED BY <1>3, <1>4, <1>5, Invariant, SlotsStay, PTL DEF Spec, PaidSpec, Paid!Spec
-----------------------------------------------------------------------------
(* Silence after a cancellation, with one process *)

OneProcess == \A p, q \in Procs : p = q
\* The request under way has still to signal this session, and waits for its lock.
Warned(p, a) == req.pc = "stop" /\ Members(Run(p, a).items) \cap req.ts # {}
HasFirst(p, a) == BatchOf(Item(p, a))[1] \in Members(Run(p, a).items)
Silent(p, a) ==
  up[p] = "up" /\ Locked(p, a) =>
    Status(Item(p, a)) \in Live \/ (Cancelled(Item(p, a)) /\ (HasFirst(p, a) => Warned(p, a)))
Asked == req.pc # "none" => req.at \in Procs
QuietInv == Asked /\ \A p \in Procs, a \in Accounts : Silent(p, a)

\* What a step may do to a session that keeps its lock: its row is cancelled only
\* by a request that goes on to signal it, and such a request does not end.
KeepsLock(p, a) == Locked(p, a) /\ Locked(p, a)' /\ SamePlace(p, a) /\ up'[p] = "up"
WarnedNext(p, a) == req'.pc = "stop" /\ Members(Run(p, a).items) \cap req'.ts # {}
Calm(p, a) ==
  KeepsLock(p, a) =>
    /\ up[p] = "up"
    /\ Status(Item(p, a)) \in Live =>
         \/ task'[Item(p, a)].status \in Live
         \/ task'[Item(p, a)].status = "cancelled" /\ (HasFirst(p, a) => WarnedNext(p, a))
    /\ Warned(p, a) => WarnedNext(p, a)
Calmly == Asked' /\ \A p \in Procs, a \in Accounts : Calm(p, a)

LEMMA CancelledStays ==
  ASSUME SInv, NEW x \in Tasks, RowStep(x), Cancelled(x)
  PROVE  task'[x].status \in {"cancelled", "deleted"}
<1>0. /\ task[x] \in RowType /\ Status(x) = task[x].status /\ Status(x) \in {"cancelled", "deleted"}
  BY DEF SInv, Typed, Status, Cancelled
<1>1. ~Enters(x) /\ ~IsTaken(x) /\ ~IsCancelled(x) /\ ~IsDropped(x) /\ ~Requeues(x) /\ ~Repeats(x) /\ ~Wins(x)
      /\ ~IsArmed(x) /\ ~IsConfirmed(x) /\ ~IsCounted(x) /\ ~ChangesHands(x)
  BY <1>0 DEF Enters, IsTaken, IsCancelled, IsDropped, Requeues, Repeats, Wins, IsArmed, IsConfirmed, IsCounted,
              ChangesHands, Active, Live
<1>2. ~Fails(x)
  BY <1>0 DEF Fails, Live
<1>3. CASE Stays(x) \/ Reslots(x)
  BY <1>0, <1>3 DEF Stays, SameRow, Reslots
<1>4. CASE IsDeleted(x)
  BY <1>0, <1>4, RowHelpers DEF IsDeleted, Statuses, Away
<1> QED BY <1>1, <1>2, <1>3, <1>4 DEF RowStep

LEMMA SilentKept ==
  ASSUME SInv, Typed', Step, NEW p \in Procs, NEW a \in Accounts, Silent(p, a), Calm(p, a)
  PROVE  Silent(p, a)'
<1> SUFFICES ASSUME up'[p] = "up", Locked(p, a)'
             PROVE  (Status(Item(p, a)) \in Live \/ (Cancelled(Item(p, a)) /\ (HasFirst(p, a) => Warned(p, a))))'
  BY DEF Silent
<1>0. /\ RunStep(p, a) /\ Run(p, a) = run[p][a] /\ Run(p, a)' = run'[p][a]
      /\ run'[p][a].pc \in {"armed", "ready", "clicked"}
  BY DEF Step, Run, Locked
<1>1. SamePlace(p, a) /\ (Locked(p, a) \/ IsArmed(Item(p, a)))
  <2>1. CASE Waits(p, a)
    BY <1>0, <2>1 DEF Waits, Locked
  <2>2. CASE Moves(p, a)
    <3>1. SamePlace(p, a)
      BY <2>2 DEF Moves
    <3>2. Run(p, a).pc = "armed" \/ IsArmed(Item(p, a))
      BY <1>0, <2>2 DEF Moves
    <3> QED BY <3>1, <3>2 DEF Locked
  <2>3. ~Ends(p, a)
    BY <1>0 DEF Ends, Idle
  <2>4. ASSUME Begins(p, a) PROVE FALSE
    <3>1. PICK t \in Tasks : run'[p][a] = [pc |-> "claimed", items |-> <<t>>, i |-> 1, stop |-> FALSE]
      BY <2>4 DEF Begins
    <3> QED BY <1>0, <3>1
  <2>5. ~Extends(p, a) /\ ~GoesOn(p, a)
    BY <1>0 DEF Extends, GoesOn
  <2> QED BY <1>0, <2>1, <2>2, <2>3, <2>4, <2>5 DEF RunStep
<1>2. PICK x : x = Item(p, a)
  OBVIOUS
<1>3. Item(p, a)' = x /\ Run(p, a)'.items = Run(p, a).items
  BY <1>0, <1>1, <1>2 DEF SamePlace, Item
<1>4. Status(Item(p, a))' = task'[x].status /\ (Cancelled(Item(p, a))' <=> task'[x].status \in {"cancelled", "deleted"})
  BY <1>3 DEF Status, Cancelled
<1>5. (HasFirst(p, a)' <=> HasFirst(p, a)) /\ (Warned(p, a)' <=> WarnedNext(p, a))
  BY <1>2, <1>3 DEF HasFirst, Warned, WarnedNext, BatchOf, InBatch, Members
<1>6. CASE IsArmed(x)
  BY <1>4, <1>6 DEF IsArmed, Status
<1>7. CASE Locked(p, a)
  <2>1. KeepsLock(p, a)
    BY <1>1, <1>7 DEF KeepsLock
  <2>2. up[p] = "up"
    BY <2>1 DEF Calm
  <2>3. CASE Status(x) \in Live
    BY <1>2, <1>4, <1>5, <2>1, <2>3 DEF Calm
  <2>4. CASE Cancelled(x) /\ (HasFirst(p, a) => Warned(p, a))
    <3>1. x \in Tasks
      BY <1>2, <1>7, ItemFacts DEF Locked
    <3>2. RowStep(x)
      BY <3>1 DEF Step
    <3>3. task'[x].status \in {"cancelled", "deleted"}
      BY <2>4, <3>1, <3>2, CancelledStays
    <3> QED BY <1>4, <1>5, <2>1, <2>4, <3>3 DEF Calm
  <2> QED BY <1>2, <1>7, <2>2, <2>3, <2>4 DEF Silent
<1> QED BY <1>1, <1>2, <1>6, <1>7

LEMMA QuietKept ==
  ASSUME SInv, Typed', Step, QuietInv, Calmly
  PROVE  QuietInv'
BY SilentKept DEF QuietInv, Calmly

\* Steps that leave the processes and the request alone.
LEMMA CalmRows ==
  ASSUME SInv, QuietInv, UNCHANGED <<up, req>>,
         \A p \in Procs, a \in Accounts :
           KeepsLock(p, a) /\ Status(Item(p, a)) \in Live => task'[Item(p, a)].status \in Live
  PROVE  Calmly
<1>1. Asked'
  BY DEF QuietInv, Asked
<1> QED BY <1>1 DEF Calmly, Calm, KeepsLock, Warned, WarnedNext

LEMMA CalmSame ==
  ASSUME SInv, QuietInv, UNCHANGED <<up, req, task>>
  PROVE  Calmly
BY CalmRows DEF Status

\* Rows behind nothing but published ones stay as they are, except one.
Spared(t) ==
  \A y \in Tasks \ {t} : (\A z \in Before(y) : Status(z) \in {"success", "deleted"}) => task'[y] = task[y]

LEMMA LockedFacts ==
  ASSUME SInv, NEW p \in Procs, NEW a \in Accounts, Locked(p, a)
  PROVE  /\ Item(p, a) \in Tasks /\ Account[Item(p, a)] = a /\ Item(p, a) \in Members(Run(p, a).items)
         /\ Run(p, a).pc \notin {"idle", "claimed"}
         /\ \A z \in Before(Item(p, a)) : Status(z) \in {"success", "deleted"}
<1>1. Run(p, a).pc \in {"armed", "ready", "clicked"} /\ On(p, a) /\ RunOK(p, a)
  BY DEF Locked, On, SInv
<1>2. /\ Item(p, a) \in Tasks /\ Account[Item(p, a)] = a /\ Run(p, a).i \in DOMAIN Run(p, a).items
  BY <1>1, ItemFacts
<1>3. Item(p, a) \in Members(Run(p, a).items)
  BY <1>2 DEF Item, Members
<1> QED BY <1>1, <1>2, <1>3 DEF RunOK

LEMMA CalmSpared ==
  ASSUME SInv, QuietInv, UNCHANGED <<up, req>>, NEW t \in Tasks, Spared(t),
         \A p \in Procs, a \in Accounts :
           KeepsLock(p, a) /\ Item(p, a) = t /\ Status(t) \in Live => task'[t].status \in Live
  PROVE  Calmly
<1>1. ASSUME NEW p \in Procs, NEW a \in Accounts, KeepsLock(p, a), Status(Item(p, a)) \in Live
      PROVE  task'[Item(p, a)].status \in Live
  <2>1. /\ Item(p, a) \in Tasks /\ \A z \in Before(Item(p, a)) : Status(z) \in {"success", "deleted"}
    BY <1>1, LockedFacts DEF KeepsLock
  <2>2. CASE Item(p, a) # t
    BY <1>1, <2>1, <2>2 DEF Spared, Status
  <2>3. CASE Item(p, a) = t
    BY <1>1, <2>3
  <2> QED BY <2>2, <2>3
<1> QED BY <1>1, CalmRows

LEMMA SparedAll == ASSUME task' = task, NEW t PROVE Spared(t)
BY DEF Spared

LEMMA SparedOne ==
  ASSUME SInv, NEW t \in Tasks, NEW r, task' = [task EXCEPT ![t] = r]
  PROVE  Spared(t)
BY DEF SInv, Typed, Spared

LEMMA SparedEnd ==
  ASSUME SInv, NEW t \in Tasks, NEW r, NEW s, NEW h, EndRow(t, r, s, h), Status(t) \in Live
  PROVE  Spared(t)
<1> SUFFICES ASSUME NEW y \in Tasks \ {t}, \A z \in Before(y) : Status(z) \in {"success", "deleted"}
             PROVE  task'[y] = task[y]
  BY DEF Spared
<1>1. y \notin After(t)
  BY BatchSides DEF Live
<1> QED BY <1>1 DEF EndRow

LEMMA SparedFailed ==
  ASSUME SInv, NEW t \in Tasks, NEW r, NEW result, FinishFailedAs(t, r, result)
  PROVE  Spared(t)
<1>1. CASE Status(t) \in Live
  BY <1>1, SparedEnd DEF FinishFailedAs
<1>2. CASE Status(t) \notin Live
  BY <1>2, SparedAll DEF FinishFailedAs, FinishLate
<1> QED BY <1>1, <1>2

LEMMA SparedSuccess ==
  ASSUME SInv, NEW t \in Tasks, FinishSuccess(t)
  PROVE  Spared(t)
<1>1. CASE Status(t) \in Live
  BY <1>1, SparedEnd DEF FinishSuccess
<1>2. CASE Status(t) \notin Live
  BY <1>2, SparedAll DEF FinishSuccess, FinishLate
<1> QED BY <1>1, <1>2

LEMMA SparedRequeue ==
  ASSUME SInv, NEW t \in Tasks, RequeuePublishConfirmation(t)
  PROVE  Spared(t)
<1>1. CASE Status(t) # "running"
  BY <1>1, SparedFailed DEF RequeuePublishConfirmation, FinishFailed
<1>2. CASE Status(t) = "running"
  BY <1>2, SparedFailed, SparedOne DEF RequeuePublishConfirmation, RequeueRow
<1> QED BY <1>1, <1>2
LEMMA SparedUnless ==
  ASSUME NEW t \in Tasks, UNCHANGED rows
  PROVE  Spared(t)
BY SparedAll DEF rows

\* A session changes rows of its account only, and the one it works on has no lock
\* before or after it.
LEMMA CalmSession ==
  ASSUME SInv, QuietInv, OneProcess, UNCHANGED others, NEW q \in Procs, NEW b \in Accounts,
         NEW t \in Tasks, Account[t] = b, Spared(t), ~Locked(q, b) \/ ~Locked(q, b)'
  PROVE  Calmly
<1>1. UNCHANGED <<up, req>>
  BY DEF others
<1>2. ASSUME NEW p \in Procs, NEW a \in Accounts, KeepsLock(p, a), Item(p, a) = t PROVE FALSE
  <2>1. Account[Item(p, a)] = a /\ Locked(p, a) /\ Locked(p, a)'
    BY <1>2, LockedFacts DEF KeepsLock
  <2>2. a = b /\ p = q
    BY <1>2, <2>1 DEF OneProcess
  <2> QED BY <2>1, <2>2
<1> QED BY <1>1, <1>2, CalmSpared

LEMMA MarkItemCalm ==
  ASSUME SInv, QuietInv, OneProcess, NEW q \in Procs, NEW b \in Accounts, MarkItem(q, b)
  PROVE  Calmly
<1>1. PICK t : t = Item(q, b)
  OBVIOUS
<1>2. At(q, b, {"next"}) /\ UNCHANGED others
  BY DEF MarkItem
<1>3. t \in Tasks /\ Account[t] = b /\ ~Locked(q, b)
  BY <1>1, <1>2, ItemFacts DEF At, Locked
<1>4. Spared(t)
  BY <1>1, <1>3, SparedOne, SparedAll DEF MarkItem
<1> QED BY <1>2, <1>3, <1>4, CalmSession

LEMMA ArmCalm ==
  ASSUME SInv, QuietInv, OneProcess, NEW q \in Procs, NEW b \in Accounts, Arm(q, b)
  PROVE  Calmly
<1>1. PICK t : t = Item(q, b)
  OBVIOUS
<1>2. At(q, b, {"work"}) /\ UNCHANGED others
  BY DEF Arm
<1>3. t \in Tasks /\ Account[t] = b /\ ~Locked(q, b)
  BY <1>1, <1>2, ItemFacts DEF At, Locked
<1>4. Spared(t)
  BY <1>1, <1>3 DEF Arm, Spared, SInv, Typed
<1> QED BY <1>2, <1>3, <1>4, CalmSession

LEMMA PersistCalm ==
  ASSUME SInv, QuietInv, OneProcess, NEW q \in Procs, NEW b \in Accounts, PersistConfirmation(q, b)
  PROVE  Calmly
<1>1. PICK t : t = Item(q, b)
  OBVIOUS
<1>2. At(q, b, {"armed"}) /\ UNCHANGED <<up, req>>
  BY DEF PersistConfirmation, others
<1>3. t \in Tasks /\ task[t] \in RowType
  BY <1>1, <1>2, ItemFacts DEF At, SInv, Typed
<1>4. Spared(t)
  BY <1>1, <1>3 DEF PersistConfirmation, Spared, SInv, Typed
<1>5. task'[t].status = Status(t)
  BY <1>1, <1>3 DEF PersistConfirmation, SInv, Typed, RowType, Status
<1> QED BY <1>2, <1>3, <1>4, <1>5, CalmSpared

LEMMA CommitActionCalm ==
  ASSUME SInv, QuietInv, OneProcess, NEW q \in Procs, NEW b \in Accounts, CommitAction(q, b)
  PROVE  Calmly
<1>1. PICK t : t = Item(q, b)
  OBVIOUS
<1>2. At(q, b, {"clicked"}) /\ UNCHANGED others /\ (Go(q, b, "posted") \/ Go(q, b, "raised"))
  BY DEF CommitAction
<1>3. t \in Tasks /\ Account[t] = b
  BY <1>1, <1>2, ItemFacts DEF At
<1>4. run'[q][b].pc \in {"posted", "raised"}
  BY <1>2 DEF Go, SInv, Typed, RunType
<1>5. ~Locked(q, b)'
  BY <1>4 DEF Locked, Run
<1>6. Spared(t)
  BY <1>1, <1>3 DEF CommitAction, Spared, SInv, Typed
<1> QED BY <1>2, <1>3, <1>5, <1>6, CalmSession

\* The ways a run ends.
LEMMA EndingCalm ==
  ASSUME SInv, QuietInv, OneProcess, NEW q \in Procs, NEW b \in Accounts,
         \/ Succeed(q, b) \/ Pending(q, b) \/ OutcomeUnknown(q, b) \/ LoginFailed(q, b) \/ NeedManual(q, b)
         \/ FailSafely(q, b) \/ StopReturn(q, b)
  PROVE  Calmly
<1>1. PICK t : t = Item(q, b)
  OBVIOUS
<1>2. At(q, b, {"next", "work", "posted", "raised"}) /\ UNCHANGED others
  BY DEF Succeed, Pending, OutcomeUnknown, LoginFailed, NeedManual, FailSafely, StopReturn, Confirming, At
<1>3. t \in Tasks /\ Account[t] = b /\ ~Locked(q, b)
  BY <1>1, <1>2, ItemFacts DEF At, Locked
<1>4. Spared(t)
  <2>1. CASE Succeed(q, b)
    BY <1>1, <1>3, <2>1, SparedUnless, SparedSuccess DEF Succeed, Unless
  <2>2. CASE Pending(q, b)
    BY <1>1, <1>3, <2>2, SparedUnless, SparedRequeue DEF Pending, Unless
  <2>3. CASE OutcomeUnknown(q, b)
    BY <1>1, <1>3, <2>3, SparedUnless, SparedFailed DEF OutcomeUnknown, Unless, FinishFailed
  <2>4. CASE LoginFailed(q, b)
    BY <1>1, <1>3, <2>4, SparedUnless, SparedFailed DEF LoginFailed, Unless, FinishFailed
  <2>5. CASE NeedManual(q, b)
    <3>1. CASE Status(t) \in Live
      BY <1>1, <1>3, <2>5, <3>1 DEF NeedManual, Spared, SInv, Typed
    <3>2. CASE Status(t) \notin Live
      BY <1>1, <1>3, <2>5, <3>2, SparedUnless, SparedAll DEF NeedManual, Unless, FinishLate
    <3> QED BY <3>1, <3>2
  <2>6. CASE FailSafely(q, b)
    <3>1. \/ UNCHANGED rows
          \/ RequeuePublishConfirmation(t)
          \/ RetryRow(t)
          \/ FinishFailed(t, "plain")
      BY <1>1, <2>6 DEF FailSafely, Unless
    <3>2. CASE RetryRow(t)
      BY <1>3, <3>2 DEF RetryRow, Spared, SInv, Typed
    <3> QED BY <1>3, <3>1, <3>2, SparedUnless, SparedRequeue, SparedFailed DEF FinishFailed
  <2>7. CASE StopReturn(q, b)
    <3>1. UNCHANGED rows \/ FinishFailed(t, "plain")
      BY <1>1, <2>7 DEF StopReturn, Unless
    <3> QED BY <1>3, <3>1, SparedUnless, SparedFailed DEF FinishFailed
  <2> QED BY <2>1, <2>2, <2>3, <2>4, <2>5, <2>6, <2>7
<1> QED BY <1>2, <1>3, <1>4, CalmSession

LEMMA LeaveCalm ==
  ASSUME SInv, QuietInv, OneProcess, NEW q \in Procs, NEW b \in Accounts, Leave(q, b)
  PROVE  Calmly
<1> DEFINE manual == {x \in Members(Run(q, b).items) : Status(x) = "need_manual"}
<1>1. /\ At(q, b, {"leaving"}) /\ UNCHANGED others
      /\ IF manual = {} THEN UNCHANGED rows ELSE FinishFailed(CHOOSE x \in manual : TRUE, "noretry")
  BY DEF Leave
<1>2. ~Locked(q, b) /\ Run(q, b).pc # "idle"
  BY <1>1 DEF At, Locked
<1>3. CASE manual = {}
  BY <1>1, <1>3, CalmSame DEF rows, others
<1>4. CASE manual # {}
  <2>1. PICK t : t = CHOOSE x \in manual : TRUE
    OBVIOUS
  <2>2. t \in manual
    BY <1>4, <2>1
  <2>3. t \in Tasks /\ Account[t] = b
    BY <1>2, <2>2, ItemFacts DEF Members, ItemsOK
  <2>4. Spared(t)
    BY <1>1, <1>4, <2>1, <2>3, SparedFailed DEF FinishFailed
  <2> QED BY <1>1, <1>2, <2>3, <2>4, CalmSession
<1> QED BY <1>3, <1>4

LEMMA SessionCalm ==
  ASSUME SInv, QuietInv, OneProcess, NEW q \in Procs, NEW b \in Accounts, Session(q, b) \/ Renew(q, b)
  PROVE  Calmly
<1>1. CASE ClaimTail(q, b) \/ StartStopped(q, b) \/ Start(q, b) \/ Click(q, b) \/ Raise(q, b) \/ Renew(q, b)
  <2>1. UNCHANGED <<up, req, task>>
    BY <1>1 DEF ClaimTail, StartStopped, Start, Click, Raise, Renew, rows, others, env
  <2> QED BY <2>1, CalmSame
<1> QED BY <1>1, MarkItemCalm, ArmCalm, PersistCalm, CommitActionCalm, EndingCalm, LeaveCalm DEF Session
\* Rows that are not live may change.
LEMMA CalmLive ==
  ASSUME SInv, QuietInv, UNCHANGED <<up, req>>,
         \A x \in Tasks : Status(x) \in Live => task'[x].status \in Live
  PROVE  Calmly
BY CalmRows, LockedFacts DEF KeepsLock

LEMMA WorkerCalm ==
  ASSUME SInv, QuietInv, OneProcess, NEW q \in Procs, Worker(q)
  PROVE  Calmly
<1>0. task \in [Tasks -> RowType]
  BY DEF SInv, Typed
<1>1. CASE Sweep(q) \/ \E t \in Tasks : Defer(q, t)
  <2>1. UNCHANGED <<up, req, task>>
    BY <1>1 DEF Sweep, Defer, env
  <2> QED BY <2>1, CalmSame
<1>2. ASSUME NEW b \in Batches, CancelStaleBatch(q, b) PROVE Calmly
  <2>1. UNCHANGED <<up, req>> /\ CancelRows(Members(b)) /\ \A t \in Members(b) : Status(t) \notin Live
    BY <1>2 DEF CancelStaleBatch, env
  <2>2. \A x \in Tasks : Status(x) \in Live => task'[x] = task[x]
    BY <2>1 DEF CancelRows
  <2> QED BY <2>1, <2>2, CalmLive DEF Status
<1>3. ASSUME NEW t \in Tasks, EndTail(q, t) PROVE Calmly
  <2>1. /\ UNCHANGED <<up, req>> /\ Status(t) \in {"failed", "cancelled"}
        /\ task' = [x \in Tasks |-> IF x \in {y \in After(t) : Status(y) \in Active} THEN With(task[x], Status(t))
                                    ELSE task[x]]
    BY <1>3 DEF EndTail, env
  <2>2. Spared(t)
    <3> SUFFICES ASSUME NEW y \in Tasks \ {t}, \A z \in Before(y) : Status(z) \in {"success", "deleted"}
                 PROVE  task'[y] = task[y]
      BY DEF Spared
    <3>1. y \notin After(t)
      BY <2>1, BatchSides
    <3> QED BY <2>1, <3>1
  <2>3. Status(t) \notin Live
    BY <2>1 DEF Live
  <2> QED BY <2>1, <2>2, <2>3, CalmSpared
<1>4. ASSUME NEW t \in Tasks, RecoverRunning(q, t) \/ RecoverManual(q, t) PROVE Calmly
  <2>1. UNCHANGED <<up, req>> /\ t \notin Controlled(q) /\ Status(t) \in Live
    BY <1>4 DEF RecoverRunning, RecoverManual, env, Live
  <2>2. Spared(t)
    <3>1. CASE RecoverRunning(q, t)
      <4>1. CASE task[t].conf > 0
        BY <3>1, <4>1, SparedOne DEF RecoverRunning, RequeueRow
      <4>2. CASE ~(task[t].conf > 0)
        BY <2>1, <3>1, <4>2, SparedEnd DEF RecoverRunning
      <4> QED BY <4>1, <4>2
    <3>2. CASE RecoverManual(q, t)
      BY <1>0, <3>2 DEF RecoverManual, Spared
    <3> QED BY <1>4, <3>1, <3>2
  <2>3. ASSUME NEW p \in Procs, NEW a \in Accounts, KeepsLock(p, a), Item(p, a) = t PROVE FALSE
    <3>1. p = q /\ t \in Members(Run(q, a).items) /\ Run(q, a).pc \notin {"idle", "claimed"}
      BY <2>3, LockedFacts DEF KeepsLock, OneProcess
    <3> QED BY <2>1, <3>1 DEF Controlled
  <2> QED BY <2>1, <2>2, <2>3, CalmSpared
<1>5. ASSUME NEW t \in Tasks, ClaimTask(q, t) PROVE Calmly
  <2>1. UNCHANGED <<up, req>> /\ Status(t) = "queued" /\ task' = [task EXCEPT ![t] = With(@, "running")]
    BY <1>5 DEF ClaimTask
  <2>2. \A x \in Tasks : Status(x) \in Live => task'[x] = task[x]
    BY <1>0, <2>1 DEF Live
  <2> QED BY <2>1, <2>2, CalmLive DEF Status
<1> QED BY <1>1, <1>2, <1>3, <1>4, <1>5 DEF Worker

LEMMA TimeCalm ==
  ASSUME SInv, QuietInv, Time
  PROVE  Calmly
<1>1. UNCHANGED <<up, req, task>>
  BY DEF Time, ExpireLease, ExpireReservation, NextDay, rows
<1> QED BY <1>1, CalmSame

\* A process that stops clicks for nobody afterwards.
LEMMA StoppingCalm ==
  ASSUME SInv, QuietInv, OneProcess, NEW q \in Procs, Stopping(q) \/ Shutdown(q) \/ Crash(q)
  PROVE  Calmly
<1>0. /\ up \in [Procs -> {"up", "stopping", "down"}] /\ run \in [Procs -> [Accounts -> RunType]]
      /\ req \in ReqType /\ Asked /\ \A p \in Procs : p = q
  BY DEF SInv, Typed, QuietInv, OneProcess
<1>1. ASSUME NEW t \in Tasks, SaveShutdown(q, t) PROVE Calmly
  <2>1. up[q] = "stopping" /\ up' = up /\ req' = req
    BY <1>1 DEF SaveShutdown
  <2>2. \A p \in Procs, a \in Accounts : ~KeepsLock(p, a)
    BY <1>0, <2>1 DEF KeepsLock
  <2> QED BY <1>0, <2>1, <2>2 DEF Calmly, Calm, Asked
<1>2. ASSUME NEW a \in Accounts, ShutdownSignal(q, a) PROVE Calmly
  <2>1. UNCHANGED <<up, req, task>>
    BY <1>2 DEF ShutdownSignal, rows, others
  <2> QED BY <2>1, CalmSame
<1>3. ASSUME End(q) PROVE Calmly
  <2>1. /\ up' = [up EXCEPT ![q] = "down"] /\ req' = IF req.at = q THEN NoReq ELSE req
    BY <1>3 DEF End
  <2>2. \A p \in Procs, a \in Accounts : ~KeepsLock(p, a)
    BY <1>0, <2>1 DEF KeepsLock
  <2>3. Asked'
    BY <1>0, <2>1 DEF Asked, NoReq
  <2> QED BY <2>2, <2>3 DEF Calmly, Calm
<1>4. ASSUME Restart(q) PROVE Calmly
  <2>1. up[q] = "down" /\ req' = req
    BY <1>4 DEF Restart
  <2>2. \A p \in Procs, a \in Accounts : ~KeepsLock(p, a)
    BY <1>0, <2>1 DEF KeepsLock, Locked, SInv, RunOK
  <2> QED BY <1>0, <2>1, <2>2 DEF Calmly, Calm, Asked
<1>5. ASSUME Shutdown(q) PROVE Calmly
  <2>1. up' = [up EXCEPT ![q] = "stopping"] /\ req' = req
    BY <1>5 DEF Shutdown
  <2>2. \A p \in Procs, a \in Accounts : ~KeepsLock(p, a)
    BY <1>0, <2>1 DEF KeepsLock
  <2> QED BY <1>0, <2>1, <2>2 DEF Calmly, Calm, Asked
<1> QED BY <1>1, <1>2, <1>3, <1>4, <1>5 DEF Stopping, Exit, Crash
\* Requests: no session is warned before one, and the one that cancels warns.
LEMMA CalmRequest ==
  ASSUME SInv, QuietInv, UNCHANGED up, Asked', req.pc # "stop" \/ req.ts = {},
         \A p \in Procs, a \in Accounts : KeepsLock(p, a) /\ Status(Item(p, a)) \in Live =>
           \/ task'[Item(p, a)].status \in Live
           \/ task'[Item(p, a)].status = "cancelled" /\ (HasFirst(p, a) => WarnedNext(p, a))
  PROVE  Calmly
<1>1. \A p \in Procs, a \in Accounts : ~Warned(p, a)
  BY DEF Warned
<1> QED BY <1>1 DEF Calmly, Calm, KeepsLock

LEMMA NoReqCalm == NoReq.pc = "none" /\ NoReq.at = None /\ NoReq.ts = {} /\ NoReq.of = {}
BY DEF NoReq

LEMMA StopAllCalm ==
  ASSUME SInv, QuietInv, NEW q \in Procs, StopAll(q)
  PROVE  Calmly
<1> DEFINE ts == {t \in Tasks : Status(t) \in Active}
<1>1. /\ req = NoReq /\ up' = up /\ req' = [pc |-> "stop", at |-> q, ts |-> ts, of |-> {}]
      /\ task' = [t \in Tasks |-> IF t \in ts THEN With(task[t], "cancelled") ELSE task[t]]
  BY DEF StopAll, Asks
<1>2. Asked'
  BY <1>1 DEF Asked
<1>3. ASSUME NEW p \in Procs, NEW a \in Accounts, KeepsLock(p, a), Status(Item(p, a)) \in Live
      PROVE  task'[Item(p, a)].status = "cancelled" /\ WarnedNext(p, a)
  <2>1. PICK x : x = Item(p, a)
    OBVIOUS
  <2>2. x \in ts /\ x \in Members(Run(p, a).items) /\ x \in Tasks
    BY <1>3, <2>1, LockedFacts DEF KeepsLock, Live, Active
  <2>3. With(task[x], "cancelled").status = "cancelled"
    BY <2>2, RowHelpers DEF SInv, Typed, Statuses, Final
  <2>4. WarnedNext(p, a)
    BY <1>1, <2>2 DEF WarnedNext
  <2> QED BY <1>1, <2>1, <2>2, <2>3, <2>4
<1> QED BY <1>1, <1>2, <1>3, NoReqCalm, CalmRequest

LEMMA ClearCalm ==
  ASSUME SInv, QuietInv, NEW q \in Procs, NEW t \in Tasks, Clear(q, t)
  PROVE  Calmly
<1> DEFINE ts == {x \in Members(BatchOf(t)) : Status(x) \notin Away}
<1>1. /\ req = NoReq /\ up' = up
      /\ req' = [pc |-> "stop", at |-> q, ts |-> {x \in ts : Status(x) \in Live}, of |-> ts]
      /\ task' = [x \in Tasks |-> IF x \in ts /\ Status(x) \in Active THEN With(task[x], "cancelled") ELSE task[x]]
  BY DEF Clear, Asks
<1> HIDE DEF ts
<1>2. Asked'
  BY <1>1 DEF Asked
<1>3. ASSUME NEW p \in Procs, NEW a \in Accounts, KeepsLock(p, a), Status(Item(p, a)) \in Live
      PROVE  task'[Item(p, a)].status \in Live \/ (task'[Item(p, a)].status = "cancelled" /\ WarnedNext(p, a))
  <2>1. PICK x : x = Item(p, a)
    OBVIOUS
  <2>2. x \in Members(Run(p, a).items) /\ x \in Tasks /\ Status(x) \in Live
    BY <1>3, <2>1, LockedFacts DEF KeepsLock
  <2>3. CASE x \in ts
    <3>1. With(task[x], "cancelled").status = "cancelled"
      BY <2>2, RowHelpers DEF SInv, Typed, Statuses, Final
    <3>2. WarnedNext(p, a)
      BY <1>1, <2>2, <2>3 DEF WarnedNext
    <3>3. task'[x] = With(task[x], "cancelled")
      BY <1>1, <2>2, <2>3 DEF Live, Active
    <3> QED BY <2>1, <3>1, <3>2, <3>3
  <2>4. CASE x \notin ts
    BY <1>1, <2>1, <2>2, <2>4 DEF Status
  <2> QED BY <2>3, <2>4
<1> QED BY <1>1, <1>2, <1>3, NoReqCalm, CalmRequest

LEMMA ClientCalm ==
  ASSUME SInv, QuietInv, Client
  PROVE  Calmly
<1>0. task \in [Tasks -> RowType]
  BY DEF SInv, Typed
<1>1. ASSUME NEW t \in Tasks, NEW conf, NewTask(t, conf) PROVE Calmly
  <2>1. UNCHANGED <<up, req>> /\ Status(t) = "none" /\ \A x \in Tasks \ {t} : task'[x] = task[x]
    BY <1>0, <1>1 DEF NewTask
  <2>2. \A x \in Tasks : Status(x) \in Live => task'[x] = task[x]
    BY <2>1 DEF Live
  <2> QED BY <2>1, <2>2, CalmLive DEF Status
<1>2. ASSUME NEW p \in Procs, NEW t \in Tasks, CancelSignal(p, t) PROVE Calmly
  <2>1. /\ req = NoReq /\ up' = up /\ task' = task
        /\ req' = [pc |-> "cancel", at |-> p, ts |-> {t}, of |-> {}]
    BY <1>2 DEF CancelSignal, Asks, rows
  <2>2. Asked'
    BY <2>1 DEF Asked
  <2> QED BY <2>1, <2>2, NoReqCalm, CalmRequest DEF Status
<1>3. ASSUME NEW p \in Procs, NEW a \in Accounts, TakeOver(p, a) \/ GiveBack(p, a) PROVE Calmly
  <2>1. PICK s \in Live : task' = [task EXCEPT ![Item(p, a)].status = s]
    <3>1. "running" \in Live /\ "need_manual" \in Live
      BY DEF Live
    <3>2. CASE TakeOver(p, a)
      BY <3>1, <3>2 DEF TakeOver
    <3>3. CASE GiveBack(p, a)
      BY <3>1, <3>3 DEF GiveBack
    <3> QED BY <1>3, <3>2, <3>3
  <2>2. UNCHANGED <<up, req>>
    BY <1>3 DEF TakeOver, GiveBack, env
  <2>3. \A x \in Tasks : task'[x].status = Status(x) \/ task'[x].status = s
    BY <1>0, <2>1 DEF RowType, Status
  <2> QED BY <2>1, <2>2, <2>3, CalmLive
<1> QED BY <1>1, <1>2, <1>3, StopAllCalm, ClearCalm DEF Client, Create, Retry

LEMMA CancelTxCalm ==
  ASSUME SInv, QuietInv, NEW t \in Tasks, CancelTx(t)
  PROVE  Calmly
<1> DEFINE ts == Members(BatchOf(t))
           hit == \E x \in ts : Status(x) \in Active
<1>1. /\ req.pc = "cancel" /\ up' = up
      /\ IF Status(t) \in Away THEN UNCHANGED rows
         ELSE IF ~hit /\ ~InBatch(t) THEN FinishLate(t) ELSE CancelRows(ts)
      /\ req' = IF hit /\ Status(t) \notin Away THEN [req EXCEPT !.pc = "stop", !.ts = {BatchOf(t)[1]}] ELSE NoReq
  BY DEF CancelTx
<1>2. req \in ReqType /\ req.at \in Procs
  BY <1>1 DEF SInv, Typed, QuietInv, Asked
<1>3. Asked'
  BY <1>1, <1>2, NoReqCalm DEF Asked, ReqType
<1>4. ASSUME NEW p \in Procs, NEW a \in Accounts, KeepsLock(p, a), Status(Item(p, a)) \in Live
      PROVE  \/ task'[Item(p, a)].status \in Live
             \/ task'[Item(p, a)].status = "cancelled" /\ (HasFirst(p, a) => WarnedNext(p, a))
  <2>1. PICK x : x = Item(p, a)
    OBVIOUS
  <2>2. x \in Tasks /\ Status(x) \in Live
    BY <1>4, <2>1, LockedFacts DEF KeepsLock
  <2>3. CASE Status(t) \notin Away /\ x \in ts
    <3>1. hit
      BY <2>2, <2>3 DEF Live, Active
    <3>2. CancelRows(ts)
      BY <1>1, <2>3, <3>1
    <3>3. task'[x] = With(task[x], "cancelled")
      BY <2>2, <2>3, <3>2 DEF CancelRows, Live, Active
    <3>4. With(task[x], "cancelled").status = "cancelled"
      BY <2>2, RowHelpers DEF SInv, Typed, Statuses, Final
    <3>5. BatchOf(x) = BatchOf(t)
      BY <2>3, BatchSides
    <3>6. req' = [req EXCEPT !.pc = "stop", !.ts = {BatchOf(t)[1]}]
      BY <1>1, <2>3, <3>1
    <3>7. req'.pc = "stop" /\ req'.ts = {BatchOf(t)[1]}
      BY <1>2, <3>6 DEF ReqType
    <3>8. HasFirst(p, a) => WarnedNext(p, a)
      BY <2>1, <3>5, <3>7 DEF HasFirst, WarnedNext
    <3> QED BY <2>1, <3>3, <3>4, <3>8
  <2>4. CASE ~(Status(t) \notin Away /\ x \in ts)
    <3>1. task'[x] = task[x]
      BY <1>1, <2>2, <2>4 DEF rows, FinishLate, CancelRows
    <3> QED BY <2>1, <2>2, <3>1 DEF Status
  <2> QED BY <2>3, <2>4
<1> QED BY <1>1, <1>3, <1>4, CalmRequest

LEMMA StopOneCalm ==
  ASSUME SInv, QuietInv, OneProcess, NEW t \in Tasks, StopOne(t)
  PROVE  Calmly
<1>1. /\ req.pc = "stop" /\ MaySignal({t}, req.at) /\ UNCHANGED rows /\ up' = up
      /\ req' = IF req.ts = {t} /\ req.of = {} THEN NoReq ELSE [req EXCEPT !.ts = @ \ {t}]
  BY DEF StopOne
<1>2. req \in ReqType /\ req.at \in Procs
  BY <1>1 DEF SInv, Typed, QuietInv, Asked
<1>3. Asked'
  BY <1>1, <1>2, NoReqCalm DEF Asked, ReqType
<1>4. ASSUME NEW p \in Procs, NEW a \in Accounts, Locked(p, a), Warned(p, a) PROVE WarnedNext(p, a)
  <2>1. p = req.at
    BY <1>2 DEF OneProcess
  <2>2. t \notin Members(Run(p, a).items)
    BY <1>1, <1>4, <2>1 DEF MaySignal
  <2>3. PICK y \in Members(Run(p, a).items) : y \in req.ts /\ y # t
    BY <1>4, <2>2 DEF Warned
  <2>4. req' = [req EXCEPT !.ts = @ \ {t}]
    BY <1>1, <2>3
  <2>5. req'.pc = "stop" /\ req'.ts = req.ts \ {t}
    BY <1>1, <1>2, <2>4 DEF ReqType
  <2> QED BY <2>3, <2>5 DEF WarnedNext
<1>5. task' = task
  BY <1>1 DEF rows
<1> QED BY <1>1, <1>3, <1>4, <1>5 DEF Calmly, Calm, KeepsLock, Status

LEMMA WipeCalm ==
  ASSUME SInv, QuietInv, Wipe
  PROVE  Calmly
<1>1. /\ req.ts = {} /\ req' = NoReq /\ up' = up
      /\ task' = [x \in Tasks |-> IF x \in req.of THEN With(task[x], "deleted") ELSE task[x]]
  BY DEF Wipe
<1>2. Asked'
  BY <1>1, NoReqCalm DEF Asked
<1>3. ASSUME NEW p \in Procs, NEW a \in Accounts, KeepsLock(p, a), Status(Item(p, a)) \in Live
      PROVE  task'[Item(p, a)].status \in Live
  <2>1. PICK x : x = Item(p, a)
    OBVIOUS
  <2>2. x \in Tasks /\ x \notin req.of
    BY <1>3, <2>1, LockedFacts DEF KeepsLock, SInv, Clearing, Live, Final
  <2> QED BY <1>1, <1>3, <2>1, <2>2 DEF Status
<1> QED BY <1>1, <1>2, <1>3, CalmRequest

LEMMA NextCalm ==
  ASSUME SInv, QuietInv, OneProcess, [Next]_vars
  PROVE  Calmly
<1>1. CASE UNCHANGED vars
  <2>1. UNCHANGED <<up, req, task>>
    BY <1>1 DEF vars, rows, env
  <2> QED BY <2>1, CalmSame
<1>2. CASE Serve
  BY <1>2, CancelTxCalm, StopOneCalm, WipeCalm DEF Serve
<1>3. CASE Client \/ Time
  BY <1>3, ClientCalm, TimeCalm
<1>4. CASE \E p \in Procs : Worker(p) \/ Stopping(p) \/ Shutdown(p) \/ Crash(p)
  BY <1>4, WorkerCalm, StoppingCalm
<1>5. CASE \E p \in Procs, a \in Accounts : Session(p, a) \/ Renew(p, a)
  BY <1>5, SessionCalm
<1> QED BY <1>1, <1>2, <1>3, <1>4, <1>5 DEF Next

\* Once a request to cancel, stop or clear has been answered, no session of the
\* process is about to click for the row: the request waits for the lock of the
\* session, and recoveries leave rows under control alone (cancel_social_task,
\* _force_stop_running_task, publish_submit_lock).  It is stated for one service
\* process: a request can only signal runners of the process that serves it.
THEOREM SilenceAfterCancel ==
  ASSUME \A p, q \in Procs : p = q
  PROVE  Spec => []QuietAfterCancel
<1>0. OneProcess
  BY DEF OneProcess
<1>1. Init => QuietInv
  <2> SUFFICES ASSUME Init PROVE QuietInv
    OBVIOUS
  <2>1. req = NoReq /\ \A p \in Procs, a \in Accounts : run[p][a] = Idle
    BY DEF Init
  <2>2. \A p \in Procs, a \in Accounts : ~Locked(p, a)
    BY <2>1 DEF Locked, Run, Idle
  <2> QED BY <2>1, <2>2, NoReqCalm DEF QuietInv, Silent, Asked
<1>2. SInv /\ QuietInv /\ [Next]_vars => QuietInv'
  BY <1>0, NextStep, NextCalm, QuietKept
<1>3. QuietInv => QuietAfterCancel
  BY DEF QuietInv, Silent, QuietAfterCancel, HasFirst, Warned, Cancelled, Live
<1> QED BY <1>1, <1>2, <1>3, Invariant, PTL DEF Spec
=============================================================================
