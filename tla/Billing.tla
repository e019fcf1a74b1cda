------------------------------- MODULE Billing -------------------------------
(***************************************************************************)
(* The point wallet of commercial_billing.py: wallets, the ledger,         *)
(* reservations (holds), free-image grants, top-up and subscription        *)
(* orders, and subscription periods.                                       *)
(*                                                                         *)
(* Every operation runs under BEGIN IMMEDIATE (its own or its endpoint's), *)
(* SQLite's single-writer lock, so each is one atomic action.  A raised    *)
(* BillingError rolls the transaction back: a refused call is no step.  A  *)
(* replay of a finished call returns the stored row: no step either.       *)
(***************************************************************************)
EXTENDS Integers, FiniteSets, FiniteSetsExt, Functions

CONSTANTS
  Users,          \* customer accounts
  Holds,          \* idempotency keys of reservations
  Orders,         \* billing orders
  Subs,           \* subscription ids
  NoSub,          \* an order that opens a new subscription
  Legacy,         \* [Users -> Nat]: balance migrated by ensure_wallet
  Welcome,        \* NEW_USER_WELCOME_POINTS in units
  Extras,         \* extra points an admin may give a new user
  Rates,          \* catalogue rates (units per piece of work)
  MaxQty,         \* largest quantity one reservation asks for
  Packs,          \* points of a credit pack
  Bonuses,        \* bonus images of a credit pack
  MonthChoices,   \* period_months of a subscription plan
  MonthlyImages,  \* free images of one subscription month
  Deltas,         \* admin adjustments
  MaxCredit,      \* bound: no adjustment lifts a wallet above this
  MaxNow          \* bound of the clock, in months

MaxMonths == Max(MonthChoices \cup {0})

\* A grant is named by the order that paid for it: index 0 is the bonus of a
\* credit pack, index k the k-th month of a subscription order.
Grants == Orders \X (0 .. MaxMonths)
Bonus(o) == <<o, 0>>
Months(o) == {<<o, k>> : k \in 1 .. MaxMonths}

Accounts == Users \cup Holds \cup Orders

ASSUME BillingConstants ==
  /\ Users # {} /\ IsFiniteSet(Holds) /\ IsFiniteSet(Orders)
  /\ Users \cap Holds = {} /\ Users \cap Orders = {} /\ Holds \cap Orders = {}
  /\ NoSub \notin Subs
  /\ Legacy \in [Users -> Nat]
  /\ Welcome \in Nat /\ MaxQty \in Nat /\ MaxCredit \in Nat /\ MaxNow \in Nat
  /\ MonthlyImages \in Nat
  /\ Extras \subseteq Nat /\ Rates \subseteq Nat /\ Packs \subseteq Nat
  /\ Bonuses \subseteq Nat /\ Deltas \subseteq Int
  /\ MonthChoices \subseteq Nat \ {0} /\ MaxMonths \in Nat
  /\ \A m \in MonthChoices : m <= MaxMonths

VARIABLES
  now,      \* clock
  wallet,   \* billing_wallets: points, and the part of them paid in cash
  posted,   \* idempotency keys of billing_ledger
  booked,   \* SUM(amount_units), SUM(cash_backed_amount_units) of the ledger
            \* rows of a user, of a reservation, of an order
  resv,     \* billing_reservations
  grant,    \* billing_image_grants
  order,    \* billing_orders
  sub,      \* billing_subscriptions
  period    \* status of billing_subscription_periods, named like its grant

vars == <<now, wallet, posted, booked, resv, grant, order, sub, period>>
books == <<wallet, posted, booked>>
entitlements == <<grant, order, sub, period>>

Least(a, b) == IF a < b THEN a ELSE b
Most(a, b) == IF a > b THEN a ELSE b

Amount == [credit : Int, cash : Int]
Zero == [credit |-> 0, cash |-> 0]
Closed == [open |-> FALSE, credit |-> 0, cash |-> 0, unlimited |-> FALSE]
NoTake == [g \in Grants |-> 0]
Unused == [status |-> "none", user |-> CHOOSE u \in Users : TRUE, kind |-> "rate",
           qty |-> 0, rate |-> 0, credit |-> 0, cash |-> 0, images |-> 0,
           take |-> NoTake, sCredit |-> 0, sCash |-> 0, sImages |-> 0,
           refunded |-> 0]
NoGrant == [user |-> CHOOSE u \in Users : TRUE, total |-> 0, left |-> 0,
            available |-> 0, expires |-> 0, created |-> 0]
NoOrder == [status |-> "none", user |-> CHOOSE u \in Users : TRUE,
            kind |-> "credit_pack", points |-> 0, bonus |-> 0, months |-> 0,
            sub |-> NoSub]

Init ==
  /\ now = 0
  /\ wallet = [u \in Users |-> Closed]
  /\ posted = {}
  /\ booked = [a \in Accounts |-> Zero]
  /\ resv = [h \in Holds |-> Unused]
  /\ grant = [g \in Grants |-> NoGrant]
  /\ order = [o \in Orders |-> NoOrder]
  /\ sub = [s \in Subs |-> [status |-> "none", user |-> CHOOSE u \in Users : TRUE,
                            end |-> 0]]
  /\ period = [g \in Grants |-> "none"]

-----------------------------------------------------------------------------
(* Wallet and ledger *)

\* INSERT OR IGNORE on idempotency_key: a row whose key exists is dropped.
MutInsertLedger(key, accounts, credit, cash, rows) ==
  IF key \in posted THEN rows
  ELSE [a \in Accounts |-> IF a \in accounts THEN [rows[a] EXCEPT !.credit = @ + credit]
                           ELSE rows[a]]
InsertLedger(key, accounts, credit, cash, rows) ==
  IF key \in posted THEN rows
  ELSE [a \in Accounts |->
          IF a \in accounts
          THEN [credit |-> rows[a].credit + credit, cash |-> rows[a].cash + cash]
          ELSE rows[a]]

\* ensure_wallet: open the wallet on first use with the legacy balance, and
\* never hand out more cash-backed points than points.
EnsureWallet(u) ==
  IF wallet[u].open
  THEN [wallet[u] EXCEPT !.cash = Least(@, wallet[u].credit)]
  ELSE [open |-> TRUE, credit |-> Legacy[u], cash |-> 0, unlimited |-> FALSE]
EnsureKeys(u) == IF wallet[u].open THEN {} ELSE {<<"migration", u>>}
EnsureRows(u) ==
  IF wallet[u].open THEN booked
  ELSE InsertLedger(<<"migration", u>>, {u}, Legacy[u], 0, booked)

\* The wallet of u moves by (credit, cash) and the ledger says so under key.
Move(u, key, accounts, credit, cash) ==
  /\ wallet' = [wallet EXCEPT ![u] = [EnsureWallet(u) EXCEPT !.credit = @ + credit,
                                                             !.cash = @ + cash]]
  /\ booked' = InsertLedger(key, accounts, credit, cash, EnsureRows(u))
  /\ posted' = posted \cup EnsureKeys(u) \cup {key}

\* The wallet is opened if need be and does not move.
Touch(u) ==
  /\ wallet' = [wallet EXCEPT ![u] = EnsureWallet(u)]
  /\ booked' = EnsureRows(u)
  /\ posted' = posted \cup EnsureKeys(u)

\* Any reader of the wallet (billing_summary) opens it.
OpenWallet(u) ==
  /\ ~wallet[u].open
  /\ Touch(u)
  /\ UNCHANGED <<now, resv>> /\ UNCHANGED entitlements

\* initialize_new_user_wallet: one grant per ledger key, welcome then extra.
InitializeWallet(u, extra) ==
  LET w == IF wallet[u].open THEN wallet[u] ELSE [Closed EXCEPT !.open = TRUE]
      welcome == IF <<"welcome", u>> \in posted THEN 0 ELSE Welcome
      more == IF extra = 0 \/ <<"extra", u>> \in posted THEN 0 ELSE extra
  IN /\ wallet' = [wallet EXCEPT ![u] = [w EXCEPT
                      !.credit = @ + welcome + more,
                      !.cash = Least(@, w.credit + welcome + more)]]
     /\ posted' = posted \cup {<<"welcome", u>>}
                         \cup (IF extra > 0 THEN {<<"extra", u>>} ELSE {})
     /\ booked' = [booked EXCEPT ![u].credit = @ + welcome + more]
     /\ UNCHANGED <<now, resv>> /\ UNCHANGED entitlements

\* Gifts never become cash-backed, and a deduction eats the points that were
\* not paid for first.
MutAdjustedCash(w, after) == Most(w.cash, after)
AdjustedCash(w, after) == Least(w.cash, after)

\* adjust_credit; its ledger key is fresh every time.
AdjustCredit(u, delta) ==
  LET w == EnsureWallet(u)
      after == w.credit + delta
      cash == AdjustedCash(w, after)
      rows == EnsureRows(u)
  IN /\ after \in 0 .. MaxCredit
     /\ wallet' = [wallet EXCEPT ![u] = [w EXCEPT !.credit = after, !.cash = cash]]
     /\ booked' = [rows EXCEPT ![u] = [credit |-> @.credit + delta,
                                       cash |-> @.cash + (cash - w.cash)]]
     /\ posted' = posted \cup EnsureKeys(u)
     /\ UNCHANGED <<now, resv>> /\ UNCHANGED entitlements

SetUnlimitedCompute(u, enabled) ==
  LET w == EnsureWallet(u)
  IN /\ wallet' = [wallet EXCEPT ![u] = [w EXCEPT !.unlimited = enabled]]
     /\ booked' = EnsureRows(u)
     /\ posted' = posted \cup EnsureKeys(u)
     /\ UNCHANGED <<now, resv>> /\ UNCHANGED entitlements

-----------------------------------------------------------------------------
(* Free images *)

\* ORDER BY expires_at = 0, expires_at, created_at; equal rows come either way.
Before(g, h) ==
  \/ grant[g].expires # 0 /\ grant[h].expires = 0
  \/ /\ (grant[g].expires = 0) = (grant[h].expires = 0)
     /\ \/ grant[g].expires < grant[h].expires
        \/ /\ grant[g].expires = grant[h].expires
           /\ grant[g].created < grant[h].created

Usable(u) ==
  {g \in Grants : /\ grant[g].user = u /\ grant[g].left > 0
                  /\ grant[g].available <= now
                  /\ grant[g].expires = 0 \/ grant[g].expires > now}

\* The loop of reserve_charge: take from the grants in order until qty is met.
IsDraw(u, qty, take, free) ==
  /\ \A g \in Grants : take[g] <= IF g \in Usable(u) THEN grant[g].left ELSE 0
  /\ free = Least(qty, SumFunctionOnSet([g \in Grants |-> grant[g].left], Usable(u)))
  /\ SumFunctionOnSet(take, Grants) = free
  /\ \A g, h \in Usable(u) : Before(g, h) /\ take[h] > 0 => take[g] = grant[g].left

\* _restore_grants: give n images back, the last grant drawn first.
IsRestore(take, n, back) ==
  /\ \A g \in Grants : back[g] <= take[g]
  /\ SumFunctionOnSet(back, Grants) = Least(n, SumFunctionOnSet(take, Grants))
  /\ \A g, h \in Grants : Before(g, h) /\ back[g] > 0 => back[h] = take[h]

MutRestoreGrants(back) ==
  [g \in Grants |-> [grant[g] EXCEPT !.left = IF back[g] > 0 THEN grant[g].total ELSE @]]
RestoreGrants(back) ==
  [g \in Grants |-> [grant[g] EXCEPT !.left = Least(grant[g].total, @ + back[g])]]

\* Functions on the grants that are 0 outside S and at most n on it.
Counts(S, n) == {[g \in Grants |-> IF g \in S THEN f[g] ELSE 0] : f \in [S -> 0 .. n]}

-----------------------------------------------------------------------------
(* Reservations *)

\* reserve_charge and reserve_exact_cash_charge when enforcement is off or an
\* admin pays: recorded, never charged.
ReserveWaived(h, u, kind, qty, rate) ==
  /\ resv[h].status = "none"
  /\ Touch(u)
  /\ resv' = [resv EXCEPT ![h] = [Unused EXCEPT !.status = "waived", !.user = u,
                                    !.kind = kind, !.qty = qty, !.rate = rate]]
  /\ UNCHANGED now /\ UNCHANGED entitlements

\* reserve_charge for an account with unlimited compute: held, nothing taken.
ReserveUnlimited(h, u, qty, rate) ==
  /\ resv[h].status = "none"
  /\ EnsureWallet(u).unlimited
  /\ Touch(u)
  /\ resv' = [resv EXCEPT ![h] = [Unused EXCEPT !.status = "held", !.user = u,
                                    !.kind = "unlimited", !.qty = qty, !.rate = rate]]
  /\ UNCHANGED now /\ UNCHANGED entitlements

MutAffordable(w, credit) == TRUE
Affordable(w, credit) == w.credit >= credit

\* The wallet side of a hold: unpaid points go first, then cash-backed ones.
HoldPoints(h, u, row, credit, cash) ==
  /\ IF credit > 0 THEN Move(u, <<"hold", h>>, {u, h}, -credit, -cash) ELSE Touch(u)
  /\ resv' = [resv EXCEPT ![h] = [row EXCEPT !.credit = credit, !.cash = cash]]

MutCashPart(w, credit) == 0
CashPart(w, credit) == Most(credit - Most(w.credit - w.cash, 0), 0)

\* reserve_charge for work billed at the catalogue rate.
ReserveCharge(h, u, qty, rate) ==
  LET w == EnsureWallet(u)
      credit == qty * rate
  IN /\ resv[h].status = "none"
     /\ ~w.unlimited
     /\ Affordable(w, credit)
     /\ HoldPoints(h, u, [Unused EXCEPT !.status = "held", !.user = u,
                                        !.qty = qty, !.rate = rate],
                   credit, CashPart(w, credit))
     /\ UNCHANGED now /\ UNCHANGED entitlements

\* reserve_charge for images: free images first, points for the rest.
ReserveImages(h, u, qty, rate) ==
  LET w == EnsureWallet(u)
  IN /\ resv[h].status = "none"
     /\ ~w.unlimited
     /\ \E free \in 0 .. qty : \E take \in Counts(Usable(u), qty) :
          LET credit == (qty - free) * rate
          IN /\ IsDraw(u, qty, take, free)
             /\ Affordable(w, credit)
             /\ HoldPoints(h, u, [Unused EXCEPT !.status = "held", !.user = u,
                                     !.kind = "image", !.qty = qty, !.rate = rate,
                                     !.images = free, !.take = take],
                           credit, CashPart(w, credit))
             /\ grant' = [g \in Grants |-> [grant[g] EXCEPT !.left = @ - take[g]]]
     /\ UNCHANGED <<now, order, sub, period>>

\* reserve_exact_cash_charge: only cash-backed points pay.
ReserveExactCash(h, u, amount) ==
  LET w == EnsureWallet(u)
  IN /\ resv[h].status = "none"
     /\ amount > 0
     /\ w.cash >= amount /\ Affordable(w, amount)
     /\ HoldPoints(h, u, [Unused EXCEPT !.status = "held", !.user = u,
                            !.kind = "exact", !.qty = 1, !.rate = amount],
                   amount, amount)
     /\ UNCHANGED now /\ UNCHANGED entitlements

\* Only a held reservation can still be settled or released.
MutIsHeld(r) == r.status \in {"held", "settled"}
IsHeld(r) == r.status = "held"

\* settle_reservation(success=True) for an unlimited hold.
SettleUnlimited(h) ==
  /\ IsHeld(resv[h]) /\ resv[h].kind = "unlimited"
  /\ Touch(resv[h].user)
  /\ resv' = [resv EXCEPT ![h].status = "settled"]
  /\ UNCHANGED now /\ UNCHANGED entitlements

\* What a finished job of `actual` pieces costs out of its hold.
SettledImages(r, actual) == IF r.kind = "image" THEN Least(actual, r.images) ELSE 0
SettledCredit(r, actual) == (actual - SettledImages(r, actual)) * r.rate
MutSettledCash(r, actual) == SettledCredit(r, actual)
SettledCash(r, actual) == Most(SettledCredit(r, actual) - (r.credit - r.cash), 0)

\* settle_reservation: charge what was done, return the rest of the hold.
SettleReservation(h, actual) ==
  LET r == resv[h]
      images == SettledImages(r, actual)
      credit == SettledCredit(r, actual)
      cash == SettledCash(r, actual)
      creditBack == Most(r.credit - credit, 0)
      cashBack == Most(r.cash - cash, 0)
  IN /\ IsHeld(r) /\ r.kind # "unlimited"
     /\ actual \in 0 .. r.qty
     /\ IF creditBack > 0
        THEN Move(r.user, <<"settle_refund", h>>, {r.user, h}, creditBack, cashBack)
        ELSE Touch(r.user)
     /\ resv' = [resv EXCEPT ![h] = [r EXCEPT !.status = "settled", !.sCredit = credit,
                                       !.sCash = cash, !.sImages = images]]
     /\ \E back \in Counts({g \in Grants : r.take[g] > 0}, r.images) :
          /\ IsRestore(r.take, r.images - images, back)
          /\ grant' = RestoreGrants(back)
     /\ UNCHANGED <<now, order, sub, period>>

\* release_reservation, and settle_reservation(success=False).
ReleaseReservation(h) ==
  LET r == resv[h]
  IN /\ IsHeld(r)
     /\ IF r.credit > 0
        THEN Move(r.user, <<"release", h>>, {r.user, h}, r.credit, r.cash)
        ELSE Touch(r.user)
     /\ resv' = [resv EXCEPT ![h].status = "released"]
     /\ \E back \in Counts({g \in Grants : r.take[g] > 0}, r.images) :
          /\ IsRestore(r.take, r.images, back)
          /\ grant' = RestoreGrants(back)
     /\ UNCHANGED <<now, order, sub, period>>

\* refund_settled_exact_cash_charge: at most once, whatever was settled.
RefundExactCash(h) ==
  LET r == resv[h]
      amount == Most(r.sCash - r.refunded, 0)
  IN /\ r.kind = "exact" /\ r.status = "settled"
     /\ amount > 0
     /\ Move(r.user, <<"cash_refund", h>>, {r.user, h}, amount, amount)
     /\ resv' = [resv EXCEPT ![h].refunded = r.sCash]
     /\ UNCHANGED now /\ UNCHANGED entitlements

-----------------------------------------------------------------------------
(* Orders and subscriptions *)

\* create_order: a renewal names a subscription of the same user.
CreateOrder(o, u, kind, points, bonus, months, s) ==
  /\ order[o].status = "none"
  /\ s # NoSub => kind = "subscription" /\ sub[s].status # "none" /\ sub[s].user = u
  /\ order' = [order EXCEPT ![o] =
       [status |-> "pending", user |-> u, kind |-> kind, points |-> points,
        bonus |-> bonus, months |-> months, sub |-> s]]
  /\ UNCHANGED <<now, resv, grant, sub, period>> /\ UNCHANGED books

\* review_order(rejected) and cancel_order: only a pending order.
RejectOrder(o) ==
  /\ order[o].status = "pending"
  /\ order' = [order EXCEPT ![o].status = "rejected"]
  /\ UNCHANGED <<now, resv, grant, sub, period>> /\ UNCHANGED books

MutCancelOrder(o) ==
  /\ order[o].status \in {"pending", "approved"}
  /\ order' = [order EXCEPT ![o].status = "cancelled"]
  /\ UNCHANGED <<now, resv, grant, sub, period>> /\ UNCHANGED books
CancelOrder(o) ==
  /\ order[o].status = "pending"
  /\ order' = [order EXCEPT ![o].status = "cancelled"]
  /\ UNCHANGED <<now, resv, grant, sub, period>> /\ UNCHANGED books

NewGrant(u, count, available, expires) ==
  [user |-> u, total |-> count, left |-> count, available |-> available,
   expires |-> expires, created |-> now]

\* approve_order of a credit pack: paid points and a permanent image bonus.
ApproveCreditPack(o) ==
  LET u == order[o].user
      points == order[o].points
  IN /\ order[o].status = "pending" /\ order[o].kind = "credit_pack"
     /\ Move(u, <<"order", o>>, {u, o}, points, points)
     /\ grant' = IF order[o].bonus = 0 THEN grant
                 ELSE [grant EXCEPT ![Bonus(o)] = NewGrant(u, order[o].bonus, now, 0)]
     /\ order' = [order EXCEPT ![o].status = "approved"]
     /\ UNCHANGED <<now, resv, sub, period>>

MutRenewalStart(s) == now
RenewalStart(s) == Most(now, sub[s].end)

\* approve_order of a subscription: consecutive months appended to the
\* subscription's end, or started now when it has lapsed, each with its grant.
ApproveSubscription(o, s) ==
  LET u == order[o].user
      start == RenewalStart(s)
      new == {<<o, k>> : k \in 1 .. order[o].months}
  IN /\ order[o].status = "pending" /\ order[o].kind = "subscription"
     /\ IF order[o].sub = NoSub THEN sub[s].status = "none" ELSE s = order[o].sub
     /\ Touch(u)
     /\ grant' = [g \in Grants |->
          IF g \in new THEN NewGrant(u, MonthlyImages, start + g[2] - 1, start + g[2])
          ELSE grant[g]]
     /\ period' = [g \in Grants |->
          IF g \notin new THEN period[g]
          ELSE IF start + g[2] - 1 <= now THEN "active" ELSE "scheduled"]
     /\ sub' = [sub EXCEPT ![s] = [status |-> "active", user |-> u,
                                   end |-> start + order[o].months]]
     /\ order' = [order EXCEPT ![o].status = "approved", ![o].sub = s]
     /\ UNCHANGED <<now, resv>>

\* _revoke_remaining_image_grant on every grant of S.
RevokeGrants(S) ==
  [g \in Grants |-> IF g \in S THEN [grant[g] EXCEPT !.left = 0] ELSE grant[g]]

\* _ensure_image_grants_not_held.
MutNotHeld(u, S) == TRUE
NotHeld(u, S) ==
  \A h \in Holds : resv[h].status = "held" /\ resv[h].user = u /\ resv[h].images > 0
                     => \A g \in S : resv[h].take[g] = 0

\* refund_approved_order of a credit pack: only while its benefits are unused.
RefundCreditPack(o) ==
  LET u == order[o].user
      points == order[o].points
      w == EnsureWallet(u)
      b == Bonus(o)
  IN /\ order[o].status = "approved" /\ order[o].kind = "credit_pack"
     /\ w.credit >= points /\ w.cash >= points
     /\ order[o].bonus > 0 => /\ grant[b].total = order[o].bonus
                              /\ grant[b].left = order[o].bonus
     /\ IF points > 0
        THEN Move(u, <<"order_refund", o>>, {u, o}, -points, -points)
        ELSE Touch(u)
     /\ grant' = IF order[o].bonus > 0 THEN RevokeGrants({b}) ELSE grant
     /\ order' = [order EXCEPT ![o].status = "refunded"]
     /\ UNCHANGED <<now, resv, sub, period>>

PeriodsOf(s) == {g \in Grants : period[g] # "none" /\ order[g[1]].sub = s}

\* _recompute_subscription_state, end being the last end of a live month, or 0.
RecomputedSub(row, end) ==
  [row EXCEPT !.status = IF end = 0 THEN "cancelled"
                         ELSE IF end <= now THEN "expired" ELSE "active",
              !.end = IF end = 0 THEN now ELSE end]

\* refund_approved_order of a subscription: its months are cancelled, their
\* unused images revoked, and the subscription ends with its last live month.
RefundSubscription(o) ==
  LET u == order[o].user
      s == order[o].sub
      mine == {g \in Months(o) : period[g] # "none"}
      live == {g \in PeriodsOf(s) \ mine : period[g] # "cancelled"}
  IN /\ order[o].status = "approved" /\ order[o].kind = "subscription"
     /\ mine # {}
     /\ NotHeld(u, mine)
     /\ Touch(u)
     /\ period' = [g \in Grants |-> IF g \in mine THEN "cancelled" ELSE period[g]]
     /\ grant' = RevokeGrants(mine)
     /\ \E end \in {0} \cup {grant[g].expires : g \in live} :
          /\ \A g \in live : grant[g].expires <= end
          /\ sub' = [sub EXCEPT ![s] = RecomputedSub(sub[s], end)]
     /\ order' = [order EXCEPT ![o].status = "refunded"]
     /\ UNCHANGED <<now, resv>>

\* terminate_subscription: months that are not over are cancelled, the
\* subscription ends now.
TerminateSubscription(s) ==
  LET mine == {g \in PeriodsOf(s) : period[g] # "cancelled" /\ grant[g].expires > now}
  IN /\ sub[s].status \notin {"none", "cancelled"}
     /\ NotHeld(sub[s].user, mine)
     /\ period' = [g \in Grants |-> IF g \in mine THEN "cancelled" ELSE period[g]]
     /\ grant' = RevokeGrants(mine)
     /\ sub' = [sub EXCEPT ![s].status = "cancelled", ![s].end = now]
     /\ UNCHANGED <<now, resv, order>> /\ UNCHANGED books

Tick ==
  /\ now < MaxNow
  /\ now' = now + 1
  /\ UNCHANGED resv /\ UNCHANGED entitlements /\ UNCHANGED books

-----------------------------------------------------------------------------
WalletStep ==
  \E u \in Users :
    \/ OpenWallet(u)
    \/ \E extra \in Extras : InitializeWallet(u, extra)
    \/ \E delta \in Deltas : AdjustCredit(u, delta)
    \/ \E enabled \in BOOLEAN : SetUnlimitedCompute(u, enabled)

ReserveStep ==
  \E h \in Holds, u \in Users, rate \in Rates :
    \/ \E qty \in 1 .. MaxQty :
         \/ \E kind \in {"rate", "image", "exact"} : ReserveWaived(h, u, kind, qty, rate)
         \/ ReserveUnlimited(h, u, qty, rate)
         \/ ReserveCharge(h, u, qty, rate)
         \/ ReserveImages(h, u, qty, rate)
    \/ ReserveExactCash(h, u, rate)

FinishStep ==
  \E h \in Holds :
    \/ SettleUnlimited(h)
    \/ \E actual \in 0 .. MaxQty : SettleReservation(h, actual)
    \/ ReleaseReservation(h)
    \/ RefundExactCash(h)

OrderStep ==
  \E o \in Orders :
    \/ \E u \in Users, points \in Packs, bonus \in Bonuses :
         CreateOrder(o, u, "credit_pack", points, bonus, 0, NoSub)
    \/ \E u \in Users, months \in MonthChoices, s \in Subs \cup {NoSub} :
         CreateOrder(o, u, "subscription", 0, 0, months, s)
    \/ RejectOrder(o)
    \/ CancelOrder(o)
    \/ ApproveCreditPack(o)
    \/ \E s \in Subs : ApproveSubscription(o, s)
    \/ RefundCreditPack(o)
    \/ RefundSubscription(o)

Next ==
  \/ WalletStep
  \/ ReserveStep
  \/ FinishStep
  \/ OrderStep
  \/ \E s \in Subs : TerminateSubscription(s)
  \/ Tick

Spec == Init /\ [][Next]_vars

-----------------------------------------------------------------------------
(* Properties *)

ReservationRow ==
  [status : {"none", "held", "waived", "settled", "released"}, user : Users,
   kind : {"rate", "image", "exact", "unlimited"}, qty : Nat, rate : Nat,
   credit : Nat, cash : Nat, images : Nat, take : [Grants -> Nat],
   sCredit : Nat, sCash : Nat, sImages : Nat, refunded : Nat]
GrantRow ==
  [user : Users, total : Nat, left : Nat, available : Nat, expires : Nat, created : Nat]
OrderRow ==
  [status : {"none", "pending", "approved", "rejected", "cancelled", "refunded"},
   user : Users, kind : {"credit_pack", "subscription"}, points : Nat, bonus : Nat,
   months : Nat, sub : Subs \cup {NoSub}]
SubRow == [status : {"none", "active", "expired", "cancelled"}, user : Users, end : Nat]

\* Every table holds rows of its schema; in particular no balance, hold or
\* image count is ever negative.
TypeOK ==
  /\ now \in Nat
  /\ wallet \in [Users -> [open : BOOLEAN, credit : Nat, cash : Nat, unlimited : BOOLEAN]]
  /\ booked \in [Accounts -> Amount]
  /\ resv \in [Holds -> ReservationRow]
  /\ grant \in [Grants -> GrantRow]
  /\ order \in [Orders -> OrderRow]
  /\ sub \in [Subs -> SubRow]
  /\ period \in [Grants -> {"none", "active", "scheduled", "cancelled"}]

\* The cash-backed balance is part of the balance (what ensure_wallet repairs
\* when other tools break it): no mix of holds, partial settlements, refunds
\* and deductions lets it exceed the points the wallet has.
CashWithinCredit == \A u \in Users : wallet[u].cash <= wallet[u].credit

\* The wallet equals the sum of its ledger rows, both columns: no operation
\* moves points without its row, and INSERT OR IGNORE never drops a row of a
\* movement that did happen (no two movements share an idempotency key).
WalletMatchesLedger ==
  \A u \in Users : booked[u] = [credit |-> wallet[u].credit, cash |-> wallet[u].cash]

\* What the ledger says a reservation took is what it still holds, or what it
\* was charged less what was refunded, and nothing once it is released: every
\* hold is returned or charged exactly once.
Taken(r) ==
  CASE r.status = "held"    -> [credit |-> -r.credit, cash |-> -r.cash]
    [] r.status = "settled" -> [credit |-> r.refunded - r.sCredit,
                                cash |-> r.refunded - r.sCash]
    [] OTHER                -> Zero
HoldsAccountedFor ==
  \A h \in Holds : /\ booked[h] = Taken(resv[h])
                   /\ resv[h].sCredit <= resv[h].credit
                   /\ resv[h].sCash <= resv[h].cash
                   /\ resv[h].refunded <= resv[h].sCash

\* The ledger credits an order exactly while it is approved: never twice, not
\* when rejected or cancelled, and not after a refund.
OrdersAccountedFor ==
  \A o \in Orders :
    booked[o] = IF order[o].status = "approved" /\ order[o].kind = "credit_pack"
                THEN [credit |-> order[o].points, cash |-> order[o].points]
                ELSE Zero

\* "Free/admin grants never become purchase-eligible": the cash-backed points a
\* user has, holds or has spent never exceed what the user's approved orders
\* paid for.
CashBackedByPayments ==
  \A u \in Users :
    LET paid == {o \in Orders : order[o].user = u /\ order[o].status = "approved"}
        mine == {h \in Holds : resv[h].user = u}
    IN wallet[u].cash
         + SumFunctionOnSet([h \in Holds |->
             CASE resv[h].status = "held" -> resv[h].cash
               [] resv[h].status = "settled" -> resv[h].sCash - resv[h].refunded
               [] OTHER -> 0], mine)
       <= SumFunctionOnSet([o \in Orders |-> order[o].points], paid)

\* Images of a grant that running work holds are still covered by it, so the
\* MIN(total, ...) of _restore_grants never swallows a returned image.
HeldImagesCovered ==
  \A g \in Grants :
    grant[g].left
      + SumFunctionOnSet([h \in Holds |-> IF resv[h].status = "held"
                                          THEN resv[h].take[g] ELSE 0], Holds)
    <= grant[g].total

\* Benefits that were reversed stay reversed: no later settlement or release
\* puts an image back into a refunded or terminated grant.
RevokedStaysRevoked ==
  \A g \in Grants : period[g] = "cancelled" \/ order[g[1]].status = "refunded"
                      => grant[g].left = 0

\* The paid months of a subscription never overlap, however renewals, refunds
\* of earlier orders and terminations are mixed; and an active subscription
\* ends with its last month that was not cancelled.
PeriodsDisjoint ==
  \A s \in Subs :
    LET live == {g \in PeriodsOf(s) : period[g] # "cancelled"}
    IN /\ \A g, h \in live : g # h => \/ grant[g].expires <= grant[h].available
                                      \/ grant[h].expires <= grant[g].available
       /\ sub[s].status = "active" => /\ live # {}
                                      /\ sub[s].end = Max({grant[g].expires : g \in live})

\* A reservation that was settled, released or waived never changes again,
\* but for the single refund of an exact cash charge.
FinishedForever ==
  [][\A h \in Holds :
       resv[h].status \in {"settled", "released", "waived"} =>
         \/ resv'[h] = resv[h]
         \/ /\ resv[h].refunded = 0
            /\ resv'[h] = [resv[h] EXCEPT !.refunded = resv[h].sCash]]_vars

-----------------------------------------------------------------------------
(* Strengthening of the accounting invariants to an inductive one *)

\* A wallet nobody opened is empty.
ClosedIsEmpty ==
  \A u \in Users : ~wallet[u].open => /\ wallet[u].credit = 0 /\ wallet[u].cash = 0
                                      /\ <<"migration", u>> \notin posted

\* A ledger key is used only by a reservation or an order that got that far.
KeysTellStatus ==
  /\ \A h \in Holds :
       /\ <<"hold", h>> \in posted => resv[h].status # "none"
       /\ <<"settle_refund", h>> \in posted => resv[h].status = "settled"
       /\ <<"release", h>> \in posted => resv[h].status = "released"
       /\ <<"cash_refund", h>> \in posted => /\ resv[h].status = "settled"
                                             /\ resv[h].refunded = resv[h].sCash
  /\ \A o \in Orders :
       /\ <<"order", o>> \in posted => order[o].status \in {"approved", "refunded"}
       /\ <<"order_refund", o>> \in posted => order[o].status = "refunded"

\* A held row was priced by its kind and has settled nothing.
HeldIsPriced ==
  \A h \in Holds :
    LET r == resv[h]
    IN /\ r.status \in {"none", "held"} => r.sCredit = 0 /\ r.sCash = 0
       /\ r.status # "settled" => r.refunded = 0
       /\ r.refunded \in {0, r.sCash}
       /\ r.status = "none" => r.credit = 0 /\ r.cash = 0
       /\ r.status = "held" => /\ r.cash <= r.credit /\ r.images <= r.qty
                               /\ r.kind = "unlimited" => r.credit = 0
                               /\ r.kind # "image" => r.images = 0
                               /\ r.kind # "unlimited" => r.credit = (r.qty - r.images) * r.rate

IInv == /\ TypeOK /\ CashWithinCredit /\ WalletMatchesLedger /\ HoldsAccountedFor
        /\ OrdersAccountedFor /\ ClosedIsEmpty /\ KeysTellStatus /\ HeldIsPriced
=============================================================================
