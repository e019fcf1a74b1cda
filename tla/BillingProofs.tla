---------------------------- MODULE BillingProofs ----------------------------
(***************************************************************************)
(* The accounting invariants of Billing, for every set of users, holds,    *)
(* orders and subscriptions and every price list.  IInv is inductive: the  *)
(* step lemmas below follow the actions; what is common to all of them, a  *)
(* wallet movement with its ledger row, is MoveBooks.                      *)
(***************************************************************************)
EXTENDS Billing, SumTheorems, TLAPS

WalletRow == [open : BOOLEAN, credit : Nat, cash : Nat, unlimited : BOOLEAN]

\* The part of IInv that only wallet, booked (of users) and posted decide.
BooksInv ==
  /\ wallet \in [Users -> WalletRow]
  /\ booked \in [Accounts -> Amount]
  /\ CashWithinCredit /\ WalletMatchesLedger /\ ClosedIsEmpty

\* IInv implies its part about the books.
LEMMA BooksOfIInv == IInv => BooksInv
BY DEF IInv, TypeOK, BooksInv, WalletRow

\* Accounts are disjoint names.
LEMMA AccountSets ==
  /\ \A u \in Users : u \in Accounts /\ u \notin Holds /\ u \notin Orders
  /\ \A h \in Holds : h \in Accounts /\ h \notin Users /\ h \notin Orders
  /\ \A o \in Orders : o \in Accounts /\ o \notin Users /\ o \notin Holds
BY BillingConstants DEF Accounts

\* ensure_wallet hands out a row of its type that its ledger rows match.
LEMMA EnsureBooks ==
  ASSUME BooksInv, NEW u \in Users
  PROVE  /\ EnsureWallet(u) \in WalletRow
         /\ EnsureWallet(u).open
         /\ EnsureWallet(u).cash <= EnsureWallet(u).credit
         /\ EnsureRows(u) \in [Accounts -> Amount]
         /\ EnsureRows(u)[u] = [credit |-> EnsureWallet(u).credit,
                                cash |-> EnsureWallet(u).cash]
         /\ \A a \in Accounts \ {u} : EnsureRows(u)[a] = booked[a]
<1>1. wallet[u] \in WalletRow /\ booked[u] \in Amount /\ Legacy[u] \in Nat /\ u \in Accounts
  BY AccountSets, BillingConstants DEF BooksInv
<1>2. wallet[u].cash <= wallet[u].credit
  BY DEF BooksInv, CashWithinCredit
<1>3. booked[u] = [credit |-> wallet[u].credit, cash |-> wallet[u].cash]
  BY DEF BooksInv, WalletMatchesLedger
<1>4. CASE wallet[u].open
  <2>1. EnsureWallet(u) = wallet[u]
    BY <1>1, <1>2, <1>4 DEF EnsureWallet, Least, WalletRow
  <2>2. EnsureRows(u) = booked
    BY <1>4 DEF EnsureRows
  <2> QED BY <1>1, <1>2, <1>3, <1>4, <2>1, <2>2 DEF BooksInv
<1>5. CASE ~wallet[u].open
  <2>1. EnsureWallet(u) = [open |-> TRUE, credit |-> Legacy[u], cash |-> 0,
                           unlimited |-> FALSE]
    BY <1>5 DEF EnsureWallet
  <2>2. <<"migration", u>> \notin posted /\ wallet[u].credit = 0 /\ wallet[u].cash = 0
    BY <1>5 DEF BooksInv, ClosedIsEmpty
  <2>3. EnsureRows(u) = [a \in Accounts |->
                           IF a = u THEN [credit |-> booked[a].credit + Legacy[u],
                                          cash |-> booked[a].cash + 0]
                           ELSE booked[a]]
    BY <1>5, <2>2 DEF EnsureRows, InsertLedger
  <2>4. EnsureRows(u)[u] = [credit |-> Legacy[u], cash |-> 0]
    BY <1>1, <1>3, <2>2, <2>3
  <2>5. \A a \in Accounts : booked[a] \in Amount
    BY DEF BooksInv
  <2>6. EnsureRows(u) \in [Accounts -> Amount]
    BY <1>1, <2>3, <2>5 DEF Amount
  <2> QED BY <1>1, <2>1, <2>3, <2>4, <2>6 DEF WalletRow
<1> QED BY <1>4, <1>5

\* A call that only opens the wallet keeps the books, and leaves the rows of
\* reservations and orders alone.
LEMMA TouchBooks ==
  ASSUME BooksInv, NEW u \in Users, Touch(u)
  PROVE  /\ BooksInv'
         /\ \A a \in Holds \cup Orders : booked'[a] = booked[a]
         /\ posted' \subseteq posted \cup {<<"migration", u>>}
<1>1. /\ EnsureWallet(u) \in WalletRow /\ EnsureWallet(u).open
      /\ EnsureWallet(u).cash <= EnsureWallet(u).credit
      /\ EnsureRows(u) \in [Accounts -> Amount]
      /\ EnsureRows(u)[u] = [credit |-> EnsureWallet(u).credit,
                             cash |-> EnsureWallet(u).cash]
      /\ \A a \in Accounts \ {u} : EnsureRows(u)[a] = booked[a]
  BY EnsureBooks
<1>2. posted' \subseteq posted \cup {<<"migration", u>>}
  BY DEF Touch, EnsureKeys
<1>3. wallet' = [wallet EXCEPT ![u] = EnsureWallet(u)] /\ booked' = EnsureRows(u)
  BY DEF Touch
<1>4. wallet' \in [Users -> WalletRow] /\ booked' \in [Accounts -> Amount]
  BY <1>1, <1>3 DEF BooksInv
<1>5. \A v \in Users : v # u => wallet'[v] = wallet[v] /\ booked'[v] = booked[v]
  BY <1>1, <1>3, AccountSets DEF BooksInv
<1>6. wallet'[u] = EnsureWallet(u) /\ booked'[u] = EnsureRows(u)[u]
  BY <1>3 DEF BooksInv
<1>7. CashWithinCredit'
  BY <1>1, <1>5, <1>6 DEF BooksInv, CashWithinCredit
<1>8. WalletMatchesLedger'
  BY <1>1, <1>5, <1>6 DEF BooksInv, WalletMatchesLedger
<1>9. ClosedIsEmpty'
  BY <1>1, <1>2, <1>5, <1>6 DEF BooksInv, ClosedIsEmpty
<1>10. \A a \in Holds \cup Orders : booked'[a] = booked[a]
  BY <1>1, <1>3, AccountSets
<1> QED BY <1>2, <1>4, <1>7, <1>8, <1>9, <1>10 DEF BooksInv

\* A movement under a fresh key that the wallet can bear keeps the books and
\* is charged to the reservation or order x it belongs to, and to no other.
LEMMA MoveBooks ==
  ASSUME BooksInv, NEW u \in Users, NEW x \in Holds \cup Orders, NEW key,
         NEW credit \in Int, NEW cash \in Int,
         key \notin posted, key # <<"migration", u>>,
         \A v \in Users : key # <<"migration", v>>,
         EnsureWallet(u).cash + cash >= 0,
         EnsureWallet(u).cash + cash <= EnsureWallet(u).credit + credit,
         Move(u, key, {u, x}, credit, cash)
  PROVE  /\ BooksInv'
         /\ booked'[x] = [credit |-> booked[x].credit + credit,
                          cash |-> booked[x].cash + cash]
         /\ \A a \in (Holds \cup Orders) \ {x} : booked'[a] = booked[a]
         /\ posted' \subseteq posted \cup {<<"migration", u>>, key}
<1> DEFINE w == EnsureWallet(u)
           rows == EnsureRows(u)
<1>1. /\ w \in WalletRow /\ w.open /\ w.cash <= w.credit
      /\ rows \in [Accounts -> Amount]
      /\ rows[u] = [credit |-> w.credit, cash |-> w.cash]
      /\ \A a \in Accounts \ {u} : rows[a] = booked[a]
  BY EnsureBooks
<1>2. posted' \subseteq posted \cup {<<"migration", u>>, key}
  BY DEF Move, EnsureKeys
<1>3. /\ wallet' = [wallet EXCEPT ![u] = [w EXCEPT !.credit = w.credit + credit,
                                                   !.cash = w.cash + cash]]
      /\ booked' = [a \in Accounts |->
           IF a \in {u, x} THEN [credit |-> rows[a].credit + credit,
                                 cash |-> rows[a].cash + cash]
           ELSE rows[a]]
  BY DEF Move, InsertLedger
<1> HIDE DEF w, rows
<1>4. \A a \in Accounts : rows[a] \in Amount
  BY <1>1
<1>5. booked' \in [Accounts -> Amount]
  BY <1>3, <1>4 DEF Amount
<1>6. w.credit \in Nat /\ w.cash \in Nat /\ w.credit + credit \in Nat /\ w.cash + cash \in Nat
  <2>1. w.credit \in Nat /\ w.cash \in Nat
    BY <1>1 DEF WalletRow
  <2> QED BY <2>1 DEF w
<1>7. wallet'[u] = [w EXCEPT !.credit = w.credit + credit, !.cash = w.cash + cash]
  BY <1>3 DEF BooksInv
<1>8. /\ wallet'[u] \in WalletRow /\ wallet'[u].open
      /\ wallet'[u].credit = w.credit + credit /\ wallet'[u].cash = w.cash + cash
  BY <1>1, <1>6, <1>7 DEF WalletRow
<1>9. \A v \in Users : v # u => wallet'[v] = wallet[v]
  BY <1>3 DEF BooksInv
<1>10. wallet' \in [Users -> WalletRow]
  BY <1>3, <1>7, <1>8 DEF BooksInv
<1>11. u # x /\ x \in Accounts /\ u \in Accounts
  BY AccountSets
<1>12. \A v \in Users : v # u => booked'[v] = booked[v]
  BY <1>1, <1>3, AccountSets
<1>13. booked'[u] = [credit |-> w.credit + credit, cash |-> w.cash + cash]
  BY <1>1, <1>3, <1>11
<1>14. booked'[x] = [credit |-> booked[x].credit + credit, cash |-> booked[x].cash + cash]
  BY <1>1, <1>3, <1>11
<1>15. \A a \in (Holds \cup Orders) \ {x} : booked'[a] = booked[a]
  BY <1>1, <1>3, AccountSets
<1>16. CashWithinCredit'
  BY <1>8, <1>9 DEF BooksInv, CashWithinCredit, w
<1>17. WalletMatchesLedger'
  BY <1>8, <1>9, <1>12, <1>13 DEF BooksInv, WalletMatchesLedger
<1>18. ClosedIsEmpty'
  BY <1>2, <1>8, <1>9 DEF BooksInv, ClosedIsEmpty
<1> QED BY <1>2, <1>5, <1>10, <1>14, <1>15, <1>16, <1>17, <1>18 DEF BooksInv

-----------------------------------------------------------------------------
(* IInv cut into the books, the tables, and one part per reservation and per *)
(* order, so that a step only has to argue about the rows it writes.         *)

HoldKeys(h) == {<<"hold", h>>, <<"settle_refund", h>>, <<"release", h>>, <<"cash_refund", h>>}
OrderKeys(o) == {<<"order", o>>, <<"order_refund", o>>}

Tables ==
  /\ now \in Nat
  /\ resv \in [Holds -> ReservationRow]
  /\ grant \in [Grants -> GrantRow]
  /\ order \in [Orders -> OrderRow]
  /\ sub \in [Subs -> SubRow]
  /\ period \in [Grants -> {"none", "active", "scheduled", "cancelled"}]

Booking(r, b) ==
  /\ b = Taken(r)
  /\ r.sCredit <= r.credit /\ r.sCash <= r.cash /\ r.refunded <= r.sCash

Priced(r) ==
  /\ r.status \in {"none", "held"} => r.sCredit = 0 /\ r.sCash = 0
  /\ r.status # "settled" => r.refunded = 0
  /\ r.refunded \in {0, r.sCash}
  /\ r.status = "none" => r.credit = 0 /\ r.cash = 0
  /\ r.status = "held" => /\ r.cash <= r.credit /\ r.images <= r.qty
                          /\ r.kind = "unlimited" => r.credit = 0
                          /\ r.kind # "image" => r.images = 0
                          /\ r.kind # "unlimited" => r.credit = (r.qty - r.images) * r.rate

HoldKeysOK(h, r) ==
  /\ <<"hold", h>> \in posted => r.status # "none"
  /\ <<"settle_refund", h>> \in posted => r.status = "settled"
  /\ <<"release", h>> \in posted => r.status = "released"
  /\ <<"cash_refund", h>> \in posted => r.status = "settled" /\ r.refunded = r.sCash

HoldOK(h) == Booking(resv[h], booked[h]) /\ Priced(resv[h]) /\ HoldKeysOK(h, resv[h])

OrderOK(o) ==
  /\ booked[o] = IF order[o].status = "approved" /\ order[o].kind = "credit_pack"
                 THEN [credit |-> order[o].points, cash |-> order[o].points]
                 ELSE Zero
  /\ <<"order", o>> \in posted => order[o].status \in {"approved", "refunded"}
  /\ <<"order_refund", o>> \in posted => order[o].status = "refunded"

\* The cut is exact.
LEMMA Cut ==
  IInv <=> /\ BooksInv /\ Tables
           /\ \A h \in Holds : HoldOK(h)
           /\ \A o \in Orders : OrderOK(o)
BY DEF IInv, TypeOK, BooksInv, WalletRow, Tables, HoldsAccountedFor, OrdersAccountedFor,
       KeysTellStatus, HeldIsPriced, HoldOK, OrderOK, Booking, Priced, HoldKeysOK

\* And so it is after a step.
LEMMA CutPrime ==
  IInv' <=> /\ BooksInv' /\ Tables'
            /\ \A h \in Holds : HoldOK(h)'
            /\ \A o \in Orders : OrderOK(o)'
BY DEF IInv, TypeOK, BooksInv, WalletRow, Tables, HoldsAccountedFor, OrdersAccountedFor,
       KeysTellStatus, HeldIsPriced, HoldOK, OrderOK, Booking, Priced, HoldKeysOK

\* A reservation whose row, ledger sum and keys a step leaves alone stays right.
LEMMA HoldFrame ==
  ASSUME NEW h \in Holds, HoldOK(h), resv'[h] = resv[h], booked'[h] = booked[h],
         \A k \in HoldKeys(h) : k \in posted' => k \in posted
  PROVE  HoldOK(h)'
BY DEF HoldOK, HoldKeysOK, HoldKeys, Booking, Priced, Taken

\* So does an order.
LEMMA OrderFrame ==
  ASSUME NEW o \in Orders, OrderOK(o), order'[o] = order[o], booked'[o] = booked[o],
         \A k \in OrderKeys(o) : k \in posted' => k \in posted
  PROVE  OrderOK(o)'
BY DEF OrderOK, OrderKeys

\* The ledger keys of reservations, orders and migrations never collide.
LEMMA KeysApart ==
  /\ \A h \in Holds : \A k \in HoldKeys(h) :
       /\ \A u \in Users : k # <<"migration", u>> /\ k # <<"welcome", u>> /\ k # <<"extra", u>>
       /\ \A o \in Orders : k \notin OrderKeys(o)
       /\ \A g \in Holds \ {h} : k \notin HoldKeys(g)
  /\ \A o \in Orders : \A k \in OrderKeys(o) :
       /\ \A u \in Users : k # <<"migration", u>> /\ k # <<"welcome", u>> /\ k # <<"extra", u>>
       /\ \A p \in Orders \ {o} : k \notin OrderKeys(p)
BY DEF HoldKeys, OrderKeys

\* A step that only opens a wallet (or nothing) beside changing rows of tables
\* other than reservations and orders keeps the invariant.
LEMMA TouchStep ==
  ASSUME IInv, NEW u \in Users, Touch(u), UNCHANGED <<resv, order>>, Tables'
  PROVE  IInv'
<1>1. BooksInv /\ Tables /\ (\A h \in Holds : HoldOK(h)) /\ (\A o \in Orders : OrderOK(o))
  BY Cut
<1>2. /\ BooksInv'
      /\ \A a \in Holds \cup Orders : booked'[a] = booked[a]
      /\ posted' \subseteq posted \cup {<<"migration", u>>}
  BY <1>1, TouchBooks
<1>3. \A h \in Holds : HoldOK(h)'
  BY <1>1, <1>2, HoldFrame, KeysApart
<1>4. \A o \in Orders : OrderOK(o)'
  BY <1>1, <1>2, OrderFrame, KeysApart
<1> QED BY <1>2, <1>3, <1>4, CutPrime

\* A step that leaves the books, reservations and orders alone keeps it too.
LEMMA QuietStep ==
  ASSUME IInv, UNCHANGED <<wallet, posted, booked, resv>>, Tables',
         \A o \in Orders : \/ order'[o] = order[o]
                           \/ /\ order[o].status \in {"none", "pending"}
                              /\ order'[o].status \in {"pending", "rejected", "cancelled"}
  PROVE  IInv'
<1>1. BooksInv /\ Tables /\ (\A h \in Holds : HoldOK(h)) /\ (\A o \in Orders : OrderOK(o))
  BY Cut
<1>2. BooksInv'
  BY <1>1 DEF BooksInv, CashWithinCredit, WalletMatchesLedger, ClosedIsEmpty
<1>3. \A h \in Holds : HoldOK(h)'
  BY <1>1, HoldFrame
<1>4. ASSUME NEW o \in Orders PROVE OrderOK(o)'
  <2>1. CASE order'[o] = order[o]
    BY <1>1, <2>1, OrderFrame
  <2>2. CASE /\ order[o].status \in {"none", "pending"}
             /\ order'[o].status \in {"pending", "rejected", "cancelled"}
    BY <1>1, <2>2 DEF OrderOK
  <2> QED BY <2>1, <2>2
<1> QED BY <1>2, <1>3, <1>4, CutPrime

\* A step that writes one reservation h, moving the wallet or only opening it,
\* keeps the invariant once the new row of h is right.
LEMMA HoldTouchStep ==
  ASSUME IInv, NEW u \in Users, NEW h \in Holds, NEW row, Touch(u), UNCHANGED order,
         resv' = [resv EXCEPT ![h] = row], Tables',
         Booking(row, booked[h]), Priced(row), HoldKeysOK(h, row)
  PROVE  IInv'
<1>1. BooksInv /\ Tables /\ (\A g \in Holds : HoldOK(g)) /\ (\A o \in Orders : OrderOK(o))
  BY Cut
<1>2. /\ BooksInv'
      /\ \A a \in Holds \cup Orders : booked'[a] = booked[a]
      /\ posted' \subseteq posted \cup {<<"migration", u>>}
  BY <1>1, TouchBooks
<1>3. resv'[h] = row /\ \A g \in Holds \ {h} : resv'[g] = resv[g]
  BY <1>1 DEF Tables
<1>4. \A g \in Holds \ {h} : HoldOK(g)'
  BY <1>1, <1>2, <1>3, HoldFrame, KeysApart
<1>5. HoldKeysOK(h, row)'
  <2>1. \A k \in HoldKeys(h) : k \in posted' => k \in posted
    BY <1>2, KeysApart
  <2> QED BY <1>3, <2>1 DEF HoldKeysOK, HoldKeys
<1>6. HoldOK(h)'
  BY <1>2, <1>3, <1>5 DEF HoldOK, Booking, Priced, Taken, HoldKeysOK
<1>7. \A o \in Orders : OrderOK(o)'
  BY <1>1, <1>2, OrderFrame, KeysApart
<1> QED BY <1>2, <1>4, <1>6, <1>7, CutPrime

LEMMA HoldMoveStep ==
  ASSUME IInv, NEW u \in Users, NEW h \in Holds, NEW row, NEW key \in HoldKeys(h),
         NEW credit \in Int, NEW cash \in Int, key \notin posted,
         EnsureWallet(u).cash + cash >= 0,
         EnsureWallet(u).cash + cash <= EnsureWallet(u).credit + credit,
         Move(u, key, {u, h}, credit, cash), UNCHANGED order,
         resv' = [resv EXCEPT ![h] = row], Tables',
         Booking(row, [credit |-> booked[h].credit + credit, cash |-> booked[h].cash + cash]),
         Priced(row),
         HoldKeysOK(h, row), row.status # "none",
         key = <<"settle_refund", h>> => row.status = "settled",
         key = <<"release", h>> => row.status = "released",
         key = <<"cash_refund", h>> => row.status = "settled" /\ row.refunded = row.sCash
  PROVE  IInv'
<1>1. BooksInv /\ Tables /\ (\A g \in Holds : HoldOK(g)) /\ (\A o \in Orders : OrderOK(o))
  BY Cut
<1>2. \A v \in Users : key # <<"migration", v>>
  BY KeysApart
<1>3. /\ BooksInv'
      /\ booked'[h] = [credit |-> booked[h].credit + credit, cash |-> booked[h].cash + cash]
      /\ \A a \in (Holds \cup Orders) \ {h} : booked'[a] = booked[a]
      /\ posted' \subseteq posted \cup {<<"migration", u>>, key}
  BY <1>1, <1>2, MoveBooks
<1>4. resv'[h] = row /\ \A g \in Holds \ {h} : resv'[g] = resv[g]
  BY <1>1 DEF Tables
<1>5. \A g \in Holds \ {h} : HoldOK(g)'
  BY <1>1, <1>3, <1>4, HoldFrame, KeysApart
<1>6. \A k \in HoldKeys(h) : k \in posted' => k \in posted \/ k = key
  BY <1>3, KeysApart
<1>7. HoldKeysOK(h, row)'
  BY <1>4, <1>6 DEF HoldKeysOK, HoldKeys
<1>8. HoldOK(h)'
  BY <1>3, <1>4, <1>7 DEF HoldOK, Booking, Priced, Taken, HoldKeysOK
<1>9. \A o \in Orders : OrderOK(o)'
  <2> SUFFICES ASSUME NEW o \in Orders PROVE OrderOK(o)'
    OBVIOUS
  <2>1. booked'[o] = booked[o]
    BY <1>3, AccountSets
  <2>2. \A k \in OrderKeys(o) : k \in posted' => k \in posted
    BY <1>3, KeysApart
  <2> QED BY <1>1, <2>1, <2>2, OrderFrame
<1> QED BY <1>3, <1>5, <1>8, <1>9, CutPrime

-----------------------------------------------------------------------------
(* Steps that write one reservation *)

\* The new row of a reservation is put into a table of the right type.
LEMMA TablesWithHold ==
  ASSUME Tables, NEW h \in Holds, NEW row \in ReservationRow,
         resv' = [resv EXCEPT ![h] = row], UNCHANGED <<now, order, sub, period>>,
         grant' \in [Grants -> GrantRow]
  PROVE  Tables'
BY DEF Tables

\* HoldPoints takes a hold the wallet can bear.
LEMMA HoldPointsStep ==
  ASSUME IInv, NEW u \in Users, NEW h \in Holds, NEW row \in ReservationRow,
         NEW credit \in Nat, NEW cash \in Nat,
         resv[h].status = "none", row.status = "held", row.credit = credit, row.cash = cash,
         row.sCredit = 0, row.sCash = 0, row.refunded = 0,
         Priced(row),
         credit <= EnsureWallet(u).credit, cash <= EnsureWallet(u).cash,
         EnsureWallet(u).cash - cash <= EnsureWallet(u).credit - credit,
         IF credit > 0 THEN Move(u, <<"hold", h>>, {u, h}, -credit, -cash) ELSE Touch(u),
         resv' = [resv EXCEPT ![h] = row],
         UNCHANGED <<now, order, sub, period>>, grant' \in [Grants -> GrantRow]
  PROVE  IInv'
<1>1. BooksInv /\ Tables /\ HoldOK(h)
  BY Cut
<1>2. Tables'
  BY <1>1, TablesWithHold
<1>3. resv[h] \in ReservationRow
  BY <1>1 DEF Tables
<1>4. /\ booked[h] = Zero
      /\ <<"hold", h>> \notin posted /\ <<"settle_refund", h>> \notin posted
      /\ <<"release", h>> \notin posted /\ <<"cash_refund", h>> \notin posted
  BY <1>1 DEF HoldOK, Booking, HoldKeysOK, Taken
<1>5. HoldKeysOK(h, row)
  BY <1>4 DEF HoldKeysOK
<1>6. EnsureWallet(u) \in WalletRow
  BY <1>1, EnsureBooks
<1>7. EnsureWallet(u).credit \in Nat /\ EnsureWallet(u).cash \in Nat
  BY <1>6 DEF WalletRow
<1>8. Taken(row) = [credit |-> -credit, cash |-> -cash]
  BY DEF Taken
<1>9. CASE credit > 0
  <2>1. Move(u, <<"hold", h>>, {u, h}, -credit, -cash)
    BY <1>9
  <2>2. Booking(row, [credit |-> booked[h].credit + (-credit), cash |-> booked[h].cash + (-cash)])
    BY <1>4, <1>8 DEF Booking, Zero
  <2>3. <<"hold", h>> \in HoldKeys(h)
    BY DEF HoldKeys
  <2>4. /\ EnsureWallet(u).cash + (-cash) >= 0
        /\ EnsureWallet(u).cash + (-cash) <= EnsureWallet(u).credit + (-credit)
    BY <1>7
  <2>5. -credit \in Int /\ -cash \in Int
    OBVIOUS
  <2>6. /\ <<"hold", h>> # <<"settle_refund", h>> /\ <<"hold", h>> # <<"release", h>>
        /\ <<"hold", h>> # <<"cash_refund", h>> /\ row.status # "none"
    OBVIOUS
  <2> QED BY <1>2, <1>4, <1>5, <2>1, <2>2, <2>3, <2>4, <2>5, <2>6, HoldMoveStep
<1>10. CASE ~(credit > 0)
  <2>1. credit = 0 /\ cash = 0 /\ Touch(u)
    BY <1>10 DEF Priced
  <2>2. Booking(row, booked[h])
    BY <1>4, <1>8, <2>1 DEF Booking, Zero
  <2> QED BY <1>2, <1>5, <2>1, <2>2, HoldTouchStep
<1> QED BY <1>9, <1>10

\* The cash part of a hold never exceeds the cash, and never leaves more cash
\* than points.
LEMMA CashPartBounds ==
  ASSUME NEW w \in WalletRow, NEW credit \in Nat, w.cash <= w.credit, credit <= w.credit
  PROVE  /\ CashPart(w, credit) \in Nat
         /\ CashPart(w, credit) <= w.cash /\ CashPart(w, credit) <= credit
         /\ w.cash - CashPart(w, credit) <= w.credit - credit
<1>1. w.credit \in Nat /\ w.cash \in Nat
  BY DEF WalletRow
<1> QED BY <1>1 DEF CashPart, Most

\* Every way to reserve keeps the invariant.
LEMMA ReserveWaivedStep ==
  ASSUME IInv, NEW h \in Holds, NEW u \in Users, NEW kind \in {"rate", "image", "exact"},
         NEW qty \in Nat, NEW rate \in Nat, ReserveWaived(h, u, kind, qty, rate)
  PROVE  IInv'
<1> DEFINE row == [Unused EXCEPT !.status = "waived", !.user = u, !.kind = kind,
                                 !.qty = qty, !.rate = rate]
<1>1. BooksInv /\ Tables /\ HoldOK(h)
  BY Cut
<1>2. row = [Unused EXCEPT !.status = "waived", !.user = u, !.kind = kind,
                           !.qty = qty, !.rate = rate]
  OBVIOUS
<1>3. /\ resv[h].status = "none" /\ Touch(u) /\ resv' = [resv EXCEPT ![h] = row]
      /\ UNCHANGED <<now, grant, order, sub, period>>
  BY DEF ReserveWaived, entitlements
<1>4. /\ row \in ReservationRow /\ row.status = "waived" /\ row.credit = 0 /\ row.cash = 0
      /\ row.sCredit = 0 /\ row.sCash = 0 /\ row.refunded = 0
  BY DEF Unused, ReservationRow, NoTake
<1> HIDE DEF row
<1>5. Tables'
  BY <1>1, <1>3, <1>4, TablesWithHold DEF Tables
<1>6. booked[h] = Zero /\ HoldKeysOK(h, row)
  BY <1>1, <1>3, <1>4 DEF HoldOK, Booking, Taken, HoldKeysOK
<1>7. Booking(row, booked[h]) /\ Priced(row)
  BY <1>4, <1>6 DEF Booking, Taken, Priced
<1> QED BY <1>3, <1>5, <1>6, <1>7, HoldTouchStep

LEMMA ReserveUnlimitedStep ==
  ASSUME IInv, NEW h \in Holds, NEW u \in Users, NEW qty \in Nat, NEW rate \in Nat,
         ReserveUnlimited(h, u, qty, rate)
  PROVE  IInv'
<1> DEFINE row == [Unused EXCEPT !.status = "held", !.user = u, !.kind = "unlimited",
                                 !.qty = qty, !.rate = rate]
<1>1. BooksInv /\ Tables /\ HoldOK(h)
  BY Cut
<1>2. /\ resv[h].status = "none" /\ Touch(u) /\ resv' = [resv EXCEPT ![h] = row]
      /\ UNCHANGED <<now, grant, order, sub, period>>
  BY DEF ReserveUnlimited, entitlements
<1>3. /\ row \in ReservationRow /\ row.status = "held" /\ row.kind = "unlimited"
      /\ row.credit = 0 /\ row.cash = 0 /\ row.images = 0 /\ row.qty = qty
      /\ row.sCredit = 0 /\ row.sCash = 0 /\ row.refunded = 0
  BY DEF Unused, ReservationRow, NoTake
<1> HIDE DEF row
<1>4. Tables'
  BY <1>1, <1>2, <1>3, TablesWithHold DEF Tables
<1>5. booked[h] = Zero /\ HoldKeysOK(h, row)
  BY <1>1, <1>2, <1>3 DEF HoldOK, Booking, Taken, HoldKeysOK
<1>6. Priced(row)
  BY <1>3 DEF Priced
<1>7. Booking(row, booked[h])
  BY <1>3, <1>5 DEF Booking, Taken, Zero
<1> QED BY <1>2, <1>4, <1>5, <1>6, <1>7, HoldTouchStep

LEMMA ReserveChargeStep ==
  ASSUME IInv, NEW h \in Holds, NEW u \in Users, NEW qty \in Nat, NEW rate \in Nat,
         ReserveCharge(h, u, qty, rate)
  PROVE  IInv'
<1> DEFINE w == EnsureWallet(u)
           credit == qty * rate
           cash == CashPart(w, credit)
           base == [Unused EXCEPT !.status = "held", !.user = u, !.qty = qty, !.rate = rate]
           row == [base EXCEPT !.credit = credit, !.cash = cash]
<1>1. BooksInv /\ Tables
  BY Cut
<1>2. w \in WalletRow /\ w.cash <= w.credit /\ w.credit \in Nat /\ w.cash \in Nat
  BY <1>1, EnsureBooks DEF WalletRow
<1>3. /\ resv[h].status = "none" /\ credit <= w.credit
      /\ IF credit > 0 THEN Move(u, <<"hold", h>>, {u, h}, -credit, -cash) ELSE Touch(u)
      /\ resv' = [resv EXCEPT ![h] = row]
      /\ UNCHANGED <<now, grant, order, sub, period>>
  BY <1>2 DEF ReserveCharge, HoldPoints, entitlements, Affordable
<1>4. credit \in Nat
  OBVIOUS
<1>5. /\ cash \in Nat /\ cash <= w.cash /\ cash <= credit
      /\ w.cash - cash <= w.credit - credit
  BY <1>2, <1>3, <1>4, CashPartBounds
<1>6. /\ row \in ReservationRow /\ row.status = "held" /\ row.kind = "rate"
      /\ row.credit = credit /\ row.cash = cash /\ row.images = 0 /\ row.qty = qty
      /\ row.rate = rate /\ row.sCredit = 0 /\ row.sCash = 0 /\ row.refunded = 0
  BY <1>4, <1>5 DEF Unused, ReservationRow, NoTake
<1>7. qty - 0 = qty
  OBVIOUS
<1> HIDE DEF row, cash, w
<1>8. Priced(row)
  BY <1>5, <1>6, <1>7 DEF Priced
<1>9. grant' \in [Grants -> GrantRow]
  BY <1>1, <1>3 DEF Tables
<1> HIDE DEF credit
<1> QED BY <1>3, <1>4, <1>5, <1>6, <1>8, <1>9, HoldPointsStep DEF w

LEMMA ReserveExactCashStep ==
  ASSUME IInv, NEW h \in Holds, NEW u \in Users, NEW amount \in Nat,
         ReserveExactCash(h, u, amount)
  PROVE  IInv'
<1> DEFINE w == EnsureWallet(u)
           base == [Unused EXCEPT !.status = "held", !.user = u, !.kind = "exact",
                                  !.qty = 1, !.rate = amount]
           row == [base EXCEPT !.credit = amount, !.cash = amount]
<1>1. BooksInv /\ Tables
  BY Cut
<1>2. w \in WalletRow /\ w.cash <= w.credit /\ w.credit \in Nat /\ w.cash \in Nat
  BY <1>1, EnsureBooks DEF WalletRow
<1>3. /\ resv[h].status = "none" /\ amount <= w.credit /\ amount <= w.cash
      /\ IF amount > 0 THEN Move(u, <<"hold", h>>, {u, h}, -amount, -amount) ELSE Touch(u)
      /\ resv' = [resv EXCEPT ![h] = row]
      /\ UNCHANGED <<now, grant, order, sub, period>>
  BY <1>2 DEF ReserveExactCash, HoldPoints, entitlements, Affordable
<1>4. /\ row \in ReservationRow /\ row.status = "held" /\ row.kind = "exact"
      /\ row.credit = amount /\ row.cash = amount /\ row.images = 0 /\ row.qty = 1
      /\ row.rate = amount /\ row.sCredit = 0 /\ row.sCash = 0 /\ row.refunded = 0
  BY DEF Unused, ReservationRow, NoTake
<1>5. amount = (1 - 0) * amount /\ w.cash - amount <= w.credit - amount
  BY <1>2
<1> HIDE DEF row, w
<1>6. Priced(row)
  BY <1>4, <1>5 DEF Priced
<1>7. grant' \in [Grants -> GrantRow]
  BY <1>1, <1>3 DEF Tables
<1> QED BY <1>3, <1>4, <1>5, <1>6, <1>7, HoldPointsStep DEF w

\* Counts only builds image counts.
LEMMA CountsType ==
  ASSUME NEW S \in SUBSET Grants, NEW n \in Nat, NEW f \in Counts(S, n)
  PROVE  f \in [Grants -> Nat]
<1>1. PICK c \in [S -> 0 .. n] : f = [g \in Grants |-> IF g \in S THEN c[g] ELSE 0]
  BY DEF Counts
<1>2. \A g \in S : c[g] \in Nat
  BY <1>1
<1> QED BY <1>1, <1>2

LEMMA ReserveImagesStep ==
  ASSUME IInv, NEW h \in Holds, NEW u \in Users, NEW qty \in Nat, NEW rate \in Nat,
         ReserveImages(h, u, qty, rate)
  PROVE  IInv'
<1> DEFINE w == EnsureWallet(u)
<1>1. BooksInv /\ Tables
  BY Cut
<1>2. w \in WalletRow /\ w.cash <= w.credit /\ w.credit \in Nat /\ w.cash \in Nat
  BY <1>1, EnsureBooks DEF WalletRow
<1>3. PICK free \in 0 .. qty, take \in Counts(Usable(u), qty) :
        /\ IsDraw(u, qty, take, free)
        /\ Affordable(w, (qty - free) * rate)
        /\ HoldPoints(h, u, [Unused EXCEPT !.status = "held", !.user = u, !.kind = "image",
                                !.qty = qty, !.rate = rate, !.images = free, !.take = take],
                      (qty - free) * rate, CashPart(w, (qty - free) * rate))
        /\ grant' = [g \in Grants |-> [grant[g] EXCEPT !.left = @ - take[g]]]
  BY DEF ReserveImages
<1> DEFINE credit == (qty - free) * rate
           cash == CashPart(w, credit)
           base == [Unused EXCEPT !.status = "held", !.user = u, !.kind = "image",
                                  !.qty = qty, !.rate = rate, !.images = free, !.take = take]
           row == [base EXCEPT !.credit = credit, !.cash = cash]
<1>4. /\ resv[h].status = "none" /\ credit <= w.credit
      /\ IF credit > 0 THEN Move(u, <<"hold", h>>, {u, h}, -credit, -cash) ELSE Touch(u)
      /\ resv' = [resv EXCEPT ![h] = row]
      /\ UNCHANGED <<now, order, sub, period>>
  <2>1. credit <= w.credit
    <3>1. credit \in Int
      OBVIOUS
    <3> QED BY <1>2, <1>3, <3>1 DEF Affordable
  <2> QED BY <1>3, <2>1 DEF ReserveImages, HoldPoints
<1>5. credit \in Nat
  <2>1. qty - free \in Nat
    OBVIOUS
  <2> QED BY <2>1
<1>6. take \in [Grants -> Nat]
  <2>1. Usable(u) \in SUBSET Grants
    BY DEF Usable
  <2> QED BY <2>1, CountsType
<1>7. /\ cash \in Nat /\ cash <= w.cash /\ cash <= credit
      /\ w.cash - cash <= w.credit - credit
  BY <1>2, <1>4, <1>5, CashPartBounds
<1> HIDE DEF credit, cash, w
<1>8. /\ row \in ReservationRow /\ row.status = "held" /\ row.kind = "image"
      /\ row.credit = credit /\ row.cash = cash /\ row.images = free /\ row.qty = qty
      /\ row.rate = rate /\ row.sCredit = 0 /\ row.sCash = 0 /\ row.refunded = 0
  BY <1>5, <1>6, <1>7, free \in Nat DEF Unused, ReservationRow, NoTake
<1>9. grant' \in [Grants -> GrantRow]
  <2>1. ASSUME NEW g \in Grants PROVE [grant[g] EXCEPT !.left = @ - take[g]] \in GrantRow
    <3>1. grant[g] \in GrantRow /\ take[g] \in Nat
      BY <1>1, <1>6 DEF Tables
    <3>2. take[g] <= grant[g].left
      BY <1>3, <3>1 DEF IsDraw, GrantRow
    <3>3. grant[g].left - take[g] \in Nat
      BY <3>1, <3>2 DEF GrantRow
    <3> QED BY <3>1, <3>3 DEF GrantRow
  <2> QED BY <1>3, <2>1
<1>10. free <= qty /\ credit = (qty - free) * rate
  BY DEF credit
<1> HIDE DEF row
<1>11. Priced(row)
  BY <1>7, <1>8, <1>10 DEF Priced
<1> QED BY <1>4, <1>5, <1>7, <1>8, <1>9, <1>11, HoldPointsStep DEF w

-----------------------------------------------------------------------------
(* Steps that finish a reservation *)

\* Fewer pieces at the same rate cost no more.
LEMMA Monotone ==
  ASSUME NEW a \in Nat, NEW b \in Nat, NEW c \in Nat, a <= b
  PROVE  a * c <= b * c /\ a * c \in Nat
<1>1. (b - a) * c \in Nat
  BY SMT
<1>2. b * c = a * c + (b - a) * c
  BY SMT
<1>3. a * c \in Nat
  BY SMT
<1> QED BY <1>1, <1>2, <1>3

\* Settling charges no more than was held, in both columns, and what comes
\* back never raises cash above points.
LEMMA SettleBounds ==
  ASSUME NEW r \in ReservationRow, NEW actual \in 0 .. r.qty, Priced(r),
         r.status = "held", r.kind # "unlimited"
  PROVE  /\ SettledImages(r, actual) \in Nat /\ SettledImages(r, actual) <= r.images
         /\ SettledCredit(r, actual) \in Nat /\ SettledCredit(r, actual) <= r.credit
         /\ SettledCash(r, actual) \in Nat /\ SettledCash(r, actual) <= r.cash
         /\ r.cash - SettledCash(r, actual) <= r.credit - SettledCredit(r, actual)
<1>1. /\ r.qty \in Nat /\ r.images \in Nat /\ r.rate \in Nat /\ r.credit \in Nat /\ r.cash \in Nat
      /\ r.images <= r.qty /\ r.cash <= r.credit /\ actual \in Nat /\ actual <= r.qty
      /\ r.credit = (r.qty - r.images) * r.rate
      /\ r.kind # "image" => r.images = 0
  BY DEF Priced, ReservationRow
<1> DEFINE images == SettledImages(r, actual)
<1>2. images \in Nat /\ images <= r.images /\ actual - images \in Nat
      /\ actual - images <= r.qty - r.images
  BY <1>1 DEF SettledImages, Least
<1>3. r.qty - r.images \in Nat
  BY <1>1
<1> HIDE DEF images
<1>4. (actual - images) * r.rate <= (r.qty - r.images) * r.rate /\ (actual - images) * r.rate \in Nat
  BY <1>1, <1>2, <1>3, Monotone
<1>5. SettledCredit(r, actual) \in Nat /\ SettledCredit(r, actual) <= r.credit
  BY <1>1, <1>4 DEF SettledCredit, images
<1>6. /\ SettledCash(r, actual) \in Nat /\ SettledCash(r, actual) <= r.cash
      /\ r.cash - SettledCash(r, actual) <= r.credit - SettledCredit(r, actual)
  BY <1>1, <1>5 DEF SettledCash, Most
<1> QED BY <1>2, <1>5, <1>6 DEF images

\* Restored grants are still grants.
LEMMA RestoreType ==
  ASSUME Tables, NEW take \in [Grants -> Nat], NEW n \in Nat,
         NEW back \in Counts({g \in Grants : take[g] > 0}, n)
  PROVE  RestoreGrants(back) \in [Grants -> GrantRow]
<1>1. back \in [Grants -> Nat]
  BY CountsType
<1>2. ASSUME NEW g \in Grants
      PROVE  [grant[g] EXCEPT !.left = Least(grant[g].total, @ + back[g])] \in GrantRow
  <2>1. grant[g] \in GrantRow /\ back[g] \in Nat
    BY <1>1 DEF Tables
  <2>2. Least(grant[g].total, grant[g].left + back[g]) \in Nat
    BY <2>1 DEF Least, GrantRow
  <2> QED BY <2>1, <2>2 DEF GrantRow
<1> QED BY <1>2 DEF RestoreGrants

LEMMA SettleUnlimitedStep ==
  ASSUME IInv, NEW h \in Holds, SettleUnlimited(h)
  PROVE  IInv'
<1> DEFINE row == [resv[h] EXCEPT !.status = "settled"]
<1>1. BooksInv /\ Tables /\ HoldOK(h) /\ resv[h] \in ReservationRow
  BY Cut DEF Tables
<1>2. /\ resv[h].status = "held" /\ resv[h].kind = "unlimited" /\ Touch(resv[h].user)
      /\ resv' = [resv EXCEPT ![h] = row]
      /\ UNCHANGED <<now, grant, order, sub, period>>
  BY DEF SettleUnlimited, entitlements, IsHeld
<1>3. /\ row \in ReservationRow /\ row.status = "settled" /\ row.credit = resv[h].credit
      /\ row.cash = resv[h].cash /\ row.sCredit = resv[h].sCredit
      /\ row.sCash = resv[h].sCash /\ row.refunded = resv[h].refunded
  BY <1>1 DEF ReservationRow
<1>4. /\ resv[h].credit = 0 /\ resv[h].cash = 0 /\ resv[h].sCredit = 0
      /\ resv[h].sCash = 0 /\ resv[h].refunded = 0
  BY <1>1, <1>2 DEF HoldOK, Priced, ReservationRow
<1> HIDE DEF row
<1>5. Tables'
  BY <1>1, <1>2, <1>3, TablesWithHold DEF Tables
<1>6. HoldKeysOK(h, row) /\ Priced(row)
  BY <1>1, <1>2, <1>3 DEF HoldOK, HoldKeysOK, Priced
<1>7. Booking(row, booked[h])
  BY <1>1, <1>2, <1>3, <1>4 DEF HoldOK, Booking, Taken
<1>8. resv[h].user \in Users
  BY <1>1 DEF ReservationRow
<1> QED BY <1>2, <1>5, <1>6, <1>7, <1>8, HoldTouchStep

LEMMA SettleReservationStep ==
  ASSUME IInv, NEW h \in Holds, NEW actual \in Nat, SettleReservation(h, actual)
  PROVE  IInv'
<1> DEFINE r == resv[h]
           images == SettledImages(r, actual)
           credit == SettledCredit(r, actual)
           cash == SettledCash(r, actual)
           row == [r EXCEPT !.status = "settled", !.sCredit = credit, !.sCash = cash,
                            !.sImages = images]
           u == r.user
<1>1. BooksInv /\ Tables /\ HoldOK(h) /\ r \in ReservationRow
  BY Cut DEF Tables
<1>2. /\ r.status = "held" /\ r.kind # "unlimited" /\ actual \in 0 .. r.qty
      /\ IF Most(r.credit - credit, 0) > 0
         THEN Move(u, <<"settle_refund", h>>, {u, h}, Most(r.credit - credit, 0),
                   Most(r.cash - cash, 0))
         ELSE Touch(u)
      /\ resv' = [resv EXCEPT ![h] = row]
      /\ UNCHANGED <<now, order, sub, period>>
  BY DEF SettleReservation, IsHeld
<1>3. grant' \in [Grants -> GrantRow]
  <2>1. r.take \in [Grants -> Nat] /\ r.images \in Nat
    BY <1>1 DEF ReservationRow
  <2>2. \E back \in Counts({g \in Grants : r.take[g] > 0}, r.images) :
          grant' = RestoreGrants(back)
    BY DEF SettleReservation
  <2> QED BY <1>1, <2>1, <2>2, RestoreType
<1>4. /\ images \in Nat /\ credit \in Nat /\ credit <= r.credit
      /\ cash \in Nat /\ cash <= r.cash /\ r.cash - cash <= r.credit - credit
  BY <1>1, <1>2, SettleBounds DEF HoldOK
<1>5. r.credit \in Nat /\ r.cash \in Nat /\ u \in Users
  BY <1>1 DEF ReservationRow
<1>6. /\ r.sCredit = 0 /\ r.sCash = 0 /\ r.refunded = 0
      /\ booked[h] = [credit |-> -r.credit, cash |-> -r.cash]
  BY <1>1, <1>2 DEF HoldOK, Booking, Priced, Taken
<1>7. /\ <<"settle_refund", h>> \notin posted /\ <<"release", h>> \notin posted
      /\ <<"cash_refund", h>> \notin posted
  BY <1>1, <1>2 DEF HoldOK, HoldKeysOK
<1>8. EnsureWallet(u) \in WalletRow /\ EnsureWallet(u).cash <= EnsureWallet(u).credit
  BY <1>1, <1>5, EnsureBooks
<1>9. EnsureWallet(u).cash \in Nat /\ EnsureWallet(u).credit \in Nat
  BY <1>8 DEF WalletRow
<1> HIDE DEF images, credit, cash, u
<1>10. /\ row \in ReservationRow /\ row.status = "settled" /\ row.credit = r.credit
       /\ row.cash = r.cash /\ row.sCredit = credit /\ row.sCash = cash
       /\ row.refunded = 0
  BY <1>1, <1>4, <1>6 DEF ReservationRow
<1> HIDE DEF row, r
<1>11. Tables'
  BY <1>1, <1>2, <1>3, <1>10, TablesWithHold
<1>12. HoldKeysOK(h, row) /\ Priced(row)
  BY <1>7, <1>10 DEF HoldKeysOK, Priced
<1>13. Taken(row) = [credit |-> 0 - credit, cash |-> 0 - cash]
  BY <1>10 DEF Taken
<1>14. CASE r.credit - credit > 0
  <2>1. Most(r.credit - credit, 0) = r.credit - credit /\ Most(r.cash - cash, 0) = r.cash - cash
    BY <1>4, <1>5, <1>14 DEF Most
  <2>2. Move(u, <<"settle_refund", h>>, {u, h}, r.credit - credit, r.cash - cash)
    BY <1>2, <1>14, <2>1
  <2>3. Booking(row, [credit |-> booked[h].credit + (r.credit - credit),
                      cash |-> booked[h].cash + (r.cash - cash)])
    BY <1>4, <1>5, <1>6, <1>10, <1>13 DEF Booking
  <2>4. /\ <<"settle_refund", h>> \in HoldKeys(h)
        /\ <<"settle_refund", h>> # <<"release", h>>
        /\ <<"settle_refund", h>> # <<"cash_refund", h>>
    BY DEF HoldKeys
  <2>5. /\ r.credit - credit \in Int /\ r.cash - cash \in Int
        /\ EnsureWallet(u).cash + (r.cash - cash) >= 0
        /\ EnsureWallet(u).cash + (r.cash - cash) <= EnsureWallet(u).credit + (r.credit - credit)
    BY <1>4, <1>5, <1>8, <1>9
  <2>6. row.status # "none" /\ row.status = "settled"
    BY <1>10
  <2> QED BY <1>2, <1>5, <1>7, <1>11, <1>12, <2>2, <2>3, <2>4, <2>5, <2>6, HoldMoveStep
<1>15. CASE ~(r.credit - credit > 0)
  <2>1. r.credit = credit /\ r.cash = cash
    BY <1>4, <1>5, <1>15
  <2>2. Touch(u)
    BY <1>2, <1>4, <1>5, <1>15 DEF Most
  <2>3. Booking(row, booked[h])
    BY <1>4, <1>5, <1>6, <1>10, <1>13, <2>1 DEF Booking
  <2> QED BY <1>2, <1>5, <1>11, <1>12, <2>2, <2>3, HoldTouchStep
<1> QED BY <1>14, <1>15

LEMMA ReleaseReservationStep ==
  ASSUME IInv, NEW h \in Holds, ReleaseReservation(h)
  PROVE  IInv'
<1> DEFINE r == resv[h]
           row == [r EXCEPT !.status = "released"]
           u == r.user
<1>1. BooksInv /\ Tables /\ HoldOK(h) /\ r \in ReservationRow
  BY Cut DEF Tables
<1>2. /\ r.status = "held"
      /\ IF r.credit > 0 THEN Move(u, <<"release", h>>, {u, h}, r.credit, r.cash) ELSE Touch(u)
      /\ resv' = [resv EXCEPT ![h] = row]
      /\ UNCHANGED <<now, order, sub, period>>
  BY DEF ReleaseReservation, IsHeld
<1>3. grant' \in [Grants -> GrantRow]
  <2>1. r.take \in [Grants -> Nat] /\ r.images \in Nat
    BY <1>1 DEF ReservationRow
  <2>2. \E back \in Counts({g \in Grants : r.take[g] > 0}, r.images) :
          grant' = RestoreGrants(back)
    BY DEF ReleaseReservation
  <2> QED BY <1>1, <2>1, <2>2, RestoreType
<1>4. r.credit \in Nat /\ r.cash \in Nat /\ u \in Users
  BY <1>1 DEF ReservationRow
<1>5. /\ r.sCredit = 0 /\ r.sCash = 0 /\ r.refunded = 0 /\ r.cash <= r.credit
      /\ booked[h] = [credit |-> -r.credit, cash |-> -r.cash]
  BY <1>1, <1>2 DEF HoldOK, Booking, Priced, Taken
<1>6. /\ <<"settle_refund", h>> \notin posted /\ <<"release", h>> \notin posted
      /\ <<"cash_refund", h>> \notin posted
  BY <1>1, <1>2 DEF HoldOK, HoldKeysOK
<1>7. EnsureWallet(u) \in WalletRow /\ EnsureWallet(u).cash <= EnsureWallet(u).credit
  BY <1>1, <1>4, EnsureBooks
<1>8. EnsureWallet(u).cash \in Nat /\ EnsureWallet(u).credit \in Nat
  BY <1>7 DEF WalletRow
<1>9. /\ row \in ReservationRow /\ row.status = "released" /\ row.credit = r.credit
      /\ row.cash = r.cash /\ row.sCredit = 0 /\ row.sCash = 0 /\ row.refunded = 0
  BY <1>1, <1>5 DEF ReservationRow
<1> HIDE DEF row, r, u
<1>10. Tables'
  BY <1>1, <1>2, <1>3, <1>9, TablesWithHold
<1>11. HoldKeysOK(h, row) /\ Priced(row) /\ Taken(row) = Zero
  BY <1>6, <1>9 DEF HoldKeysOK, Priced, Taken
<1>12. CASE r.credit > 0
  <2>1. Booking(row, [credit |-> booked[h].credit + r.credit, cash |-> booked[h].cash + r.cash])
    BY <1>4, <1>5, <1>9, <1>11 DEF Booking, Zero
  <2>2. /\ <<"release", h>> \in HoldKeys(h) /\ <<"release", h>> # <<"settle_refund", h>>
        /\ <<"release", h>> # <<"cash_refund", h>>
    BY DEF HoldKeys
  <2>3. /\ EnsureWallet(u).cash + r.cash >= 0 /\ r.credit \in Int /\ r.cash \in Int
        /\ EnsureWallet(u).cash + r.cash <= EnsureWallet(u).credit + r.credit
    BY <1>4, <1>5, <1>7, <1>8
  <2>4. Move(u, <<"release", h>>, {u, h}, r.credit, r.cash) /\ row.status # "none"
    BY <1>2, <1>9, <1>12
  <2> QED BY <1>2, <1>4, <1>6, <1>9, <1>10, <1>11, <2>1, <2>2, <2>3, <2>4, HoldMoveStep
<1>13. CASE ~(r.credit > 0)
  <2>1. r.credit = 0 /\ r.cash = 0
    BY <1>4, <1>5, <1>13
  <2>2. Booking(row, booked[h])
    BY <1>5, <1>9, <1>11, <2>1 DEF Booking, Zero
  <2> QED BY <1>2, <1>4, <1>10, <1>11, <1>13, <2>2, HoldTouchStep
<1> QED BY <1>12, <1>13

LEMMA RefundExactCashStep ==
  ASSUME IInv, NEW h \in Holds, RefundExactCash(h)
  PROVE  IInv'
<1> DEFINE r == resv[h]
           amount == r.sCash - r.refunded
           row == [r EXCEPT !.refunded = r.sCash]
           u == r.user
<1>1. BooksInv /\ Tables /\ HoldOK(h) /\ r \in ReservationRow
  BY Cut DEF Tables
<1>2. /\ r.credit \in Nat /\ r.cash \in Nat /\ r.sCredit \in Nat /\ r.sCash \in Nat
      /\ r.refunded \in Nat /\ u \in Users
  BY <1>1 DEF ReservationRow
<1>3. /\ r.status = "settled" /\ amount > 0
      /\ Move(u, <<"cash_refund", h>>, {u, h}, amount, amount)
      /\ resv' = [resv EXCEPT ![h] = row]
      /\ UNCHANGED <<now, grant, order, sub, period>>
  <2>1. Most(amount, 0) > 0
    BY DEF RefundExactCash
  <2>2. amount > 0 /\ Most(amount, 0) = amount
    BY <1>2, <2>1 DEF Most
  <2> HIDE DEF amount
  <2> QED BY <2>2 DEF RefundExactCash, entitlements, amount
<1>4. /\ booked[h] = [credit |-> r.refunded - r.sCredit, cash |-> r.refunded - r.sCash]
      /\ r.sCredit <= r.credit /\ r.sCash <= r.cash /\ r.refunded <= r.sCash
  BY <1>1, <1>3 DEF HoldOK, Booking, Taken
<1>5. <<"cash_refund", h>> \notin posted
  BY <1>1, <1>2, <1>3 DEF HoldOK, HoldKeysOK
<1>6. EnsureWallet(u) \in WalletRow /\ EnsureWallet(u).cash <= EnsureWallet(u).credit
  BY <1>1, <1>2, EnsureBooks
<1>7. EnsureWallet(u).cash \in Nat /\ EnsureWallet(u).credit \in Nat
  BY <1>6 DEF WalletRow
<1>8. /\ row \in ReservationRow /\ row.status = "settled" /\ row.credit = r.credit
      /\ row.cash = r.cash /\ row.sCredit = r.sCredit /\ row.sCash = r.sCash
      /\ row.refunded = r.sCash
  BY <1>1, <1>3 DEF ReservationRow
<1>9. HoldKeysOK(h, row) /\ Priced(row)
  BY <1>1, <1>3, <1>8 DEF HoldOK, HoldKeysOK, Priced
<1>10. Taken(row) = [credit |-> r.sCash - r.sCredit, cash |-> r.sCash - r.sCash]
  BY <1>8 DEF Taken
<1>11. Booking(row, [credit |-> booked[h].credit + amount, cash |-> booked[h].cash + amount])
  BY <1>2, <1>4, <1>8, <1>10 DEF Booking
<1>12. Tables'
  BY <1>1, <1>3, <1>8, TablesWithHold DEF Tables
<1>13. /\ amount \in Int /\ EnsureWallet(u).cash + amount >= 0
       /\ EnsureWallet(u).cash + amount <= EnsureWallet(u).credit + amount
  BY <1>2, <1>3, <1>6, <1>7
<1>14. /\ <<"cash_refund", h>> \in HoldKeys(h) /\ <<"cash_refund", h>> # <<"settle_refund", h>>
       /\ <<"cash_refund", h>> # <<"release", h>>
  BY DEF HoldKeys
<1>15. row.status # "none" /\ row.refunded = row.sCash
  BY <1>8
<1> HIDE DEF row, amount, u, r
<1> QED BY <1>2, <1>3, <1>5, <1>8, <1>9, <1>11, <1>12, <1>13, <1>14, <1>15, HoldMoveStep

-----------------------------------------------------------------------------
(* Steps on the wallet alone *)

\* What a step on the wallet of u must show when no reservation or order moves.
LEMMA WalletStepFrame ==
  ASSUME IInv, BooksInv', UNCHANGED <<now, resv, grant, order, sub, period>>,
         \A a \in Holds \cup Orders : booked'[a] = booked[a],
         NEW u \in Users,
         posted' \subseteq posted \cup {<<"migration", u>>, <<"welcome", u>>, <<"extra", u>>}
  PROVE  IInv'
<1>1. Tables /\ (\A h \in Holds : HoldOK(h)) /\ (\A o \in Orders : OrderOK(o))
  BY Cut
<1>2. Tables'
  BY <1>1 DEF Tables
<1>3. \A h \in Holds : HoldOK(h)'
  BY <1>1, HoldFrame, KeysApart
<1>4. \A o \in Orders : OrderOK(o)'
  BY <1>1, OrderFrame, KeysApart
<1> QED BY <1>2, <1>3, <1>4, CutPrime

LEMMA InitializeWalletStep ==
  ASSUME IInv, NEW u \in Users, NEW extra \in Nat, InitializeWallet(u, extra)
  PROVE  IInv'
<1> DEFINE w == IF wallet[u].open THEN wallet[u] ELSE [Closed EXCEPT !.open = TRUE]
           welcome == IF <<"welcome", u>> \in posted THEN 0 ELSE Welcome
           more == IF extra = 0 \/ <<"extra", u>> \in posted THEN 0 ELSE extra
           credit == w.credit + welcome + more
<1>1. BooksInv
  BY Cut
<1>2. welcome \in Nat /\ more \in Nat
  BY BillingConstants
<1>3. /\ w \in WalletRow /\ w.open /\ w.cash <= w.credit
      /\ w.credit = wallet[u].credit /\ w.cash = wallet[u].cash
  <2>1. wallet[u] \in WalletRow /\ wallet[u].cash <= wallet[u].credit
    BY <1>1 DEF BooksInv, CashWithinCredit
  <2>2. ~wallet[u].open => wallet[u].credit = 0 /\ wallet[u].cash = 0
    BY <1>1 DEF BooksInv, ClosedIsEmpty
  <2> QED BY <2>1, <2>2 DEF Closed, WalletRow
<1>4. booked[u] = [credit |-> w.credit, cash |-> w.cash] /\ u \in Accounts
  BY <1>1, <1>3, AccountSets DEF BooksInv, WalletMatchesLedger
<1>5. /\ wallet' = [wallet EXCEPT ![u] = [w EXCEPT !.credit = credit, !.cash = Least(w.cash, credit)]]
      /\ booked' = [booked EXCEPT ![u] = [booked[u] EXCEPT !.credit = booked[u].credit + welcome + more]]
      /\ posted' \subseteq posted \cup {<<"migration", u>>, <<"welcome", u>>, <<"extra", u>>}
      /\ UNCHANGED <<now, resv, grant, order, sub, period>>
  BY DEF InitializeWallet, entitlements
<1> HIDE DEF w, welcome, more
<1>6. w.credit \in Nat /\ w.cash \in Nat /\ credit \in Nat /\ Least(w.cash, credit) = w.cash
  <2>1. w.credit \in Nat /\ w.cash \in Nat
    BY <1>3 DEF WalletRow
  <2> QED BY <1>2, <1>3, <2>1 DEF Least
<1>7. /\ wallet'[u] \in WalletRow /\ wallet'[u].open
      /\ wallet'[u].credit = credit /\ wallet'[u].cash = w.cash
  <2>1. wallet'[u] = [w EXCEPT !.credit = credit, !.cash = w.cash]
    BY <1>1, <1>5, <1>6 DEF BooksInv
  <2> QED BY <1>3, <1>6, <2>1 DEF WalletRow
<1>8. wallet' \in [Users -> WalletRow] /\ \A v \in Users \ {u} : wallet'[v] = wallet[v]
  BY <1>1, <1>5, <1>7 DEF BooksInv
<1>9. booked'[u] = [credit |-> credit, cash |-> w.cash]
  BY <1>1, <1>4, <1>5 DEF BooksInv
<1>10. \A a \in Accounts \ {u} : booked'[a] = booked[a]
  BY <1>1, <1>5 DEF BooksInv
<1>11. booked' \in [Accounts -> Amount]
  <2>1. booked'[u] \in Amount
    BY <1>6, <1>9 DEF Amount
  <2> QED BY <1>1, <1>5, <2>1 DEF BooksInv
<1>12. CashWithinCredit'
  BY <1>1, <1>2, <1>3, <1>6, <1>7, <1>8 DEF BooksInv, CashWithinCredit
<1>13. WalletMatchesLedger'
  BY <1>1, <1>7, <1>8, <1>9, <1>10, AccountSets DEF BooksInv, WalletMatchesLedger
<1>14. ClosedIsEmpty'
  BY <1>1, <1>5, <1>7, <1>8 DEF BooksInv, ClosedIsEmpty, InitializeWallet
<1>15. BooksInv'
  BY <1>8, <1>11, <1>12, <1>13, <1>14 DEF BooksInv
<1>16. \A a \in Holds \cup Orders : booked'[a] = booked[a]
  BY <1>10, AccountSets
<1> QED BY <1>5, <1>15, <1>16, WalletStepFrame

LEMMA AdjustCreditStep ==
  ASSUME IInv, NEW u \in Users, NEW delta \in Int, AdjustCredit(u, delta)
  PROVE  IInv'
<1> DEFINE w == EnsureWallet(u)
           after == w.credit + delta
           cash == AdjustedCash(w, after)
           rows == EnsureRows(u)
<1>1. BooksInv
  BY Cut
<1>2. /\ w \in WalletRow /\ w.open /\ w.cash <= w.credit
      /\ rows \in [Accounts -> Amount]
      /\ rows[u] = [credit |-> w.credit, cash |-> w.cash]
      /\ \A a \in Accounts \ {u} : rows[a] = booked[a]
  BY <1>1, EnsureBooks
<1>3. w.credit \in Nat /\ w.cash \in Nat
  BY <1>2 DEF WalletRow
<1>4. /\ after \in Nat
      /\ wallet' = [wallet EXCEPT ![u] = [w EXCEPT !.credit = after, !.cash = cash]]
      /\ booked' = [rows EXCEPT ![u] = [credit |-> rows[u].credit + delta,
                                        cash |-> rows[u].cash + (cash - w.cash)]]
      /\ posted' \subseteq posted \cup {<<"migration", u>>}
      /\ UNCHANGED <<now, resv, grant, order, sub, period>>
  BY BillingConstants DEF AdjustCredit, entitlements, EnsureKeys
<1>5. cash \in Nat /\ cash <= after
  BY <1>3, <1>4 DEF AdjustedCash, Least
<1> HIDE DEF w, rows, cash, after
<1>6. /\ wallet'[u] \in WalletRow /\ wallet'[u].open
      /\ wallet'[u].credit = after /\ wallet'[u].cash = cash
  <2>1. wallet'[u] = [w EXCEPT !.credit = after, !.cash = cash]
    BY <1>1, <1>4 DEF BooksInv
  <2>2. w \in WalletRow /\ w.open /\ after \in Nat /\ cash \in Nat
    BY <1>2, <1>4, <1>5
  <2> QED BY <2>1, <2>2 DEF WalletRow
<1>7. wallet' \in [Users -> WalletRow] /\ \A v \in Users \ {u} : wallet'[v] = wallet[v]
  BY <1>1, <1>4, <1>6 DEF BooksInv
<1>8. u \in Accounts
  BY AccountSets
<1>9. booked'[u] = [credit |-> after, cash |-> cash]
  BY <1>2, <1>3, <1>4, <1>5, <1>8 DEF after
<1>10. \A a \in Accounts \ {u} : booked'[a] = booked[a]
  BY <1>2, <1>4
<1>11. booked' \in [Accounts -> Amount]
  <2>1. booked'[u] \in Amount
    BY <1>4, <1>5, <1>9 DEF Amount
  <2> QED BY <1>2, <1>4, <2>1
<1>12. CashWithinCredit'
  BY <1>1, <1>5, <1>6, <1>7 DEF BooksInv, CashWithinCredit
<1>13. WalletMatchesLedger'
  BY <1>1, <1>6, <1>7, <1>9, <1>10, AccountSets DEF BooksInv, WalletMatchesLedger
<1>14. ClosedIsEmpty'
  BY <1>1, <1>4, <1>6, <1>7 DEF BooksInv, ClosedIsEmpty
<1>15. BooksInv'
  BY <1>7, <1>11, <1>12, <1>13, <1>14 DEF BooksInv
<1>16. \A a \in Holds \cup Orders : booked'[a] = booked[a]
  BY <1>10, AccountSets
<1> QED BY <1>4, <1>15, <1>16, WalletStepFrame

LEMMA SetUnlimitedStep ==
  ASSUME IInv, NEW u \in Users, NEW enabled \in BOOLEAN, SetUnlimitedCompute(u, enabled)
  PROVE  IInv'
<1> DEFINE w == EnsureWallet(u)
           rows == EnsureRows(u)
<1>1. BooksInv
  BY Cut
<1>2. /\ w \in WalletRow /\ w.open /\ w.cash <= w.credit
      /\ rows \in [Accounts -> Amount]
      /\ rows[u] = [credit |-> w.credit, cash |-> w.cash]
      /\ \A a \in Accounts \ {u} : rows[a] = booked[a]
  BY <1>1, EnsureBooks
<1>3. /\ wallet' = [wallet EXCEPT ![u] = [w EXCEPT !.unlimited = enabled]]
      /\ booked' = rows
      /\ posted' \subseteq posted \cup {<<"migration", u>>}
      /\ UNCHANGED <<now, resv, grant, order, sub, period>>
  BY DEF SetUnlimitedCompute, entitlements, EnsureKeys
<1> HIDE DEF w, rows
<1>4. /\ wallet'[u] \in WalletRow /\ wallet'[u].open
      /\ wallet'[u].credit = w.credit /\ wallet'[u].cash = w.cash
  <2>1. wallet'[u] = [w EXCEPT !.unlimited = enabled]
    BY <1>1, <1>3 DEF BooksInv
  <2> QED BY <1>2, <2>1 DEF WalletRow
<1>5. wallet' \in [Users -> WalletRow] /\ \A v \in Users \ {u} : wallet'[v] = wallet[v]
  BY <1>1, <1>3, <1>4 DEF BooksInv
<1>6. CashWithinCredit'
  BY <1>1, <1>2, <1>4, <1>5 DEF BooksInv, CashWithinCredit
<1>7. WalletMatchesLedger'
  BY <1>1, <1>2, <1>3, <1>4, <1>5, AccountSets DEF BooksInv, WalletMatchesLedger
<1>8. ClosedIsEmpty'
  BY <1>1, <1>3, <1>4, <1>5 DEF BooksInv, ClosedIsEmpty
<1>9. BooksInv'
  BY <1>2, <1>3, <1>5, <1>6, <1>7, <1>8 DEF BooksInv
<1>10. \A a \in Holds \cup Orders : booked'[a] = booked[a]
  BY <1>2, <1>3, AccountSets
<1> QED BY <1>3, <1>9, <1>10, WalletStepFrame

-----------------------------------------------------------------------------
(* Steps on orders *)

\* An order that is approved or refunded moves the wallet under its own key.
LEMMA OrderMoveStep ==
  ASSUME IInv, NEW u \in Users, NEW o \in Orders, NEW key \in OrderKeys(o),
         NEW credit \in Int, NEW cash \in Int, key \notin posted,
         EnsureWallet(u).cash + cash >= 0,
         EnsureWallet(u).cash + cash <= EnsureWallet(u).credit + credit,
         Move(u, key, {u, o}, credit, cash), UNCHANGED resv, Tables',
         \A p \in Orders \ {o} : order'[p] = order[p],
         order'[o].status \in {"approved", "refunded"},
         key = <<"order_refund", o>> => order'[o].status = "refunded",
         <<"order_refund", o>> \in posted => order'[o].status = "refunded",
         [credit |-> booked[o].credit + credit, cash |-> booked[o].cash + cash]
           = IF order'[o].status = "approved" /\ order'[o].kind = "credit_pack"
             THEN [credit |-> order'[o].points, cash |-> order'[o].points]
             ELSE Zero
  PROVE  IInv'
<1>1. BooksInv /\ Tables /\ (\A h \in Holds : HoldOK(h)) /\ (\A p \in Orders : OrderOK(p))
  BY Cut
<1>2. \A v \in Users : key # <<"migration", v>>
  BY KeysApart
<1>3. /\ BooksInv'
      /\ booked'[o] = [credit |-> booked[o].credit + credit, cash |-> booked[o].cash + cash]
      /\ \A a \in (Holds \cup Orders) \ {o} : booked'[a] = booked[a]
      /\ posted' \subseteq posted \cup {<<"migration", u>>, key}
  BY <1>1, <1>2, MoveBooks
<1>4. \A h \in Holds : HoldOK(h)'
  <2> SUFFICES ASSUME NEW h \in Holds PROVE HoldOK(h)'
    OBVIOUS
  <2>1. booked'[h] = booked[h]
    BY <1>3, AccountSets
  <2>2. \A k \in HoldKeys(h) : k \in posted' => k \in posted
    BY <1>3, KeysApart
  <2> QED BY <1>1, <2>1, <2>2, HoldFrame
<1>5. \A p \in Orders \ {o} : OrderOK(p)'
  BY <1>1, <1>3, OrderFrame, KeysApart
<1>6. OrderOK(o)'
  <2>1. \A k \in OrderKeys(o) : k \in posted' => k \in posted \/ k = key
    BY <1>3, KeysApart
  <2> QED BY <1>3, <2>1 DEF OrderOK, OrderKeys
<1> QED BY <1>3, <1>4, <1>5, <1>6, CutPrime

\* An order that changes state without points only opens the wallet.
LEMMA OrderTouchStep ==
  ASSUME IInv, NEW u \in Users, NEW o \in Orders, Touch(u), UNCHANGED resv, Tables',
         \A p \in Orders \ {o} : order'[p] = order[p],
         order'[o].status \in {"approved", "refunded"},
         <<"order_refund", o>> \in posted => order'[o].status = "refunded",
         booked[o] = IF order'[o].status = "approved" /\ order'[o].kind = "credit_pack"
                     THEN [credit |-> order'[o].points, cash |-> order'[o].points]
                     ELSE Zero
  PROVE  IInv'
<1>1. BooksInv /\ Tables /\ (\A h \in Holds : HoldOK(h)) /\ (\A p \in Orders : OrderOK(p))
  BY Cut
<1>2. /\ BooksInv'
      /\ \A a \in Holds \cup Orders : booked'[a] = booked[a]
      /\ posted' \subseteq posted \cup {<<"migration", u>>}
  BY <1>1, TouchBooks
<1>3. \A h \in Holds : HoldOK(h)'
  BY <1>1, <1>2, HoldFrame, KeysApart
<1>4. \A p \in Orders \ {o} : OrderOK(p)'
  BY <1>1, <1>2, OrderFrame, KeysApart
<1>5. OrderOK(o)'
  <2>1. \A k \in OrderKeys(o) : k \in posted' => k \in posted
    BY <1>2, KeysApart
  <2> QED BY <1>2, <2>1 DEF OrderOK, OrderKeys
<1> QED BY <1>2, <1>3, <1>4, <1>5, CutPrime

\* New and revoked grants are grants.
LEMMA GrantTypes ==
  ASSUME Tables
  PROVE  /\ \A u \in Users : \A n, a, e \in Nat : NewGrant(u, n, a, e) \in GrantRow
         /\ \A S : RevokeGrants(S) \in [Grants -> GrantRow]
<1>1. \A u \in Users : \A n, a, e \in Nat : NewGrant(u, n, a, e) \in GrantRow
  BY DEF NewGrant, GrantRow, Tables
<1>2. ASSUME NEW S PROVE RevokeGrants(S) \in [Grants -> GrantRow]
  <2>1. \A g \in Grants : grant[g] \in GrantRow
    BY DEF Tables
  <2>2. \A g \in Grants : [grant[g] EXCEPT !.left = 0] \in GrantRow
    BY <2>1 DEF GrantRow
  <2> QED BY <2>1, <2>2 DEF RevokeGrants
<1> QED BY <1>1, <1>2

LEMMA ApproveCreditPackStep ==
  ASSUME IInv, NEW o \in Orders, ApproveCreditPack(o)
  PROVE  IInv'
<1> DEFINE r == order[o]
           row == [r EXCEPT !.status = "approved"]
<1>1. BooksInv /\ Tables /\ OrderOK(o) /\ r \in OrderRow
  BY Cut DEF Tables
<1>2. r.user \in Users /\ r.points \in Nat /\ r.bonus \in Nat
  BY <1>1 DEF OrderRow
<1>3. /\ r.status = "pending" /\ r.kind = "credit_pack"
      /\ Move(r.user, <<"order", o>>, {r.user, o}, r.points, r.points)
      /\ order' = [order EXCEPT ![o] = row]
      /\ UNCHANGED <<now, resv, sub, period>>
  BY DEF ApproveCreditPack
<1>4. /\ row \in OrderRow /\ row.status = "approved" /\ row.kind = "credit_pack"
      /\ row.points = r.points
  BY <1>1, <1>3 DEF OrderRow
<1>5. order'[o] = row /\ \A p \in Orders \ {o} : order'[p] = order[p]
  BY <1>1, <1>3 DEF Tables
<1>6. grant' \in [Grants -> GrantRow]
  <2>1. NewGrant(r.user, r.bonus, now, 0) \in GrantRow
    BY <1>1, <1>2, GrantTypes DEF Tables
  <2> QED BY <1>1, <2>1 DEF ApproveCreditPack, Tables
<1>7. Tables'
  BY <1>1, <1>3, <1>4, <1>6 DEF Tables
<1>8. /\ booked[o] = Zero /\ <<"order", o>> \notin posted /\ <<"order_refund", o>> \notin posted
  BY <1>1, <1>3 DEF OrderOK
<1>9. EnsureWallet(r.user) \in WalletRow /\ EnsureWallet(r.user).cash <= EnsureWallet(r.user).credit
  BY <1>1, <1>2, EnsureBooks
<1>10. /\ EnsureWallet(r.user).cash + r.points >= 0
       /\ EnsureWallet(r.user).cash + r.points <= EnsureWallet(r.user).credit + r.points
  BY <1>2, <1>9 DEF WalletRow
<1>11. [credit |-> booked[o].credit + r.points, cash |-> booked[o].cash + r.points]
         = [credit |-> r.points, cash |-> r.points]
  BY <1>2, <1>8 DEF Zero
<1>12. <<"order", o>> \in OrderKeys(o) /\ <<"order", o>> # <<"order_refund", o>> /\ r.points \in Int
  BY <1>2 DEF OrderKeys
<1> HIDE DEF r, row
<1>13. /\ order'[o].status = "approved" /\ order'[o].kind = "credit_pack"
       /\ order'[o].points = r.points
  BY <1>4, <1>5
<1> QED BY <1>2, <1>3, <1>5, <1>7, <1>8, <1>10, <1>11, <1>12, <1>13, OrderMoveStep

LEMMA ApproveSubscriptionStep ==
  ASSUME IInv, NEW o \in Orders, NEW s \in Subs, ApproveSubscription(o, s)
  PROVE  IInv'
<1> DEFINE r == order[o]
           row == [r EXCEPT !.status = "approved", !.sub = s]
           start == RenewalStart(s)
           new == {<<o, k>> : k \in 1 .. r.months}
<1>1. BooksInv /\ Tables /\ OrderOK(o) /\ r \in OrderRow /\ sub[s] \in SubRow
  BY Cut DEF Tables
<1>2. r.user \in Users /\ r.months \in Nat
  BY <1>1 DEF OrderRow
<1>3. start \in Nat
  BY <1>1 DEF RenewalStart, Most, Tables, SubRow
<1>4. /\ r.status = "pending" /\ r.kind = "subscription" /\ Touch(r.user)
      /\ order' = [order EXCEPT ![o] = row]
      /\ UNCHANGED <<now, resv>>
  BY <1>1 DEF ApproveSubscription, Tables
<1>5. /\ row \in OrderRow /\ row.status = "approved" /\ row.kind = "subscription"
  BY <1>1, <1>4 DEF OrderRow
<1>6. order'[o] = row /\ \A p \in Orders \ {o} : order'[p] = order[p]
  BY <1>1, <1>4 DEF Tables
<1> HIDE DEF row, start
<1>7. grant' \in [Grants -> GrantRow]
  <2>1. ASSUME NEW g \in Grants, g \in new
        PROVE  NewGrant(r.user, MonthlyImages, start + g[2] - 1, start + g[2]) \in GrantRow
    <3>1. PICK k \in 1 .. r.months : g = <<o, k>>
      BY <2>1
    <3>2. start + k - 1 \in Nat /\ start + k \in Nat
      BY <1>2, <1>3
    <3> QED BY <1>1, <1>2, <3>1, <3>2, GrantTypes, BillingConstants
  <2>2. \A g \in Grants : grant[g] \in GrantRow
    BY <1>1 DEF Tables
  <2>3. grant' = [g \in Grants |->
          IF g \in new THEN NewGrant(r.user, MonthlyImages, start + g[2] - 1, start + g[2])
          ELSE grant[g]]
    BY DEF ApproveSubscription, start
  <2> HIDE DEF new
  <2> QED BY <2>1, <2>2, <2>3
<1>8. period' \in [Grants -> {"none", "active", "scheduled", "cancelled"}]
  BY <1>1 DEF ApproveSubscription, Tables
<1>9. sub' \in [Subs -> SubRow]
  <2>1. [status |-> "active", user |-> r.user, end |-> start + r.months] \in SubRow
    BY <1>2, <1>3 DEF SubRow
  <2> QED BY <1>1, <2>1 DEF ApproveSubscription, Tables, start
<1>10. Tables'
  BY <1>1, <1>4, <1>5, <1>7, <1>8, <1>9 DEF Tables
<1>11. booked[o] = Zero /\ <<"order_refund", o>> \notin posted
  BY <1>1, <1>4 DEF OrderOK
<1>12. order'[o].status = "approved" /\ order'[o].kind = "subscription"
  BY <1>5, <1>6
<1> QED BY <1>2, <1>4, <1>6, <1>10, <1>11, <1>12, OrderTouchStep

LEMMA RefundCreditPackStep ==
  ASSUME IInv, NEW o \in Orders, RefundCreditPack(o)
  PROVE  IInv'
<1> DEFINE r == order[o]
           row == [r EXCEPT !.status = "refunded"]
           w == EnsureWallet(r.user)
<1>1. BooksInv /\ Tables /\ OrderOK(o) /\ r \in OrderRow
  BY Cut DEF Tables
<1>2. r.user \in Users /\ r.points \in Nat
  BY <1>1 DEF OrderRow
<1>3. /\ r.status = "approved" /\ r.kind = "credit_pack"
      /\ w.credit >= r.points /\ w.cash >= r.points
      /\ IF r.points > 0 THEN Move(r.user, <<"order_refund", o>>, {r.user, o}, -r.points, -r.points)
                         ELSE Touch(r.user)
      /\ order' = [order EXCEPT ![o] = row]
      /\ UNCHANGED <<now, resv, sub, period>>
  BY DEF RefundCreditPack
<1>4. row \in OrderRow /\ row.status = "refunded"
  BY <1>1 DEF OrderRow
<1>5. order'[o] = row /\ \A p \in Orders \ {o} : order'[p] = order[p]
  BY <1>1, <1>3 DEF Tables
<1>6. grant' \in [Grants -> GrantRow]
  BY <1>1, GrantTypes DEF RefundCreditPack, Tables
<1>7. Tables'
  BY <1>1, <1>3, <1>4, <1>6 DEF Tables
<1>8. /\ booked[o] = [credit |-> r.points, cash |-> r.points]
      /\ <<"order_refund", o>> \notin posted
  BY <1>1, <1>3 DEF OrderOK
<1>9. w \in WalletRow /\ w.cash <= w.credit
  BY <1>1, <1>2, EnsureBooks
<1>10. w.cash \in Nat /\ w.credit \in Nat
  BY <1>9 DEF WalletRow
<1>11. order'[o].status = "refunded"
  BY <1>4, <1>5
<1> HIDE DEF r, row
<1>12. CASE r.points > 0
  <2>1. Move(r.user, <<"order_refund", o>>, {r.user, o}, -r.points, -r.points)
    BY <1>3, <1>12
  <2>2. /\ w.cash + (-r.points) >= 0 /\ w.cash + (-r.points) <= w.credit + (-r.points)
        /\ -r.points \in Int
    BY <1>2, <1>3, <1>9, <1>10
  <2>3. [credit |-> booked[o].credit + (-r.points), cash |-> booked[o].cash + (-r.points)] = Zero
    BY <1>2, <1>8 DEF Zero
  <2>4. <<"order_refund", o>> \in OrderKeys(o)
    BY DEF OrderKeys
  <2> QED BY <1>2, <1>3, <1>5, <1>7, <1>8, <1>11, <2>1, <2>2, <2>3, <2>4, OrderMoveStep DEF w
<1>13. CASE ~(r.points > 0)
  <2>1. r.points = 0 /\ Touch(r.user)
    BY <1>2, <1>3, <1>13
  <2>2. booked[o] = Zero
    BY <1>8, <2>1 DEF Zero
  <2> QED BY <1>2, <1>3, <1>5, <1>7, <1>8, <1>11, <2>1, <2>2, OrderTouchStep
<1> QED BY <1>12, <1>13

LEMMA RefundSubscriptionStep ==
  ASSUME IInv, NEW o \in Orders, RefundSubscription(o)
  PROVE  IInv'
<1> DEFINE r == order[o]
           s == r.sub
           row == [r EXCEPT !.status = "refunded"]
<1>1. BooksInv /\ Tables /\ OrderOK(o) /\ r \in OrderRow
  BY Cut DEF Tables
<1>2. r.user \in Users
  BY <1>1 DEF OrderRow
<1>3. /\ r.status = "approved" /\ r.kind = "subscription" /\ Touch(r.user)
      /\ order' = [order EXCEPT ![o] = row]
      /\ UNCHANGED <<now, resv>>
  BY DEF RefundSubscription
<1>4. row \in OrderRow /\ row.status = "refunded"
  BY <1>1 DEF OrderRow
<1>5. order'[o] = row /\ \A p \in Orders \ {o} : order'[p] = order[p]
  BY <1>1, <1>3 DEF Tables
<1>6. grant' \in [Grants -> GrantRow]
  BY <1>1, GrantTypes DEF RefundSubscription
<1>7. period' \in [Grants -> {"none", "active", "scheduled", "cancelled"}]
  BY <1>1 DEF RefundSubscription, Tables
<1>8. sub' \in [Subs -> SubRow]
  <2>1. \A g \in Grants : grant[g].expires \in Nat
    BY <1>1 DEF Tables, GrantRow
  <2>2. PICK end \in Nat : sub' = [sub EXCEPT ![s] = RecomputedSub(sub[s], end)]
    BY <2>1 DEF RefundSubscription, PeriodsOf
  <2>3. ASSUME s \in Subs PROVE RecomputedSub(sub[s], end) \in SubRow
    <3>1. sub[s] \in SubRow /\ now \in Nat
      BY <1>1, <2>3 DEF Tables
    <3> QED BY <3>1 DEF RecomputedSub, SubRow
  <2> QED BY <1>1, <2>2, <2>3 DEF Tables
<1>9. Tables'
  BY <1>1, <1>3, <1>4, <1>6, <1>7, <1>8 DEF Tables
<1>10. booked[o] = Zero
  BY <1>1, <1>3 DEF OrderOK
<1>11. order'[o].status = "refunded"
  BY <1>4, <1>5
<1> QED BY <1>2, <1>3, <1>5, <1>9, <1>10, <1>11, OrderTouchStep

\* Creating, rejecting and cancelling an order, and steps of the clock and of
\* terminations, leave the books alone.
LEMMA QuietSteps ==
  ASSUME IInv,
         \/ \E o \in Orders, u \in Users, kind \in {"credit_pack", "subscription"},
               points \in Nat, bonus \in Nat, months \in Nat, s \in Subs \cup {NoSub} :
              CreateOrder(o, u, kind, points, bonus, months, s)
         \/ \E o \in Orders : RejectOrder(o) \/ CancelOrder(o)
         \/ \E s \in Subs : TerminateSubscription(s)
         \/ Tick
  PROVE  IInv'
<1>1. Tables /\ \A o \in Orders : order[o] \in OrderRow
  BY Cut DEF Tables
<1>2. ASSUME NEW o \in Orders, NEW u \in Users, NEW kind \in {"credit_pack", "subscription"},
             NEW points \in Nat, NEW bonus \in Nat, NEW months \in Nat,
             NEW s \in Subs \cup {NoSub}, CreateOrder(o, u, kind, points, bonus, months, s)
      PROVE  IInv'
  <2> DEFINE row == [status |-> "pending", user |-> u, kind |-> kind, points |-> points,
                     bonus |-> bonus, months |-> months, sub |-> s]
  <2>1. row \in OrderRow /\ row.status = "pending"
    BY DEF OrderRow
  <2>2. /\ order' = [order EXCEPT ![o] = row] /\ order[o].status = "none"
        /\ UNCHANGED <<now, resv, grant, sub, period, wallet, posted, booked>>
    BY <1>2 DEF CreateOrder, books
  <2> HIDE DEF row
  <2>3. Tables'
    BY <1>1, <2>1, <2>2 DEF Tables
  <2>4. order'[o] = row /\ \A p \in Orders \ {o} : order'[p] = order[p]
    BY <1>1, <2>2 DEF Tables
  <2> QED BY <2>1, <2>2, <2>3, <2>4, QuietStep
<1>3. ASSUME NEW o \in Orders, RejectOrder(o) \/ CancelOrder(o) PROVE IInv'
  <2>1. PICK status \in {"rejected", "cancelled"} :
          order' = [order EXCEPT ![o] = [order[o] EXCEPT !.status = status]]
    BY <1>3 DEF RejectOrder, CancelOrder
  <2>2. /\ order[o].status = "pending"
        /\ UNCHANGED <<now, resv, grant, sub, period, wallet, posted, booked>>
    BY <1>3 DEF RejectOrder, CancelOrder, books
  <2>3. /\ [order[o] EXCEPT !.status = status] \in OrderRow
        /\ [order[o] EXCEPT !.status = status].status = status
    BY <1>1 DEF OrderRow
  <2>4. Tables'
    BY <1>1, <2>1, <2>2, <2>3 DEF Tables
  <2>5. /\ order'[o] = [order[o] EXCEPT !.status = status]
        /\ \A p \in Orders \ {o} : order'[p] = order[p]
    BY <1>1, <2>1 DEF Tables
  <2>6. order'[o].status = status
    BY <2>3, <2>5
  <2> QED BY <2>2, <2>4, <2>5, <2>6, QuietStep
<1>4. ASSUME NEW s \in Subs, TerminateSubscription(s) PROVE IInv'
  <2>1. UNCHANGED <<now, resv, order, wallet, posted, booked>>
    BY <1>4 DEF TerminateSubscription, books
  <2>2. grant' \in [Grants -> GrantRow]
    BY <1>1, <1>4, GrantTypes DEF TerminateSubscription
  <2>3. period' \in [Grants -> {"none", "active", "scheduled", "cancelled"}]
    BY <1>1, <1>4 DEF TerminateSubscription, Tables
  <2>4. sub' \in [Subs -> SubRow]
    <3>1. sub[s] \in SubRow /\ now \in Nat
      BY <1>1 DEF Tables
    <3>2. [sub[s] EXCEPT !.status = "cancelled", !.end = now] \in SubRow
      BY <3>1 DEF SubRow
    <3>3. sub' = [sub EXCEPT ![s] = [sub[s] EXCEPT !.status = "cancelled", !.end = now]]
      BY <1>1, <1>4 DEF TerminateSubscription, Tables
    <3> QED BY <1>1, <3>2, <3>3 DEF Tables
  <2>5. Tables'
    BY <1>1, <2>1, <2>2, <2>3, <2>4 DEF Tables
  <2> QED BY <2>1, <2>5, QuietStep
<1>5. CASE Tick
  <2>1. /\ now' = now + 1
        /\ UNCHANGED <<resv, grant, order, sub, period, wallet, posted, booked>>
    BY <1>5 DEF Tick, entitlements, books
  <2>2. Tables'
    BY <1>1, <2>1 DEF Tables
  <2> QED BY <2>1, <2>2, QuietStep
<1> QED BY <1>2, <1>3, <1>4, <1>5

-----------------------------------------------------------------------------
\* The program starts with empty books.
LEMMA InitIInv ==
  ASSUME Init
  PROVE  IInv
<1>1. (CHOOSE u \in Users : TRUE) \in Users
  BY BillingConstants
<1>2. Unused \in ReservationRow
  BY <1>1 DEF Unused, ReservationRow, NoTake
<1>3. NoGrant \in GrantRow
  BY <1>1 DEF NoGrant, GrantRow
<1>4. NoOrder \in OrderRow
  BY <1>1 DEF NoOrder, OrderRow
<1>5. Tables
  BY <1>1, <1>2, <1>3, <1>4 DEF Init, Tables, SubRow
<1>6. BooksInv
  BY AccountSets DEF Init, BooksInv, WalletRow, Amount, Closed, Zero, CashWithinCredit,
     WalletMatchesLedger, ClosedIsEmpty
<1>7. \A h \in Holds : resv[h] = Unused /\ booked[h] = Zero
  BY AccountSets DEF Init
<1>8. \A h \in Holds : HoldOK(h)
  <2>1. /\ Unused.status = "none" /\ Unused.credit = 0 /\ Unused.cash = 0
        /\ Unused.sCredit = 0 /\ Unused.sCash = 0 /\ Unused.refunded = 0
    BY DEF Unused
  <2>2. Taken(Unused) = Zero
    BY <2>1 DEF Taken
  <2> QED BY <1>7, <2>1, <2>2 DEF Init, HoldOK, Booking, Priced, HoldKeysOK
<1>9. \A o \in Orders : OrderOK(o)
  BY AccountSets DEF Init, OrderOK, NoOrder
<1> QED BY <1>5, <1>6, <1>8, <1>9, Cut

\* Every step keeps the inductive invariant.
LEMMA StepIInv ==
  ASSUME IInv, [Next]_vars
  PROVE  IInv'
<1> USE BillingConstants
<1>1. CASE WalletStep
  <2>1. PICK u \in Users :
          \/ OpenWallet(u)
          \/ \E extra \in Extras : InitializeWallet(u, extra)
          \/ \E delta \in Deltas : AdjustCredit(u, delta)
          \/ \E enabled \in BOOLEAN : SetUnlimitedCompute(u, enabled)
    BY <1>1 DEF WalletStep
  <2>2. CASE OpenWallet(u)
    <3>1. Tables /\ Touch(u) /\ UNCHANGED <<now, resv, grant, order, sub, period>>
      BY <2>2, Cut DEF OpenWallet, entitlements
    <3>2. Tables'
      BY <3>1 DEF Tables
    <3> QED BY <3>1, <3>2, TouchStep
  <2>3. CASE \E extra \in Extras : InitializeWallet(u, extra)
    BY <2>3, InitializeWalletStep
  <2>4. CASE \E delta \in Deltas : AdjustCredit(u, delta)
    BY <2>4, AdjustCreditStep
  <2>5. CASE \E enabled \in BOOLEAN : SetUnlimitedCompute(u, enabled)
    BY <2>5, SetUnlimitedStep
  <2> QED BY <2>1, <2>2, <2>3, <2>4, <2>5
<1>2. CASE ReserveStep
  <2>1. PICK h \in Holds, u \in Users, rate \in Rates :
          \/ \E qty \in 1 .. MaxQty :
               \/ \E kind \in {"rate", "image", "exact"} : ReserveWaived(h, u, kind, qty, rate)
               \/ ReserveUnlimited(h, u, qty, rate)
               \/ ReserveCharge(h, u, qty, rate)
               \/ ReserveImages(h, u, qty, rate)
          \/ ReserveExactCash(h, u, rate)
    BY <1>2 DEF ReserveStep
  <2>2. rate \in Nat /\ \A qty \in 1 .. MaxQty : qty \in Nat
    OBVIOUS
  <2> QED BY <2>1, <2>2, ReserveWaivedStep, ReserveUnlimitedStep, ReserveChargeStep,
             ReserveImagesStep, ReserveExactCashStep
<1>3. CASE FinishStep
  <2>1. \A actual \in 0 .. MaxQty : actual \in Nat
    OBVIOUS
  <2> QED BY <1>3, <2>1, SettleUnlimitedStep, SettleReservationStep, ReleaseReservationStep,
             RefundExactCashStep DEF FinishStep
<1>4. CASE OrderStep
  <2>1. PICK o \in Orders :
          \/ \E u \in Users, points \in Packs, bonus \in Bonuses :
               CreateOrder(o, u, "credit_pack", points, bonus, 0, NoSub)
          \/ \E u \in Users, months \in MonthChoices, s \in Subs \cup {NoSub} :
               CreateOrder(o, u, "subscription", 0, 0, months, s)
          \/ RejectOrder(o) \/ CancelOrder(o)
          \/ ApproveCreditPack(o)
          \/ \E s \in Subs : ApproveSubscription(o, s)
          \/ RefundCreditPack(o)
          \/ RefundSubscription(o)
    BY <1>4 DEF OrderStep
  <2>2. CASE \E u \in Users, points \in Packs, bonus \in Bonuses :
               CreateOrder(o, u, "credit_pack", points, bonus, 0, NoSub)
    <3>1. \E u \in Users, points \in Nat, bonus \in Nat :
            CreateOrder(o, u, "credit_pack", points, bonus, 0, NoSub)
      BY <2>2
    <3> QED BY <3>1, QuietSteps
  <2>3. CASE \E u \in Users, months \in MonthChoices, s \in Subs \cup {NoSub} :
               CreateOrder(o, u, "subscription", 0, 0, months, s)
    <3>1. \E u \in Users, months \in Nat, s \in Subs \cup {NoSub} :
            CreateOrder(o, u, "subscription", 0, 0, months, s)
      BY <2>3
    <3> QED BY <3>1, QuietSteps
  <2>4. CASE RejectOrder(o) \/ CancelOrder(o)
    BY <2>4, QuietSteps
  <2> QED BY <2>1, <2>2, <2>3, <2>4, ApproveCreditPackStep, ApproveSubscriptionStep,
             RefundCreditPackStep, RefundSubscriptionStep
<1>5. CASE (\E s \in Subs : TerminateSubscription(s)) \/ Tick
  BY <1>5, QuietSteps
<1>6. CASE UNCHANGED vars
  <2>1. Tables /\ UNCHANGED <<now, wallet, posted, booked, resv, grant, order, sub, period>>
    BY <1>6, Cut DEF vars
  <2>2. Tables'
    BY <2>1 DEF Tables
  <2> QED BY <2>1, <2>2, QuietStep
<1> QED BY <1>1, <1>2, <1>3, <1>4, <1>5, <1>6 DEF Next

\* The inductive invariant holds in every reachable state.
THEOREM Accounting ==
  Spec => []IInv
<1>1. Init => IInv
  BY InitIInv
<1>2. IInv /\ [Next]_vars => IInv'
  BY StepIInv
<1> QED BY <1>1, <1>2, PTL DEF Spec

\* The tables of the billing code always hold rows of their schema: in
\* particular no sequence of operations drives a balance below zero.
THEOREM TypeCorrect ==
  Spec => []TypeOK
<1>1. IInv => TypeOK
  BY DEF IInv
<1> QED BY <1>1, Accounting, PTL

\* The cash-backed balance is always part of the balance.
THEOREM CashIsWithinCredit ==
  Spec => []CashWithinCredit
<1>1. IInv => CashWithinCredit
  BY DEF IInv
<1> QED BY <1>1, Accounting, PTL

\* The wallet always equals the sum of its ledger rows.
THEOREM LedgerIsComplete ==
  Spec => []WalletMatchesLedger
<1>1. IInv => WalletMatchesLedger
  BY DEF IInv
<1> QED BY <1>1, Accounting, PTL

\* Every hold is charged or returned exactly once, and never over-charged.
THEOREM HoldsAreAccountedFor ==
  Spec => []HoldsAccountedFor
<1>1. IInv => HoldsAccountedFor
  BY DEF IInv
<1> QED BY <1>1, Accounting, PTL

\* An order's points are in the ledger exactly while it is approved.
THEOREM OrdersAreAccountedFor ==
  Spec => []OrdersAccountedFor
<1>1. IInv => OrdersAccountedFor
  BY DEF IInv
<1> QED BY <1>1, Accounting, PTL

\* A reservation that was settled, released or waived is never touched again,
\* but for the one refund of an exact cash charge.
THEOREM FinishedStaysFinished == Spec => FinishedForever
<1> DEFINE Frozen(h) ==
      resv[h].status \in {"settled", "released", "waived"} =>
         \/ resv'[h] = resv[h]
         \/ /\ resv[h].refunded = 0
            /\ resv'[h] = [resv[h] EXCEPT !.refunded = resv[h].sCash]
<1>1. ASSUME IInv, [Next]_vars, NEW h \in Holds PROVE Frozen(h)
  <2> DEFINE Writes(g) == /\ resv[g].status \in {"none", "held"}
                          /\ \A k \in Holds \ {g} : resv'[k] = resv[k]
  <2>1. Tables /\ resv \in [Holds -> ReservationRow] /\ \A g \in Holds : HoldOK(g)
    BY <1>1, Cut DEF Tables
  <2>2. ASSUME NEW g \in Holds, Writes(g) PROVE Frozen(h)
    BY <2>2
  <2>3. CASE UNCHANGED resv
    BY <2>3
  <2>4. CASE WalletStep
    BY <2>3, <2>4 DEF WalletStep, OpenWallet, InitializeWallet, AdjustCredit, SetUnlimitedCompute
  <2>5. CASE ReserveStep
    <3>1. PICK g \in Holds, u \in Users, rate \in Rates :
            \/ \E qty \in 1 .. MaxQty :
                 \/ \E kind \in {"rate", "image", "exact"} : ReserveWaived(g, u, kind, qty, rate)
                 \/ ReserveUnlimited(g, u, qty, rate)
                 \/ ReserveCharge(g, u, qty, rate)
                 \/ ReserveImages(g, u, qty, rate)
            \/ ReserveExactCash(g, u, rate)
      BY <2>5 DEF ReserveStep
    <3>2. ASSUME NEW row, NEW credit, NEW cash, resv[g].status = "none",
                 HoldPoints(g, u, row, credit, cash)
          PROVE  Writes(g)
      BY <2>1, <3>2 DEF HoldPoints
    <3>3. CASE \E qty \in 1 .. MaxQty, kind \in {"rate", "image", "exact"} :
                 ReserveWaived(g, u, kind, qty, rate)
      BY <2>1, <3>3 DEF ReserveWaived
    <3>4. CASE \E qty \in 1 .. MaxQty : ReserveUnlimited(g, u, qty, rate)
      BY <2>1, <3>4 DEF ReserveUnlimited
    <3>5. CASE \E qty \in 1 .. MaxQty : ReserveCharge(g, u, qty, rate)
      BY <3>2, <3>5, Zenon DEF ReserveCharge
    <3>6. CASE \E qty \in 1 .. MaxQty : ReserveImages(g, u, qty, rate)
      BY <3>2, <3>6, Zenon DEF ReserveImages
    <3>7. CASE ReserveExactCash(g, u, rate)
      BY <3>2, <3>7, Zenon DEF ReserveExactCash
    <3> QED BY <2>2, <3>1, <3>3, <3>4, <3>5, <3>6, <3>7
  <2>6. CASE FinishStep
    <3>1. PICK g \in Holds : \/ SettleUnlimited(g)
                             \/ \E actual \in 0 .. MaxQty : SettleReservation(g, actual)
                             \/ ReleaseReservation(g)
                             \/ RefundExactCash(g)
      BY <2>6 DEF FinishStep
    <3>2. CASE SettleUnlimited(g)
      BY <2>1, <2>2, <3>2 DEF SettleUnlimited, IsHeld
    <3>3. CASE \E actual \in 0 .. MaxQty : SettleReservation(g, actual)
      <4>1. Writes(g)
        BY <2>1, <3>3 DEF SettleReservation, IsHeld
      <4> QED BY <2>2, <4>1
    <3>4. CASE ReleaseReservation(g)
      <4>1. Writes(g)
        BY <2>1, <3>4 DEF ReleaseReservation, IsHeld
      <4> QED BY <2>2, <4>1
    <3>5. CASE RefundExactCash(g)
      <4>1. resv' = [resv EXCEPT ![g] = [resv[g] EXCEPT !.refunded = resv[g].sCash]]
        BY <2>1, <3>5 DEF RefundExactCash
      <4>2. resv[g].sCash \in Nat /\ resv[g].refunded \in {0, resv[g].sCash}
        BY <2>1 DEF HoldOK, Priced, ReservationRow
      <4>3. resv[g].refunded = 0
        BY <3>5, <4>2 DEF RefundExactCash, Most
      <4> QED BY <2>1, <4>1, <4>3
    <3> QED BY <3>1, <3>2, <3>3, <3>4, <3>5
  <2>7. CASE OrderStep
    BY <2>3, <2>7 DEF OrderStep, CreateOrder, RejectOrder, CancelOrder, ApproveCreditPack,
                ApproveSubscription, RefundCreditPack, RefundSubscription
  <2>8. CASE (\E s \in Subs : TerminateSubscription(s)) \/ Tick \/ UNCHANGED vars
    BY <2>3, <2>8 DEF TerminateSubscription, Tick, vars
  <2> QED BY <1>1, <2>4, <2>5, <2>6, <2>7, <2>8 DEF Next
<1>2. IInv /\ [Next]_vars => [\A h \in Holds : Frozen(h)]_vars
  BY <1>1
<1> QED BY <1>2, Accounting, PTL DEF Spec, FinishedForever

-----------------------------------------------------------------------------
(* Free images and subscription months.  The invariant has one part per      *)
(* grant, per reservation, per order and per subscription.                   *)

\* What a reservation row holds of grant g.
Img(r, g) == IF r.status = "held" THEN r.take[g] ELSE 0
HeldOf(g) == [h \in Holds |-> Img(resv[h], g)]
Revoked(g) == period[g] = "cancelled" \/ order[g[1]].status = "refunded"
Given == {"approved", "refunded"}

\* What is left of a grant and what running work holds of it fit in it; it belongs
\* to an order that was approved, of the kind its index says; nobody holds anything
\* of a grant that was revoked.
GrantFine(g) ==
  LET o == order[g[1]] IN
  /\ grant[g].left + SumFunctionOnSet(HeldOf(g), Holds) <= grant[g].total
  /\ grant[g].total > 0 =>
       /\ o.status \in Given /\ grant[g].user = o.user
       /\ g[2] = 0 => o.kind = "credit_pack" /\ grant[g].total = o.bonus
       /\ g[2] # 0 => o.kind = "subscription" /\ period[g] # "none"
  /\ period[g] # "none" =>
       /\ o.status \in Given /\ o.kind = "subscription" /\ o.sub \in Subs /\ g[2] # 0
       /\ grant[g].user = o.user /\ grant[g].expires = grant[g].available + 1
  /\ Revoked(g) => grant[g].left = 0 /\ \A h \in Holds : Img(resv[h], g) = 0

\* A reservation draws on grants of its own user.
DrawFine(h) ==
  \A g \in Grants : Img(resv[h], g) > 0 => resv[h].images > 0 /\ resv[h].user = grant[g].user

\* An order names a subscription of its own user; only credit packs give points.
OrderFine(o) ==
  /\ order[o].sub # NoSub => /\ sub[order[o].sub].status # "none"
                             /\ sub[order[o].sub].user = order[o].user
  /\ order[o].kind = "subscription" => order[o].points = 0 /\ order[o].months \in 1..MaxMonths

Live(g, s) == period[g] \notin {"none", "cancelled"} /\ order[g[1]].sub = s
\* The live months of a subscription are apart and over by its end.
SubFine(s) ==
  /\ \A g \in Grants : Live(g, s) => grant[g].expires <= sub[s].end
  /\ \A g, h \in Grants : Live(g, s) /\ Live(h, s) /\ g # h =>
       grant[g].expires <= grant[h].available \/ grant[h].expires <= grant[g].available
  /\ sub[s].status = "active" => \E g \in Grants : Live(g, s) /\ grant[g].expires = sub[s].end

EntInv ==
  /\ \A g \in Grants : GrantFine(g)
  /\ \A h \in Holds : DrawFine(h)
  /\ \A o \in Orders : OrderFine(o)
  /\ \A s \in Subs : SubFine(s)

\* The rows of the tables are finitely many.
LEMMA FiniteTables == IsFiniteSet(Holds) /\ IsFiniteSet(Orders) /\ IsFiniteSet(Grants)
<1>1. IsFiniteSet(Holds) /\ IsFiniteSet(Orders) /\ MaxMonths \in Nat
  BY BillingConstants
<1>2. IsFiniteSet(0 .. MaxMonths)
  BY <1>1, FS_Interval
<1> QED BY <1>1, <1>2, FS_Product DEF Grants

LEMMA ImgTypes ==
  ASSUME Tables
  PROVE  \A g \in Grants, h \in Holds : Img(resv[h], g) \in Nat /\ HeldOf(g)[h] = Img(resv[h], g)
BY DEF Tables, ReservationRow, Img, HeldOf

LEMMA HeldTotal ==
  ASSUME Tables, NEW g \in Grants
  PROVE  /\ SumFunctionOnSet(HeldOf(g), Holds) \in Nat
         /\ \A h \in Holds : Img(resv[h], g) <= SumFunctionOnSet(HeldOf(g), Holds)
<1>1. \A h \in Holds : HeldOf(g)[h] \in Nat
  BY ImgTypes
<1>2. SumFunctionOnSet(HeldOf(g), Holds) \in Nat /\ \A h \in Holds : HeldOf(g)[h] <= SumFunctionOnSet(HeldOf(g), Holds)
  BY <1>1, FiniteTables, SumNat
<1> QED BY <1>2, ImgTypes

\* One reservation changes.
LEMMA HeldTurn ==
  ASSUME Tables, Tables', NEW g \in Grants, NEW h \in Holds, NEW r, resv' = [resv EXCEPT ![h] = r]
  PROVE  SumFunctionOnSet(HeldOf(g)', Holds)
           = SumFunctionOnSet(HeldOf(g), Holds) - Img(resv[h], g) + Img(r, g)
<1>1. PICK a : a = HeldOf(g)
  OBVIOUS
<1>2. PICK b : b = HeldOf(g)'
  OBVIOUS
<1>3. resv'[h] = r /\ \A k \in Holds : k # h => resv'[k] = resv[k]
  BY DEF Tables
<1>4. \A k \in Holds : a[k] = Img(resv[k], g) /\ a[k] \in Nat
  BY <1>1, ImgTypes
<1>5. \A k \in Holds : b[k] = Img(resv'[k], g) /\ b[k] \in Nat
  <2>1. \A k \in Holds : Img(resv'[k], g) \in Nat
    BY DEF Tables, ReservationRow, Img
  <2> QED BY <1>2, <2>1 DEF HeldOf
<1>6. \A k \in Holds \ {h} : a[k] = b[k]
  BY <1>3, <1>4, <1>5
<1>7. SumFunctionOnSet(b, Holds) = SumFunctionOnSet(a, Holds) - Part(a, Holds, h) + Part(b, Holds, h)
  <2>1. (\A k \in Holds : a[k] \in Int) /\ (\A k \in Holds : b[k] \in Int)
    BY <1>4, <1>5
  <2> QED BY <1>6, <2>1, FiniteTables, SumChange
<1>8. Part(a, Holds, h) = Img(resv[h], g) /\ Part(b, Holds, h) = Img(r, g)
  BY <1>3, <1>4, <1>5 DEF Part
<1> QED BY <1>1, <1>2, <1>7, <1>8

\* A step of reservation h, whose row becomes r, that keeps grant g right.
Turn(h, r, g) ==
  /\ grant'[g].total = grant[g].total /\ grant'[g].user = grant[g].user
  /\ grant'[g].available = grant[g].available /\ grant'[g].expires = grant[g].expires
  /\ grant'[g].left + Img(r, g) <= grant[g].left + Img(resv[h], g)
  /\ Revoked(g) => grant'[g].left = 0 /\ Img(r, g) = 0
  /\ Img(r, g) > 0 => r.images > 0 /\ r.user = grant[g].user

LEMMA TurnStep ==
  ASSUME Tables, Tables', EntInv, NEW h \in Holds, NEW r, resv' = [resv EXCEPT ![h] = r],
         UNCHANGED <<order, sub, period>>, \A g \in Grants : Turn(h, r, g)
  PROVE  EntInv'
<1>1. resv'[h] = r /\ \A k \in Holds : k # h => resv'[k] = resv[k]
  BY DEF Tables
<1>2. ASSUME NEW g \in Grants PROVE GrantFine(g)'
  <2>1. GrantFine(g) /\ Turn(h, r, g) /\ (Revoked(g)' <=> Revoked(g))
    BY DEF EntInv, Revoked
  <2>2. PICK a : a = SumFunctionOnSet(HeldOf(g), Holds)
    OBVIOUS
  <2>3. PICK b : b = SumFunctionOnSet(HeldOf(g)', Holds)
    OBVIOUS
  <2>4. a \in Nat /\ b = a - Img(resv[h], g) + Img(r, g)
    BY <2>2, <2>3, HeldTotal, HeldTurn
  <2>5. /\ Img(resv[h], g) \in Nat /\ Img(r, g) \in Nat /\ grant[g].left \in Nat /\ grant'[g].left \in Nat
        /\ grant[g].total \in Nat
    <3>1. Img(resv'[h], g) \in Nat
      BY DEF Tables, ReservationRow, Img
    <3> QED BY <1>1, <3>1, ImgTypes DEF Tables, GrantRow
  <2>6. grant'[g].left + b <= grant'[g].total
    <3>1. grant[g].left + a <= grant[g].total
      BY <2>1, <2>2 DEF GrantFine
    <3>2. grant'[g].left + Img(r, g) <= grant[g].left + Img(resv[h], g) /\ grant'[g].total = grant[g].total
      BY <2>1 DEF Turn
    <3> QED BY <2>4, <2>5, <3>1, <3>2
  <2>7. Revoked(g) => grant'[g].left = 0 /\ \A k \in Holds : Img(resv'[k], g) = 0
    BY <1>1, <2>1 DEF GrantFine, Turn
  <2> QED BY <2>1, <2>3, <2>6, <2>7 DEF GrantFine, Turn
<1>3. ASSUME NEW k \in Holds PROVE DrawFine(k)'
  <2>1. \A g \in Grants : /\ grant'[g].user = grant[g].user
                          /\ Img(r, g) > 0 => r.images > 0 /\ r.user = grant[g].user
    BY DEF Turn
  <2> QED BY <1>1, <2>1 DEF EntInv, DrawFine
<1>4. ASSUME NEW o \in Orders PROVE OrderFine(o)'
  BY DEF EntInv, OrderFine
<1>5. ASSUME NEW s \in Subs PROVE SubFine(s)'
  <2>1. SubFine(s) /\ \A g \in Grants : /\ Live(g, s)' <=> Live(g, s)
                                        /\ grant'[g].available = grant[g].available
                                        /\ grant'[g].expires = grant[g].expires
    BY DEF EntInv, Live, Turn
  <2> QED BY <2>1 DEF SubFine
<1> QED BY <1>2, <1>3, <1>4, <1>5 DEF EntInv

\* A reservation that holds no image comes, or one lets go without giving back.
LEMMA NoImages ==
  ASSUME Tables, EntInv, NEW h \in Holds, NEW r, \A g \in Grants : Img(r, g) = 0, grant' = grant
  PROVE  \A g \in Grants : Turn(h, r, g)
<1> SUFFICES ASSUME NEW g \in Grants PROVE Turn(h, r, g)
  OBVIOUS
<1>1. Img(resv[h], g) \in Nat /\ grant[g].left \in Nat /\ GrantFine(g)
  BY ImgTypes DEF Tables, GrantRow, EntInv
<1> QED BY <1>1 DEF Turn, GrantFine

\* A step that changes neither reservations nor entitlements.
LEMMA EntStill ==
  ASSUME EntInv, UNCHANGED <<resv, grant, order, sub, period>>
  PROVE  EntInv'
<1>1. \A g \in Grants : GrantFine(g)'
  BY DEF EntInv, GrantFine, Revoked, HeldOf
<1>2. \A h \in Holds : DrawFine(h)'
  BY DEF EntInv, DrawFine
<1>3. (\A o \in Orders : OrderFine(o)') /\ (\A s \in Subs : SubFine(s)')
  BY DEF EntInv, OrderFine, SubFine, Live
<1> QED BY <1>1, <1>2, <1>3 DEF EntInv

\* Steps of the wallet and of the clock.
LEMMA EntWallet ==
  ASSUME EntInv, WalletStep \/ Tick \/ UNCHANGED vars
  PROVE  EntInv'
<1>1. UNCHANGED <<resv, grant, order, sub, period>>
  BY DEF WalletStep, OpenWallet, InitializeWallet, AdjustCredit, SetUnlimitedCompute, Tick,
         entitlements, vars
<1> QED BY <1>1, EntStill

\* A new reservation that draws on no grant.
LEMMA EntReservePlain ==
  ASSUME Tables, Tables', EntInv, NEW h \in Holds, NEW u \in Users, NEW qty \in Nat, NEW rate \in Nat,
         \/ \E kind \in {"rate", "image", "exact"} : ReserveWaived(h, u, kind, qty, rate)
         \/ ReserveUnlimited(h, u, qty, rate) \/ ReserveCharge(h, u, qty, rate)
         \/ ReserveExactCash(h, u, rate)
  PROVE  EntInv'
<1>1. UNCHANGED <<grant, order, sub, period>>
  BY DEF ReserveWaived, ReserveUnlimited, ReserveCharge, ReserveExactCash, entitlements
<1>2. PICK r : resv' = [resv EXCEPT ![h] = r] /\ r.take = NoTake
  <2>1. ASSUME NEW b, b.take = NoTake, NEW credit, NEW cash, HoldPoints(h, u, b, credit, cash),
               "take" \in DOMAIN b
        PROVE  \E r : resv' = [resv EXCEPT ![h] = r] /\ r.take = NoTake
    <3> DEFINE r == [b EXCEPT !.credit = credit, !.cash = cash]
    <3>1. r.take = NoTake /\ resv' = [resv EXCEPT ![h] = r]
      BY <2>1 DEF HoldPoints
    <3> QED BY <3>1
  <2>2. CASE \E kind \in {"rate", "image", "exact"} : ReserveWaived(h, u, kind, qty, rate)
    <3>1. PICK kind \in {"rate", "image", "exact"} : ReserveWaived(h, u, kind, qty, rate)
      BY <2>2
    <3> DEFINE r == [Unused EXCEPT !.status = "waived", !.user = u, !.kind = kind, !.qty = qty, !.rate = rate]
    <3>2. r.take = NoTake /\ resv' = [resv EXCEPT ![h] = r]
      BY <3>1 DEF ReserveWaived, Unused
    <3> QED BY <3>2
  <2>3. CASE ReserveUnlimited(h, u, qty, rate)
    <3> DEFINE r == [Unused EXCEPT !.status = "held", !.user = u, !.kind = "unlimited",
                                   !.qty = qty, !.rate = rate]
    <3>1. r.take = NoTake /\ resv' = [resv EXCEPT ![h] = r]
      BY <2>3 DEF ReserveUnlimited, Unused
    <3> QED BY <3>1
  <2>4. CASE ReserveCharge(h, u, qty, rate)
    <3> DEFINE b == [Unused EXCEPT !.status = "held", !.user = u, !.qty = qty, !.rate = rate]
    <3>1. b.take = NoTake /\ "take" \in DOMAIN b
      BY DEF Unused
    <3>2. \E credit, cash : HoldPoints(h, u, b, credit, cash)
      BY <2>4 DEF ReserveCharge
    <3> HIDE DEF b
    <3> QED BY <2>1, <3>1, <3>2
  <2>5. CASE ReserveExactCash(h, u, rate)
    <3> DEFINE b == [Unused EXCEPT !.status = "held", !.user = u, !.kind = "exact", !.qty = 1, !.rate = rate]
    <3>1. b.take = NoTake /\ "take" \in DOMAIN b
      BY DEF Unused
    <3>2. \E credit, cash : HoldPoints(h, u, b, credit, cash)
      BY <2>5 DEF ReserveExactCash
    <3> HIDE DEF b
    <3> QED BY <2>1, <3>1, <3>2
  <2> QED BY <2>2, <2>3, <2>4, <2>5
<1>3. \A g \in Grants : Img(r, g) = 0
  BY <1>2 DEF Img, NoTake
<1> QED BY <1>1, <1>2, <1>3, NoImages, TurnStep

\* reserve_charge draws on usable grants of its user.
LEMMA EntReserveImages ==
  ASSUME Tables, Tables', EntInv, NEW h \in Holds, NEW u \in Users, NEW qty \in Nat, NEW rate \in Nat,
         ReserveImages(h, u, qty, rate)
  PROVE  EntInv'
<1>1. PICK free \in 0 .. qty, take \in Counts(Usable(u), qty) :
        /\ IsDraw(u, qty, take, free)
        /\ \E credit, cash :
             HoldPoints(h, u, [Unused EXCEPT !.status = "held", !.user = u, !.kind = "image",
                                 !.qty = qty, !.rate = rate, !.images = free, !.take = take],
                        credit, cash)
        /\ grant' = [g \in Grants |-> [grant[g] EXCEPT !.left = @ - take[g]]]
  BY DEF ReserveImages
<1>2. PICK r : /\ resv' = [resv EXCEPT ![h] = r]
               /\ r.status = "held" /\ r.user = u /\ r.images = free /\ r.take = take
  <2> DEFINE b == [Unused EXCEPT !.status = "held", !.user = u, !.kind = "image",
                                 !.qty = qty, !.rate = rate, !.images = free, !.take = take]
  <2>1. PICK credit, cash : HoldPoints(h, u, b, credit, cash)
    BY <1>1
  <2> DEFINE r == [b EXCEPT !.credit = credit, !.cash = cash]
  <2>2. resv' = [resv EXCEPT ![h] = r]
    BY <2>1 DEF HoldPoints
  <2>3. r.status = "held" /\ r.user = u /\ r.images = free /\ r.take = take
    BY DEF Unused
  <2> QED BY <2>2, <2>3
<1>3. UNCHANGED <<order, sub, period>> /\ resv[h].status = "none"
  BY DEF ReserveImages
<1>4. take \in [Grants -> Nat]
  <2>1. Usable(u) \in SUBSET Grants
    BY DEF Usable
  <2> QED BY <2>1, CountsType
<1>5. ASSUME NEW g \in Grants PROVE Turn(h, r, g)
  <2>1. /\ grant[g] \in GrantRow /\ grant[g].left \in Nat /\ take[g] \in Nat
        /\ grant'[g] = [grant[g] EXCEPT !.left = grant[g].left - take[g]]
    BY <1>1, <1>4 DEF Tables, GrantRow
  <2>2. /\ grant'[g].total = grant[g].total /\ grant'[g].user = grant[g].user
        /\ grant'[g].available = grant[g].available /\ grant'[g].expires = grant[g].expires
        /\ grant'[g].left = grant[g].left - take[g]
    BY <2>1 DEF GrantRow
  <2>3. Img(r, g) = take[g] /\ Img(resv[h], g) = 0
    BY <1>2, <1>3 DEF Img
  <2>4. take[g] <= grant[g].left /\ (take[g] > 0 => g \in Usable(u))
    BY <1>1, <2>1 DEF IsDraw
  <2>5. take[g] > 0 => free > 0 /\ u = grant[g].user
    <3>1. take[g] <= SumFunctionOnSet(take, Grants) /\ SumFunctionOnSet(take, Grants) = free
      BY <1>1, <1>4, FiniteTables, SumNat DEF IsDraw
    <3> QED BY <2>1, <2>4, <3>1 DEF Usable
  <2>6. Revoked(g) => grant[g].left = 0
    BY DEF EntInv, GrantFine
  <2> QED BY <1>2, <2>1, <2>2, <2>3, <2>4, <2>5, <2>6 DEF Turn
<1> QED BY <1>2, <1>3, <1>5, TurnStep

\* What a finished job gives back is at most what it drew.
LEMMA EntGiveBack ==
  ASSUME Tables, Tables', EntInv, NEW h \in Holds, NEW r, resv' = [resv EXCEPT ![h] = r], r.status # "held",
         resv[h].status = "held", UNCHANGED <<order, sub, period>>, NEW n \in Nat,
         NEW back \in Counts({g \in Grants : resv[h].take[g] > 0}, n),
         \A g \in Grants : back[g] <= resv[h].take[g], grant' = RestoreGrants(back)
  PROVE  EntInv'
<1>1. back \in [Grants -> Nat]
  <2>1. {g \in Grants : resv[h].take[g] > 0} \in SUBSET Grants
    OBVIOUS
  <2> QED BY <2>1, CountsType
<1>2. ASSUME NEW g \in Grants PROVE Turn(h, r, g)
  <2>1. /\ grant[g] \in GrantRow /\ grant[g].left \in Nat /\ grant[g].total \in Nat /\ back[g] \in Nat
        /\ grant'[g] = [grant[g] EXCEPT !.left = Least(grant[g].total, grant[g].left + back[g])]
    BY <1>1 DEF Tables, GrantRow, RestoreGrants
  <2>2. /\ grant'[g].total = grant[g].total /\ grant'[g].user = grant[g].user
        /\ grant'[g].available = grant[g].available /\ grant'[g].expires = grant[g].expires
        /\ grant'[g].left = Least(grant[g].total, grant[g].left + back[g])
    BY <2>1 DEF GrantRow
  <2>3. Img(r, g) = 0 /\ Img(resv[h], g) = resv[h].take[g] /\ resv[h].take[g] \in Nat
    BY DEF Img, Tables, ReservationRow
  <2>4. back[g] <= resv[h].take[g]
    OBVIOUS
  <2>5. Revoked(g) => grant[g].left = 0 /\ resv[h].take[g] = 0
    BY <2>3 DEF EntInv, GrantFine
  <2> QED BY <2>1, <2>2, <2>3, <2>4, <2>5 DEF Turn, Least
<1> QED BY <1>2, TurnStep

LEMMA EntFinish ==
  ASSUME Tables, Tables', EntInv, NEW h \in Holds,
         \/ SettleUnlimited(h) \/ (\E actual \in 0 .. MaxQty : SettleReservation(h, actual))
         \/ ReleaseReservation(h) \/ RefundExactCash(h)
  PROVE  EntInv'
<1>0. resv[h] \in ReservationRow /\ resv[h].images \in Nat
  BY DEF Tables, ReservationRow
<1>1. CASE SettleUnlimited(h) \/ RefundExactCash(h)
  <2>1. UNCHANGED <<grant, order, sub, period>>
    BY <1>1 DEF SettleUnlimited, RefundExactCash, entitlements
  <2>2. PICK r : resv' = [resv EXCEPT ![h] = r] /\ r.status = "settled"
    <3>1. CASE SettleUnlimited(h)
      <4> DEFINE r == [resv[h] EXCEPT !.status = "settled"]
      <4>1. resv' = [resv EXCEPT ![h] = r] /\ r.status = "settled"
        BY <1>0, <3>1 DEF SettleUnlimited, ReservationRow
      <4> QED BY <4>1
    <3>2. CASE RefundExactCash(h)
      <4> DEFINE r == [resv[h] EXCEPT !.refunded = resv[h].sCash]
      <4>1. resv' = [resv EXCEPT ![h] = r] /\ r.status = "settled"
        BY <1>0, <3>2 DEF RefundExactCash, ReservationRow
      <4> QED BY <4>1
    <3> QED BY <1>1, <3>1, <3>2
  <2>3. \A g \in Grants : Img(r, g) = 0
    BY <2>2 DEF Img
  <2> QED BY <2>1, <2>2, <2>3, NoImages, TurnStep
<1>2. CASE \E actual \in 0 .. MaxQty : SettleReservation(h, actual)
  <2>1. PICK actual \in 0 .. MaxQty : SettleReservation(h, actual)
    BY <1>2
  <2>2. resv[h].status = "held" /\ UNCHANGED <<order, sub, period>>
    BY <2>1 DEF SettleReservation, IsHeld
  <2>3. PICK r : resv' = [resv EXCEPT ![h] = r] /\ r.status = "settled"
    <3> DEFINE r == [resv[h] EXCEPT !.status = "settled", !.sCredit = SettledCredit(resv[h], actual),
                       !.sCash = SettledCash(resv[h], actual), !.sImages = SettledImages(resv[h], actual)]
    <3>1. resv' = [resv EXCEPT ![h] = r]
      BY <2>1 DEF SettleReservation
    <3>2. r.status = "settled"
      BY <1>0 DEF ReservationRow
    <3> QED BY <3>1, <3>2
  <2>4. PICK back \in Counts({g \in Grants : resv[h].take[g] > 0}, resv[h].images) :
          (\A g \in Grants : back[g] <= resv[h].take[g]) /\ grant' = RestoreGrants(back)
    BY <2>1 DEF SettleReservation, IsRestore
  <2> QED BY <1>0, <2>2, <2>3, <2>4, EntGiveBack
<1>3. CASE ReleaseReservation(h)
  <2>1. resv[h].status = "held" /\ UNCHANGED <<order, sub, period>>
    BY <1>3 DEF ReleaseReservation, IsHeld
  <2>2. PICK r : resv' = [resv EXCEPT ![h] = r] /\ r.status = "released"
    <3> DEFINE r == [resv[h] EXCEPT !.status = "released"]
    <3>1. resv' = [resv EXCEPT ![h] = r]
      BY <1>3 DEF ReleaseReservation
    <3>2. r.status = "released"
      BY <1>0 DEF ReservationRow
    <3> QED BY <3>1, <3>2
  <2>3. PICK back \in Counts({g \in Grants : resv[h].take[g] > 0}, resv[h].images) :
          (\A g \in Grants : back[g] <= resv[h].take[g]) /\ grant' = RestoreGrants(back)
    BY <1>3 DEF ReleaseReservation, IsRestore
  <2> QED BY <1>0, <2>1, <2>2, <2>3, EntGiveBack
<1> QED BY <1>1, <1>2, <1>3

LEMMA GrantNames ==
  \A g \in Grants : g[1] \in Orders /\ g[2] \in 0 .. MaxMonths /\ g[2] \in Nat /\ g = <<g[1], g[2]>>
BY BillingConstants DEF Grants

\* An order that was never approved has given nothing.
LEMMA Ungiven ==
  ASSUME Tables, EntInv, NEW g \in Grants, order[g[1]].status \notin Given
  PROVE  /\ grant[g].total = 0 /\ grant[g].left = 0 /\ period[g] = "none"
         /\ SumFunctionOnSet(HeldOf(g), Holds) = 0
         /\ \A h \in Holds : Img(resv[h], g) = 0
<1>1. grant[g].total \in Nat /\ grant[g].left \in Nat /\ GrantFine(g)
  BY DEF Tables, GrantRow, EntInv
<1>2. SumFunctionOnSet(HeldOf(g), Holds) \in Nat
  BY HeldTotal
<1>3. grant[g].total = 0 /\ period[g] = "none"
  BY <1>1 DEF GrantFine
<1>4. grant[g].left = 0 /\ SumFunctionOnSet(HeldOf(g), Holds) = 0
  BY <1>1, <1>2, <1>3 DEF GrantFine
<1>5. \A h \in Holds : Img(resv[h], g) = 0
  <2> SUFFICES ASSUME NEW h \in Holds PROVE Img(resv[h], g) = 0
    OBVIOUS
  <2>1. Img(resv[h], g) \in Nat /\ Img(resv[h], g) <= SumFunctionOnSet(HeldOf(g), Holds)
    BY HeldTotal, ImgTypes
  <2> QED BY <1>4, <2>1
<1> QED BY <1>3, <1>4, <1>5

\* A step that leaves grant g, its month and what its order says of it alone.
Kept(g) ==
  /\ grant'[g] = grant[g] /\ period'[g] = period[g]
  /\ order'[g[1]].status = order[g[1]].status /\ order'[g[1]].user = order[g[1]].user
  /\ order'[g[1]].kind = order[g[1]].kind /\ order'[g[1]].bonus = order[g[1]].bonus
  /\ order'[g[1]].sub = order[g[1]].sub

LEMMA GrantKept ==
  ASSUME EntInv, NEW g \in Grants, Kept(g), resv' = resv
  PROVE  GrantFine(g)'
<1>1. GrantFine(g) /\ HeldOf(g)' = HeldOf(g) /\ (Revoked(g)' <=> Revoked(g))
  BY DEF EntInv, HeldOf, Revoked, Kept
<1> QED BY <1>1 DEF GrantFine, Kept

\* An order is created, rejected or cancelled.
LEMMA EntOrder ==
  ASSUME Tables, EntInv, NEW o \in Orders, UNCHANGED <<resv, grant, sub, period>>,
         order[o].status \notin Given, order'[o].status \notin Given, OrderFine(o)',
         \A p \in Orders \ {o} : order'[p] = order[p]
  PROVE  EntInv'
<1>1. ASSUME NEW g \in Grants PROVE GrantFine(g)'
  <2>1. CASE g[1] # o
    <3>1. Kept(g)
      BY <2>1, GrantNames DEF Kept
    <3> QED BY <3>1, GrantKept
  <2>2. CASE g[1] = o
    <3>1. GrantFine(g) /\ grant[g].total = 0 /\ period[g] = "none" /\ HeldOf(g)' = HeldOf(g)
      BY <2>2, Ungiven DEF EntInv, HeldOf
    <3>2. ~Revoked(g)'
      BY <2>2, <3>1 DEF Revoked, Given
    <3> QED BY <3>1, <3>2 DEF GrantFine
  <2> QED BY <2>1, <2>2
<1>2. ASSUME NEW h \in Holds PROVE DrawFine(h)'
  BY DEF EntInv, DrawFine
<1>3. ASSUME NEW p \in Orders PROVE OrderFine(p)'
  <2>1. CASE p # o
    BY <2>1 DEF EntInv, OrderFine
  <2> QED BY <2>1
<1>4. ASSUME NEW s \in Subs PROVE SubFine(s)'
  <2>1. \A g \in Grants : Live(g, s)' <=> Live(g, s)
    BY Ungiven, GrantNames DEF Live
  <2>2. SubFine(s)
    BY DEF EntInv
  <2> QED BY <2>1, <2>2 DEF SubFine
<1> QED BY <1>1, <1>2, <1>3, <1>4 DEF EntInv

LEMMA EntCreate ==
  ASSUME Tables, EntInv, NEW o \in Orders, NEW u \in Users, NEW points \in Nat, NEW bonus \in Nat,
         NEW months, NEW s \in Subs \cup {NoSub}, NEW kind \in {"credit_pack", "subscription"},
         kind = "subscription" => points = 0 /\ months \in 1 .. MaxMonths,
         CreateOrder(o, u, kind, points, bonus, months, s)
  PROVE  EntInv'
<1> DEFINE row == [status |-> "pending", user |-> u, kind |-> kind, points |-> points,
                   bonus |-> bonus, months |-> months, sub |-> s]
<1>1. /\ row.status = "pending" /\ row.user = u /\ row.kind = kind /\ row.points = points
      /\ row.months = months /\ row.sub = s
  OBVIOUS
<1>2. /\ order[o].status = "none" /\ order' = [order EXCEPT ![o] = row]
      /\ s # NoSub => sub[s].status # "none" /\ sub[s].user = u
      /\ UNCHANGED <<resv, grant, sub, period>>
  BY DEF CreateOrder
<1> HIDE DEF row
<1>3. order'[o] = row /\ \A p \in Orders \ {o} : order'[p] = order[p]
  BY <1>2 DEF Tables
<1>4. OrderFine(o)'
  BY <1>1, <1>2, <1>3 DEF OrderFine
<1> QED BY <1>1, <1>2, <1>3, <1>4, EntOrder DEF Given

LEMMA EntDrop ==
  ASSUME Tables, EntInv, NEW o \in Orders, RejectOrder(o) \/ CancelOrder(o)
  PROVE  EntInv'
<1>1. PICK status \in {"rejected", "cancelled"} :
        order' = [order EXCEPT ![o] = [order[o] EXCEPT !.status = status]]
  BY DEF RejectOrder, CancelOrder
<1>2. order[o].status = "pending" /\ UNCHANGED <<resv, grant, sub, period>>
  BY DEF RejectOrder, CancelOrder
<1>3. order[o] \in OrderRow
  BY DEF Tables
<1> DEFINE row == [order[o] EXCEPT !.status = status]
<1>4. /\ row.status = status /\ row.user = order[o].user /\ row.kind = order[o].kind
      /\ row.points = order[o].points /\ row.months = order[o].months /\ row.sub = order[o].sub
  BY <1>3 DEF OrderRow
<1> HIDE DEF row
<1>5. order'[o] = row /\ \A p \in Orders \ {o} : order'[p] = order[p]
  BY <1>1 DEF Tables, row
<1>6. OrderFine(o)'
  BY <1>2, <1>4, <1>5 DEF OrderFine, EntInv
<1> QED BY <1>2, <1>4, <1>5, <1>6, EntOrder DEF Given
\* A grant that is whole is held by nobody.
LEMMA WholeIsFree ==
  ASSUME Tables, EntInv, NEW g \in Grants, grant[g].left = grant[g].total
  PROVE  /\ SumFunctionOnSet(HeldOf(g), Holds) = 0
         /\ \A h \in Holds : Img(resv[h], g) = 0
<1>1. grant[g].total \in Nat /\ grant[g].left \in Nat
  BY DEF Tables, GrantRow
<1>2. SumFunctionOnSet(HeldOf(g), Holds) \in Nat
  BY HeldTotal
<1>3. grant[g].left + SumFunctionOnSet(HeldOf(g), Holds) <= grant[g].total
  BY DEF EntInv, GrantFine
<1>4. SumFunctionOnSet(HeldOf(g), Holds) = 0
  BY <1>1, <1>2, <1>3
<1>5. ASSUME NEW h \in Holds PROVE Img(resv[h], g) = 0
  <2>1. Img(resv[h], g) \in Nat /\ Img(resv[h], g) <= SumFunctionOnSet(HeldOf(g), Holds)
    BY HeldTotal, ImgTypes
  <2> QED BY <1>4, <2>1
<1> QED BY <1>4, <1>5

\* A credit pack is approved: its bonus is a new grant.
LEMMA EntApproveCreditPack ==
  ASSUME Tables, Tables', EntInv, NEW o \in Orders, ApproveCreditPack(o)
  PROVE  EntInv'
<1> DEFINE row == [order[o] EXCEPT !.status = "approved"]
           new == NewGrant(order[o].user, order[o].bonus, now, 0)
<1>1. /\ order[o].status = "pending" /\ order[o].kind = "credit_pack"
      /\ grant' = IF order[o].bonus = 0 THEN grant ELSE [grant EXCEPT ![Bonus(o)] = new]
      /\ order' = [order EXCEPT ![o] = row] /\ UNCHANGED <<resv, sub, period>>
  BY DEF ApproveCreditPack
<1>2. order[o] \in OrderRow /\ order[o].bonus \in Nat
  BY DEF Tables, OrderRow
<1>3. /\ row.status = "approved" /\ row.user = order[o].user /\ row.kind = order[o].kind
      /\ row.points = order[o].points /\ row.months = order[o].months /\ row.sub = order[o].sub
      /\ row.bonus = order[o].bonus
  BY <1>2 DEF OrderRow
<1>4. new.user = order[o].user /\ new.total = order[o].bonus /\ new.left = order[o].bonus
  BY DEF NewGrant
<1> HIDE DEF row, new
<1>5. order'[o] = row /\ \A p \in Orders \ {o} : order'[p] = order[p]
  BY <1>1 DEF Tables
<1>6. Bonus(o) \in Grants /\ Bonus(o)[1] = o /\ Bonus(o)[2] = 0
  BY BillingConstants DEF Bonus, Grants
<1>7. \A g \in Grants : g # Bonus(o) => grant'[g] = grant[g]
  BY <1>1, <1>6 DEF Tables
<1>8. order[o].bonus # 0 => grant'[Bonus(o)] = new
  BY <1>1, <1>6 DEF Tables
<1>9. \A g \in Grants : g[1] = o => /\ grant[g].total = 0 /\ grant[g].left = 0 /\ period[g] = "none"
                                    /\ SumFunctionOnSet(HeldOf(g), Holds) = 0
                                    /\ \A h \in Holds : Img(resv[h], g) = 0
  BY <1>1, Ungiven DEF Given
<1>10. ASSUME NEW g \in Grants PROVE GrantFine(g)'
  <2>1. CASE g[1] # o
    <3>1. Kept(g)
      BY <1>1, <1>5, <1>6, <1>7, <2>1, GrantNames DEF Kept
    <3> QED BY <1>1, <3>1, GrantKept
  <2>2. CASE g[1] = o
    <3>1. ~Revoked(g)' /\ HeldOf(g)' = HeldOf(g)
      BY <1>1, <1>3, <1>5, <1>9, <2>2 DEF Revoked, HeldOf
    <3>2. CASE g # Bonus(o) \/ order[o].bonus = 0
      <4>1. grant'[g] = grant[g]
        BY <1>1, <1>7, <3>2
      <4> QED BY <1>1, <1>9, <2>2, <3>1, <4>1 DEF GrantFine
    <3>3. CASE g = Bonus(o) /\ order[o].bonus # 0
      <4>1. grant'[g] = new
        BY <1>8, <3>3
      <4>2. /\ order'[g[1]].status = "approved" /\ order'[g[1]].user = order[o].user
            /\ order'[g[1]].kind = "credit_pack" /\ order'[g[1]].bonus = order[o].bonus
        BY <1>1, <1>3, <1>5, <2>2
      <4>3. g[2] = 0 /\ period'[g] = "none"
        BY <1>1, <1>6, <1>9, <3>3
      <4>4. grant'[g].left + SumFunctionOnSet(HeldOf(g)', Holds) <= grant'[g].total
        BY <1>2, <1>4, <1>9, <2>2, <3>1, <4>1
      <4> QED BY <1>4, <3>1, <4>1, <4>2, <4>3, <4>4 DEF GrantFine, Given
    <3> QED BY <3>2, <3>3
  <2> QED BY <2>1, <2>2
<1>11. ASSUME NEW h \in Holds PROVE DrawFine(h)'
  <2> SUFFICES ASSUME NEW g \in Grants, Img(resv[h], g) > 0
               PROVE  resv[h].images > 0 /\ resv[h].user = grant'[g].user
    BY <1>1 DEF DrawFine
  <2>1. g # Bonus(o)
    BY <1>6, <1>9
  <2> QED BY <1>7, <2>1 DEF EntInv, DrawFine
<1>12. ASSUME NEW p \in Orders PROVE OrderFine(p)'
  <2>1. OrderFine(p)
    BY DEF EntInv
  <2> QED BY <1>1, <1>3, <1>5, <2>1 DEF OrderFine
<1>13. ASSUME NEW s \in Subs PROVE SubFine(s)'
  <2>1. \A g \in Grants : /\ Live(g, s)' <=> Live(g, s)
                          /\ Live(g, s) => grant'[g] = grant[g]
    BY <1>1, <1>3, <1>5, <1>6, <1>7, <1>9, GrantNames DEF Live
  <2>2. SubFine(s)
    BY DEF EntInv
  <2> QED BY <1>1, <2>1, <2>2 DEF SubFine
<1> QED BY <1>10, <1>11, <1>12, <1>13 DEF EntInv
\* A subscription is approved: its months are appended, none overlaps an older one.
LEMMA EntApproveSubscription ==
  ASSUME Tables, Tables', EntInv, NEW o \in Orders, NEW s \in Subs, ApproveSubscription(o, s)
  PROVE  EntInv'
<1> DEFINE row == [order[o] EXCEPT !.status = "approved", !.sub = s]
           start == RenewalStart(s)
           months == order[o].months
           new == {<<o, k>> : k \in 1 .. months}
           srow == [status |-> "active", user |-> order[o].user, end |-> start + months]
<1>1. order[o] \in OrderRow /\ sub[s] \in SubRow /\ now \in Nat /\ sub[s].end \in Nat
  BY DEF Tables, SubRow
<1>2. /\ order[o].status = "pending" /\ order[o].kind = "subscription"
      /\ IF order[o].sub = NoSub THEN sub[s].status = "none" ELSE s = order[o].sub
      /\ order' = [order EXCEPT ![o] = row] /\ sub' = [sub EXCEPT ![s] = srow]
      /\ resv' = resv
  BY <1>1 DEF ApproveSubscription, Tables
<1>3. /\ row.status = "approved" /\ row.user = order[o].user /\ row.kind = order[o].kind
      /\ row.points = order[o].points /\ row.months = months /\ row.sub = s
      /\ row.bonus = order[o].bonus
  BY <1>1 DEF OrderRow
<1>4. srow.status = "active" /\ srow.user = order[o].user /\ srow.end = start + months
  OBVIOUS
<1>5. start \in Nat /\ sub[s].end <= start
  BY <1>1 DEF RenewalStart, Most
<1>6. months \in 1 .. MaxMonths /\ months \in Nat
  BY <1>2, BillingConstants DEF EntInv, OrderFine
<1>7. ASSUME NEW g \in Grants, g[1] = o, g[2] \in 1 .. months
      PROVE  /\ grant'[g].user = order[o].user /\ grant'[g].total = MonthlyImages
             /\ grant'[g].left = MonthlyImages /\ grant'[g].available = start + g[2] - 1
             /\ grant'[g].expires = start + g[2] /\ period'[g] \in {"active", "scheduled"}
  <2>1. g \in new
    BY <1>7, GrantNames
  <2>2. /\ grant'[g] = NewGrant(order[o].user, MonthlyImages, start + g[2] - 1, start + g[2])
        /\ period'[g] \in {"active", "scheduled"}
    BY <2>1 DEF ApproveSubscription
  <2> QED BY <2>2 DEF NewGrant
<1>8. ASSUME NEW g \in Grants, g[1] # o \/ g[2] \notin 1 .. months
      PROVE  grant'[g] = grant[g] /\ period'[g] = period[g]
  <2>1. g \notin new
    BY <1>8
  <2> QED BY <2>1 DEF ApproveSubscription
<1> HIDE DEF row, start, months, new, srow
<1>9. order'[o] = row /\ \A p \in Orders \ {o} : order'[p] = order[p]
  BY <1>2 DEF Tables
<1>10. sub'[s] = srow /\ \A t \in Subs \ {s} : sub'[t] = sub[t]
  BY <1>2 DEF Tables
<1>11. \A g \in Grants : g[1] = o => /\ grant[g].total = 0 /\ grant[g].left = 0 /\ period[g] = "none"
                                     /\ SumFunctionOnSet(HeldOf(g), Holds) = 0
                                     /\ \A h \in Holds : Img(resv[h], g) = 0
  BY <1>2, Ungiven DEF Given
<1>12. \A t \in Subs : SubFine(t)
  BY DEF EntInv
<1>13. \A g \in Grants : /\ grant[g].expires \in Nat /\ grant[g].available \in Nat
                         /\ g[2] \in Nat
  BY GrantNames DEF Tables, GrantRow
<1>14. ASSUME NEW g \in Grants PROVE GrantFine(g)'
  <2>1. CASE g[1] # o
    <3>1. Kept(g)
      BY <1>8, <1>9, <2>1, GrantNames DEF Kept
    <3> QED BY <1>2, <3>1, GrantKept
  <2>2. CASE g[1] = o /\ g[2] \notin 1 .. months
    <3>1. grant'[g] = grant[g] /\ period'[g] = "none" /\ HeldOf(g)' = HeldOf(g) /\ ~Revoked(g)'
      BY <1>2, <1>3, <1>8, <1>9, <1>11, <2>2 DEF Revoked, HeldOf
    <3> QED BY <1>11, <2>2, <3>1 DEF GrantFine
  <2>3. CASE g[1] = o /\ g[2] \in 1 .. months
    <3>1. HeldOf(g)' = HeldOf(g) /\ ~Revoked(g)'
      BY <1>2, <1>3, <1>7, <1>9, <2>3 DEF Revoked, HeldOf
    <3>2. grant'[g].left + SumFunctionOnSet(HeldOf(g)', Holds) <= grant'[g].total
      BY <1>7, <1>11, <2>3, <3>1, BillingConstants
    <3>3. grant'[g].expires = grant'[g].available + 1 /\ g[2] # 0
      BY <1>5, <1>7, <1>13, <2>3
    <3>4. /\ order'[g[1]].status = "approved" /\ order'[g[1]].user = order[o].user
          /\ order'[g[1]].kind = "subscription" /\ order'[g[1]].sub = s
      BY <1>2, <1>3, <1>9, <2>3
    <3>5. grant'[g].user = order[o].user /\ period'[g] # "none"
      BY <1>7, <2>3
    <3> QED BY <3>1, <3>2, <3>3, <3>4, <3>5 DEF GrantFine, Given
  <2> QED BY <2>1, <2>2, <2>3
<1>15. ASSUME NEW h \in Holds PROVE DrawFine(h)'
  <2> SUFFICES ASSUME NEW g \in Grants, Img(resv[h], g) > 0
               PROVE  resv[h].images > 0 /\ resv[h].user = grant'[g].user
    BY <1>2 DEF DrawFine
  <2>1. g[1] # o
    BY <1>11
  <2> QED BY <1>8, <2>1 DEF EntInv, DrawFine
<1>16. ASSUME NEW p \in Orders PROVE OrderFine(p)'
  <2>1. OrderFine(p) /\ OrderFine(o) /\ order[p].sub \in Subs \cup {NoSub} /\ NoSub \notin Subs
    BY BillingConstants DEF EntInv, Tables, OrderRow
  <2>2. CASE p = o
    BY <1>3, <1>4, <1>9, <1>10, <2>1, <2>2 DEF OrderFine, months
  <2>3. CASE p # o /\ order[p].sub # s
    BY <1>9, <1>10, <2>1, <2>3 DEF OrderFine
  <2>4. CASE p # o /\ order[p].sub = s
    <3>1. sub[s].status # "none" /\ sub[s].user = order[p].user
      BY <2>1, <2>4 DEF OrderFine
    <3>2. sub[s].user = order[o].user
      BY <1>2, <2>1, <3>1 DEF OrderFine
    <3> QED BY <1>4, <1>9, <1>10, <2>1, <2>4, <3>1, <3>2 DEF OrderFine
  <2> QED BY <2>2, <2>3, <2>4
<1>17. ASSUME NEW t \in Subs, t # s PROVE SubFine(t)'
  <2>1. \A g \in Grants : /\ Live(g, t)' <=> Live(g, t)
                          /\ Live(g, t) => grant'[g] = grant[g]
    BY <1>3, <1>8, <1>9, <1>11, <1>17, GrantNames DEF Live
  <2> QED BY <1>10, <1>12, <1>17, <2>1 DEF SubFine
<1>18. SubFine(s)'
  <2>1. ASSUME NEW g \in Grants, Live(g, s)'
        PROVE  \/ /\ g[1] # o /\ Live(g, s) /\ grant'[g] = grant[g]
                  /\ grant[g].expires <= start
               \/ g[1] = o /\ g[2] \in 1 .. months
    <3>1. CASE g[1] = o
      BY <1>8, <1>11, <2>1, <3>1 DEF Live
    <3>2. CASE g[1] # o
      <4>1. Live(g, s) /\ grant'[g] = grant[g]
        BY <1>8, <1>9, <2>1, <3>2, GrantNames DEF Live
      <4>2. grant[g].expires <= sub[s].end
        BY <1>12, <4>1 DEF SubFine
      <4> QED BY <1>1, <1>5, <1>13, <3>2, <4>1, <4>2
    <3> QED BY <3>1, <3>2
  <2>2. sub'[s].end = start + months
    BY <1>4, <1>10
  <2>3. ASSUME NEW g \in Grants, Live(g, s)' PROVE grant'[g].expires <= sub'[s].end
    <3>1. CASE g[1] = o /\ g[2] \in 1 .. months
      BY <1>5, <1>6, <1>7, <1>13, <2>2, <3>1
    <3>2. CASE grant'[g] = grant[g] /\ grant[g].expires <= start
      BY <1>5, <1>6, <1>13, <2>2, <3>2
    <3> QED BY <2>1, <2>3, <3>1, <3>2
  <2>4. ASSUME NEW g \in Grants, NEW h \in Grants, Live(g, s)', Live(h, s)', g # h
        PROVE  grant'[g].expires <= grant'[h].available \/ grant'[h].expires <= grant'[g].available
    <3>1. CASE g[1] # o /\ h[1] # o
      BY <1>12, <2>1, <2>4, <3>1 DEF SubFine
    <3>2. CASE g[1] = o /\ h[1] # o
      <4>1. /\ grant'[h].expires <= start /\ grant'[h].expires \in Nat
            /\ grant'[g].available = start + g[2] - 1
            /\ g[2] >= 1 /\ g[2] \in Nat
        BY <1>7, <1>13, <2>1, <2>4, <3>2
      <4> QED BY <1>5, <4>1
    <3>3. CASE g[1] # o /\ h[1] = o
      <4>1. /\ grant'[g].expires <= start /\ grant'[g].expires \in Nat
            /\ grant'[h].available = start + h[2] - 1
            /\ h[2] >= 1 /\ h[2] \in Nat
        BY <1>7, <1>13, <2>1, <2>4, <3>3
      <4> QED BY <1>5, <4>1
    <3>4. CASE g[1] = o /\ h[1] = o
      <4>1. /\ grant'[g].available = start + g[2] - 1 /\ grant'[g].expires = start + g[2]
            /\ grant'[h].available = start + h[2] - 1 /\ grant'[h].expires = start + h[2]
            /\ g[2] \in Nat /\ h[2] \in Nat
        BY <1>7, <1>13, <2>1, <2>4, <3>4
      <4>2. g[2] # h[2]
        BY <2>4, <3>4, GrantNames
      <4> QED BY <1>5, <4>1, <4>2
    <3> QED BY <3>1, <3>2, <3>3, <3>4
  <2>5. \E g \in Grants : Live(g, s)' /\ grant'[g].expires = sub'[s].end
    <3>1. <<o, months>> \in Grants /\ <<o, months>>[1] = o /\ <<o, months>>[2] = months
      BY <1>6, BillingConstants DEF Grants
    <3>2. months \in 1 .. months
      BY <1>6
    <3>3. PICK g \in Grants : g[1] = o /\ g[2] = months
      BY <3>1
    <3>4. Live(g, s)'
      BY <1>3, <1>7, <1>9, <3>2, <3>3 DEF Live
    <3> QED BY <1>7, <2>2, <3>2, <3>3, <3>4
  <2> QED BY <2>3, <2>4, <2>5 DEF SubFine
<1> QED BY <1>14, <1>15, <1>16, <1>17, <1>18 DEF EntInv
\* A credit pack is refunded: its bonus was whole, so nobody holds any of it.
LEMMA EntRefundCreditPack ==
  ASSUME Tables, Tables', EntInv, NEW o \in Orders, RefundCreditPack(o)
  PROVE  EntInv'
<1> DEFINE row == [order[o] EXCEPT !.status = "refunded"]
<1>1. /\ order[o].status = "approved" /\ order[o].kind = "credit_pack"
      /\ order[o].bonus > 0 => /\ grant[Bonus(o)].total = order[o].bonus
                               /\ grant[Bonus(o)].left = order[o].bonus
      /\ grant' = IF order[o].bonus > 0 THEN RevokeGrants({Bonus(o)}) ELSE grant
      /\ order' = [order EXCEPT ![o] = row] /\ UNCHANGED <<resv, sub, period>>
  BY DEF RefundCreditPack
<1>2. order[o] \in OrderRow /\ order[o].bonus \in Nat
  BY DEF Tables, OrderRow
<1>3. /\ row.status = "refunded" /\ row.user = order[o].user /\ row.kind = order[o].kind
      /\ row.points = order[o].points /\ row.months = order[o].months /\ row.sub = order[o].sub
      /\ row.bonus = order[o].bonus
  BY <1>2 DEF OrderRow
<1> HIDE DEF row
<1>4. order'[o] = row /\ \A p \in Orders \ {o} : order'[p] = order[p]
  BY <1>1 DEF Tables
<1>5. ASSUME NEW g \in Grants, g[1] # o PROVE grant'[g] = grant[g]
  <2>1. g # Bonus(o)
    BY <1>5 DEF Bonus
  <2> QED BY <1>1, <2>1 DEF RevokeGrants
<1>6. ASSUME NEW g \in Grants, g[1] = o
      PROVE  /\ grant'[g].left = 0 /\ grant'[g].total = grant[g].total
             /\ grant'[g].user = grant[g].user /\ grant[g].total \in Nat
             /\ SumFunctionOnSet(HeldOf(g), Holds) = 0 /\ period[g] = "none"
             /\ \A h \in Holds : Img(resv[h], g) = 0
  <2>1. GrantFine(g) /\ grant[g] \in GrantRow /\ grant[g].total \in Nat /\ grant[g].left \in Nat
    BY DEF EntInv, Tables, GrantRow
  <2>2. period[g] = "none"
    BY <1>1, <1>6, <2>1 DEF GrantFine
  <2>3. CASE g[2] = 0 /\ order[o].bonus > 0
    <3>1. g = Bonus(o)
      BY <1>6, <2>3, GrantNames DEF Bonus
    <3>2. grant[g].left = grant[g].total
      BY <1>1, <2>3, <3>1
    <3>3. grant'[g] = [grant[g] EXCEPT !.left = 0]
      BY <1>1, <2>3, <3>1 DEF RevokeGrants
    <3>4. grant'[g].left = 0 /\ grant'[g].total = grant[g].total /\ grant'[g].user = grant[g].user
      BY <2>1, <3>3 DEF GrantRow
    <3> QED BY <2>1, <2>2, <3>2, <3>4, WholeIsFree
  <2>4. CASE g[2] # 0 \/ order[o].bonus = 0
    <3>1. grant[g].total = 0
      BY <1>1, <1>6, <2>1, <2>2, <2>4 DEF GrantFine
    <3>2. SumFunctionOnSet(HeldOf(g), Holds) \in Nat
      BY HeldTotal
    <3>3. grant[g].left = 0
      BY <2>1, <3>1, <3>2 DEF GrantFine
    <3>4. grant'[g] = grant[g]
      <4>1. CASE order[o].bonus = 0
        BY <1>1, <4>1
      <4>2. CASE g[2] # 0
        <5>1. g # Bonus(o)
          BY <4>2 DEF Bonus
        <5> QED BY <1>1, <5>1 DEF RevokeGrants
      <4> QED BY <2>4, <4>1, <4>2
    <3> QED BY <2>1, <2>2, <3>1, <3>3, <3>4, WholeIsFree
  <2> QED BY <1>2, <2>3, <2>4
<1>7. ASSUME NEW g \in Grants PROVE GrantFine(g)'
  <2>1. CASE g[1] # o
    <3>1. Kept(g)
      BY <1>1, <1>4, <1>5, <2>1, GrantNames DEF Kept
    <3> QED BY <1>1, <3>1, GrantKept
  <2>2. CASE g[1] = o
    <3>1. GrantFine(g) /\ HeldOf(g)' = HeldOf(g)
      BY <1>1 DEF EntInv, HeldOf
    <3>2. /\ order'[g[1]].status = "refunded" /\ order'[g[1]].user = order[g[1]].user
          /\ order'[g[1]].kind = order[g[1]].kind /\ order'[g[1]].bonus = order[g[1]].bonus
      BY <1>3, <1>4, <2>2
    <3>3. grant'[g].left + SumFunctionOnSet(HeldOf(g)', Holds) <= grant'[g].total
      BY <1>6, <2>2, <3>1
    <3> QED BY <1>1, <1>6, <2>2, <3>1, <3>2, <3>3 DEF GrantFine, Given
  <2> QED BY <2>1, <2>2
<1>8. ASSUME NEW h \in Holds PROVE DrawFine(h)'
  <2>1. DrawFine(h) /\ resv' = resv
    BY <1>1 DEF EntInv
  <2>2. \A g \in Grants : grant'[g].user = grant[g].user
    BY <1>5, <1>6
  <2> QED BY <2>1, <2>2 DEF DrawFine
<1>9. ASSUME NEW p \in Orders PROVE OrderFine(p)'
  <2>1. OrderFine(p)
    BY DEF EntInv
  <2> QED BY <1>1, <1>3, <1>4, <2>1 DEF OrderFine
<1>10. ASSUME NEW s \in Subs PROVE SubFine(s)'
  <2>1. \A g \in Grants : /\ Live(g, s)' <=> Live(g, s)
                          /\ Live(g, s) => grant'[g] = grant[g]
    BY <1>1, <1>4, <1>5, <1>6, GrantNames DEF Live
  <2>2. SubFine(s)
    BY DEF EntInv
  <2> QED BY <1>1, <2>1, <2>2 DEF SubFine
<1> QED BY <1>7, <1>8, <1>9, <1>10 DEF EntInv

\* Months that no running work holds are cancelled and their images revoked.
Cancels(S) ==
  /\ period' = [g \in Grants |-> IF g \in S THEN "cancelled" ELSE period[g]]
  /\ grant' = RevokeGrants(S)

LEMMA CancelFacts ==
  ASSUME Tables, Tables', NEW S, Cancels(S), NEW g \in Grants
  PROVE  /\ grant'[g].total = grant[g].total /\ grant'[g].user = grant[g].user
         /\ grant'[g].available = grant[g].available /\ grant'[g].expires = grant[g].expires
         /\ g \in S => grant'[g].left = 0 /\ period'[g] = "cancelled"
         /\ g \notin S => grant'[g] = grant[g] /\ period'[g] = period[g]
<1>1. grant[g] \in GrantRow
  BY DEF Tables
<1>2. grant'[g] = IF g \in S THEN [grant[g] EXCEPT !.left = 0] ELSE grant[g]
  BY DEF Cancels, RevokeGrants
<1>3. period'[g] = IF g \in S THEN "cancelled" ELSE period[g]
  BY DEF Cancels
<1> QED BY <1>1, <1>2, <1>3 DEF GrantRow

\* What _ensure_image_grants_not_held lets through, nobody holds.
LEMMA NobodyHolds ==
  ASSUME Tables, EntInv, NEW u, NEW S, NotHeld(u, S), NEW g \in Grants, g \in S, grant[g].user = u,
         NEW h \in Holds
  PROVE  Img(resv[h], g) = 0
<1>1. Img(resv[h], g) \in Nat
  BY ImgTypes
<1>2. CASE Img(resv[h], g) > 0
  <2>1. resv[h].images > 0 /\ resv[h].user = u
    BY <1>2 DEF EntInv, DrawFine
  <2>2. resv[h].status = "held" /\ resv[h].take[g] > 0
    BY <1>2 DEF Img
  <2>3. resv[h].take[g] = 0
    BY <2>1, <2>2 DEF NotHeld
  <2> QED BY <2>2, <2>3
<1> QED BY <1>1, <1>2
\* An order keeps what it says; if it is refunded now, all it gave is cancelled.
SameOrder(p) ==
  /\ order'[p].user = order[p].user /\ order'[p].kind = order[p].kind
  /\ order'[p].bonus = order[p].bonus /\ order'[p].sub = order[p].sub
  /\ order'[p].points = order[p].points /\ order'[p].months = order[p].months
Reverses(p, S) ==
  \/ order'[p].status = order[p].status
  \/ /\ order'[p].status = "refunded" /\ order[p].status \in Given
     /\ \A g \in Grants : g[1] = p => g \in S \/ (grant[g].total = 0 /\ period[g] = "none")

LEMMA EntCancel ==
  ASSUME Tables, Tables', EntInv, NEW S, Cancels(S), resv' = resv,
         \A g \in Grants : g \in S => period[g] # "none" /\ \A h \in Holds : Img(resv[h], g) = 0,
         \A p \in Orders : SameOrder(p) /\ Reverses(p, S)
  PROVE  (\A g \in Grants : GrantFine(g)') /\ (\A h \in Holds : DrawFine(h)')
<1>1. ASSUME NEW g \in Grants PROVE GrantFine(g)'
  <2>1. /\ GrantFine(g) /\ HeldOf(g)' = HeldOf(g) /\ g[1] \in Orders
        /\ SameOrder(g[1]) /\ Reverses(g[1], S)
    BY GrantNames DEF EntInv, HeldOf
  <2>2. grant[g].left \in Nat /\ grant[g].total \in Nat /\ grant'[g].left \in Nat
    BY DEF Tables, GrantRow
  <2>3. SumFunctionOnSet(HeldOf(g), Holds) \in Nat
    BY HeldTotal
  <2>4. /\ grant'[g].total = grant[g].total /\ grant'[g].user = grant[g].user
        /\ grant'[g].available = grant[g].available /\ grant'[g].expires = grant[g].expires
        /\ g \in S => grant'[g].left = 0 /\ period'[g] = "cancelled"
        /\ g \notin S => grant'[g] = grant[g] /\ period'[g] = period[g]
    BY CancelFacts
  <2>5. /\ order'[g[1]].user = order[g[1]].user /\ order'[g[1]].kind = order[g[1]].kind
        /\ order'[g[1]].bonus = order[g[1]].bonus /\ order'[g[1]].sub = order[g[1]].sub
        /\ order[g[1]].status \in Given => order'[g[1]].status \in Given
    BY <2>1 DEF SameOrder, Reverses, Given
  <2>6. grant'[g].left + SumFunctionOnSet(HeldOf(g)', Holds) <= grant'[g].total
    <3>1. grant[g].left + SumFunctionOnSet(HeldOf(g), Holds) <= grant[g].total
      BY <2>1 DEF GrantFine
    <3>2. grant'[g].left <= grant[g].left
      BY <2>2, <2>4
    <3> QED BY <2>1, <2>2, <2>3, <2>4, <3>1, <3>2
  <2>7. period'[g] # "none" <=> period[g] # "none"
    BY <2>4
  <2>8. Revoked(g)' => grant'[g].left = 0 /\ \A h \in Holds : Img(resv[h], g) = 0
    <3>1. CASE g \in S
      BY <2>4, <3>1
    <3>2. CASE g \notin S /\ order'[g[1]].status = order[g[1]].status
      BY <2>1, <2>4, <3>2 DEF Revoked, GrantFine
    <3>3. CASE g \notin S /\ grant[g].total = 0
      <4>1. grant[g].left = 0 /\ grant[g].left = grant[g].total
        BY <2>1, <2>2, <2>3, <3>3 DEF GrantFine
      <4> QED BY <2>4, <3>3, <4>1, WholeIsFree
    <3> QED BY <2>1, <3>1, <3>2, <3>3 DEF Reverses
  <2> QED BY <2>1, <2>4, <2>5, <2>6, <2>7, <2>8 DEF GrantFine
<1>2. ASSUME NEW h \in Holds PROVE DrawFine(h)'
  <2>1. \A g \in Grants : grant'[g].user = grant[g].user
    BY CancelFacts
  <2> QED BY <2>1 DEF EntInv, DrawFine
<1> QED BY <1>1, <1>2

\* A subscription order is refunded.
LEMMA EntRefundSubscription ==
  ASSUME Tables, Tables', EntInv, NEW o \in Orders, RefundSubscription(o)
  PROVE  EntInv'
<1>0. PICK s : s = order[o].sub
  OBVIOUS
<1> DEFINE u == order[o].user
           mine == {g \in Months(o) : period[g] # "none"}
           live == {g \in PeriodsOf(s) \ mine : period[g] # "cancelled"}
           row == [order[o] EXCEPT !.status = "refunded"]
<1>1. /\ order[o].status = "approved" /\ order[o].kind = "subscription"
      /\ mine # {} /\ NotHeld(u, mine) /\ Cancels(mine)
      /\ order' = [order EXCEPT ![o] = row] /\ UNCHANGED <<now, resv>>
  BY DEF RefundSubscription, Cancels
<1>2. PICK end \in {0} \cup {grant[g].expires : g \in live} :
        /\ \A g \in live : grant[g].expires <= end
        /\ sub' = [sub EXCEPT ![s] = RecomputedSub(sub[s], end)]
  BY <1>0 DEF RefundSubscription
<1>3. order[o] \in OrderRow /\ now \in Nat
  BY DEF Tables
<1>4. \A g \in Grants : g \in mine <=> g[1] = o /\ period[g] # "none"
  <2> SUFFICES ASSUME NEW g \in Grants PROVE g \in mine <=> g[1] = o /\ period[g] # "none"
    OBVIOUS
  <2>1. g \in mine => g[1] = o /\ period[g] # "none"
    BY DEF Months
  <2>2. g[1] = o /\ period[g] # "none" => g \in Months(o)
    <3>1. period[g] # "none" => g[2] # 0
      BY DEF EntInv, GrantFine
    <3> QED BY <3>1, GrantNames, BillingConstants DEF Months
  <2> QED BY <2>1, <2>2
<1>5. mine \subseteq Grants
  BY BillingConstants DEF Months, Grants
<1>6. s \in Subs
  <2>1. PICK g \in Grants : g[1] = o /\ period[g] # "none"
    BY <1>1, <1>4, <1>5
  <2> QED BY <1>0, <2>1 DEF EntInv, GrantFine
<1>7. \A g \in Grants : g \in live <=> Live(g, s) /\ g \notin mine
  BY DEF Live, PeriodsOf
<1>8. live \subseteq Grants
  BY DEF PeriodsOf
<1>9. /\ row.status = "refunded" /\ row.user = order[o].user /\ row.kind = order[o].kind
      /\ row.points = order[o].points /\ row.months = order[o].months /\ row.sub = order[o].sub
      /\ row.bonus = order[o].bonus
  BY <1>3 DEF OrderRow
<1> HIDE DEF row, mine, live
<1>10. order'[o] = row /\ \A p \in Orders \ {o} : order'[p] = order[p]
  BY <1>1 DEF Tables
<1>11. ASSUME NEW g \in Grants, g \in mine
       PROVE  period[g] # "none" /\ \A h \in Holds : Img(resv[h], g) = 0
  <2>1. g[1] = o /\ period[g] # "none"
    BY <1>4, <1>11
  <2>2. grant[g].user = u
    BY <2>1 DEF EntInv, GrantFine
  <2> QED BY <1>1, <1>11, <2>1, <2>2, NobodyHolds
<1>12. \A p \in Orders : SameOrder(p) /\ Reverses(p, mine)
  <2>1. ASSUME NEW p \in Orders, p # o PROVE SameOrder(p) /\ Reverses(p, mine)
    BY <1>10, <2>1 DEF SameOrder, Reverses
  <2>2. SameOrder(o)
    BY <1>9, <1>10 DEF SameOrder
  <2>3. Reverses(o, mine)
    <3>1. ASSUME NEW g \in Grants, g[1] = o, g \notin mine PROVE grant[g].total = 0 /\ period[g] = "none"
      <4>1. period[g] = "none"
        BY <1>4, <3>1
      <4>2. GrantFine(g) /\ grant[g].total \in Nat
        BY DEF EntInv, Tables, GrantRow
      <4> QED BY <1>1, <3>1, <4>1, <4>2 DEF GrantFine
    <3> QED BY <1>1, <1>9, <1>10, <3>1 DEF Reverses, Given
  <2> QED BY <2>1, <2>2, <2>3
<1>13. (\A g \in Grants : GrantFine(g)') /\ (\A h \in Holds : DrawFine(h)')
  BY <1>1, <1>11, <1>12, EntCancel
<1>14. end \in Nat
  BY <1>2, <1>8 DEF Tables, GrantRow
<1>15. /\ sub'[s].user = sub[s].user /\ sub'[s].status # "none"
       /\ sub'[s].end = IF end = 0 THEN now ELSE end
       /\ sub'[s].status = "active" => end # 0
       /\ \A t \in Subs \ {s} : sub'[t] = sub[t]
  <2>1. sub[s] \in SubRow
    BY <1>6 DEF Tables
  <2>2. /\ RecomputedSub(sub[s], end).user = sub[s].user /\ RecomputedSub(sub[s], end).status # "none"
        /\ RecomputedSub(sub[s], end).end = IF end = 0 THEN now ELSE end
        /\ RecomputedSub(sub[s], end).status = "active" => end # 0
    BY <1>14, <2>1 DEF RecomputedSub, SubRow
  <2>3. sub'[s] = RecomputedSub(sub[s], end) /\ \A t \in Subs \ {s} : sub'[t] = sub[t]
    BY <1>2, <1>6 DEF Tables
  <2> QED BY <2>2, <2>3
<1>16. ASSUME NEW p \in Orders PROVE OrderFine(p)'
  <2>1. OrderFine(p) /\ SameOrder(p) /\ order[p].sub \in Subs \cup {NoSub}
    BY <1>12 DEF EntInv, Tables, OrderRow
  <2>2. order'[p].sub # NoSub => /\ sub'[order[p].sub].status # "none"
                                 /\ sub'[order[p].sub].user = order[p].user
    BY <1>15, <2>1 DEF OrderFine, SameOrder
  <2> QED BY <2>1, <2>2 DEF OrderFine, SameOrder
<1>17. \A g \in Grants : grant'[g].expires = grant[g].expires /\ grant'[g].available = grant[g].available
  BY <1>1, CancelFacts
<1>18. \A t \in Subs, g \in Grants : Live(g, t)' <=> Live(g, t) /\ g \notin mine
  <2> SUFFICES ASSUME NEW t \in Subs, NEW g \in Grants PROVE Live(g, t)' <=> Live(g, t) /\ g \notin mine
    OBVIOUS
  <2>1. order'[g[1]].sub = order[g[1]].sub
    BY <1>12, GrantNames DEF SameOrder
  <2>2. (g \in mine => period'[g] = "cancelled") /\ (g \notin mine => period'[g] = period[g])
    BY <1>1, CancelFacts
  <2> QED BY <2>1, <2>2 DEF Live
<1>19. ASSUME NEW t \in Subs PROVE SubFine(t)'
  <2>1. SubFine(t)
    BY DEF EntInv
  <2>2. \A g, h \in Grants : Live(g, t)' /\ Live(h, t)' /\ g # h =>
          grant'[g].expires <= grant'[h].available \/ grant'[h].expires <= grant'[g].available
    BY <1>17, <1>18, <2>1 DEF SubFine
  <2>3. CASE t # s
    <3>1. \A g \in Grants : Live(g, t) => g \notin mine
      BY <1>0, <1>4, <2>3 DEF Live
    <3> QED BY <1>15, <1>17, <1>18, <2>1, <2>2, <2>3, <3>1 DEF SubFine
  <2>4. CASE t = s
    <3>1. \A g \in Grants : Live(g, s)' => grant[g].expires <= end /\ grant[g].expires > 0
      <4> SUFFICES ASSUME NEW g \in Grants, Live(g, s)'
                   PROVE  grant[g].expires <= end /\ grant[g].expires > 0
        OBVIOUS
      <4>1. g \in live /\ Live(g, s)
        BY <1>6, <1>7, <1>18
      <4>2. grant[g].expires = grant[g].available + 1 /\ grant[g].available \in Nat
        BY <4>1 DEF EntInv, GrantFine, Live, Tables, GrantRow
      <4> QED BY <1>2, <4>1, <4>2
    <3>2. \A g \in Grants : Live(g, s)' => grant'[g].expires <= sub'[s].end
      <4> SUFFICES ASSUME NEW g \in Grants, Live(g, s)' PROVE grant'[g].expires <= sub'[s].end
        OBVIOUS
      <4>1. grant[g].expires <= end /\ grant[g].expires > 0 /\ grant[g].expires \in Nat
        BY <3>1 DEF Tables, GrantRow
      <4>2. end # 0
        BY <1>14, <4>1
      <4> QED BY <1>15, <1>17, <4>1, <4>2
    <3>3. sub'[s].status = "active" => \E g \in Grants : Live(g, s)' /\ grant'[g].expires = sub'[s].end
      <4> SUFFICES ASSUME sub'[s].status = "active"
                   PROVE  \E g \in Grants : Live(g, s)' /\ grant'[g].expires = sub'[s].end
        OBVIOUS
      <4>1. PICK g \in live : grant[g].expires = end
        BY <1>2, <1>15
      <4> QED BY <1>6, <1>7, <1>8, <1>15, <1>17, <1>18, <4>1
    <3> QED BY <2>2, <2>4, <3>2, <3>3 DEF SubFine
  <2> QED BY <2>3, <2>4
<1> QED BY <1>13, <1>16, <1>19 DEF EntInv

\* A subscription is terminated: the months that are left are over by now.
LEMMA EntTerminate ==
  ASSUME Tables, Tables', EntInv, NEW s \in Subs, TerminateSubscription(s)
  PROVE  EntInv'
<1> DEFINE mine == {g \in PeriodsOf(s) : period[g] # "cancelled" /\ grant[g].expires > now}
           row == [sub[s] EXCEPT !.status = "cancelled", !.end = now]
<1>1. NotHeld(sub[s].user, mine) /\ Cancels(mine) /\ UNCHANGED <<now, resv, order>>
  BY DEF TerminateSubscription, Cancels
<1>2. sub' = [sub EXCEPT ![s] = row]
  BY DEF TerminateSubscription, Tables
<1>3. sub[s] \in SubRow /\ now \in Nat
  BY DEF Tables
<1>4. row.status = "cancelled" /\ row.end = now /\ row.user = sub[s].user
  BY <1>3 DEF SubRow
<1>5. \A g \in Grants : g \in mine <=> Live(g, s) /\ grant[g].expires > now
  BY DEF Live, PeriodsOf
<1> HIDE DEF row, mine
<1>6. sub'[s] = row /\ \A t \in Subs \ {s} : sub'[t] = sub[t]
  BY <1>2 DEF Tables
<1>7. ASSUME NEW g \in Grants, g \in mine
      PROVE  period[g] # "none" /\ \A h \in Holds : Img(resv[h], g) = 0
  <2>1. period[g] # "none" /\ order[g[1]].sub = s
    BY <1>5, <1>7 DEF Live
  <2>2. grant[g].user = order[g[1]].user
    BY <2>1 DEF EntInv, GrantFine
  <2>3. sub[s].user = order[g[1]].user
    BY <2>1, GrantNames, BillingConstants DEF EntInv, OrderFine
  <2> QED BY <1>1, <1>7, <2>1, <2>2, <2>3, NobodyHolds
<1>8. \A p \in Orders : SameOrder(p) /\ Reverses(p, mine)
  BY <1>1 DEF SameOrder, Reverses
<1>9. (\A g \in Grants : GrantFine(g)') /\ (\A h \in Holds : DrawFine(h)')
  BY <1>1, <1>7, <1>8, EntCancel
<1>10. ASSUME NEW p \in Orders PROVE OrderFine(p)'
  <2>1. OrderFine(p) /\ order[p].sub \in Subs \cup {NoSub}
    BY DEF EntInv, Tables, OrderRow
  <2> QED BY <1>1, <1>4, <1>6, <2>1 DEF OrderFine
<1>11. \A g \in Grants : grant'[g].expires = grant[g].expires /\ grant'[g].available = grant[g].available
  BY <1>1, CancelFacts
<1>12. \A t \in Subs, g \in Grants : Live(g, t)' <=> Live(g, t) /\ g \notin mine
  <2> SUFFICES ASSUME NEW t \in Subs, NEW g \in Grants PROVE Live(g, t)' <=> Live(g, t) /\ g \notin mine
    OBVIOUS
  <2>1. (g \in mine => period'[g] = "cancelled") /\ (g \notin mine => period'[g] = period[g])
    BY <1>1, CancelFacts
  <2> QED BY <1>1, <2>1 DEF Live
<1>13. ASSUME NEW t \in Subs PROVE SubFine(t)'
  <2>1. SubFine(t)
    BY DEF EntInv
  <2>2. \A g, h \in Grants : Live(g, t)' /\ Live(h, t)' /\ g # h =>
          grant'[g].expires <= grant'[h].available \/ grant'[h].expires <= grant'[g].available
    BY <1>11, <1>12, <2>1 DEF SubFine
  <2>3. CASE t # s
    <3>1. \A g \in Grants : Live(g, t) => g \notin mine
      BY <1>5, <2>3 DEF Live
    <3> QED BY <1>6, <1>11, <1>12, <2>1, <2>2, <2>3, <3>1 DEF SubFine
  <2>4. CASE t = s
    <3>1. \A g \in Grants : grant[g].expires \in Nat
      BY DEF Tables, GrantRow
    <3>2. \A g \in Grants : Live(g, s)' => grant'[g].expires <= sub'[s].end
      BY <1>3, <1>4, <1>5, <1>6, <1>11, <1>12, <3>1
    <3> QED BY <1>4, <1>6, <2>2, <2>4, <3>2 DEF SubFine
  <2> QED BY <2>3, <2>4
<1> QED BY <1>9, <1>10, <1>13 DEF EntInv
LEMMA InitEnt ==
  ASSUME Init
  PROVE  EntInv
<1>1. Tables
  BY InitIInv, Cut
<1>2. \A h \in Holds, g \in Grants : Img(resv[h], g) = 0
  BY DEF Init, Unused, Img
<1>3. ASSUME NEW g \in Grants PROVE GrantFine(g)
  <2>1. SumFunctionOnSet(HeldOf(g), Holds) = 0
    <3>1. \A h \in Holds : HeldOf(g)[h] = 0
      BY <1>2 DEF HeldOf
    <3> QED BY <3>1, FiniteTables, SumZero
  <2>2. grant[g].total = 0 /\ grant[g].left = 0 /\ period[g] = "none"
    BY DEF Init, NoGrant
  <2>3. ~Revoked(g)
    BY <2>2, GrantNames DEF Init, NoOrder, Revoked
  <2> QED BY <2>1, <2>2, <2>3 DEF GrantFine
<1>4. \A h \in Holds : DrawFine(h)
  BY <1>2 DEF DrawFine
<1>5. \A o \in Orders : OrderFine(o)
  BY DEF Init, NoOrder, OrderFine
<1>6. ASSUME NEW s \in Subs PROVE SubFine(s)
  <2>1. \A g \in Grants : ~Live(g, s)
    BY DEF Init, Live
  <2>2. sub[s].status # "active"
    BY DEF Init
  <2> QED BY <2>1, <2>2 DEF SubFine
<1> QED BY <1>3, <1>4, <1>5, <1>6 DEF EntInv

LEMMA StepEnt ==
  ASSUME Tables, Tables', EntInv, [Next]_vars
  PROVE  EntInv'
<1>1. CASE WalletStep \/ Tick \/ UNCHANGED vars
  BY <1>1, EntWallet
<1>2. CASE ReserveStep
  <2>1. PICK h \in Holds, u \in Users, rate \in Rates :
          \/ \E qty \in 1 .. MaxQty :
               \/ \E kind \in {"rate", "image", "exact"} : ReserveWaived(h, u, kind, qty, rate)
               \/ ReserveUnlimited(h, u, qty, rate)
               \/ ReserveCharge(h, u, qty, rate)
               \/ ReserveImages(h, u, qty, rate)
          \/ ReserveExactCash(h, u, rate)
    BY <1>2 DEF ReserveStep
  <2>2. rate \in Nat /\ 0 \in Nat /\ \A qty \in 1 .. MaxQty : qty \in Nat
    BY BillingConstants
  <2>3. CASE ReserveExactCash(h, u, rate)
    BY <2>2, <2>3, EntReservePlain
  <2>4. ASSUME NEW qty \in 1 .. MaxQty,
               \/ \E kind \in {"rate", "image", "exact"} : ReserveWaived(h, u, kind, qty, rate)
               \/ ReserveUnlimited(h, u, qty, rate)
               \/ ReserveCharge(h, u, qty, rate)
        PROVE  EntInv'
    BY <2>2, <2>4, EntReservePlain
  <2>5. ASSUME NEW qty \in 1 .. MaxQty, ReserveImages(h, u, qty, rate) PROVE EntInv'
    BY <2>2, <2>5, EntReserveImages
  <2> QED BY <2>1, <2>3, <2>4, <2>5
<1>3. CASE FinishStep
  BY <1>3, EntFinish DEF FinishStep
<1>4. CASE OrderStep
  <2>1. PICK o \in Orders :
          \/ \E u \in Users, points \in Packs, bonus \in Bonuses :
               CreateOrder(o, u, "credit_pack", points, bonus, 0, NoSub)
          \/ \E u \in Users, months \in MonthChoices, s \in Subs \cup {NoSub} :
               CreateOrder(o, u, "subscription", 0, 0, months, s)
          \/ RejectOrder(o) \/ CancelOrder(o)
          \/ ApproveCreditPack(o)
          \/ \E s \in Subs : ApproveSubscription(o, s)
          \/ RefundCreditPack(o)
          \/ RefundSubscription(o)
    BY <1>4 DEF OrderStep
  <2>2. ASSUME NEW u \in Users, NEW points \in Packs, NEW bonus \in Bonuses,
               CreateOrder(o, u, "credit_pack", points, bonus, 0, NoSub)
        PROVE  EntInv'
    <3>1. points \in Nat /\ bonus \in Nat
      BY BillingConstants
    <3> QED BY <2>2, <3>1, EntCreate
  <2>3. ASSUME NEW u \in Users, NEW months \in MonthChoices, NEW s \in Subs \cup {NoSub},
               CreateOrder(o, u, "subscription", 0, 0, months, s)
        PROVE  EntInv'
    <3>1. months \in 1 .. MaxMonths
      BY BillingConstants
    <3> QED BY <2>3, <3>1, EntCreate
  <2>4. CASE RejectOrder(o) \/ CancelOrder(o)
    BY <2>4, EntDrop
  <2> QED BY <2>1, <2>2, <2>3, <2>4, EntApproveCreditPack, EntApproveSubscription,
             EntRefundCreditPack, EntRefundSubscription
<1>5. CASE \E s \in Subs : TerminateSubscription(s)
  BY <1>5, EntTerminate
<1> QED BY <1>1, <1>2, <1>3, <1>4, <1>5 DEF Next

\* Grants, months and what running work holds of them stay consistent in every
\* reachable state, for any number of users, orders, subscriptions and reservations.
THEOREM Entitlements ==
  Spec => [](IInv /\ EntInv)
<1>1. Init => IInv /\ EntInv
  BY InitIInv, InitEnt
<1>2. IInv /\ EntInv /\ [Next]_vars => IInv' /\ EntInv'
  <2> SUFFICES ASSUME IInv, EntInv, [Next]_vars PROVE IInv' /\ EntInv'
    OBVIOUS
  <2>1. IInv'
    BY StepIInv
  <2>2. Tables /\ Tables'
    BY <2>1, Cut, CutPrime
  <2> QED BY <2>1, <2>2, StepEnt
<1> QED BY <1>1, <1>2, PTL DEF Spec

\* What is left of a grant of free images and what running work holds of it never
\* exceed it: _restore_grants gives back every image.
THEOREM ImagesCovered ==
  Spec => []HeldImagesCovered
<1>1. IInv /\ EntInv => HeldImagesCovered
  BY DEF EntInv, GrantFine, HeldImagesCovered, HeldOf, Img
<1> QED BY <1>1, Entitlements, PTL

\* No settlement or release puts an image back into a grant that
\* refund_approved_order or terminate_subscription revoked.
THEOREM RevokedForGood ==
  Spec => []RevokedStaysRevoked
<1>1. IInv /\ EntInv => RevokedStaysRevoked
  BY DEF EntInv, GrantFine, RevokedStaysRevoked, Revoked
<1> QED BY <1>1, Entitlements, PTL

\* approve_order, refund_approved_order and terminate_subscription never let two paid
\* months of a subscription overlap, and an active one ends with its last live month.
THEOREM MonthsDisjoint ==
  Spec => []PeriodsDisjoint
<1>1. ASSUME IInv, EntInv PROVE PeriodsDisjoint
  <2> SUFFICES ASSUME NEW s \in Subs,
                      NEW live, live = {g \in PeriodsOf(s) : period[g] # "cancelled"}
               PROVE  /\ \A g, h \in live : g # h => \/ grant[g].expires <= grant[h].available
                                                     \/ grant[h].expires <= grant[g].available
                      /\ sub[s].status = "active" => /\ live # {}
                                                     /\ sub[s].end = Max({grant[g].expires : g \in live})
    BY DEF PeriodsDisjoint
  <2>1. Tables /\ SubFine(s)
    BY <1>1, Cut DEF EntInv
  <2>2. \A g : g \in live <=> g \in Grants /\ Live(g, s)
    BY DEF PeriodsOf, Live
  <2>3. \A g, h \in live : g # h => \/ grant[g].expires <= grant[h].available
                                    \/ grant[h].expires <= grant[g].available
    BY <2>1, <2>2 DEF SubFine
  <2>4. ASSUME sub[s].status = "active"
        PROVE  live # {} /\ sub[s].end = Max({grant[g].expires : g \in live})
    <3> DEFINE E == {grant[g].expires : g \in live}
    <3>1. PICK g \in live : grant[g].expires = sub[s].end
      BY <2>1, <2>2, <2>4 DEF SubFine
    <3>2. sub[s].end \in E /\ \A e \in E : e <= sub[s].end
      BY <2>1, <2>2, <3>1 DEF SubFine
    <3>3. \A e \in E : e \in Nat
      BY <2>1, <2>2 DEF Tables, GrantRow
    <3> HIDE DEF E
    <3>4. \A m \in E : (\A e \in E : m >= e) => m = sub[s].end
      BY <3>2, <3>3
    <3>5. sub[s].end = Max(E)
      BY <3>2, <3>3, <3>4 DEF Max
    <3> QED BY <3>1, <3>5 DEF E
  <2> QED BY <2>3, <2>4
<1>2. IInv /\ EntInv => PeriodsDisjoint
  BY <1>1
<1> QED BY <1>2, Entitlements, PTL
-----------------------------------------------------------------------------
(* Cash-backed points, by the ledger: what the rows of a user say, and what    *)
(* the rows of the user's reservations took, is covered by the user's orders.  *)

Spent == [h \in Holds |-> -booked[h].cash]
PaidIn == [o \in Orders |-> booked[o].cash]
HoldsOf(u) == {h \in Holds : resv[h].user = u}
PaidOrders(u) == {o \in Orders : order[o].user = u /\ order[o].status = "approved"}

LedgerFine(u) ==
  booked[u].cash + SumFunctionOnSet(Spent, HoldsOf(u)) <= SumFunctionOnSet(PaidIn, PaidOrders(u))
LedgerInv == \A u \in Users : LedgerFine(u)

\* What reservation or order x takes from the sums of u.
Share(x, u) ==
  IF (x \in Holds /\ resv[x].user = u) \/ (x \in Orders /\ order[x].user = u)
  THEN -booked[x].cash ELSE 0

\* The rows of every account but x stay as they are, and so do their owners.
OnlyAt(x) ==
  /\ \A h \in Holds \ {x} : booked'[h] = booked[h] /\ resv'[h].user = resv[h].user
  /\ \A o \in Orders \ {x} : /\ booked'[o] = booked[o] /\ order'[o].user = order[o].user
                             /\ order'[o].status = order[o].status

LEMMA CashTypes ==
  ASSUME IInv
  PROVE  /\ \A a \in Accounts : booked[a].cash \in Int
         /\ \A u \in Users : booked[u].cash = wallet[u].cash
         /\ \A o \in Orders : order[o].status # "approved" => booked[o].cash = 0
         /\ \A h \in Holds : resv[h].status = "none" => booked[h].cash = 0
<1>1. BooksInv /\ (\A h \in Holds : HoldOK(h)) /\ (\A o \in Orders : OrderOK(o))
  BY Cut
<1>2. \A h \in Holds : resv[h].status = "none" => booked[h] = Zero
  BY <1>1 DEF HoldOK, Booking, Taken
<1>3. \A o \in Orders : order[o].status # "approved" => booked[o] = Zero
  BY <1>1 DEF OrderOK
<1>4. \A a \in Accounts : booked[a].cash \in Int
  BY <1>1 DEF BooksInv, Amount
<1>5. \A u \in Users : booked[u].cash = wallet[u].cash
  <2> SUFFICES ASSUME NEW u \in Users PROVE booked[u].cash = wallet[u].cash
    OBVIOUS
  <2>1. booked[u] = [credit |-> wallet[u].credit, cash |-> wallet[u].cash]
    BY <1>1 DEF BooksInv, WalletMatchesLedger
  <2> QED BY <2>1
<1>6. Zero.cash = 0
  BY DEF Zero
<1> QED BY <1>2, <1>3, <1>4, <1>5, <1>6

\* A step at x that moves the user's rows by no more than x's keeps the balance.
LEMMA LedgerStep ==
  ASSUME IInv, IInv', LedgerInv, NEW x, OnlyAt(x),
         \A u \in Users : booked'[u].cash + Share(x, u)' <= booked[u].cash + Share(x, u)
  PROVE  LedgerInv'
<1> SUFFICES ASSUME NEW u \in Users PROVE LedgerFine(u)'
  BY DEF LedgerInv
<1>1. PICK f : f = Spent
  OBVIOUS
<1>2. PICK S : S = HoldsOf(u)
  OBVIOUS
<1>3. PICK p : p = PaidIn
  OBVIOUS
<1>4. PICK P : P = PaidOrders(u)
  OBVIOUS
<1>5. PICK fn : fn = Spent'
  OBVIOUS
<1>6. PICK Sn : Sn = HoldsOf(u)'
  OBVIOUS
<1>7. PICK pn : pn = PaidIn'
  OBVIOUS
<1>8. PICK Pn : Pn = PaidOrders(u)'
  OBVIOUS
<1>9. (\A a \in Accounts : booked[a].cash \in Int) /\ (\A a \in Accounts : booked'[a].cash \in Int)
  <2>1. \A a \in Accounts : booked'[a].cash \in Int
    BY CutPrime DEF BooksInv, Amount
  <2> QED BY <2>1, CashTypes
<1>10. IsFiniteSet(S) /\ IsFiniteSet(Sn) /\ IsFiniteSet(P) /\ IsFiniteSet(Pn)
  <2>1. S \subseteq Holds /\ Sn \subseteq Holds /\ P \subseteq Orders /\ Pn \subseteq Orders
    BY <1>2, <1>4, <1>6, <1>8 DEF HoldsOf, PaidOrders
  <2> QED BY <2>1, FiniteTables, FS_Subset
<1>11. /\ \A y \in S : f[y] = -booked[y].cash /\ f[y] \in Int
       /\ \A y \in Sn : fn[y] = -booked'[y].cash /\ fn[y] \in Int
  BY <1>1, <1>2, <1>5, <1>6, <1>9, AccountSets DEF Spent, HoldsOf
<1>12. /\ \A y \in P : p[y] = booked[y].cash /\ p[y] \in Int
       /\ \A y \in Pn : pn[y] = booked'[y].cash /\ pn[y] \in Int
  BY <1>3, <1>4, <1>7, <1>8, <1>9, AccountSets DEF PaidIn, PaidOrders
<1>13. S \ {x} = Sn \ {x} /\ P \ {x} = Pn \ {x}
  BY <1>2, <1>4, <1>6, <1>8 DEF HoldsOf, PaidOrders, OnlyAt
<1>14. (\A y \in S \ {x} : f[y] = fn[y]) /\ (\A y \in P \ {x} : p[y] = pn[y])
  <2>1. \A y \in S \ {x} : booked'[y] = booked[y] /\ y \in Sn
    BY <1>2, <1>13 DEF HoldsOf, OnlyAt
  <2>2. \A y \in P \ {x} : booked'[y] = booked[y] /\ y \in Pn
    BY <1>4, <1>13 DEF PaidOrders, OnlyAt
  <2> QED BY <1>11, <1>12, <2>1, <2>2
<1>15. SumFunctionOnSet(fn, Sn) = SumFunctionOnSet(f, S) - Part(f, S, x) + Part(fn, Sn, x)
  BY <1>10, <1>11, <1>13, <1>14, SumChange
<1>16. SumFunctionOnSet(pn, Pn) = SumFunctionOnSet(p, P) - Part(p, P, x) + Part(pn, Pn, x)
  BY <1>10, <1>12, <1>13, <1>14, SumChange
<1>17. Share(x, u) = Part(f, S, x) - Part(p, P, x) /\ Part(f, S, x) \in Int /\ Part(p, P, x) \in Int
  <2>1. CASE x \in Holds
    BY <1>2, <1>4, <1>11, <2>1, AccountSets DEF Share, Part, HoldsOf, PaidOrders
  <2>2. CASE x \in Orders
    <3>1. x \notin Holds /\ booked[x].cash \in Int /\ (order[x].status # "approved" => booked[x].cash = 0)
      BY <1>9, <2>2, AccountSets, CashTypes
    <3> QED BY <1>2, <1>4, <1>12, <2>2, <3>1 DEF Share, Part, HoldsOf, PaidOrders
  <2>3. CASE x \notin Holds /\ x \notin Orders
    BY <1>2, <1>4, <2>3 DEF Share, Part, HoldsOf, PaidOrders
  <2> QED BY <2>1, <2>2, <2>3
<1>18. Share(x, u)' = Part(fn, Sn, x) - Part(pn, Pn, x) /\ Part(fn, Sn, x) \in Int /\ Part(pn, Pn, x) \in Int
  <2>1. CASE x \in Holds
    BY <1>6, <1>8, <1>11, <2>1, AccountSets DEF Share, Part, HoldsOf, PaidOrders
  <2>2. CASE x \in Orders
    <3>1. OrderOK(x)' /\ x \notin Holds /\ booked'[x].cash \in Int
      BY <1>9, <2>2, AccountSets, CutPrime
    <3>2. order'[x].status # "approved" => booked'[x].cash = 0
      BY <3>1 DEF OrderOK, Zero
    <3> QED BY <1>6, <1>8, <1>12, <2>2, <3>1, <3>2 DEF Share, Part, HoldsOf, PaidOrders
  <2>3. CASE x \notin Holds /\ x \notin Orders
    BY <1>6, <1>8, <2>3 DEF Share, Part, HoldsOf, PaidOrders
  <2> QED BY <2>1, <2>2, <2>3
<1>19. SumFunctionOnSet(f, S) \in Int /\ SumFunctionOnSet(p, P) \in Int
  BY <1>10, <1>11, <1>12, SumInt
<1>20. booked[u].cash + SumFunctionOnSet(f, S) <= SumFunctionOnSet(p, P)
  BY <1>1, <1>2, <1>3, <1>4 DEF LedgerInv, LedgerFine
<1>21. booked[u].cash \in Int /\ booked'[u].cash \in Int
  BY <1>9, AccountSets
<1>22. booked'[u].cash + SumFunctionOnSet(fn, Sn) <= SumFunctionOnSet(pn, Pn)
  <2>1. PICK a : a = Share(x, u)
    OBVIOUS
  <2>2. PICK b : b = Share(x, u)'
    OBVIOUS
  <2>3. booked'[u].cash + b <= booked[u].cash + a
    BY <2>1, <2>2
  <2> QED BY <1>15, <1>16, <1>17, <1>18, <1>19, <1>20, <1>21, <2>1, <2>2, <2>3
<1> QED BY <1>5, <1>6, <1>7, <1>8, <1>22 DEF LedgerFine
\* ensure_wallet neither makes nor takes cash.
LEMMA EnsureCash ==
  ASSUME IInv, NEW u \in Users
  PROVE  /\ EnsureWallet(u).cash = booked[u].cash /\ booked[u].cash \in Nat
         /\ EnsureWallet(u).credit \in Nat /\ EnsureWallet(u).cash <= EnsureWallet(u).credit
         /\ EnsureRows(u)[u].cash = booked[u].cash
         /\ \A a \in Accounts \ {u} : EnsureRows(u)[a] = booked[a]
<1>1. BooksInv /\ wallet[u] \in WalletRow /\ booked[u].cash = wallet[u].cash
  BY Cut, CashTypes DEF BooksInv
<1>2. wallet[u].cash <= wallet[u].credit /\ (~wallet[u].open => wallet[u].cash = 0)
  BY <1>1 DEF BooksInv, CashWithinCredit, ClosedIsEmpty
<1>3. wallet[u].cash \in Nat /\ wallet[u].credit \in Nat
  BY <1>1 DEF WalletRow
<1>4. EnsureWallet(u).cash = wallet[u].cash
  <2>1. CASE wallet[u].open
    <3>1. EnsureWallet(u) = [wallet[u] EXCEPT !.cash = Least(wallet[u].cash, wallet[u].credit)]
      BY <2>1 DEF EnsureWallet
    <3>2. EnsureWallet(u).cash = Least(wallet[u].cash, wallet[u].credit)
      BY <1>1, <3>1 DEF WalletRow
    <3> QED BY <1>2, <1>3, <3>2 DEF Least
  <2>2. CASE ~wallet[u].open
    BY <1>2, <2>2 DEF EnsureWallet
  <2> QED BY <2>1, <2>2
<1>5. EnsureWallet(u) \in WalletRow /\ EnsureWallet(u).cash <= EnsureWallet(u).credit
  BY <1>1, EnsureBooks
<1>6. EnsureRows(u)[u] = [credit |-> EnsureWallet(u).credit, cash |-> EnsureWallet(u).cash]
  BY <1>1, EnsureBooks
<1>7. \A a \in Accounts \ {u} : EnsureRows(u)[a] = booked[a]
  BY <1>1, EnsureBooks
<1> QED BY <1>1, <1>3, <1>4, <1>5, <1>6, <1>7 DEF WalletRow

\* Who owns the rows of a reservation or an order.
Owner(x) == IF x \in Holds THEN resv[x].user ELSE order[x].user

\* A reservation or an order x moves the wallet of its owner under a fresh key.
LEMMA LedgerMove ==
  ASSUME IInv, IInv', LedgerInv, NEW x \in Holds \cup Orders, NEW u \in Users, NEW key, NEW credit,
         NEW cash \in Int, key \notin posted, Move(u, key, {u, x}, credit, cash),
         \A h \in Holds \ {x} : resv'[h].user = resv[h].user,
         \A o \in Orders \ {x} : order'[o].user = order[o].user /\ order'[o].status = order[o].status,
         Owner(x)' = u, Owner(x) = u \/ booked[x].cash = 0
  PROVE  LedgerInv'
<1>1. x \in Accounts /\ x # u /\ u \in Accounts /\ (x \in Holds => x \notin Orders)
  BY AccountSets
<1>2. \A a \in Accounts : booked[a].cash \in Int
  BY CashTypes
<1>3. \A a \in Accounts :
        booked'[a] = IF a \in {u, x} THEN [credit |-> EnsureRows(u)[a].credit + credit,
                                           cash |-> EnsureRows(u)[a].cash + cash]
                                     ELSE EnsureRows(u)[a]
  BY DEF Move, InsertLedger
<1>4. /\ booked'[u].cash = booked[u].cash + cash /\ booked'[x].cash = booked[x].cash + cash
      /\ \A a \in Accounts : a # u /\ a # x => booked'[a] = booked[a]
  <2>1. EnsureRows(u)[u].cash = booked[u].cash /\ \A a \in Accounts \ {u} : EnsureRows(u)[a] = booked[a]
    BY EnsureCash
  <2>2. booked'[u] = [credit |-> EnsureRows(u)[u].credit + credit, cash |-> EnsureRows(u)[u].cash + cash]
    BY <1>1, <1>3
  <2>3. booked'[x] = [credit |-> EnsureRows(u)[x].credit + credit, cash |-> EnsureRows(u)[x].cash + cash]
    BY <1>1, <1>3
  <2>4. \A a \in Accounts : a # u /\ a # x => booked'[a] = booked[a]
    BY <1>3, <2>1
  <2> QED BY <1>1, <2>1, <2>2, <2>3, <2>4
<1>5. OnlyAt(x)
  BY <1>4, AccountSets DEF OnlyAt
<1>6. \A v \in Users : booked'[v].cash + Share(x, v)' <= booked[v].cash + Share(x, v)
  <2> SUFFICES ASSUME NEW v \in Users
               PROVE  booked'[v].cash + Share(x, v)' <= booked[v].cash + Share(x, v)
    OBVIOUS
  <2>1. Share(x, v)' = IF u = v THEN -booked'[x].cash ELSE 0
    BY <1>1 DEF Share, Owner
  <2>2. Share(x, v) = IF u = v THEN -booked[x].cash ELSE 0
    <3>1. Share(x, v) = IF Owner(x) = v THEN -booked[x].cash ELSE 0
      BY <1>1 DEF Share, Owner
    <3> QED BY <1>1, <1>2, <3>1
  <2>3. v \in Accounts /\ (v # u => booked'[v] = booked[v])
    BY <1>1, <1>4, AccountSets
  <2> QED BY <1>1, <1>2, <1>4, <2>1, <2>2, <2>3
<1> QED BY <1>5, <1>6, LedgerStep

\* A step that writes no cash row, and changes the owner of x only while x is empty.
LEMMA LedgerQuiet ==
  ASSUME IInv, IInv', LedgerInv, NEW x,
         \A a \in Holds \cup Orders : booked'[a] = booked[a],
         \A v \in Users : booked'[v].cash <= booked[v].cash,
         \A h \in Holds \ {x} : resv'[h].user = resv[h].user,
         \A o \in Orders \ {x} : order'[o].user = order[o].user /\ order'[o].status = order[o].status,
         x \in Holds \cup Orders => Owner(x)' = Owner(x) \/ booked[x].cash = 0
  PROVE  LedgerInv'
<1>1. (\A a \in Accounts : booked[a].cash \in Int) /\ (\A a \in Accounts : booked'[a].cash \in Int)
  <2>1. \A a \in Accounts : booked'[a].cash \in Int
    BY CutPrime DEF BooksInv, Amount
  <2> QED BY <2>1, CashTypes
<1>2. OnlyAt(x)
  BY DEF OnlyAt
<1>3. \A v \in Users : booked'[v].cash + Share(x, v)' <= booked[v].cash + Share(x, v)
  <2> SUFFICES ASSUME NEW v \in Users
               PROVE  booked'[v].cash + Share(x, v)' <= booked[v].cash + Share(x, v)
    OBVIOUS
  <2>1. booked'[v].cash \in Int /\ booked[v].cash \in Int /\ booked'[v].cash <= booked[v].cash
    BY <1>1, AccountSets
  <2>2. CASE x \in Holds \cup Orders
    <3>1. booked'[x] = booked[x] /\ booked[x].cash \in Int /\ (x \in Holds => x \notin Orders)
      BY <1>1, <2>2, AccountSets
    <3>2. /\ Share(x, v)' = IF Owner(x)' = v THEN -booked[x].cash ELSE 0
          /\ Share(x, v) = IF Owner(x) = v THEN -booked[x].cash ELSE 0
      BY <2>2, <3>1 DEF Share, Owner
    <3>3. Share(x, v)' = Share(x, v) /\ Share(x, v) \in Int
      BY <2>2, <3>1, <3>2
    <3> QED BY <2>1, <3>3
  <2>3. CASE x \notin Holds \cup Orders
    BY <2>1, <2>3 DEF Share
  <2> QED BY <2>2, <2>3
<1> QED BY <1>2, <1>3, LedgerStep

LEMMA LedgerTouch ==
  ASSUME IInv, NEW u \in Users, Touch(u)
  PROVE  /\ \A a \in Holds \cup Orders : booked'[a] = booked[a]
         /\ \A v \in Users : booked'[v].cash <= booked[v].cash
<1>1. booked' = EnsureRows(u)
  BY DEF Touch
<1>2. \A v \in Users : v \in Accounts /\ booked[v].cash \in Int
  BY CashTypes, AccountSets
<1>3. \A v \in Users : booked'[v].cash = booked[v].cash
  BY <1>1, <1>2, EnsureCash
<1> QED BY <1>1, <1>2, <1>3, EnsureCash, AccountSets
\* A step of reservation h: its row becomes r, of user u.
LEMMA LedgerHold ==
  ASSUME IInv, IInv', LedgerInv, NEW h \in Holds, NEW u \in Users, NEW r, resv' = [resv EXCEPT ![h] = r],
         r.user = u, order' = order, resv[h].user = u \/ resv[h].status = "none",
         \/ Touch(u)
         \/ \E key, credit : \E cash \in Int : key \notin posted /\ Move(u, key, {u, h}, credit, cash)
  PROVE  LedgerInv'
<1>1. resv'[h] = r /\ \A k \in Holds \ {h} : resv'[k].user = resv[k].user
  BY Cut DEF Tables
<1>2. Owner(h)' = u /\ (Owner(h) = u \/ booked[h].cash = 0)
  BY <1>1, CashTypes DEF Owner
<1>3. CASE Touch(u)
  <2>1. /\ \A a \in Holds \cup Orders : booked'[a] = booked[a]
        /\ \A v \in Users : booked'[v].cash <= booked[v].cash
    BY <1>3, LedgerTouch
  <2> QED BY <1>1, <1>2, <2>1, LedgerQuiet
<1>4. CASE \E key, credit : \E cash \in Int : key \notin posted /\ Move(u, key, {u, h}, credit, cash)
  <2>1. PICK key, credit : \E cash \in Int : key \notin posted /\ Move(u, key, {u, h}, credit, cash)
    BY <1>4
  <2>2. PICK cash \in Int : key \notin posted /\ Move(u, key, {u, h}, credit, cash)
    BY <2>1
  <2>3. \A o \in Orders \ {h} : order'[o].user = order[o].user /\ order'[o].status = order[o].status
    OBVIOUS
  <2> QED BY <1>1, <1>2, <2>2, <2>3, LedgerMove
<1> QED BY <1>3, <1>4

LEMMA LedgerHoldPoints ==
  ASSUME IInv, IInv', LedgerInv, NEW h \in Holds, NEW u \in Users, NEW row, row.user = u,
         "user" \in DOMAIN row, NEW credit, NEW cash \in Int, HoldPoints(h, u, row, credit, cash),
         resv[h].status = "none", order' = order
  PROVE  LedgerInv'
<1> DEFINE r == [row EXCEPT !.credit = credit, !.cash = cash]
<1>1. resv' = [resv EXCEPT ![h] = r] /\ r.user = u
  BY DEF HoldPoints
<1>2. <<"hold", h>> \notin posted
  BY Cut DEF HoldOK, HoldKeysOK
<1>3. \/ Touch(u)
      \/ \E key, c : \E d \in Int : key \notin posted /\ Move(u, key, {u, h}, c, d)
  <2>1. -cash \in Int
    OBVIOUS
  <2>2. Touch(u) \/ Move(u, <<"hold", h>>, {u, h}, -credit, -cash)
    BY DEF HoldPoints
  <2> QED BY <1>2, <2>1, <2>2
<1> HIDE DEF r
<1> QED BY <1>1, <1>3, LedgerHold

LEMMA LedgerReserve ==
  ASSUME IInv, IInv', LedgerInv, NEW h \in Holds, NEW u \in Users, NEW qty \in Nat, NEW rate \in Nat,
         \/ \E kind \in {"rate", "image", "exact"} : ReserveWaived(h, u, kind, qty, rate)
         \/ ReserveUnlimited(h, u, qty, rate) \/ ReserveCharge(h, u, qty, rate)
         \/ ReserveImages(h, u, qty, rate) \/ ReserveExactCash(h, u, rate)
  PROVE  LedgerInv'
<1>1. resv[h].status = "none" /\ order' = order
  BY DEF ReserveWaived, ReserveUnlimited, ReserveCharge, ReserveImages, ReserveExactCash, entitlements
<1>2. EnsureWallet(u).credit \in Nat /\ EnsureWallet(u).cash \in Nat
  BY EnsureCash
<1>3. ASSUME NEW credit \in Int PROVE CashPart(EnsureWallet(u), credit) \in Int
  BY <1>2 DEF CashPart, Most
<1>4. CASE \E kind \in {"rate", "image", "exact"} : ReserveWaived(h, u, kind, qty, rate)
  <2>1. PICK kind \in {"rate", "image", "exact"} : ReserveWaived(h, u, kind, qty, rate)
    BY <1>4
  <2> DEFINE r == [Unused EXCEPT !.status = "waived", !.user = u, !.kind = kind, !.qty = qty, !.rate = rate]
  <2>2. r.user = u /\ resv' = [resv EXCEPT ![h] = r] /\ Touch(u)
    BY <2>1 DEF ReserveWaived, Unused
  <2> HIDE DEF r
  <2> QED BY <1>1, <2>2, LedgerHold
<1>5. CASE ReserveUnlimited(h, u, qty, rate)
  <2> DEFINE r == [Unused EXCEPT !.status = "held", !.user = u, !.kind = "unlimited", !.qty = qty, !.rate = rate]
  <2>1. r.user = u /\ resv' = [resv EXCEPT ![h] = r] /\ Touch(u)
    BY <1>5 DEF ReserveUnlimited, Unused
  <2> HIDE DEF r
  <2> QED BY <1>1, <2>1, LedgerHold
<1>6. CASE ReserveCharge(h, u, qty, rate)
  <2> DEFINE b == [Unused EXCEPT !.status = "held", !.user = u, !.qty = qty, !.rate = rate]
  <2>1. b.user = u /\ "user" \in DOMAIN b
    BY DEF Unused
  <2>2. HoldPoints(h, u, b, qty * rate, CashPart(EnsureWallet(u), qty * rate))
    BY <1>6 DEF ReserveCharge
  <2>3. qty * rate \in Int
    OBVIOUS
  <2> HIDE DEF b
  <2> QED BY <1>1, <1>3, <2>1, <2>2, <2>3, LedgerHoldPoints
<1>7. CASE ReserveImages(h, u, qty, rate)
  <2>1. PICK free \in 0 .. qty, take \in Counts(Usable(u), qty) :
          HoldPoints(h, u, [Unused EXCEPT !.status = "held", !.user = u, !.kind = "image",
                              !.qty = qty, !.rate = rate, !.images = free, !.take = take],
                     (qty - free) * rate, CashPart(EnsureWallet(u), (qty - free) * rate))
    BY <1>7 DEF ReserveImages
  <2> DEFINE b == [Unused EXCEPT !.status = "held", !.user = u, !.kind = "image",
                                 !.qty = qty, !.rate = rate, !.images = free, !.take = take]
  <2>2. b.user = u /\ "user" \in DOMAIN b
    BY DEF Unused
  <2>3. (qty - free) * rate \in Int
    OBVIOUS
  <2>4. HoldPoints(h, u, b, (qty - free) * rate, CashPart(EnsureWallet(u), (qty - free) * rate))
    BY <2>1
  <2> HIDE DEF b
  <2> QED BY <1>1, <1>3, <2>2, <2>3, <2>4, LedgerHoldPoints
<1>8. CASE ReserveExactCash(h, u, rate)
  <2> DEFINE b == [Unused EXCEPT !.status = "held", !.user = u, !.kind = "exact", !.qty = 1, !.rate = rate]
  <2>1. b.user = u /\ "user" \in DOMAIN b
    BY DEF Unused
  <2>2. HoldPoints(h, u, b, rate, rate) /\ rate \in Int
    BY <1>8 DEF ReserveExactCash
  <2> HIDE DEF b
  <2> QED BY <1>1, <2>1, <2>2, LedgerHoldPoints
<1> QED BY <1>4, <1>5, <1>6, <1>7, <1>8

LEMMA LedgerFinish ==
  ASSUME IInv, IInv', LedgerInv, NEW h \in Holds,
         \/ SettleUnlimited(h) \/ (\E actual \in 0 .. MaxQty : SettleReservation(h, actual))
         \/ ReleaseReservation(h) \/ RefundExactCash(h)
  PROVE  LedgerInv'
<1> DEFINE u == resv[h].user
<1>1. resv[h] \in ReservationRow /\ HoldOK(h)
  BY Cut DEF Tables
<1>2. /\ u \in Users /\ resv[h].cash \in Nat /\ resv[h].credit \in Nat /\ resv[h].sCash \in Nat
      /\ resv[h].refunded \in Nat /\ resv[h].rate \in Nat /\ resv[h].images \in Nat
  BY <1>1 DEF ReservationRow
<1>3. order' = order
  BY DEF SettleUnlimited, SettleReservation, ReleaseReservation, RefundExactCash, entitlements
<1>4. CASE SettleUnlimited(h)
  <2> DEFINE r == [resv[h] EXCEPT !.status = "settled"]
  <2>1. r.user = u /\ resv' = [resv EXCEPT ![h] = r] /\ Touch(u)
    BY <1>1, <1>4 DEF SettleUnlimited, ReservationRow
  <2> HIDE DEF r
  <2> QED BY <1>2, <1>3, <2>1, LedgerHold
<1>5. CASE \E actual \in 0 .. MaxQty : SettleReservation(h, actual)
  <2>1. PICK actual \in 0 .. MaxQty : SettleReservation(h, actual)
    BY <1>5
  <2> DEFINE r == [resv[h] EXCEPT !.status = "settled", !.sCredit = SettledCredit(resv[h], actual),
                     !.sCash = SettledCash(resv[h], actual), !.sImages = SettledImages(resv[h], actual)]
             back == Most(resv[h].cash - SettledCash(resv[h], actual), 0)
             cback == Most(resv[h].credit - SettledCredit(resv[h], actual), 0)
  <2>2. resv' = [resv EXCEPT ![h] = r] /\ resv[h].status = "held"
    BY <2>1 DEF SettleReservation, IsHeld
  <2>3. r.user = u
    BY <1>1 DEF ReservationRow
  <2>4. Touch(u) \/ Move(u, <<"settle_refund", h>>, {u, h}, cback, back)
    BY <2>1 DEF SettleReservation
  <2>5. <<"settle_refund", h>> \notin posted
    BY <1>1, <2>2 DEF HoldOK, HoldKeysOK
  <2>6. back \in Int
    <3>1. actual \in Int /\ SettledImages(resv[h], actual) \in Int
      BY <1>2, BillingConstants DEF SettledImages, Least
    <3>2. SettledCredit(resv[h], actual) \in Int
      BY <1>2, <3>1 DEF SettledCredit
    <3>3. SettledCash(resv[h], actual) \in Int
      BY <1>2, <3>2 DEF SettledCash, Most
    <3> QED BY <1>2, <3>3 DEF Most
  <2> HIDE DEF r, back, cback
  <2>7. \/ Touch(u)
        \/ \E key, c : \E d \in Int : key \notin posted /\ Move(u, key, {u, h}, c, d)
    BY <2>4, <2>5, <2>6
  <2> QED BY <1>2, <1>3, <2>2, <2>3, <2>7, LedgerHold
<1>6. CASE ReleaseReservation(h)
  <2> DEFINE r == [resv[h] EXCEPT !.status = "released"]
  <2>1. resv' = [resv EXCEPT ![h] = r] /\ resv[h].status = "held"
    BY <1>6 DEF ReleaseReservation, IsHeld
  <2>2. r.user = u
    BY <1>1 DEF ReservationRow
  <2>3. Touch(u) \/ Move(u, <<"release", h>>, {u, h}, resv[h].credit, resv[h].cash)
    BY <1>6 DEF ReleaseReservation
  <2>4. <<"release", h>> \notin posted /\ resv[h].cash \in Int
    BY <1>1, <1>2, <2>1 DEF HoldOK, HoldKeysOK
  <2> HIDE DEF r
  <2>5. \/ Touch(u)
        \/ \E key, c : \E d \in Int : key \notin posted /\ Move(u, key, {u, h}, c, d)
    BY <2>3, <2>4
  <2> QED BY <1>2, <1>3, <2>1, <2>2, <2>5, LedgerHold
<1>7. CASE RefundExactCash(h)
  <2> DEFINE r == [resv[h] EXCEPT !.refunded = resv[h].sCash]
             amount == Most(resv[h].sCash - resv[h].refunded, 0)
  <2>1. /\ resv' = [resv EXCEPT ![h] = r] /\ amount > 0
        /\ Move(u, <<"cash_refund", h>>, {u, h}, amount, amount)
    BY <1>7 DEF RefundExactCash
  <2>2. r.user = u
    BY <1>1 DEF ReservationRow
  <2>3. amount \in Int /\ resv[h].refunded # resv[h].sCash
    BY <1>2, <2>1 DEF Most
  <2>4. <<"cash_refund", h>> \notin posted
    BY <1>1, <2>3 DEF HoldOK, HoldKeysOK
  <2> HIDE DEF r, amount
  <2>5. \E key, c : \E d \in Int : key \notin posted /\ Move(u, key, {u, h}, c, d)
    BY <2>1, <2>3, <2>4
  <2> QED BY <1>2, <1>3, <2>1, <2>2, <2>5, LedgerHold
<1> QED BY <1>4, <1>5, <1>6, <1>7
\* A step that leaves reservations and orders alone and gives nobody cash.
LEMMA LedgerWallet ==
  ASSUME IInv, IInv', LedgerInv, WalletStep
  PROVE  LedgerInv'
<1>1. PICK u \in Users :
        \/ OpenWallet(u)
        \/ \E extra \in Extras : InitializeWallet(u, extra)
        \/ \E delta \in Deltas : AdjustCredit(u, delta)
        \/ \E enabled \in BOOLEAN : SetUnlimitedCompute(u, enabled)
  BY DEF WalletStep
<1>2. resv' = resv /\ order' = order
  BY <1>1 DEF OpenWallet, InitializeWallet, AdjustCredit, SetUnlimitedCompute, entitlements
<1>3. u \in Accounts /\ u \notin Holds \cup Orders /\ booked \in [Accounts -> Amount]
  BY AccountSets, Cut DEF BooksInv
<1>4. \A a \in Accounts : booked[a].cash \in Int
  BY CashTypes
<1>5. /\ EnsureRows(u)[u].cash = booked[u].cash /\ EnsureWallet(u).cash = booked[u].cash
      /\ EnsureWallet(u).credit \in Nat /\ booked[u].cash \in Nat
      /\ \A a \in Accounts \ {u} : EnsureRows(u)[a] = booked[a]
  BY EnsureCash
<1>6. EnsureRows(u) \in [Accounts -> Amount]
  BY Cut, EnsureBooks
<1>7. (\A a \in Accounts \ {u} : booked'[a] = booked[a]) /\ booked'[u].cash <= booked[u].cash
  <2>1. CASE OpenWallet(u) \/ \E enabled \in BOOLEAN : SetUnlimitedCompute(u, enabled)
    <3>1. booked' = EnsureRows(u)
      BY <2>1 DEF OpenWallet, Touch, SetUnlimitedCompute
    <3> QED BY <1>5, <3>1
  <2>2. CASE \E extra \in Extras : InitializeWallet(u, extra)
    <3>1. PICK d : booked' = [booked EXCEPT ![u] = [booked[u] EXCEPT !.credit = d]]
      BY <2>2 DEF InitializeWallet
    <3>2. booked[u] \in Amount /\ booked'[u] = [booked[u] EXCEPT !.credit = d]
      BY <1>3, <3>1
    <3>3. booked'[u].cash = booked[u].cash
      BY <3>2 DEF Amount
    <3> QED BY <1>3, <1>5, <3>1, <3>3
  <2>3. CASE \E delta \in Deltas : AdjustCredit(u, delta)
    <3>1. PICK delta \in Deltas : AdjustCredit(u, delta)
      BY <2>3
    <3> DEFINE after == EnsureWallet(u).credit + delta
               cash == AdjustedCash(EnsureWallet(u), after)
    <3>2. delta \in Int
      BY BillingConstants
    <3>3. cash <= EnsureWallet(u).cash /\ cash \in Int
      BY <1>5, <3>2 DEF AdjustedCash, Least
    <3> HIDE DEF cash
    <3>4. booked' = [EnsureRows(u) EXCEPT ![u] = [credit |-> EnsureRows(u)[u].credit + delta,
                       cash |-> EnsureRows(u)[u].cash + (cash - EnsureWallet(u).cash)]]
      BY <3>1 DEF AdjustCredit, cash
    <3>5. booked'[u] = [credit |-> EnsureRows(u)[u].credit + delta,
                        cash |-> EnsureRows(u)[u].cash + (cash - EnsureWallet(u).cash)]
      BY <1>3, <1>6, <3>4
    <3>6. booked'[u].cash = EnsureRows(u)[u].cash + (cash - EnsureWallet(u).cash)
      BY <3>5
    <3>7. \A a \in Accounts \ {u} : booked'[a] = booked[a]
      BY <1>5, <1>6, <3>4
    <3> QED BY <1>5, <3>3, <3>6, <3>7
  <2> QED BY <1>1, <2>1, <2>2, <2>3
<1>8. /\ \A a \in Holds \cup Orders : booked'[a] = booked[a]
      /\ \A v \in Users : booked'[v].cash <= booked[v].cash
  BY <1>3, <1>4, <1>7, AccountSets
<1> QED BY <1>2, <1>3, <1>8, LedgerQuiet

\* A step of order o, of user u.
LEMMA LedgerOrder ==
  ASSUME IInv, IInv', LedgerInv, NEW o \in Orders, NEW u \in Users, resv' = resv,
         \A p \in Orders \ {o} : order'[p] = order[p], order[o].user = u, order'[o].user = u,
         \/ Touch(u)
         \/ \E key, credit : \E cash \in Int : key \notin posted /\ Move(u, key, {u, o}, credit, cash)
  PROVE  LedgerInv'
<1>1. Owner(o)' = u /\ Owner(o) = u
  BY AccountSets DEF Owner
<1>2. /\ \A p \in Orders \ {o} : order'[p].user = order[p].user /\ order'[p].status = order[p].status
      /\ \A h \in Holds \ {o} : resv'[h].user = resv[h].user
  OBVIOUS
<1>3. CASE Touch(u)
  <2>1. /\ \A a \in Holds \cup Orders : booked'[a] = booked[a]
        /\ \A v \in Users : booked'[v].cash <= booked[v].cash
    BY <1>3, LedgerTouch
  <2> QED BY <1>1, <1>2, <2>1, LedgerQuiet
<1>4. CASE \E key, credit : \E cash \in Int : key \notin posted /\ Move(u, key, {u, o}, credit, cash)
  <2>1. PICK key, credit : \E cash \in Int : key \notin posted /\ Move(u, key, {u, o}, credit, cash)
    BY <1>4
  <2>2. PICK cash \in Int : key \notin posted /\ Move(u, key, {u, o}, credit, cash)
    BY <2>1
  <2> QED BY <1>1, <1>2, <2>2, LedgerMove
<1> QED BY <1>3, <1>4

LEMMA LedgerOrders ==
  ASSUME IInv, IInv', LedgerInv, NEW o \in Orders,
         \/ ApproveCreditPack(o) \/ (\E s \in Subs : ApproveSubscription(o, s))
         \/ RefundCreditPack(o) \/ RefundSubscription(o)
  PROVE  LedgerInv'
<1> DEFINE u == order[o].user
           points == order[o].points
<1>1. order \in [Orders -> OrderRow] /\ order[o] \in OrderRow /\ OrderOK(o)
  BY Cut DEF Tables
<1>2. u \in Users /\ points \in Int /\ -points \in Int
  BY <1>1 DEF OrderRow
<1>3. resv' = resv
  BY DEF ApproveCreditPack, ApproveSubscription, RefundCreditPack, RefundSubscription
<1>4. \/ Touch(u)
      \/ \E key, credit : \E cash \in Int : key \notin posted /\ Move(u, key, {u, o}, credit, cash)
  <2>1. CASE (\E s \in Subs : ApproveSubscription(o, s)) \/ RefundSubscription(o)
    BY <2>1 DEF ApproveSubscription, RefundSubscription
  <2>2. CASE ApproveCreditPack(o)
    <3>1. <<"order", o>> \notin posted
      BY <1>1, <2>2 DEF OrderOK, ApproveCreditPack
    <3>2. Move(u, <<"order", o>>, {u, o}, points, points)
      BY <2>2 DEF ApproveCreditPack
    <3> QED BY <1>2, <3>1, <3>2
  <2>3. CASE RefundCreditPack(o)
    <3>1. <<"order_refund", o>> \notin posted
      BY <1>1, <2>3 DEF OrderOK, RefundCreditPack
    <3>2. Touch(u) \/ Move(u, <<"order_refund", o>>, {u, o}, -points, -points)
      BY <2>3 DEF RefundCreditPack
    <3> QED BY <1>2, <3>1, <3>2
  <2> QED BY <2>1, <2>2, <2>3
<1>5. PICK r : order' = [order EXCEPT ![o] = r] /\ r.user = u
  <2>1. CASE ApproveCreditPack(o)
    <3> DEFINE r == [order[o] EXCEPT !.status = "approved"]
    <3>1. order' = [order EXCEPT ![o] = r] /\ r.user = u
      BY <1>1, <2>1 DEF ApproveCreditPack, OrderRow
    <3> QED BY <3>1
  <2>2. CASE \E s \in Subs : ApproveSubscription(o, s)
    <3>1. PICK s \in Subs : ApproveSubscription(o, s)
      BY <2>2
    <3> DEFINE r == [order[o] EXCEPT !.status = "approved", !.sub = s]
    <3>2. order' = [order EXCEPT ![o] = r]
      BY <1>1, <3>1 DEF ApproveSubscription
    <3>3. r.user = u
      BY <1>1 DEF OrderRow
    <3> QED BY <3>2, <3>3
  <2>3. CASE RefundCreditPack(o) \/ RefundSubscription(o)
    <3> DEFINE r == [order[o] EXCEPT !.status = "refunded"]
    <3>1. order' = [order EXCEPT ![o] = r]
      BY <2>3 DEF RefundCreditPack, RefundSubscription
    <3>2. r.user = u
      BY <1>1 DEF OrderRow
    <3> QED BY <3>1, <3>2
  <2> QED BY <2>1, <2>2, <2>3
<1>6. order'[o].user = u /\ \A p \in Orders \ {o} : order'[p] = order[p]
  BY <1>1, <1>5
<1> QED BY <1>2, <1>3, <1>4, <1>6, LedgerOrder

\* Steps that leave the books alone.
LEMMA LedgerStill ==
  ASSUME IInv, IInv', LedgerInv,
         \/ \E o \in Orders : \E u, kind, points, bonus, months, s : CreateOrder(o, u, kind, points, bonus, months, s)
         \/ \E o \in Orders : RejectOrder(o) \/ CancelOrder(o)
         \/ (\E s \in Subs : TerminateSubscription(s)) \/ Tick \/ UNCHANGED vars
  PROVE  LedgerInv'
<1>1. resv' = resv /\ booked' = booked
  BY DEF CreateOrder, RejectOrder, CancelOrder, TerminateSubscription, Tick, vars, books
<1>2. \A v \in Users : booked'[v].cash <= booked[v].cash
  BY <1>1, CashTypes, AccountSets
<1>3. ASSUME NEW o \in Orders, NEW r, order' = [order EXCEPT ![o] = r], order[o].status # "approved"
      PROVE  LedgerInv'
  <2>1. order \in [Orders -> OrderRow] /\ booked[o].cash = 0
    BY <1>3, CashTypes, Cut DEF Tables
  <2>2. \A p \in Orders \ {o} : order'[p].user = order[p].user /\ order'[p].status = order[p].status
    BY <1>3, <2>1
  <2> QED BY <1>1, <1>2, <2>1, <2>2, LedgerQuiet
<1>4. CASE \E o \in Orders : \E u, kind, points, bonus, months, s : CreateOrder(o, u, kind, points, bonus, months, s)
  BY <1>3, <1>4 DEF CreateOrder
<1>5. CASE \E o \in Orders : RejectOrder(o) \/ CancelOrder(o)
  <2>1. PICK o \in Orders : RejectOrder(o) \/ CancelOrder(o)
    BY <1>5
  <2>2. PICK r : order' = [order EXCEPT ![o] = r]
    BY <2>1 DEF RejectOrder, CancelOrder
  <2>3. order[o].status # "approved"
    BY <2>1 DEF RejectOrder, CancelOrder
  <2> QED BY <1>3, <2>2, <2>3
<1>6. CASE (\E s \in Subs : TerminateSubscription(s)) \/ Tick \/ UNCHANGED vars
  <2>1. order' = order
    BY <1>6 DEF TerminateSubscription, Tick, entitlements, vars
  <2>2. PICK u : u \in Users /\ u \notin Holds \cup Orders
    BY BillingConstants
  <2> QED BY <1>1, <1>2, <2>1, <2>2, LedgerQuiet
<1> QED BY <1>4, <1>5, <1>6

LEMMA StepLedger ==
  ASSUME IInv, IInv', LedgerInv, [Next]_vars
  PROVE  LedgerInv'
<1>1. CASE WalletStep
  BY <1>1, LedgerWallet
<1>2. CASE ReserveStep
  <2>1. PICK h \in Holds, u \in Users, rate \in Rates :
          \/ \E qty \in 1 .. MaxQty :
               \/ \E kind \in {"rate", "image", "exact"} : ReserveWaived(h, u, kind, qty, rate)
               \/ ReserveUnlimited(h, u, qty, rate)
               \/ ReserveCharge(h, u, qty, rate)
               \/ ReserveImages(h, u, qty, rate)
          \/ ReserveExactCash(h, u, rate)
    BY <1>2 DEF ReserveStep
  <2>2. rate \in Nat /\ 0 \in Nat /\ \A qty \in 1 .. MaxQty : qty \in Nat
    BY BillingConstants
  <2>3. CASE ReserveExactCash(h, u, rate)
    BY <2>2, <2>3, LedgerReserve
  <2>4. ASSUME NEW qty \in 1 .. MaxQty,
               \/ \E kind \in {"rate", "image", "exact"} : ReserveWaived(h, u, kind, qty, rate)
               \/ ReserveUnlimited(h, u, qty, rate)
               \/ ReserveCharge(h, u, qty, rate)
               \/ ReserveImages(h, u, qty, rate)
        PROVE  LedgerInv'
    BY <2>2, <2>4, LedgerReserve
  <2> QED BY <2>1, <2>3, <2>4
<1>3. CASE FinishStep
  BY <1>3, LedgerFinish DEF FinishStep
<1>4. CASE OrderStep
  <2>1. PICK o \in Orders :
          \/ \E u, kind, points, bonus, months, s : CreateOrder(o, u, kind, points, bonus, months, s)
          \/ RejectOrder(o) \/ CancelOrder(o)
          \/ ApproveCreditPack(o)
          \/ \E s \in Subs : ApproveSubscription(o, s)
          \/ RefundCreditPack(o)
          \/ RefundSubscription(o)
    BY <1>4 DEF OrderStep
  <2>2. CASE \E u, kind, points, bonus, months, s : CreateOrder(o, u, kind, points, bonus, months, s)
    BY <2>2, LedgerStill
  <2>3. CASE RejectOrder(o) \/ CancelOrder(o)
    BY <2>3, LedgerStill
  <2> QED BY <2>1, <2>2, <2>3, LedgerOrders
<1>5. CASE (\E s \in Subs : TerminateSubscription(s)) \/ Tick \/ UNCHANGED vars
  BY <1>5, LedgerStill
<1> QED BY <1>1, <1>2, <1>3, <1>4, <1>5 DEF Next

LEMMA InitLedger ==
  ASSUME Init
  PROVE  LedgerInv
<1> SUFFICES ASSUME NEW u \in Users PROVE LedgerFine(u)
  BY DEF LedgerInv
<1>1. \A a \in Accounts : booked[a].cash = 0
  BY DEF Init, Zero
<1>2. IsFiniteSet(HoldsOf(u)) /\ IsFiniteSet(PaidOrders(u))
  <2>1. HoldsOf(u) \subseteq Holds /\ PaidOrders(u) \subseteq Orders
    BY DEF HoldsOf, PaidOrders
  <2> QED BY <2>1, FiniteTables, FS_Subset
<1>3. (\A h \in HoldsOf(u) : Spent[h] = 0) /\ (\A o \in PaidOrders(u) : PaidIn[o] = 0)
  BY <1>1, AccountSets DEF Spent, PaidIn, HoldsOf, PaidOrders
<1>4. SumFunctionOnSet(Spent, HoldsOf(u)) = 0 /\ SumFunctionOnSet(PaidIn, PaidOrders(u)) = 0
  BY <1>2, <1>3, SumZero
<1> QED BY <1>1, <1>4, AccountSets DEF LedgerFine

\* "Free/admin grants never become purchase-eligible": whatever welcome points,
\* adjustments, holds, partial settlements and refunds are mixed, the cash-backed points
\* a user has, holds or has spent are covered by the user's approved orders.
THEOREM CashIsPaidFor ==
  Spec => []CashBackedByPayments
<1>1. Init => LedgerInv
  BY InitLedger
<1>2. IInv /\ EntInv /\ LedgerInv /\ (IInv /\ EntInv)' /\ [Next]_vars => LedgerInv'
  BY StepLedger
<1>3. IInv /\ EntInv /\ LedgerInv => CashBackedByPayments
  <2> SUFFICES ASSUME IInv, EntInv, LedgerInv, NEW u \in Users
               PROVE  wallet[u].cash
                        + SumFunctionOnSet([h \in Holds |->
                            CASE resv[h].status = "held" -> resv[h].cash
                              [] resv[h].status = "settled" -> resv[h].sCash - resv[h].refunded
                              [] OTHER -> 0], HoldsOf(u))
                      <= SumFunctionOnSet([o \in Orders |-> order[o].points], PaidOrders(u))
    BY DEF CashBackedByPayments, HoldsOf, PaidOrders
  <2> DEFINE F == [h \in Holds |-> CASE resv[h].status = "held" -> resv[h].cash
                                     [] resv[h].status = "settled" -> resv[h].sCash - resv[h].refunded
                                     [] OTHER -> 0]
             P == [o \in Orders |-> order[o].points]
  <2>1. Tables /\ (\A h \in Holds : HoldOK(h)) /\ (\A o \in Orders : OrderOK(o))
    BY Cut
  <2>2. HoldsOf(u) \subseteq Holds /\ PaidOrders(u) \subseteq Orders
    BY DEF HoldsOf, PaidOrders
  <2>3. IsFiniteSet(HoldsOf(u)) /\ IsFiniteSet(PaidOrders(u))
    BY <2>2, FiniteTables, FS_Subset
  <2>4. ASSUME NEW h \in Holds PROVE Spent[h] = F[h]
    <3>1. /\ resv[h].cash \in Nat /\ resv[h].sCash \in Nat /\ resv[h].refunded \in Nat
          /\ booked[h] = Taken(resv[h])
      BY <2>1 DEF Tables, ReservationRow, HoldOK, Booking
    <3>2. Spent[h] = -booked[h].cash
      BY DEF Spent
    <3>3. CASE resv[h].status = "held"
      BY <3>1, <3>2, <3>3 DEF Taken
    <3>4. CASE resv[h].status = "settled"
      BY <3>1, <3>2, <3>4 DEF Taken
    <3>5. CASE resv[h].status # "held" /\ resv[h].status # "settled"
      BY <3>1, <3>2, <3>5 DEF Taken, Zero
    <3> QED BY <3>3, <3>4, <3>5
  <2>5. ASSUME NEW o \in PaidOrders(u) PROVE PaidIn[o] = P[o]
    <3>1. /\ o \in Orders /\ order[o].status = "approved"
          /\ order[o].kind \in {"credit_pack", "subscription"}
          /\ order[o].kind = "subscription" => order[o].points = 0
      BY <2>1 DEF PaidOrders, Tables, OrderRow, EntInv, OrderFine
    <3>2. booked[o] = IF order[o].kind = "credit_pack"
                      THEN [credit |-> order[o].points, cash |-> order[o].points] ELSE Zero
      BY <2>1, <3>1 DEF OrderOK
    <3>3. booked[o].cash = order[o].points
      BY <3>1, <3>2 DEF Zero
    <3> QED BY <3>1, <3>3 DEF PaidIn
  <2> HIDE DEF F, P
  <2>6. /\ SumFunctionOnSet(Spent, HoldsOf(u)) = SumFunctionOnSet(F, HoldsOf(u))
        /\ SumFunctionOnSet(PaidIn, PaidOrders(u)) = SumFunctionOnSet(P, PaidOrders(u))
    BY <2>2, <2>3, <2>4, <2>5, SumSame
  <2>7. wallet[u].cash + SumFunctionOnSet(F, HoldsOf(u)) <= SumFunctionOnSet(P, PaidOrders(u))
    BY <2>6, CashTypes DEF LedgerInv, LedgerFine
  <2> QED BY <2>7 DEF F, P
<1> QED BY <1>1, <1>2, <1>3, Entitlements, PTL DEF Spec
=============================================================================
