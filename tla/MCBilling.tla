------------------------------ MODULE MCBilling ------------------------------
(* Instances of Billing for TLC.  The first user comes from before the wallet  *)
(* existed and has a balance to migrate.                                       *)
EXTENDS Billing, TLC

CONSTANTS u1, u2

\* Legacy balances: one point for the old account, none for the new one.
MCLegacy == [u \in Users |-> IF u = u1 THEN 1 ELSE 0]
MCDeltas == {-1, 1}
MCSymmetry == Permutations(Holds) \cup Permutations(Orders)
=============================================================================
