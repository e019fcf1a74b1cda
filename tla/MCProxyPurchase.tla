--------------------------- MODULE MCProxyPurchase ---------------------------
(* Instances of ProxyPurchase for TLC. *)
EXTENDS ProxyPurchase, TLC

CONSTANTS x1, x2, p1

\* The supplier hands out the same proxy under both of its orders.
MCSharedProxy == [p \in SupplierOrders |-> x1]
\* Each supplier order has its own proxy.
MCOwnProxies == [p \in SupplierOrders |-> IF p = p1 THEN x1 ELSE x2]
MCThreads == Permutations(Threads)
MCSymmetry == Permutations(Threads) \cup Permutations(Quotes) \cup Permutations(PaidKeys)
=============================================================================
