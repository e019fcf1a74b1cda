---------------------------- MODULE MCProxyRenewal ----------------------------
(* Instances of ProxyRenewal for TLC. *)
EXTENDS ProxyRenewal, TLC

MCSymmetry == Permutations(Workers)
=============================================================================
