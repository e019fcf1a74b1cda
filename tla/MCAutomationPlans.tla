-------------------------- MODULE MCAutomationPlans --------------------------
(***************************************************************************)
(* Instances of AutomationPlans for TLC.                                   *)
(***************************************************************************)
EXTENDS AutomationPlans, TLC
=============================================================================
