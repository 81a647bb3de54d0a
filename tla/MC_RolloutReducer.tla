-------------------------- MODULE MC_RolloutReducer --------------------------
(***************************************************************************)
(* The reducer for TLC: every event with every combination of facts.       *)
(***************************************************************************)
EXTENDS RolloutReducer

\* One reason of a policy, and none.
SuppliedReasons == {"POLICY_UNHEALTHY"}
=============================================================================
