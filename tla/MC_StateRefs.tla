----------------------------- MODULE MC_StateRefs -----------------------------
(* Model-checking instance of StateRefs; the constants are set in the cfgs. *)
EXTENDS StateRefs
=============================================================================
