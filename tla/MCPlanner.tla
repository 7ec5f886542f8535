----------------------------- MODULE MCPlanner -----------------------------
(* BuildPlan over every list of up to MaxAssets small assets. *)
EXTENDS Planner
=============================================================================
