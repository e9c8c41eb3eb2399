--------------------------- MODULE MCPlanRegimes ---------------------------
(* The instances of MCPlanLifecycle for the two regimes of PlanRegimes.    *)
EXTENDS MCPlanLifecycle, PlanRegimes
=============================================================================
