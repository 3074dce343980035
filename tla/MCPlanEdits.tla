----------------------------- MODULE MCPlanEdits -----------------------------
(* Instances of PlanEdits for TLC.                                         *)
EXTENDS MCInspectionScheduler, PlanEdits
=============================================================================
