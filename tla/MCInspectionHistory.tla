------------------------ MODULE MCInspectionHistory ------------------------
(* Instances of InspectionHistory for TLC, with the cluster and the bound  *)
(* of MCStatusInspection.                                                  *)
EXTENDS MCStatusInspection, InspectionHistory

BoundedHistorySpec ==
  HistoryInit /\ [][HistoryNext /\ OneInTrouble]_remembering_vars
=============================================================================
