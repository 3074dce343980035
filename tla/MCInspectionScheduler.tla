----------------------- MODULE MCInspectionScheduler -----------------------
(* Instances of InspectionScheduler for TLC.                               *)
EXTENDS InspectionScheduler, TLC

ThreadSymmetry == Permutations(Starter) \cup Permutations(Run)
=============================================================================
