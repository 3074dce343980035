-------------------------- MODULE InspectionHistory --------------------------
(***************************************************************************)
(* The status inspection with a memory: what each run in progress could    *)
(* have seen when it collected.  The two history variables record and      *)
(* restrict nothing; they let a property speak of the cluster as it was    *)
(* when a run looked at it, which may be long before the run applies.      *)
(***************************************************************************)
EXTENDS StatusInspection

VARIABLES
  healthy,    \* the issues without a fault when each run collected
  blind       \* the runs that could not list the namespaces

history_vars == <<healthy, blind>>
remembering_vars == <<inspection_vars, history_vars>>

HistoryTypeOK ==
  /\ InspectionTypeOK
  /\ healthy \in [Run -> SUBSET Issue]
  /\ blind \in SUBSET Run

HistoryInit ==
  /\ InspectionInit
  /\ healthy = [r \in Run |-> {}]
  /\ blind = {}

Looks(r) == run[r].phase = "idle" /\ run'[r].phase = "collected"

Remember ==
  /\ healthy' = [r \in Run |->
       IF run'[r].phase = "idle" THEN {}
       ELSE IF Looks(r) THEN {i \in Issue : fault[i] = 0} ELSE healthy[r]]
  /\ blind' = {r \in Run : /\ run'[r].phase = "collected"
                           /\ Looks(r) => CollectNothing(r)
                           /\ ~Looks(r) => r \in blind}

HistoryNext == InspectionNext /\ Remember

HistorySpec == HistoryInit /\ [][HistoryNext]_remembering_vars

-----------------------------------------------------------------------------
(* Whatever checks of whatever runs fail, however runs overlap and apply   *)
(* out of order, and whatever operators, retention and restarts do         *)
(* meanwhile: a run recovers a live issue only if the issue had no fault   *)
(* when that very run collected.  A run that could not list the namespaces *)
(* is the exception, and only for the checks that it completes although it *)
(* has no objects to evaluate.                                             *)
RecoverySeen ==
  \A i \in Issue : status[i] \in Live /\ status'[i] = "recovered" =>
    \E r \in Run :
      /\ Applied(r)
      /\ i \in healthy[r] \/ (r \in blind /\ CheckOf[i] \notin ListingCheck)
RecoveredWasHealthy == [][RecoverySeen]_remembering_vars
=============================================================================
