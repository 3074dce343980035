------------------------- MODULE MCStatusInspection -------------------------
(* Instances of StatusInspection for TLC: a pod in namespace ns, a node    *)
(* and a required component in the cluster scope.  One bound: an issue     *)
(* breaks only when nothing is left of the other issues, in the tables or  *)
(* in a run.  Issues share nothing but the runs, and each of them still    *)
(* breaks, is repaired, seen, missed, ignored and purged in every order.   *)
EXTENDS StatusInspection, TLC

CONSTANTS pod, node, comp, workload, nodeHealth, required, ns, cluster

MCCheckOf == [i \in Issue |-> IF i = pod THEN workload
                              ELSE IF i = node THEN nodeHealth ELSE required]
MCSees == (ns :> {pod} \cap Issue) @@ (cluster :> {node, comp} \cap Issue)
MCRunScopes == {{ns, cluster}, {ns}}
ClusterAndNamespacePlan == {{cluster}, {ns}}

Untroubled(i) ==
  fault[i] = 0 /\ status[i] = "absent" /\ \A r \in Run : run[r].seen[i] = 0

OneInTrouble ==
  \A i \in Issue : fault[i] = 0 /\ fault'[i] # 0 =>
    \A other \in Issue \ {i} : Untroubled(other)

BoundedFairSpec ==
  InspectionInit /\ [][InspectionNext /\ OneInTrouble]_inspection_vars /\ Fairness
=============================================================================
