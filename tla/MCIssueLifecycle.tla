-------------------------- MODULE MCIssueLifecycle --------------------------
(* Instances of IssueLifecycle for TLC.                                    *)
EXTENDS IssueLifecycle, TLC

CONSTANTS pod, comp, workload, required, ns, podScope, cluster

(* A workload issue two scopes can hold, and a required component, which   *)
(* the whole-cluster scope alone can hold.                                 *)
MCCheckOf == (pod :> workload) @@ (comp :> required)
MCSees == (ns :> {pod}) @@ (podScope :> {pod}) @@ (cluster :> {comp})
MCRunScopes == {{ns, cluster}, {ns}, {podScope}}
=============================================================================
