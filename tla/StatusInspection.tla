-------------------------- MODULE StatusInspection --------------------------
(***************************************************************************)
(* What the status inspection reads from a cluster and hands to the issue  *)
(* lifecycle: which scopes and checks a cluster run and a namespace run    *)
(* evaluate, which of these evaluations fail, and what the completed ones  *)
(* report.  The cluster itself is the environment: faults come and go, and *)
(* a namespace may lose all of its objects.                                *)
(*                                                                         *)
(* A run collects in one step and applies in another, so that runs overlap *)
(* and a run may apply what is no longer true.  Every step is a step of    *)
(* IssueLifecycle or leaves its variables alone.                           *)
(***************************************************************************)
EXTENDS IssueLifecycle

CONSTANTS
  NamespaceScope,  \* scope keys of single namespaces
  NamespaceCheck,  \* namespace_codes: the checks evaluated per namespace
  ListingCheck,    \* the checks marked as failed when no namespace is listed
  Plans,           \* the scopes inspected: {GlobalScope} or sets of namespaces
  Fixable,         \* issues whose fault may go away
  Vanishing,       \* namespaces that may lose all of their objects
  ListingMayFail   \* may the Kubernetes API fail to list the namespaces?

ASSUME InspectionAssumption ==
  /\ NamespaceScope \subseteq Scope \ {GlobalScope}
  /\ NamespaceCheck \subseteq Check \ {GlobalCheck}
  /\ ListingCheck \subseteq Check
  /\ Plans \subseteq {{GlobalScope}} \cup SUBSET NamespaceScope
  /\ {GlobalScope} \cup NamespaceScope \in RunScopes
  /\ Plans \ {{GlobalScope}} \subseteq RunScopes
  /\ ListingMayFail \in BOOLEAN

VARIABLES
  fault,      \* severity of the fault each issue reports, 0 when healthy
  populated   \* namespaces in which there is an object to observe

cluster_vars == <<fault, populated>>
inspection_vars == <<vars, cluster_vars>>

InspectionTypeOK ==
  /\ TypeOK
  /\ fault \in [Issue -> Severity \cup {0}]
  /\ populated \in SUBSET NamespaceScope

InspectionInit ==
  /\ Init
  /\ fault = [i \in Issue |-> 0]
  /\ populated = NamespaceScope

-----------------------------------------------------------------------------
(* The cluster.                                                            *)

Break(i) ==
  /\ fault[i] = 0
  /\ \E s \in populated \cup {GlobalScope} : i \in Sees[s]
  /\ \E sev \in Severity : fault' = [fault EXCEPT ![i] = sev]
  /\ UNCHANGED <<vars, populated>>

Fix(i) ==
  /\ i \in Fixable
  /\ fault[i] # 0
  /\ fault' = [fault EXCEPT ![i] = 0]
  /\ UNCHANGED <<vars, populated>>

Vacate(s) ==
  /\ s \in Vanishing \cap populated
  /\ fault' = [i \in Issue |-> IF i \in Sees[s] THEN 0 ELSE fault[i]]
  /\ populated' = populated \ {s}
  /\ UNCHANGED vars

Populate(s) ==
  /\ s \in NamespaceScope \ populated
  /\ populated' = populated \cup {s}
  /\ UNCHANGED <<vars, fault>>

-----------------------------------------------------------------------------
(* Collection and evaluation.                                              *)

(* A cluster run evaluates every check in the cluster scope, on the        *)
(* objects without a namespace, and the namespace checks in the scope of   *)
(* each namespace that occurs in an observation.                           *)
ClusterEvaluations(occupied) ==
  (Check \X {GlobalScope}) \cup (NamespaceCheck \X occupied)

OccupiedNamespacesOnly(P, occupied) ==                             \* mutant
  IF P = {GlobalScope} THEN ClusterEvaluations(occupied)
  ELSE (Check \ {GlobalCheck}) \X (P \cap occupied)

(* A namespace run evaluates all but required_components in the scope of   *)
(* each of its namespaces, empty or not.                                   *)
EvaluationsOf(P, occupied) ==
  IF P = {GlobalScope} THEN ClusterEvaluations(occupied)
  ELSE (Check \ {GlobalCheck}) \X P

(* Evaluations that can find an issue; whether another one fails makes no  *)
(* difference to any issue.                                                *)
Relevant == UNION {{<<CheckOf[i], s>> : i \in Sees[s]} : s \in Scope}

CandidatesOfFailedToo(complete) == fault                           \* mutant

(* evaluation(): a collection failure discards the candidates of the       *)
(* check, otherwise the check reports the faults the scope shows.          *)
Candidates(complete) ==
  [i \in Issue |-> IF \E s \in Covered(complete, i) : i \in Sees[s]
                   THEN fault[i] ELSE 0]

FailedAsEmpty(r, P, failed) ==                                     \* mutant
  LET all == EvaluationsOf(P, populated)
  IN Collected(r, all, Candidates(all \ failed)) /\ UNCHANGED cluster_vars

CollectPlan(r, P, failed) ==
  LET complete == EvaluationsOf(P, populated) \ failed
  IN Collected(r, complete, Candidates(complete)) /\ UNCHANGED cluster_vars

(* The namespaces cannot be listed: two checks are marked as failed and    *)
(* the collection returns.  The other checks of the cluster scope complete *)
(* on no objects at all, and every required component is missing.          *)
CollectNothing(r) ==
  LET complete == {e \in Check \X {GlobalScope} : e[1] \notin ListingCheck}
      missing(i) == /\ CheckOf[i] = GlobalCheck
                    /\ i \in Sees[GlobalScope]
                    /\ GlobalCheck \notin ListingCheck
  IN
  /\ ListingMayFail
  /\ {GlobalScope} \in Plans
  /\ \E sev \in Severity :
       Collected(r, complete, [i \in Issue |-> IF missing(i) THEN sev ELSE 0])
  /\ UNCHANGED cluster_vars

(* The run ends, committed or not, while the cluster stands still.         *)
Ends(r) == (ApplyEvaluations(r) \/ RunFails(r)) /\ UNCHANGED cluster_vars

InspectionRunStep(r) ==
  \/ \E P \in Plans :
       \E failed \in SUBSET (EvaluationsOf(P, populated) \cap Relevant) :
         CollectPlan(r, P, failed)
  \/ CollectNothing(r)
  \/ Ends(r)

ClusterStep ==
  \/ \E i \in Issue : Break(i) \/ Fix(i)
  \/ \E s \in NamespaceScope : Vacate(s) \/ Populate(s)

InspectionNext ==
  \/ \E r \in Run : InspectionRunStep(r)
  \/ \E u \in User : UserStep(u) /\ UNCHANGED cluster_vars
  \/ (RetentionStep \/ Restart) /\ UNCHANGED cluster_vars
  \/ ClusterStep

InspectionSpec == InspectionInit /\ [][InspectionNext]_inspection_vars

(* Every plan is inspected again and again, from time to time by a run     *)
(* that collects everything and commits; and every run that has collected  *)
(* ends.  Nothing is assumed of the cluster, the operators, retention or   *)
(* restarts.                                                               *)
AppliesWhole(P) == \E r \in Run, occupied \in SUBSET NamespaceScope :
  run[r].complete = EvaluationsOf(P, occupied) /\ ApplyEvaluations(r) /\ UNCHANGED cluster_vars

Fairness ==
  /\ \A P \in Plans : []<><<AppliesWhole(P)>>_inspection_vars
  /\ \A r \in Run : WF_inspection_vars(Ends(r))

FairInspectionSpec == InspectionSpec /\ Fairness

-----------------------------------------------------------------------------
(* Properties.                                                             *)

(* A fault that has never gone away is never reported as recovered.  The   *)
(* code breaks it in two ways: a run that could not list the namespaces    *)
(* completes checks on no objects, and a run that collected before the     *)
(* fault may apply after another has reported it.                          *)
UnfixedNeverRecovers ==
  \A i \in Issue \ Fixable :
    (\A s \in Vanishing : i \notin Sees[s]) => status[i] # "recovered"

(* From some time on the namespaces can be listed.                         *)
ListingRecovers == <>[][\A r \in Run : ~CollectNothing(r)]_inspection_vars

OperatorsDone == \A u \in User : user[u] = IdleUser

(* No scope holds the issue, so that no run comes back to it: an operator  *)
(* has ignored it after it had recovered, and perhaps un-ignored it since. *)
Abandoned(i) == status[i] \in Live /\ active[i] = {}

(* Once a fault has gone for good, the operators are done and namespaces   *)
(* are listed again, its issue leaves the lists of open and of ignored     *)
(* issues for good, although runs overlap and apply out of order, checks   *)
(* fail, and the process restarts.  Only what an operator ignored when it  *)
(* had recovered already stays where it is (docs/v1.2.0/prd.md:168 knows   *)
(* no exception).                                                          *)
FixedLeavesLists ==
  \A i \in Issue :
    <>[](fault[i] = 0 /\ OperatorsDone) /\ ListingRecovers =>
      <>[](status[i] \in {"absent", "recovered"} \/ Abandoned(i))

(* Once a fault stays, its issue ends up open or ignored for good.  Failed *)
(* listings of the namespaces may go on for ever, unless the check of the  *)
(* issue is one that they complete on no objects.                          *)
FaultStaysListed ==
  \A i \in Issue :
    <>[](fault[i] # 0) /\ (CheckOf[i] \in ListingCheck \/ ListingRecovers) =>
      <>[](status[i] \in Live)
=============================================================================
