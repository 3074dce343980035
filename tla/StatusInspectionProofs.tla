----------------------- MODULE StatusInspectionProofs -----------------------
(***************************************************************************)
(* The status inspection implements the issue lifecycle, so that what      *)
(* IssueLifecycleProofs proves holds of it as well.                        *)
(***************************************************************************)
EXTENDS InspectionHistory, IssueLifecycleProofs

(* What is collected is something IssueLifecycle lets a run collect.       *)
LEMMA CollectedIsCollect ==
  ASSUME NEW r \in Run, NEW S \in RunScopes, NEW complete \in SUBSET Completable(S),
         NEW seen \in [Issue -> Severity \cup {0}],
         Reported(complete, seen), Collected(r, complete, seen)
  PROVE  Collect(r)
  BY DEF Collect, Collected

(* The evaluations of a plan are completable in scopes of one run.         *)
LEMMA EvaluationsCompletable ==
  ASSUME NEW P \in Plans, NEW occupied \in SUBSET NamespaceScope
  PROVE  \E S \in RunScopes : EvaluationsOf(P, occupied) \subseteq Completable(S)
<1>1. CASE P = {GlobalScope}
  <2> DEFINE S == {GlobalScope} \cup NamespaceScope
  <2>1. S \in RunScopes
    BY InspectionAssumption
  <2>2. Check \X {GlobalScope} \subseteq Completable(S)
    BY DEF Completable
  <2>3. NamespaceCheck \X occupied \subseteq Completable(S)
    BY InspectionAssumption DEF Completable
  <2> QED
    BY <1>1, <2>1, <2>2, <2>3 DEF EvaluationsOf, ClusterEvaluations
<1>2. CASE P # {GlobalScope}
  <2>1. P \in RunScopes
    BY <1>2, InspectionAssumption
  <2>2. (Check \ {GlobalCheck}) \X P \subseteq Completable(P)
    BY DEF Completable
  <2> QED
    BY <1>2, <2>1, <2>2 DEF EvaluationsOf
<1> QED
  BY <1>1, <1>2

(* A candidate is reported by an evaluation that completed where the       *)
(* resource lies.                                                          *)
LEMMA CandidatesReported ==
  ASSUME InspectionTypeOK, NEW complete
  PROVE  /\ Candidates(complete) \in [Issue -> Severity \cup {0}]
         /\ Reported(complete, Candidates(complete))
  BY DEF InspectionTypeOK, Candidates, Reported

LEMMA PlanIsCollect ==
  ASSUME InspectionTypeOK, NEW r \in Run, NEW P \in Plans, NEW failed,
         CollectPlan(r, P, failed)
  PROVE  Collect(r)
<1> DEFINE complete == EvaluationsOf(P, populated) \ failed
<1>1. PICK S \in RunScopes : EvaluationsOf(P, populated) \subseteq Completable(S)
  BY EvaluationsCompletable DEF InspectionTypeOK
<1>2. complete \in SUBSET Completable(S)
  BY <1>1
<1>3. /\ Candidates(complete) \in [Issue -> Severity \cup {0}]
      /\ Reported(complete, Candidates(complete))
  BY CandidatesReported
<1>4. Collected(r, complete, Candidates(complete))
  BY DEF CollectPlan
<1> HIDE DEF complete
<1> QED
  BY <1>2, <1>3, <1>4, CollectedIsCollect

LEMMA NothingIsCollect ==
  ASSUME NEW r \in Run, CollectNothing(r)
  PROVE  Collect(r)
<1> DEFINE complete == {e \in Check \X {GlobalScope} : e[1] \notin ListingCheck}
           missing(i) == /\ CheckOf[i] = GlobalCheck
                         /\ i \in Sees[GlobalScope]
                         /\ GlobalCheck \notin ListingCheck
           seen(sev) == [i \in Issue |-> IF missing(i) THEN sev ELSE 0]
           S == {GlobalScope} \cup NamespaceScope
<1>1. PICK sev \in Severity : Collected(r, complete, seen(sev))
  BY DEF CollectNothing
<1>2. S \in RunScopes
  BY InspectionAssumption
<1>3. complete \in SUBSET Completable(S)
  BY DEF Completable
<1>4. seen(sev) \in [Issue -> Severity \cup {0}]
  OBVIOUS
<1>5. Reported(complete, seen(sev))
  <2> SUFFICES ASSUME NEW i \in Issue, seen(sev)[i] # 0
               PROVE  \E s \in Covered(complete, i) : i \in Sees[s]
    BY DEF Reported
  <2>1. missing(i)
    OBVIOUS
  <2>2. GlobalScope \in Scope /\ GlobalCheck \in Check
    BY LifecycleAssumption
  <2>3. <<CheckOf[i], GlobalScope>> \in complete
    BY <2>1, <2>2
  <2>4. GlobalScope \in Covered(complete, i)
    BY <2>2, <2>3 DEF Covered
  <2> QED
    BY <2>1, <2>4
<1> HIDE DEF complete, seen, S
<1> QED
  BY <1>1, <1>2, <1>3, <1>4, <1>5, CollectedIsCollect

(* Every step of the inspection is a step of the lifecycle or none.        *)
LEMMA InspectionStep ==
  ASSUME InspectionTypeOK, [InspectionNext]_inspection_vars
  PROVE  [Next]_vars
<1>1. ASSUME NEW r \in Run, InspectionRunStep(r)
      PROVE  RunStep(r)
  <2>1. ASSUME NEW P \in Plans,
               NEW failed \in SUBSET (EvaluationsOf(P, populated) \cap Relevant),
               CollectPlan(r, P, failed)
        PROVE  Collect(r)
    BY <2>1, PlanIsCollect
  <2>2. CASE CollectNothing(r)
    BY <2>2, NothingIsCollect DEF RunStep
  <2>3. CASE Ends(r)
    BY <2>3 DEF Ends, RunStep
  <2> QED
    BY <1>1, <2>1, <2>2, <2>3 DEF InspectionRunStep, RunStep
<1>2. ASSUME NEW i \in Issue, Break(i) \/ Fix(i)
      PROVE  UNCHANGED vars
  BY <1>2 DEF Break, Fix
<1>3. ASSUME NEW s \in NamespaceScope, Vacate(s) \/ Populate(s)
      PROVE  UNCHANGED vars
  BY <1>3 DEF Vacate, Populate
<1>4. CASE UNCHANGED inspection_vars
  BY <1>4 DEF inspection_vars
<1> QED
  BY <1>1, <1>2, <1>3, <1>4 DEF InspectionNext, ClusterStep, Next

(* The cluster's variables keep their types as well.                       *)
LEMMA ClusterTypes ==
  ASSUME InspectionTypeOK, TypeOK', [InspectionNext]_inspection_vars
  PROVE  InspectionTypeOK'
<1>1. ASSUME NEW r \in Run, InspectionRunStep(r)
      PROVE  UNCHANGED cluster_vars
  BY <1>1 DEF InspectionRunStep, CollectPlan, CollectNothing, Ends
<1>2. ASSUME NEW i \in Issue, Break(i)
      PROVE  InspectionTypeOK'
  BY <1>2 DEF Break, InspectionTypeOK
<1>3. ASSUME NEW i \in Issue, Fix(i)
      PROVE  InspectionTypeOK'
  BY <1>3 DEF Fix, InspectionTypeOK
<1>4. ASSUME NEW s \in NamespaceScope, Vacate(s) \/ Populate(s)
      PROVE  InspectionTypeOK'
  BY <1>4 DEF Vacate, Populate, InspectionTypeOK
<1>5. ASSUME UNCHANGED cluster_vars
      PROVE  InspectionTypeOK'
  BY <1>5 DEF cluster_vars, InspectionTypeOK
<1> QED
  BY <1>1, <1>2, <1>3, <1>4, <1>5
     DEF InspectionNext, ClusterStep, inspection_vars

(* What the collector and the evaluators hand over, in every cluster and   *)
(* with every failure, is a behaviour of the issue lifecycle.              *)
THEOREM InspectionRefinesLifecycle == InspectionSpec => Spec
<1>1. InspectionInit => Init /\ InspectionTypeOK
  <2>1. Init => TypeOK
    BY DEF Init, TypeOK, Status, EventType
  <2> QED
    BY <2>1 DEF InspectionInit, InspectionTypeOK
<1>2. InspectionTypeOK /\ [InspectionNext]_inspection_vars => [Next]_vars
  BY InspectionStep
<1>3. InspectionTypeOK /\ TypeOK' /\ [InspectionNext]_inspection_vars => InspectionTypeOK'
  BY ClusterTypes
<1>4. InspectionTypeOK /\ [Next]_vars => TypeOK'
  BY TypeStep DEF InspectionTypeOK
<1> QED
  BY <1>1, <1>2, <1>3, <1>4, PTL DEF InspectionSpec, Spec

(* A recovered issue of an inspected cluster is settled.                   *)
THEOREM InspectionSettles == InspectionSpec => []RecoveredIsSettled
  BY InspectionRefinesLifecycle, RecoveredSettled, PTL
-----------------------------------------------------------------------------
(* Faults that stand.                                                      *)

(* The scopes in which collected run c completed the check of issue i and  *)
(* which show its resource.                                                *)
Shown(c, i) == {s \in Covered(c.complete, i) : i \in Sees[s]}

LEMMA HitWhenShown ==
  ASSUME NEW c, NEW i
  PROVE  Hit(c, i) = IF c.seen[i] = 0 THEN {} ELSE Shown(c, i)
  BY DEF Hit, Shown

(* Runs in progress that show an issue agree on whether it is there.  Runs *)
(* that do not overlap do, and so do runs that overlap while no fault      *)
(* appears between their collections.                                      *)
RunsAgree ==
  \A r, t \in Run : \A i \in Issue :
    (/\ run[r].phase = "collected" /\ Shown(run[r], i) # {} /\ run[r].seen[i] = 0
     /\ run[t].phase = "collected" /\ Shown(run[t], i) # {})
    => run[t].seen[i] = 0

(* A fault nobody fixes and no namespace takes with it.                    *)
Lasting(i) == i \notin Fixable /\ \A s \in Vanishing : i \notin Sees[s]

(* A failed listing of the namespaces says nothing of the issue.           *)
Unlisted(i) == ListingMayFail => CheckOf[i] \in ListingCheck \/ i \notin Sees[GlobalScope]

(* What a run in progress saw of the issue is true, unless it is old: then *)
(* the issue has never been reported.                                      *)
SeenIsTrue(r, i) ==
  run[r].phase = "collected" =>
    /\ run[r].seen[i] # 0 => fault[i] # 0
    /\ Shown(run[r], i) # {} /\ run[r].seen[i] = 0 => status[i] = "absent"

Stands(i) ==
  /\ status[i] # "recovered"
  /\ status[i] # "absent" => fault[i] # 0
  /\ CheckOf[i] = GlobalCheck /\ i \notin Sees[GlobalScope] => status[i] = "absent"
  /\ \A r \in Run : SeenIsTrue(r, i)

LastingStands == \A i \in Issue : Lasting(i) /\ Unlisted(i) => Stands(i)

LEMMA StandsInitially == ASSUME InspectionInit PROVE LastingStands
  BY DEF InspectionInit, Init, LastingStands, Stands, SeenIsTrue, IdleRun

(* A run that does not report an issue that stands does not recover it.    *)
LEMMA StandingKept ==
  ASSUME MembershipInScope, NEW i \in Issue, NEW r \in Run,
         run[r] \in CollectedRun, Stands(i), Recovers(run[r], i)
  PROVE  FALSE
<1> DEFINE c == run[r]
<1>1. status[i] \in Live /\ Hit(c, i) = {}
  BY RecoveredHasNoMembership
<1>2. Shown(c, i) = {}
  BY <1>1, HitWhenShown DEF Stands, SeenIsTrue, CollectedRun, Live
<1>3. CASE RecoversGlobally(c, i)
  <2>1. PICK s \in Covered(c.complete, i) : CheckOf[i] = GlobalCheck
    BY <1>3 DEF RecoversGlobally
  <2>2. <<CheckOf[i], s>> \in Completable(Scope)
    BY <2>1 DEF Covered, CollectedRun
  <2>3. s = GlobalScope
    BY <2>1, <2>2 DEF Completable
  <2>4. i \notin Sees[GlobalScope]
    BY <1>2, <2>1, <2>3 DEF Shown
  <2> QED
    BY <1>1, <2>1, <2>4 DEF Stands, Live
<1>4. CASE RecoversInScope(c, i)
  <2>1. PICK s \in active[i] : s \in Covered(c.complete, i)
    BY <1>4 DEF RecoversInScope, Miss
  <2>2. i \in Sees[s]
    BY <2>1 DEF MembershipInScope
  <2> QED
    BY <1>2, <2>1, <2>2 DEF Shown
<1> QED
  BY <1>3, <1>4 DEF Recovers

(* The row of an issue that stands: only a run that reports it changes its *)
(* status from absent, and nothing makes it recovered.                     *)
LEMMA StandingRow ==
  ASSUME TypeOK, MembershipInScope, RunsAgree, [Next]_vars, NEW i \in Issue, Stands(i)
  PROVE  /\ status'[i] # "recovered"
         /\ status'[i] # "absent" => fault[i] # 0
         /\ CheckOf[i] = GlobalCheck /\ i \notin Sees[GlobalScope] => status'[i] = "absent"
         /\ \A r \in Run :
              /\ run[r].phase = "collected" /\ run'[r] = run[r]
              /\ Shown(run[r], i) # {} /\ run[r].seen[i] = 0
              => status'[i] = "absent"
<1>1. ASSUME NEW r \in Run, AppliedTo(r, i), Hit(run[r], i) # {}
      PROVE  /\ status'[i] # "recovered"
             /\ fault[i] # 0
             /\ CheckOf[i] = GlobalCheck => i \in Sees[GlobalScope]
             /\ \A t \in Run :
                  ~(/\ run[t].phase = "collected"
                    /\ Shown(run[t], i) # {} /\ run[t].seen[i] = 0)
  <2>1. run[r] \in CollectedRun /\ run[r].phase = "collected"
    BY <1>1 DEF AppliedTo, Applied
  <2>2. run[r].seen[i] # 0 /\ Shown(run[r], i) # {}
    BY <1>1, HitWhenShown
  <2>3. PICK s \in Hit(run[r], i) : TRUE
    BY <1>1
  <2>4. CheckOf[i] = GlobalCheck => i \in Sees[GlobalScope]
    BY <2>1, <2>3, HitInScope
  <2>5. status'[i] # "recovered"
    BY <1>1 DEF AppliedTo, ObservedStatus
  <2>6. fault[i] # 0
    BY <2>1, <2>2 DEF Stands, SeenIsTrue
  <2> QED
    BY <2>1, <2>2, <2>4, <2>5, <2>6 DEF RunsAgree
<1>2. ASSUME NEW r \in Run, AppliedTo(r, i), Hit(run[r], i) = {}
      PROVE  status'[i] = status[i]
  <2>1. run[r] \in CollectedRun
    BY <1>2 DEF AppliedTo
  <2>2. ~Recovers(run[r], i)
    BY <2>1, StandingKept
  <2> QED
    BY <1>2, <2>2 DEF AppliedTo
<1>3. ASSUME NEW u \in User, IgnoredBy(u, i) \/ UnignoredBy(u, i)
      PROVE  status[i] # "absent" /\ status'[i] \in Live
  BY <1>3 DEF IgnoredBy, UnignoredBy, Live
<1>4. CASE status'[i] = status[i]
  BY <1>4 DEF Stands, SeenIsTrue
<1>5. CASE status'[i] = "absent"
  BY <1>5
<1>6. CASE status[i] # "absent" /\ status'[i] \in Live
  BY <1>6 DEF Stands, SeenIsTrue, Live
<1> QED
  BY <1>1, <1>2, <1>3, <1>4, <1>5, <1>6, StepOfIssue DEF Deleted, IssueRow

(* The rest of a step: what a run has just collected is true.              *)
LEMMA PlanSeesFault ==
  ASSUME NEW i \in Issue, Stands(i), NEW r \in Run, NEW P, NEW failed, TypeOK,
         CollectPlan(r, P, failed)
  PROVE  Stands(i)'
<1> DEFINE complete == EvaluationsOf(P, populated) \ failed
           d == [phase |-> "collected", complete |-> complete, seen |-> Candidates(complete)]
<1>1. run' = [run EXCEPT ![r] = d] /\ UNCHANGED <<tables, fault>>
  BY DEF CollectPlan, Collected, cluster_vars
<1>2. d.complete = complete /\ d.seen[i] = IF Shown(d, i) # {} THEN fault[i] ELSE 0
  BY DEF Candidates, Shown
<1> HIDE DEF complete, d
<1>3. ASSUME NEW t \in Run PROVE SeenIsTrue(t, i)'
  <2>1. CASE t = r
    <3>1. run'[t] = d
      BY <1>1, <2>1 DEF TypeOK
    <3>2. Shown(run'[t], i) = Shown(d, i)
      BY <3>1
    <3> QED
      BY <1>1, <1>2, <3>1, <3>2 DEF SeenIsTrue, Stands, tables, Shown, Covered
  <2>2. CASE t # r
    BY <1>1, <2>2 DEF SeenIsTrue, Stands, tables, Shown, Covered, TypeOK
  <2> QED
    BY <2>1, <2>2
<1> QED
  BY <1>1, <1>3 DEF Stands, tables

LEMMA NothingSeesNothing ==
  ASSUME NEW i \in Issue, Stands(i), Unlisted(i), NEW r \in Run, TypeOK, CollectNothing(r)
  PROVE  Stands(i)'
<1> DEFINE complete == {e \in Check \X {GlobalScope} : e[1] \notin ListingCheck}
           missing(j) == /\ CheckOf[j] = GlobalCheck
                         /\ j \in Sees[GlobalScope]
                         /\ GlobalCheck \notin ListingCheck
           d(sev) == [phase |-> "collected", complete |-> complete,
                      seen |-> [j \in Issue |-> IF missing(j) THEN sev ELSE 0]]
<1>1. PICK sev \in Severity : run' = [run EXCEPT ![r] = d(sev)]
  BY DEF CollectNothing, Collected
<1>2. ListingMayFail /\ UNCHANGED <<tables, fault>>
  BY DEF CollectNothing, Collected, cluster_vars
<1>3. d(sev).complete = complete /\ d(sev).seen[i] = 0
  BY <1>2 DEF Unlisted
<1>4. Shown(d(sev), i) = {}
  BY <1>2, <1>3 DEF Shown, Covered, Unlisted
<1> HIDE DEF complete, d
<1>5. ASSUME NEW t \in Run PROVE SeenIsTrue(t, i)'
  <2>1. CASE t = r
    <3>1. run'[t] = d(sev)
      BY <1>1, <2>1 DEF TypeOK
    <3>2. Shown(run'[t], i) = {}
      BY <1>4, <3>1
    <3> QED
      BY <1>2, <1>3, <3>1, <3>2 DEF SeenIsTrue, Shown, Covered
  <2>2. CASE t # r
    BY <1>1, <1>2, <2>2 DEF SeenIsTrue, Stands, tables, Shown, Covered, TypeOK
  <2> QED
    BY <2>1, <2>2
<1> QED
  BY <1>2, <1>5 DEF Stands, tables

(* A step that lets no run collect, and leaves the cluster alone.          *)
LEMMA RunsKept ==
  ASSUME TypeOK, MembershipInScope, RunsAgree, [Next]_vars, NEW i \in Issue, Stands(i),
         UNCHANGED fault, \A r \in Run : run'[r] = run[r] \/ run'[r] = IdleRun
  PROVE  Stands(i)'
<1>1. ASSUME NEW r \in Run PROVE SeenIsTrue(r, i)'
  <2>1. CASE run'[r] = IdleRun
    BY <2>1 DEF SeenIsTrue, IdleRun
  <2>2. CASE run'[r] = run[r]
    BY <2>2, StandingRow DEF SeenIsTrue, Stands, Shown, Covered
  <2> QED
    BY <2>1, <2>2
<1> QED
  BY <1>1, StandingRow DEF Stands

LEMMA ClusterKeepsStands ==
  ASSUME InspectionTypeOK, NEW i \in Issue, Lasting(i), Stands(i), ClusterStep
  PROVE  Stands(i)'
<1>1. UNCHANGED vars
  BY DEF ClusterStep, Break, Fix, Vacate, Populate
<1>2. fault[i] # 0 => fault'[i] # 0
  <2>1. ASSUME NEW j \in Issue, Break(j) PROVE fault[i] # 0 => fault'[i] = fault[i]
    BY <2>1 DEF Break, InspectionTypeOK
  <2>2. ASSUME NEW j \in Issue, Fix(j) PROVE fault'[i] = fault[i]
    BY <2>2 DEF Fix, Lasting, InspectionTypeOK
  <2>3. ASSUME NEW s \in NamespaceScope, Vacate(s) \/ Populate(s) PROVE fault'[i] = fault[i]
    BY <2>3 DEF Vacate, Populate, Lasting, InspectionTypeOK
  <2> QED
    BY <2>1, <2>2, <2>3 DEF ClusterStep
<1> QED
  BY <1>1, <1>2 DEF Stands, SeenIsTrue, vars, tables, Shown, Covered

LEMMA StandsStep ==
  ASSUME InspectionTypeOK, MembershipInScope, RunsAgree, LastingStands,
         [InspectionNext]_inspection_vars
  PROVE  LastingStands'
<1> SUFFICES ASSUME NEW i \in Issue, Lasting(i), Unlisted(i) PROVE Stands(i)'
  BY DEF LastingStands, Lasting, Unlisted
<1>1. Stands(i) /\ TypeOK /\ [Next]_vars
  BY InspectionStep DEF LastingStands, InspectionTypeOK
<1>2. ASSUME NEW r \in Run, InspectionRunStep(r) PROVE Stands(i)'
  <2>1. CASE Ends(r)
    <3>1. UNCHANGED fault /\ \A t \in Run : run'[t] = run[t] \/ run'[t] = IdleRun
      BY <1>1, <2>1 DEF Ends, ApplyEvaluations, RunFails, cluster_vars, TypeOK
    <3> QED
      BY <1>1, <3>1, RunsKept
  <2> QED
    BY <1>1, <1>2, <2>1, PlanSeesFault, NothingSeesNothing DEF InspectionRunStep
<1>3. ASSUME NEW u \in User, UserStep(u), UNCHANGED cluster_vars PROVE Stands(i)'
  <2>1. run' = run /\ fault' = fault
    BY <1>3 DEF UserStep, ReadIssue, Acknowledge, Ignore, Unignore, WriteFails, cluster_vars
  <2> QED
    BY <1>1, <2>1, RunsKept
<1>4. ASSUME RetentionStep \/ Restart, UNCHANGED cluster_vars PROVE Stands(i)'
  <2>1. fault' = fault /\ \A r \in Run : run'[r] = run[r] \/ run'[r] = IdleRun
    BY <1>4 DEF RetentionStep, SelectExpired, DeleteExpired, Restart, cluster_vars
  <2> QED
    BY <1>1, <2>1, RunsKept
<1>5. CASE ClusterStep
  BY <1>1, <1>5, ClusterKeepsStands
<1>6. CASE UNCHANGED inspection_vars
  <2>1. run' = run /\ fault' = fault
    BY <1>6 DEF inspection_vars, vars, cluster_vars
  <2> QED
    BY <1>1, <2>1, RunsKept
<1> QED
  BY <1>2, <1>3, <1>4, <1>5, <1>6 DEF InspectionNext

LEMMA InspectionTypes == InspectionSpec => []InspectionTypeOK
<1>1. InspectionInit => InspectionTypeOK
  BY DEF InspectionInit, Init, InspectionTypeOK, TypeOK, Status, EventType
<1>2. InspectionTypeOK /\ TypeOK' /\ [InspectionNext]_inspection_vars => InspectionTypeOK'
  BY ClusterTypes
<1> QED
  BY <1>1, <1>2, InspectionRefinesLifecycle, TypeCorrect, PTL DEF InspectionSpec

(* While the runs in progress agree, what is reported of a lasting fault   *)
(* stays true of it, also when the namespaces cannot be listed, as far as  *)
(* such a run says nothing of the issue.                                   *)
THEOREM FaultsStand == InspectionSpec /\ []RunsAgree => []LastingStands
<1>1. InspectionInit => LastingStands
  BY StandsInitially
<1>2. /\ InspectionTypeOK /\ MembershipInScope /\ RunsAgree /\ LastingStands
      /\ [InspectionNext]_inspection_vars
      => LastingStands'
  BY StandsStep
<1> QED
  BY <1>1, <1>2, InspectionTypes, InspectionRefinesLifecycle, MembershipsInScope, PTL
     DEF InspectionSpec

-----------------------------------------------------------------------------
(* What recovers was healthy.                                              *)

(* An issue of the global check that the cluster scope does not show has   *)
(* no row: nothing ever reports it.                                        *)
GlobalInSight ==
  \A i \in Issue : CheckOf[i] = GlobalCheck /\ status[i] # "absent" => i \in Sees[GlobalScope]

LEMMA GlobalsInSight == Spec => []GlobalInSight
<1>1. Init => GlobalInSight
  BY DEF Init, GlobalInSight
<1>2. TypeOK /\ GlobalInSight /\ [Next]_vars => GlobalInSight'
  <2> SUFFICES ASSUME TypeOK, GlobalInSight, [Next]_vars, NEW i \in Issue,
                      CheckOf[i] = GlobalCheck, status'[i] # "absent",
                      status[i] = "absent"
               PROVE  i \in Sees[GlobalScope]
    BY DEF GlobalInSight
  <2>1. PICK r \in Run : AppliedTo(r, i)
    BY StepOfIssue DEF IgnoredBy, UnignoredBy, Deleted, IssueRow
  <2>2. run[r] \in CollectedRun
    BY <2>1 DEF AppliedTo
  <2>3. Hit(run[r], i) # {}
    BY <2>1 DEF AppliedTo, Recovers, Live
  <2> QED
    BY <2>2, <2>3, HitInScope
<1> QED
  BY <1>1, <1>2, TypeCorrect, PTL DEF Spec

(* A run recovers an issue only if a check that it completed shows the     *)
(* resource and does not report it.                                        *)
LEMMA RecoversWhatIsShown ==
  ASSUME MembershipInScope, GlobalInSight, NEW i \in Issue, NEW r \in Run,
         run[r] \in CollectedRun, Recovers(run[r], i)
  PROVE  Shown(run[r], i) # {} /\ run[r].seen[i] = 0
<1> DEFINE c == run[r]
<1>1. status[i] \in Live /\ Hit(c, i) = {}
  BY RecoveredHasNoMembership
<1>2. Shown(c, i) # {}
  <2>1. CASE RecoversGlobally(c, i)
    <3>1. PICK s \in Covered(c.complete, i) : CheckOf[i] = GlobalCheck
      BY <2>1 DEF RecoversGlobally
    <3>2. <<CheckOf[i], s>> \in Completable(Scope)
      BY <3>1 DEF Covered, CollectedRun
    <3>3. s = GlobalScope
      BY <3>1, <3>2 DEF Completable
    <3>4. i \in Sees[GlobalScope]
      BY <1>1, <3>1 DEF GlobalInSight, Live
    <3> QED
      BY <3>1, <3>3, <3>4 DEF Shown
  <2>2. CASE RecoversInScope(c, i)
    <3>1. PICK s \in active[i] : s \in Covered(c.complete, i)
      BY <2>2 DEF RecoversInScope, Miss
    <3>2. i \in Sees[s]
      BY <3>1 DEF MembershipInScope
    <3> QED
      BY <3>1, <3>2 DEF Shown
  <2> QED
    BY <2>1, <2>2 DEF Recovers
<1> QED
  BY <1>1, <1>2, HitWhenShown

(* What a run in progress shows and does not report had no fault when it   *)
(* collected, unless it is a check that was completed on no objects.       *)
SawHealthy(r) ==
  run[r].phase = "collected" =>
    \A i \in Issue : Shown(run[r], i) # {} /\ run[r].seen[i] = 0 =>
      i \in healthy[r] \/ (r \in blind /\ CheckOf[i] \notin ListingCheck)

RunsSawHealthy == \A r \in Run : SawHealthy(r)

(* A step collects for a run, ends it, or leaves it alone.                 *)
LEMMA RunsMove ==
  ASSUME TypeOK, [InspectionNext]_inspection_vars, NEW t \in Run
  PROVE  \/ run'[t] = run[t]
         \/ run'[t] = IdleRun
         \/ run[t].phase = "idle" /\ \E P, failed : CollectPlan(t, P, failed)
         \/ run[t].phase = "idle" /\ CollectNothing(t)
<1>1. ASSUME NEW r \in Run, NEW P, NEW failed, CollectPlan(r, P, failed)
      PROVE  run[r].phase = "idle" /\ (t # r => run'[t] = run[t])
  BY <1>1 DEF CollectPlan, Collected, TypeOK
<1>2. ASSUME NEW r \in Run, CollectNothing(r)
      PROVE  run[r].phase = "idle" /\ (t # r => run'[t] = run[t])
  BY <1>2 DEF CollectNothing, Collected, TypeOK
<1>3. ASSUME NEW r \in Run, Ends(r)
      PROVE  run'[t] = run[t] \/ run'[t] = IdleRun
  BY <1>3 DEF Ends, ApplyEvaluations, RunFails, TypeOK
<1>4. ASSUME NEW u \in User, UserStep(u)
      PROVE  run'[t] = run[t]
  BY <1>4 DEF UserStep, ReadIssue, Acknowledge, Ignore, Unignore, WriteFails
<1>5. CASE RetentionStep \/ Restart
  BY <1>5 DEF RetentionStep, SelectExpired, DeleteExpired, Restart
<1>6. CASE ClusterStep
  BY <1>6 DEF ClusterStep, Break, Fix, Vacate, Populate, vars
<1>7. CASE UNCHANGED inspection_vars
  BY <1>7 DEF inspection_vars, vars
<1> QED
  BY <1>1, <1>2, <1>3, <1>4, <1>5, <1>6, <1>7 DEF InspectionNext, InspectionRunStep

LEMMA PlanSawHealthy ==
  ASSUME TypeOK, NEW t \in Run, NEW P, NEW failed, CollectPlan(t, P, failed), Remember
  PROVE  SawHealthy(t)'
<1> DEFINE complete == EvaluationsOf(P, populated) \ failed
           d == [phase |-> "collected", complete |-> complete, seen |-> Candidates(complete)]
<1>1. run'[t] = d /\ run[t].phase = "idle"
  BY DEF CollectPlan, Collected, TypeOK
<1>2. ASSUME NEW i \in Issue, Shown(d, i) # {}, d.seen[i] = 0
      PROVE  fault[i] = 0
  BY <1>2 DEF Candidates, Shown
<1>3. d.phase = "collected"
  OBVIOUS
<1> HIDE DEF d
<1>4. healthy'[t] = {i \in Issue : fault[i] = 0}
  BY <1>1, <1>3 DEF Remember, Looks
<1>5. \A i \in Issue : Shown(run[t], i)' = Shown(d, i)
  BY <1>1 DEF Shown, Covered
<1> QED
  BY <1>1, <1>2, <1>4, <1>5 DEF SawHealthy

LEMMA BlindSawNothing ==
  ASSUME TypeOK, NEW t \in Run, CollectNothing(t), Remember
  PROVE  SawHealthy(t)'
<1> DEFINE complete == {e \in Check \X {GlobalScope} : e[1] \notin ListingCheck}
<1>1. run'[t].phase = "collected" /\ run'[t].complete = complete /\ run[t].phase = "idle"
  BY DEF CollectNothing, Collected, TypeOK
<1>2. t \in blind'
  BY <1>1 DEF Remember, Looks
<1>3. ASSUME NEW i \in Issue, Shown(run[t], i)' # {}
      PROVE  CheckOf[i] \notin ListingCheck
  BY <1>1, <1>3 DEF Shown, Covered
<1> QED
  BY <1>2, <1>3 DEF SawHealthy

LEMMA SawHealthyStep ==
  ASSUME TypeOK, RunsSawHealthy, [HistoryNext]_remembering_vars
  PROVE  RunsSawHealthy'
<1>1. CASE UNCHANGED remembering_vars
  BY <1>1 DEF RunsSawHealthy, SawHealthy, Shown, Covered, remembering_vars,
              inspection_vars, vars, history_vars
<1>2. CASE HistoryNext
  <2> SUFFICES ASSUME NEW t \in Run PROVE SawHealthy(t)'
    BY DEF RunsSawHealthy
  <2>1. Remember /\ InspectionNext
    BY <1>2 DEF HistoryNext
  <2>2. CASE run'[t] = IdleRun
    BY <2>2 DEF SawHealthy, IdleRun
  <2>3. CASE run'[t] = run[t] /\ run[t].phase = "collected"
    <3>1. healthy'[t] = healthy[t] /\ (t \in blind' <=> t \in blind)
      BY <2>1, <2>3 DEF Remember, Looks
    <3>2. \A i \in Issue : Shown(run[t], i)' = Shown(run[t], i)
      BY <2>3 DEF Shown, Covered
    <3> QED
      BY <2>3, <3>1, <3>2 DEF RunsSawHealthy, SawHealthy
  <2>4. CASE run'[t] = run[t] /\ run[t].phase # "collected"
    BY <2>4 DEF SawHealthy
  <2> QED
    BY <2>1, <2>2, <2>3, <2>4, RunsMove, PlanSawHealthy, BlindSawNothing
<1> QED
  BY <1>1, <1>2

LEMMA HistoryIsInspection == HistorySpec => InspectionSpec
<1>1. HistoryInit => InspectionInit
  BY DEF HistoryInit
<1>2. [HistoryNext]_remembering_vars => [InspectionNext]_inspection_vars
  BY DEF HistoryNext, remembering_vars
<1> QED
  BY <1>1, <1>2, PTL DEF HistorySpec, InspectionSpec

(* Whatever fails, overlaps, restarts or is requested meanwhile: a run     *)
(* recovers only what had no fault when it collected, or what a run that   *)
(* could not list the namespaces completed without objects to evaluate.    *)
THEOREM RecoveriesWereHealthy == HistorySpec => RecoveredWasHealthy
<1>1. HistoryInit => RunsSawHealthy
  BY DEF HistoryInit, InspectionInit, Init, RunsSawHealthy, SawHealthy, IdleRun
<1>2. InspectionTypeOK /\ RunsSawHealthy /\ [HistoryNext]_remembering_vars
      => RunsSawHealthy'
  BY SawHealthyStep DEF InspectionTypeOK
<1>3. InspectionTypeOK /\ MembershipInScope /\ GlobalInSight /\ RunsSawHealthy
      /\ [HistoryNext]_remembering_vars
      => [RecoverySeen]_remembering_vars
  <2> SUFFICES ASSUME InspectionTypeOK, MembershipInScope, GlobalInSight, RunsSawHealthy,
                      [HistoryNext]_remembering_vars, NEW i \in Issue,
                      status[i] \in Live, status'[i] = "recovered"
               PROVE  \E r \in Run :
                        /\ Applied(r)
                        /\ \/ i \in healthy[r]
                           \/ r \in blind /\ CheckOf[i] \notin ListingCheck
    BY DEF RecoverySeen
  <2>1. TypeOK /\ [Next]_vars
    BY InspectionStep DEF InspectionTypeOK, HistoryNext, remembering_vars
  <2>2. PICK r \in Run : AppliedTo(r, i)
    BY <2>1, StepOfIssue DEF IgnoredBy, UnignoredBy, Deleted, IssueRow, Live
  <2>3. run[r] \in CollectedRun /\ Applied(r) /\ run[r].phase = "collected"
    BY <2>2 DEF AppliedTo, Applied
  <2>4. Recovers(run[r], i)
    BY <2>2 DEF AppliedTo, ObservedStatus, Live
  <2>5. Shown(run[r], i) # {} /\ run[r].seen[i] = 0
    BY <2>3, <2>4, RecoversWhatIsShown
  <2> QED
    BY <2>3, <2>5 DEF RunsSawHealthy, SawHealthy
<1> QED
  BY <1>1, <1>2, <1>3, HistoryIsInspection, InspectionTypes, InspectionRefinesLifecycle,
     MembershipsInScope, GlobalsInSight, PTL DEF HistorySpec, RecoveredWasHealthy
=============================================================================
