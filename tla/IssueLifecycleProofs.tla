------------------------ MODULE IssueLifecycleProofs ------------------------
(***************************************************************************)
(* Proofs about IssueLifecycle, for every set of issues, checks, scopes,   *)
(* runs and operator requests.                                             *)
(***************************************************************************)
EXTENDS IssueLifecycle, TLAPS

-----------------------------------------------------------------------------
(* Type correctness.                                                       *)

(* A run that has collected holds a record of collected evaluations, an    *)
(* operator request in progress the issue it has read.                     *)
LEMMA CollectedType ==
  ASSUME TypeOK, NEW r \in Run, run[r].phase = "collected"
  PROVE  run[r] \in CollectedRun
<1>1. run[r] \in CollectedRun \cup {IdleRun}
  BY DEF TypeOK
<1>2. IdleRun.phase = "idle"
  BY DEF IdleRun
<1> QED
  BY <1>1, <1>2

LEMMA PendingType ==
  ASSUME TypeOK, NEW u \in User, user[u].op # "none"
  PROVE  user[u] \in PendingUser
  BY DEF TypeOK, IdleUser

(* The scopes covered, hit and missed by a run are scopes.                 *)
LEMMA ScopesType ==
  ASSUME NEW c, NEW i \in Issue
  PROVE  /\ Covered(c.complete, i) \subseteq Scope
         /\ Hit(c, i) \subseteq Covered(c.complete, i)
         /\ Miss(c, i) = Covered(c.complete, i) \ Hit(c, i)
  BY DEF Covered, Hit, Miss

(* Applying a run gives memberships in scopes.                             *)
LEMMA MembershipsType ==
  ASSUME TypeOK, NEW c, NEW i \in Issue
  PROVE  MembershipsAfter(c, i) \in SUBSET Scope
<1>1. active[i] \subseteq Scope /\ Hit(c, i) \subseteq Scope
  BY ScopesType DEF TypeOK
<1> QED
  BY <1>1 DEF MembershipsAfter

(* Every status has its observation event.                                 *)
LEMMA ObservationEventType ==
  ASSUME TypeOK, NEW c \in CollectedRun, NEW i \in Issue
  PROVE  ObservationEvent(c, i) \in EventType
<1>1. lastEvent[i] \in EventType /\ status[i] \in Status
  BY DEF TypeOK
<1>2. c.seen[i] \in Nat /\ severity[i] \in Nat
  <2>1. Severity \cup {0} \subseteq Nat
    BY LifecycleAssumption
  <2>2. c.seen[i] \in Severity \cup {0} /\ severity[i] \in Severity \cup {0}
    BY DEF TypeOK, CollectedRun
  <2> QED
    BY <2>1, <2>2
<1>3. c.seen[i] > severity[i] \/ c.seen[i] <= severity[i]
  BY <1>2
<1> QED
  BY <1>1, <1>3 DEF ObservationEvent, EventType, Status

LEMMA ApplyKeepsTypes ==
  ASSUME TypeOK, NEW r \in Run, ApplyEvaluations(r)
  PROVE  TypeOK'
<1> DEFINE c == run[r]
<1>1. c \in CollectedRun
  BY CollectedType DEF ApplyEvaluations
<1>2. c.seen \in [Issue -> Severity \cup {0}]
  BY <1>1 DEF CollectedRun
<1>3. status' \in [Issue -> Status]
  BY DEF TypeOK, ApplyEvaluations, ObservedStatus, Status
<1>4. severity' \in [Issue -> Severity \cup {0}]
  BY <1>2 DEF TypeOK, ApplyEvaluations
<1>5. recoveredAt' \in [Issue -> BOOLEAN]
  BY Zenon DEF TypeOK, ApplyEvaluations, Recovers, RecoversInScope, RecoversGlobally
<1>6. lastEvent' \in [Issue -> EventType]
  BY <1>1, ObservationEventType DEF TypeOK, ApplyEvaluations, EventType
<1>7. active' \in [Issue -> SUBSET Scope]
  BY MembershipsType DEF ApplyEvaluations
<1>8. run' \in [Run -> CollectedRun \cup {IdleRun}]
  BY DEF TypeOK, ApplyEvaluations
<1> QED
  BY <1>3, <1>4, <1>5, <1>6, <1>7, <1>8 DEF TypeOK, ApplyEvaluations

(* Every step keeps the type of every variable.                            *)
LEMMA TypeStep ==
  ASSUME TypeOK, [Next]_vars
  PROVE  TypeOK'
<1>1. ASSUME NEW r \in Run, Collect(r)
      PROVE  TypeOK'
  <2>1. PICK S \in RunScopes :
          \E complete \in SUBSET Completable(S), seen \in [Issue -> Severity \cup {0}] :
            Collected(r, complete, seen)
    BY <1>1 DEF Collect
  <2> PICK complete \in SUBSET Completable(S), seen \in [Issue -> Severity \cup {0}] :
        Collected(r, complete, seen)
    BY <2>1
  <2>2. complete \in SUBSET Completable(Scope)
    BY LifecycleAssumption DEF Completable
  <2>3. [phase |-> "collected", complete |-> complete, seen |-> seen] \in CollectedRun
    BY <2>2 DEF CollectedRun
  <2> QED
    BY <2>3 DEF Collected, TypeOK, tables
<1>2. ASSUME NEW r \in Run, ApplyEvaluations(r)
      PROVE  TypeOK'
  BY <1>2, ApplyKeepsTypes
<1>3. ASSUME NEW r \in Run, RunFails(r)
      PROVE  TypeOK'
  BY <1>3 DEF RunFails, TypeOK, tables
<1>4. ASSUME NEW u \in User, NEW op \in Op, NEW i \in Issue, ReadIssue(u, op, i)
      PROVE  TypeOK'
  BY <1>4 DEF ReadIssue, TypeOK, tables, PendingUser
<1>5. ASSUME NEW u \in User, Acknowledge(u)
      PROVE  TypeOK'
  BY <1>5, PendingType DEF Acknowledge, Writes, TypeOK, PendingUser
<1>6. ASSUME NEW u \in User, Ignore(u)
      PROVE  TypeOK'
  BY <1>6, PendingType
     DEF Ignore, Writes, ClearRecoveredAt, TypeOK, PendingUser, Status, EventType
<1>7. ASSUME NEW u \in User, Unignore(u)
      PROVE  TypeOK'
  BY <1>7, PendingType
     DEF Unignore, Writes, ClearRecoveredAt, TypeOK, PendingUser, Status, EventType
<1>8. ASSUME NEW u \in User, WriteFails(u)
      PROVE  TypeOK'
  BY <1>8 DEF WriteFails, TypeOK, tables
<1>9. ASSUME NEW old \in SUBSET Issue, SelectExpired(old)
      PROVE  TypeOK'
  BY <1>9 DEF SelectExpired, TypeOK, tables
<1>10. CASE DeleteExpired
  BY <1>10 DEF DeleteExpired, TypeOK, Status, EventType
<1>11. CASE Restart
  BY <1>11 DEF Restart, TypeOK, tables
<1>12. CASE UNCHANGED vars
  BY <1>12 DEF TypeOK, vars, tables
<1> QED
  BY <1>1, <1>2, <1>3, <1>4, <1>5, <1>6, <1>7, <1>8, <1>9, <1>10, <1>11, <1>12
     DEF Next, RunStep, UserStep, RetentionStep

(* Every variable keeps its type: no step writes a status, an event or a   *)
(* membership the schema does not know, whatever is collected.             *)
THEOREM TypeCorrect == Spec => []TypeOK
<1>1. Init => TypeOK
  BY DEF Init, TypeOK, Status, EventType
<1>2. TypeOK /\ [Next]_vars => TypeOK'
  BY TypeStep
<1> QED
  BY <1>1, <1>2, PTL DEF Spec

-----------------------------------------------------------------------------
(* What applying a run does to one issue.                                  *)

(* A hit is in the scope of the resource, and of required_components in    *)
(* the whole-cluster scope only.                                           *)
LEMMA HitInScope ==
  ASSUME NEW c \in CollectedRun, NEW i \in Issue, NEW s \in Hit(c, i)
  PROVE  i \in Sees[s] /\ (CheckOf[i] = GlobalCheck => s = GlobalScope)
<1>1. s \in Covered(c.complete, i) /\ i \in Sees[s]
  BY DEF Hit
<1>2. <<CheckOf[i], s>> \in Completable(Scope)
  BY <1>1 DEF CollectedRun, Covered
<1> QED
  BY <1>1, <1>2 DEF Completable

(* An issue that recovers was live, no scope hit it, and no membership of  *)
(* it is left.                                                             *)
LEMMA RecoveredHasNoMembership ==
  ASSUME NEW c, NEW i \in Issue, Recovers(c, i)
  PROVE  /\ status[i] \in Live
         /\ Hit(c, i) = {}
         /\ MembershipsAfter(c, i) = {}
<1>1. status[i] \in Live /\ Hit(c, i) = {}
  BY DEF Recovers, RecoversGlobally, RecoversInScope
<1>2. CASE RecoversGlobally(c, i)
  BY <1>1, <1>2 DEF MembershipsAfter
<1>3. CASE ~RecoversGlobally(c, i)
  <2>1. active[i] \subseteq Miss(c, i)
    BY <1>3 DEF Recovers, RecoversInScope
  <2> QED
    BY <1>1, <1>3, <2>1 DEF MembershipsAfter
<1> QED
  BY <1>1, <1>2, <1>3

(* An issue that is not live has no membership but those of its hits and   *)
(* those it had.                                                           *)
LEMMA MembershipsOfSettled ==
  ASSUME NEW c, NEW i \in Issue, status[i] \notin Live
  PROVE  MembershipsAfter(c, i) = active[i] \cup Hit(c, i)
  BY DEF MembershipsAfter

-----------------------------------------------------------------------------
(* What a step does to the row, the newest event and the memberships of    *)
(* one issue: only four writers touch them.                                *)

IssueRow(i) == <<status[i], recoveredAt[i], lastEvent[i], active[i]>>

(* The effect of the transaction of run r on issue i.                      *)
AppliedTo(r, i) ==
  LET c == run[r] IN
  /\ c \in CollectedRun
  /\ Applied(r)
  /\ active'[i] = MembershipsAfter(c, i)
  /\ \/ /\ Hit(c, i) # {}
        /\ status'[i] = ObservedStatus(i)
        /\ lastEvent'[i] = ObservationEvent(c, i)
     \/ /\ Recovers(c, i) /\ Hit(c, i) = {}
        /\ status'[i] = "recovered" /\ recoveredAt'[i] /\ lastEvent'[i] = "recovered"
     \/ /\ ~Recovers(c, i) /\ Hit(c, i) = {}
        /\ status'[i] = status[i]
        /\ recoveredAt'[i] = recoveredAt[i]
        /\ lastEvent'[i] = lastEvent[i]

LEMMA ApplyToIssue ==
  ASSUME TypeOK, NEW r \in Run, ApplyEvaluations(r), NEW i \in Issue
  PROVE  AppliedTo(r, i)
<1> DEFINE c == run[r]
<1>1. c \in CollectedRun /\ Applied(r)
  BY CollectedType DEF ApplyEvaluations, Applied, TypeOK
<1>2. active'[i] = MembershipsAfter(c, i)
  BY DEF ApplyEvaluations
<1>3. CASE Hit(c, i) # {}
  BY <1>1, <1>2, <1>3 DEF ApplyEvaluations, AppliedTo, TypeOK
<1>4. CASE Hit(c, i) = {} /\ Recovers(c, i)
  BY <1>1, <1>2, <1>4 DEF ApplyEvaluations, AppliedTo, TypeOK
<1>5. CASE Hit(c, i) = {} /\ ~Recovers(c, i)
  <2>1. recoveredAt'[i] = (FALSE \/ recoveredAt[i]) /\ recoveredAt[i] \in BOOLEAN
    BY <1>5 DEF ApplyEvaluations, TypeOK
  <2> QED
    BY <1>1, <1>2, <1>5, <2>1 DEF ApplyEvaluations, AppliedTo
<1> QED
  BY <1>3, <1>4, <1>5

(* The effect of an operator's request u on issue i.                       *)
IgnoredBy(u, i) ==
  /\ user[u].issue = i /\ user[u].op = "ignore" /\ user'[u] = IdleUser
  /\ status[i] # "absent"
  /\ status'[i] = "ignored" /\ lastEvent'[i] = "ignored" /\ active' = active

UnignoredBy(u, i) ==
  /\ user[u].issue = i /\ user[u].op = "unignore" /\ user'[u] = IdleUser
  /\ status[i] # "absent"
  /\ status'[i] = "open" /\ lastEvent'[i] = "unignored" /\ active' = active

Deleted(i) ==
  /\ status'[i] = "absent" /\ lastEvent'[i] = "none" /\ active'[i] = {}

LEMMA StepOfIssue ==
  ASSUME TypeOK, [Next]_vars, NEW i \in Issue
  PROVE  \/ \E r \in Run : AppliedTo(r, i)
         \/ \E u \in User : IgnoredBy(u, i) \/ UnignoredBy(u, i)
         \/ Deleted(i)
         \/ UNCHANGED IssueRow(i)
<1>1. ASSUME NEW r \in Run, Collect(r) \/ RunFails(r)
      PROVE  UNCHANGED tables
  BY <1>1 DEF Collect, Collected, RunFails
<1>2. ASSUME NEW r \in Run, ApplyEvaluations(r)
      PROVE  AppliedTo(r, i)
  BY <1>2, ApplyToIssue
<1>3. ASSUME NEW u \in User, NEW op \in Op, NEW j \in Issue, ReadIssue(u, op, j)
      PROVE  UNCHANGED tables
  BY <1>3 DEF ReadIssue
<1>4. ASSUME NEW u \in User, Acknowledge(u) \/ WriteFails(u)
      PROVE  UNCHANGED IssueRow(i)
  BY <1>4 DEF Acknowledge, WriteFails, tables, IssueRow
<1>5. ASSUME NEW u \in User, Ignore(u)
      PROVE  IgnoredBy(u, i) \/ UNCHANGED IssueRow(i)
  <2>1. CASE user[u].issue = i
    BY <1>5, <2>1 DEF Ignore, Writes, IgnoredBy, TypeOK
  <2>2. CASE user[u].issue # i
    BY <1>5, <2>2 DEF Ignore, ClearRecoveredAt, IssueRow, TypeOK
  <2> QED
    BY <2>1, <2>2
<1>6. ASSUME NEW u \in User, Unignore(u)
      PROVE  UnignoredBy(u, i) \/ UNCHANGED IssueRow(i)
  <2>1. CASE user[u].issue = i
    BY <1>6, <2>1 DEF Unignore, Writes, UnignoredBy, TypeOK
  <2>2. CASE user[u].issue # i
    BY <1>6, <2>2 DEF Unignore, ClearRecoveredAt, IssueRow, TypeOK
  <2> QED
    BY <2>1, <2>2
<1>7. ASSUME NEW old \in SUBSET Issue, SelectExpired(old)
      PROVE  UNCHANGED tables
  BY <1>7 DEF SelectExpired
<1>8. CASE DeleteExpired
  <2>1. CASE i \in expired
    BY <1>8, <2>1 DEF DeleteExpired, Deleted
  <2>2. CASE i \notin expired
    <3>1. recoveredAt'[i] = (TRUE /\ recoveredAt[i]) /\ recoveredAt[i] \in BOOLEAN
      BY <1>8, <2>2 DEF DeleteExpired, TypeOK
    <3> QED
      BY <1>8, <2>2, <3>1 DEF DeleteExpired, IssueRow
  <2> QED
    BY <2>1, <2>2
<1>9. CASE Restart \/ UNCHANGED vars
  BY <1>9 DEF Restart, vars, tables, IssueRow
<1>10. UNCHANGED tables => UNCHANGED IssueRow(i)
  BY DEF tables, IssueRow
<1> QED
  BY <1>1, <1>2, <1>3, <1>4, <1>5, <1>6, <1>7, <1>8, <1>9, <1>10
     DEF Next, RunStep, UserStep, RetentionStep

-----------------------------------------------------------------------------
(* A recovered issue is settled.  The invariant is inductive together with *)
(* TypeOK: a run recovers an issue only when its last membership goes, and *)
(* no other writer gives a membership to an issue or sets it to recovered. *)
THEOREM RecoveredSettled == Spec => []RecoveredIsSettled
<1>1. Init => RecoveredIsSettled
  BY DEF Init, RecoveredIsSettled
<1>2. TypeOK /\ RecoveredIsSettled /\ [Next]_vars => RecoveredIsSettled'
  <2> SUFFICES ASSUME TypeOK, RecoveredIsSettled, [Next]_vars, NEW i \in Issue
               PROVE  /\ status'[i] = "recovered" => recoveredAt'[i] /\ active'[i] = {}
                      /\ status'[i] = "absent" => active'[i] = {} /\ lastEvent'[i] = "none"
    BY DEF RecoveredIsSettled
  <2>1. /\ status[i] = "recovered" => recoveredAt[i] /\ active[i] = {}
        /\ status[i] = "absent" => active[i] = {} /\ lastEvent[i] = "none"
    BY DEF RecoveredIsSettled
  <2>2. ASSUME NEW r \in Run, AppliedTo(r, i)
        PROVE  /\ status'[i] = "recovered" => recoveredAt'[i] /\ active'[i] = {}
               /\ status'[i] = "absent" => active'[i] = {} /\ lastEvent'[i] = "none"
    <3> DEFINE c == run[r]
    <3>1. CASE Hit(c, i) # {}
      BY <2>2, <3>1 DEF AppliedTo, ObservedStatus
    <3>2. CASE Hit(c, i) = {} /\ Recovers(c, i)
      BY <2>2, <3>2, RecoveredHasNoMembership DEF AppliedTo
    <3>3. CASE Hit(c, i) = {} /\ ~Recovers(c, i)
      <4>1. status[i] \in {"recovered", "absent"} => active'[i] = active[i]
        BY <2>2, <3>3, MembershipsOfSettled DEF AppliedTo, Live
      <4> QED
        BY <2>1, <2>2, <3>3, <4>1 DEF AppliedTo
    <3> QED
      BY <3>1, <3>2, <3>3
  <2>3. ASSUME NEW u \in User, IgnoredBy(u, i) \/ UnignoredBy(u, i)
        PROVE  status'[i] \in {"ignored", "open"}
    BY <2>3 DEF IgnoredBy, UnignoredBy
  <2>4. CASE Deleted(i)
    BY <2>4 DEF Deleted
  <2>5. CASE UNCHANGED IssueRow(i)
    BY <2>1, <2>5 DEF IssueRow
  <2> QED
    BY <2>2, <2>3, <2>4, <2>5, StepOfIssue
<1> QED
  BY <1>1, <1>2, TypeCorrect, PTL DEF Spec

-----------------------------------------------------------------------------
(* A membership is held only by a scope in which the resource lies: only a *)
(* hit gives one.                                                          *)
THEOREM MembershipsInScope == Spec => []MembershipInScope
<1>1. Init => MembershipInScope
  BY DEF Init, MembershipInScope
<1>2. TypeOK /\ MembershipInScope /\ [Next]_vars => MembershipInScope'
  <2> SUFFICES ASSUME TypeOK, MembershipInScope, [Next]_vars,
                      NEW i \in Issue, NEW s \in active'[i]
               PROVE  i \in Sees[s] /\ (CheckOf[i] = GlobalCheck => s = GlobalScope)
    BY DEF MembershipInScope
  <2>1. CASE s \in active[i]
    BY <2>1 DEF MembershipInScope
  <2>2. ASSUME NEW r \in Run, AppliedTo(r, i), s \notin active[i]
        PROVE  i \in Sees[s] /\ (CheckOf[i] = GlobalCheck => s = GlobalScope)
    <3>1. run[r] \in CollectedRun /\ s \in MembershipsAfter(run[r], i)
      BY <2>2 DEF AppliedTo
    <3>2. s \in Hit(run[r], i)
      BY <2>2, <3>1 DEF MembershipsAfter
    <3> QED
      BY <3>1, <3>2, HitInScope
  <2>3. ASSUME NEW u \in User, IgnoredBy(u, i) \/ UnignoredBy(u, i)
        PROVE  s \in active[i]
    BY <2>3 DEF IgnoredBy, UnignoredBy
  <2>4. CASE Deleted(i)
    BY <2>4 DEF Deleted
  <2>5. CASE UNCHANGED IssueRow(i)
    BY <2>1, <2>5 DEF IssueRow
  <2> QED
    BY <2>1, <2>2, <2>3, <2>4, <2>5, StepOfIssue
<1> QED
  BY <1>1, <1>2, TypeCorrect, PTL DEF Spec

-----------------------------------------------------------------------------
(* An open issue has evidence.  A run takes the last membership of a live  *)
(* issue only when it recovers it.                                         *)

(* A live issue that a run neither hits nor recovers keeps a membership.   *)
LEMMA UnrecoveredKeepsMembership ==
  ASSUME TypeOK, NEW c \in CollectedRun, NEW i \in Issue,
         status[i] \in Live, active[i] # {}, Hit(c, i) = {}, ~Recovers(c, i)
  PROVE  MembershipsAfter(c, i) # {}
<1>1. ~RecoversGlobally(c, i) /\ ~RecoversInScope(c, i)
  BY DEF Recovers
<1>2. MembershipsAfter(c, i) = active[i] \ Miss(c, i)
  BY <1>1 DEF MembershipsAfter
<1>3. CASE CheckOf[i] = GlobalCheck
  <2>1. Miss(c, i) = {}
    BY <1>1, <1>3 DEF RecoversGlobally, Miss
  <2> QED
    BY <1>2, <2>1
<1>4. CASE CheckOf[i] # GlobalCheck
  BY <1>1, <1>2, <1>4 DEF RecoversInScope
<1> QED
  BY <1>3, <1>4

THEOREM OpenEvidence == Spec => []OpenHasEvidence
<1>1. Init => OpenHasEvidence
  BY DEF Init, OpenHasEvidence
<1>2. TypeOK /\ OpenHasEvidence /\ [Next]_vars => OpenHasEvidence'
  <2> SUFFICES ASSUME TypeOK, OpenHasEvidence, [Next]_vars, NEW i \in Issue,
                      status'[i] = "open", lastEvent'[i] # "unignored"
               PROVE  active'[i] # {}
    BY DEF OpenHasEvidence
  <2>1. status[i] = "open" /\ lastEvent[i] # "unignored" => active[i] # {}
    BY DEF OpenHasEvidence
  <2>2. ASSUME NEW r \in Run, AppliedTo(r, i)
        PROVE  active'[i] # {}
    <3> DEFINE c == run[r]
    <3>1. c \in CollectedRun /\ active'[i] = MembershipsAfter(c, i)
      BY <2>2 DEF AppliedTo
    <3>2. CASE Hit(c, i) # {}
      <4>1. Hit(c, i) \subseteq MembershipsAfter(c, i)
        <5>1. ~RecoversGlobally(c, i)
          BY <3>2 DEF RecoversGlobally
        <5> QED
          BY <5>1 DEF MembershipsAfter
      <4> QED
        BY <3>1, <3>2, <4>1
    <3>3. CASE Hit(c, i) = {}
      <4>1. /\ ~Recovers(c, i)
            /\ status[i] = "open" /\ lastEvent[i] # "unignored"
        BY <2>2, <3>3 DEF AppliedTo
      <4>2. active[i] # {} /\ status[i] \in Live
        BY <2>1, <4>1 DEF Live
      <4> QED
        BY <3>1, <3>3, <4>1, <4>2, UnrecoveredKeepsMembership
    <3> QED
      BY <3>2, <3>3
  <2>3. ASSUME NEW u \in User, IgnoredBy(u, i) \/ UnignoredBy(u, i)
        PROVE  FALSE
    BY <2>3 DEF IgnoredBy, UnignoredBy
  <2>4. CASE Deleted(i)
    BY <2>4 DEF Deleted
  <2>5. CASE UNCHANGED IssueRow(i)
    BY <2>1, <2>5 DEF IssueRow
  <2> QED
    BY <2>2, <2>3, <2>4, <2>5, StepOfIssue
<1> QED
  BY <1>1, <1>2, TypeCorrect, PTL DEF Spec

-----------------------------------------------------------------------------
(* The events agree with the rows.                                         *)

(* Observing an issue writes the event that leads to the status observed.  *)
LEMMA EventOfObservation ==
  ASSUME TypeOK, NEW c \in CollectedRun, NEW i \in Issue,
         status[i] = StatusOfEvent(lastEvent[i])
  PROVE  ObservedStatus(i) = StatusOfEvent(ObservationEvent(c, i))
<1>1. status[i] \in Status
  BY DEF TypeOK
<1>2. CASE status[i] = "absent"
  BY <1>2 DEF ObservedStatus, ObservationEvent, StatusOfEvent
<1>3. CASE status[i] = "ignored"
  BY <1>3 DEF ObservedStatus, ObservationEvent, StatusOfEvent
<1>4. CASE status[i] = "recovered"
  BY <1>4 DEF ObservedStatus, ObservationEvent, StatusOfEvent
<1>5. CASE status[i] = "open"
  <2>1. c.seen[i] \in Nat /\ severity[i] \in Nat
    <3>1. Severity \cup {0} \subseteq Nat
      BY LifecycleAssumption
    <3>2. c.seen[i] \in Severity \cup {0} /\ severity[i] \in Severity \cup {0}
      BY DEF TypeOK, CollectedRun
    <3> QED
      BY <3>1, <3>2
  <2>2. c.seen[i] > severity[i] \/ c.seen[i] <= severity[i]
    BY <2>1
  <2>3. ObservationEvent(c, i) \in {"severity_escalated", "observed"}
    BY <1>5, <2>2 DEF ObservationEvent
  <2> QED
    BY <1>5, <2>3 DEF ObservedStatus, StatusOfEvent
<1> QED
  BY <1>1, <1>2, <1>3, <1>4, <1>5 DEF Status

THEOREM EventsAgree == Spec => []EventsMatchStatus
<1>1. Init => EventsMatchStatus
  BY DEF Init, EventsMatchStatus, StatusOfEvent
<1>2. TypeOK /\ EventsMatchStatus /\ [Next]_vars => EventsMatchStatus'
  <2> SUFFICES ASSUME TypeOK, EventsMatchStatus, [Next]_vars, NEW i \in Issue
               PROVE  status'[i] = StatusOfEvent(lastEvent'[i])
    BY DEF EventsMatchStatus, StatusOfEvent
  <2>1. status[i] = StatusOfEvent(lastEvent[i])
    BY DEF EventsMatchStatus
  <2>2. ASSUME NEW r \in Run, AppliedTo(r, i)
        PROVE  status'[i] = StatusOfEvent(lastEvent'[i])
    <3>1. CASE Hit(run[r], i) # {}
      BY <2>1, <2>2, <3>1, EventOfObservation DEF AppliedTo
    <3>2. CASE Hit(run[r], i) = {}
      BY <2>1, <2>2, <3>2 DEF AppliedTo, StatusOfEvent
    <3> QED
      BY <3>1, <3>2
  <2>3. ASSUME NEW u \in User, IgnoredBy(u, i) \/ UnignoredBy(u, i)
        PROVE  status'[i] = StatusOfEvent(lastEvent'[i])
    BY <2>3 DEF IgnoredBy, UnignoredBy, StatusOfEvent
  <2>4. CASE Deleted(i)
    BY <2>4 DEF Deleted, StatusOfEvent
  <2>5. CASE UNCHANGED IssueRow(i)
    BY <2>1, <2>5 DEF IssueRow, StatusOfEvent
  <2> QED
    BY <2>2, <2>3, <2>4, <2>5, StepOfIssue
<1> QED
  BY <1>1, <1>2, TypeCorrect, PTL DEF Spec

-----------------------------------------------------------------------------
(* Action properties.                                                      *)

(* Only a run that completed the check everywhere the issue was held, and  *)
(* saw it nowhere, recovers it.                                            *)
THEOREM RecoveriesJustified == Spec => RecoveryJustified
<1>1. TypeOK /\ MembershipInScope /\ [Next]_vars => [RecoveryStep]_vars
  <2> SUFFICES ASSUME TypeOK, MembershipInScope, [Next]_vars, NEW i \in Issue,
                      status[i] \in Live, status'[i] = "recovered"
               PROVE  \E r \in Run :
                 /\ Applied(r)
                 /\ Covered(run[r].complete, i) # {}
                 /\ \A s \in active[i] : <<CheckOf[i], s>> \in run[r].complete
                 /\ \A s \in Covered(run[r].complete, i) :
                      i \in Sees[s] => run[r].seen[i] = 0
    BY DEF RecoveryStep
  <2>1. PICK r \in Run : AppliedTo(r, i)
    BY StepOfIssue DEF IgnoredBy, UnignoredBy, Deleted, IssueRow, Live
  <2> DEFINE c == run[r]
  <2>2. Applied(r) /\ c \in CollectedRun
    BY <2>1 DEF AppliedTo
  <2>3. Recovers(c, i) /\ Hit(c, i) = {}
    BY <2>1 DEF AppliedTo, ObservedStatus, Live
  <2>4. \A s \in Covered(c.complete, i) : i \in Sees[s] => c.seen[i] = 0
    BY <2>3 DEF Hit
  <2>5. active[i] \subseteq Scope
    BY DEF TypeOK
  <2>6. CASE RecoversGlobally(c, i)
    <3>1. Covered(c.complete, i) # {} /\ CheckOf[i] = GlobalCheck
      BY <2>6 DEF RecoversGlobally
    <3>2. PICK t \in Covered(c.complete, i) : TRUE
      BY <3>1
    <3>3. <<CheckOf[i], t>> \in c.complete
      BY <3>2 DEF Covered
    <3>4. <<CheckOf[i], t>> \in Completable(Scope)
      BY <2>2, <3>3 DEF CollectedRun
    <3>5. t = GlobalScope
      BY <3>1, <3>4 DEF Completable
    <3>6. \A s \in active[i] : s = GlobalScope
      BY <3>1 DEF MembershipInScope
    <3> QED
      BY <2>2, <2>4, <3>1, <3>3, <3>5, <3>6
  <2>7. CASE RecoversInScope(c, i)
    BY <2>2, <2>4, <2>7 DEF RecoversInScope, Miss, Covered
  <2> QED
    BY <2>3, <2>6, <2>7 DEF Recovers
<1> QED
  BY <1>1, TypeCorrect, MembershipsInScope, PTL DEF Spec, RecoveryJustified

(* Memberships change by completed checks of their own scope.              *)
THEOREM MembershipsFollowCoverage == Spec => MembershipFollowsCoverage
<1>1. TypeOK /\ MembershipInScope /\ [Next]_vars => [MembershipStep]_vars
  <2> SUFFICES ASSUME TypeOK, MembershipInScope, [Next]_vars,
                      NEW i \in Issue, NEW s \in Scope,
                      (s \in active[i]) # (s \in active'[i]),
                      status'[i] # "absent"
               PROVE  \E r \in Run : Applied(r) /\ <<CheckOf[i], s>> \in run[r].complete
    BY DEF MembershipStep
  <2>1. PICK r \in Run : AppliedTo(r, i)
    BY StepOfIssue DEF IgnoredBy, UnignoredBy, Deleted, IssueRow
  <2> DEFINE c == run[r]
  <2>2. Applied(r) /\ c \in CollectedRun /\ active'[i] = MembershipsAfter(c, i)
    BY <2>1 DEF AppliedTo
  <2>3. CASE RecoversGlobally(c, i) /\ status[i] \in Live
    <3>1. active'[i] = {} /\ s \in active[i]
      BY <2>2, <2>3 DEF MembershipsAfter
    <3>2. PICK t \in Covered(c.complete, i) : TRUE
      BY <2>3 DEF RecoversGlobally
    <3>3. <<CheckOf[i], t>> \in c.complete /\ CheckOf[i] = GlobalCheck
      BY <2>3, <3>2 DEF Covered, RecoversGlobally
    <3>4. t = GlobalScope
      BY <2>2, <3>3 DEF CollectedRun, Completable
    <3>5. s = GlobalScope
      BY <3>1, <3>3 DEF MembershipInScope
    <3> QED
      BY <2>2, <3>3, <3>4, <3>5
  <2>4. CASE ~(RecoversGlobally(c, i) /\ status[i] \in Live)
    <3>1. s \in Miss(c, i) \cup Hit(c, i)
      BY <2>2, <2>4 DEF MembershipsAfter
    <3>2. s \in Covered(c.complete, i)
      BY <3>1 DEF Hit, Miss
    <3> QED
      BY <2>2, <3>2 DEF Covered
  <2> QED
    BY <2>3, <2>4
<1> QED
  BY <1>1, TypeCorrect, MembershipsInScope, PTL DEF Spec, MembershipFollowsCoverage

(* What is ignored is opened by un-ignoring it and by nothing else.        *)
THEOREM IgnoredKept == Spec => IgnoredStaysIgnored
<1>1. TypeOK /\ [Next]_vars => [IgnoredStep]_vars
  <2> SUFFICES ASSUME TypeOK, [Next]_vars, NEW i \in Issue,
                      status[i] = "ignored", status'[i] = "open"
               PROVE  \E u \in User : /\ user[u].op = "unignore" /\ user[u].issue = i
                                      /\ user'[u] = IdleUser
    BY DEF IgnoredStep
  <2>1. ASSUME NEW r \in Run, AppliedTo(r, i)
        PROVE  FALSE
    BY <2>1 DEF AppliedTo, ObservedStatus
  <2> QED
    BY <2>1, StepOfIssue DEF IgnoredBy, UnignoredBy, Deleted, IssueRow
<1> QED
  BY <1>1, TypeCorrect, PTL DEF Spec, IgnoredStaysIgnored
=============================================================================
