--------------------------- MODULE IssueLifecycle ---------------------------
(***************************************************************************)
(* The life of the issues an inspection reports: the tables `issues`,      *)
(* `issue_events` and `issue_scope_memberships`, and everything that       *)
(* writes them - the transaction that ends an inspection run, the three    *)
(* operator requests that change an issue, and the daily retention job.    *)
(*                                                                         *)
(* Every writer is a thread with a database session of its own.  SQLite    *)
(* gives the write lock to one transaction at a time, but a SELECT made    *)
(* before the first write of a session is outside of its transaction.  So  *)
(*                                                                         *)
(*   - a run takes the lock when it stores its check results, before it    *)
(*     reads the first issue: its apply_evaluations is one atomic step;    *)
(*   - an operator request reads the row, decides, and writes later: two   *)
(*     steps, and anything may commit in between;                          *)
(*   - retention selects the expired issues and deletes them later: again  *)
(*     two steps.                                                          *)
(*                                                                         *)
(* What a run has collected is arbitrary here (StatusInspection restricts  *)
(* it to what the collector and the evaluators produce).                   *)
(***************************************************************************)
EXTENDS Naturals

CONSTANTS
  Issue,        \* identities (cluster_id, fingerprint) an issue row may have
  Check,        \* check codes: workload.status, node.health, ...
  Scope,        \* scope keys, one per distinct InspectionScope
  CheckOf,      \* the source_check that is part of each issue's identity
  Sees,         \* Sees[s]: the issues whose resource lies in scope s
  RunScopes,    \* the sets of scopes one run evaluates
  GlobalCheck,  \* the check code "required_components"
  GlobalScope,  \* the scope of a whole-cluster run
  Severity,     \* ranks of the severities in use, the least one is 1
  Run,          \* inspection runs that may be in progress together
  User          \* operator requests that may be in progress together

ASSUME LifecycleAssumption ==
  /\ CheckOf \in [Issue -> Check]
  /\ Sees \in [Scope -> SUBSET Issue]
  /\ RunScopes \subseteq SUBSET Scope
  /\ GlobalCheck \in Check
  /\ GlobalScope \in Scope
  /\ Severity \subseteq Nat \ {0}

(* One run never evaluates a resource in two of its scopes: a cluster run  *)
(* splits its observations by namespace, a namespace run has one scope per *)
(* namespace.                                                              *)
ASSUME DisjointScopes ==
  \A S \in RunScopes : \A s, t \in S : s # t => Sees[s] \cap Sees[t] = {}

VARIABLES
  status,       \* issues.status; "absent" when there is no row
  severity,     \* issues.severity; 0 when there is no row
  recoveredAt,  \* is issues.recovered_at set?
  acknowledged, \* is issues.acknowledged_at set?
  lastEvent,    \* event_type of the newest status-changing issue_events row
  active,       \* scopes with an active membership of the issue
  run,          \* what each run in progress has collected
  user,         \* what each operator request in progress has read
  expired       \* issues retention has selected and not yet deleted

tables == <<status, severity, recoveredAt, acknowledged, lastEvent, active>>
vars == <<tables, run, user, expired>>

Status == {"absent", "open", "ignored", "recovered"}
Live == {"open", "ignored"}
EventType == {"none", "opened", "observed", "severity_escalated", "reopened",
              "recovered", "ignored", "unignored"}
Op == {"acknowledge", "ignore", "unignore"}

(* The evaluations a run may complete.  required_components is skipped     *)
(* except in the whole-cluster scope.                                      *)
Completable(S) == {e \in Check \X S : e[1] = GlobalCheck => e[2] = GlobalScope}

IdleRun == [phase |-> "idle", complete |-> {}, seen |-> [i \in Issue |-> 0]]
IdleUser == [op |-> "none"]

(* complete: the evaluations that passed or found something, the failed    *)
(* and the skipped ones left out; seen: the severity of the candidate for  *)
(* each issue, 0 when there is none.                                       *)
CollectedRun == [phase : {"collected"},
                 complete : SUBSET Completable(Scope),
                 seen : [Issue -> Severity \cup {0}]]
PendingUser == [op : Op, issue : Issue, recoveredAt : BOOLEAN]

TypeOK ==
  /\ status \in [Issue -> Status]
  /\ severity \in [Issue -> Severity \cup {0}]
  /\ recoveredAt \in [Issue -> BOOLEAN]
  /\ acknowledged \in [Issue -> BOOLEAN]
  /\ lastEvent \in [Issue -> EventType]
  /\ active \in [Issue -> SUBSET Scope]
  /\ run \in [Run -> CollectedRun \cup {IdleRun}]
  /\ user \in [User -> PendingUser \cup {IdleUser}]
  /\ expired \in SUBSET Issue

Init ==
  /\ status = [i \in Issue |-> "absent"]
  /\ severity = [i \in Issue |-> 0]
  /\ recoveredAt = [i \in Issue |-> FALSE]
  /\ acknowledged = [i \in Issue |-> FALSE]
  /\ lastEvent = [i \in Issue |-> "none"]
  /\ active = [i \in Issue |-> {}]
  /\ run = [r \in Run |-> IdleRun]
  /\ user = [u \in User |-> IdleUser]
  /\ expired = {}

-----------------------------------------------------------------------------
(* Inspection runs.                                                        *)

(* Scopes in which the evaluation set `complete` covers issue i.           *)
Covered(complete, i) == {s \in Scope : <<CheckOf[i], s>> \in complete}

(* Scopes in which a completed evaluation reports issue i as a candidate.  *)
Hit(c, i) ==
  IF c.seen[i] = 0 THEN {} ELSE {s \in Covered(c.complete, i) : i \in Sees[s]}

MissAlsoWhenSkipped(c, i) == Scope \ Hit(c, i)                     \* mutant

(* Scopes in which a completed evaluation does not report issue i.         *)
Miss(c, i) == Covered(c.complete, i) \ Hit(c, i)

(* Run r has collected the cluster state and evaluated it.                 *)
Collected(r, complete, seen) ==
  /\ run[r].phase = "idle"
  /\ run' = [run EXCEPT ![r] =
       [phase |-> "collected", complete |-> complete, seen |-> seen]]
  /\ UNCHANGED <<tables, user, expired>>

(* The candidates come out of completed evaluations of scopes the resource *)
(* lies in.                                                                *)
Reported(complete, seen) ==
  \A i \in Issue : seen[i] # 0 => \E s \in Covered(complete, i) : i \in Sees[s]

Collect(r) ==
  /\ run[r].phase = "idle"
  /\ \E S \in RunScopes :
       \E complete \in SUBSET Completable(S), seen \in [Issue -> Severity \cup {0}] :
         /\ Reported(complete, seen)
         /\ Collected(r, complete, seen)

(* The issues _recover_missing sets to recovered.  For required_components *)
(* it takes every live issue of the check and all of its memberships; for  *)
(* the other checks an issue whose last active membership it deactivates.  *)
RecoversGlobally(c, i) ==
  /\ CheckOf[i] = GlobalCheck
  /\ Covered(c.complete, i) # {}
  /\ Hit(c, i) = {}

RecoversInScope(c, i) ==
  /\ CheckOf[i] # GlobalCheck
  /\ active[i] \cap Miss(c, i) # {}
  /\ active[i] \subseteq Miss(c, i)
  /\ Hit(c, i) = {}

Recovers(c, i) ==
  /\ status[i] \in Live
  /\ RecoversGlobally(c, i) \/ RecoversInScope(c, i)

EventWithoutReopened(c, i) ==                                      \* mutant
  CASE status[i] = "absent"               -> "opened"
    [] status[i] \in {"ignored", "recovered"} -> lastEvent[i]
    [] status[i] = "open"                 -> "observed"

(* The event _observe_candidate writes; none when the issue is ignored.    *)
ObservationEvent(c, i) ==
  CASE status[i] = "absent"           -> "opened"
    [] status[i] = "ignored"          -> lastEvent[i]
    [] status[i] = "recovered"        -> "reopened"
    [] status[i] = "open" /\ c.seen[i] > severity[i]  -> "severity_escalated"
    [] status[i] = "open" /\ c.seen[i] <= severity[i] -> "observed"

StatusFromEvent(i) ==                                              \* mutant
  IF status[i] = "recovered" THEN "reopened"
  ELSE IF status[i] = "ignored" THEN "ignored" ELSE "open"
StatusAlwaysOpen(i) == "open"                                      \* mutant
StatusNeverReopened(i) ==                                          \* mutant
  IF status[i] = "absent" THEN "open" ELSE status[i]

ObservedStatus(i) == IF status[i] = "ignored" THEN "ignored" ELSE "open"

MembershipsWithoutHits(c, i) ==                                    \* mutant
  IF status[i] \in Live THEN active[i] \ Miss(c, i) ELSE active[i]

MembershipsOfThisRunOnly(c, i) ==                                  \* mutant
  IF Covered(c.complete, i) # {} THEN Hit(c, i) ELSE active[i]

(* An observation activates the membership of its scope; a completed check *)
(* that does not report a live issue deactivates that of its scope, and    *)
(* required_components all of them.                                        *)
MembershipsAfter(c, i) ==
  CASE status[i] \in Live /\ RecoversGlobally(c, i)    -> {}
    [] status[i] \in Live /\ ~RecoversGlobally(c, i)   ->
         (active[i] \ Miss(c, i)) \cup Hit(c, i)
    [] status[i] \notin Live                           ->
         active[i] \cup Hit(c, i)

(* apply_evaluations and the commit of the run: one write transaction.  It *)
(* treats one evaluation after the other; their order makes no difference  *)
(* because at most one of them can observe or hold the issue, see          *)
(* DisjointScopes and MembershipInScope.                                   *)
ApplyEvaluations(r) ==
  LET c == run[r]
      observed(i) == Hit(c, i) # {}
  IN
  /\ c.phase = "collected"
  /\ status' = [i \in Issue |-> IF observed(i) THEN ObservedStatus(i)
                                ELSE IF Recovers(c, i) THEN "recovered"
                                ELSE status[i]]
  /\ severity' = [i \in Issue |-> IF observed(i) THEN c.seen[i] ELSE severity[i]]
  /\ recoveredAt' = [i \in Issue |-> IF observed(i) THEN FALSE
                                     ELSE Recovers(c, i) \/ recoveredAt[i]]
  /\ lastEvent' = [i \in Issue |-> IF observed(i) THEN ObservationEvent(c, i)
                                   ELSE IF Recovers(c, i) THEN "recovered"
                                   ELSE lastEvent[i]]
  /\ active' = [i \in Issue |-> MembershipsAfter(c, i)]
  /\ run' = [run EXCEPT ![r] = IdleRun]
  /\ UNCHANGED <<acknowledged, user, expired>>

(* The run raises, or the process dies, before the commit: the transaction *)
(* is rolled back and nothing of the run reaches the issues.               *)
RunFails(r) ==
  /\ run[r].phase = "collected"
  /\ run' = [run EXCEPT ![r] = IdleRun]
  /\ UNCHANGED <<tables, user, expired>>

-----------------------------------------------------------------------------
(* Operator requests.                                                      *)

(* session.get(Issue, id) and the early returns: no row, ignoring what is  *)
(* ignored, un-ignoring what is not.                                       *)
ReadIssue(u, op, i) ==
  /\ user[u] = IdleUser
  /\ status[i] # "absent"
  /\ op = "ignore" => status[i] # "ignored"
  /\ op = "unignore" => status[i] = "ignored"
  /\ user' = [user EXCEPT ![u] =
       [op |-> op, issue |-> i, recoveredAt |-> recoveredAt[i]]]
  /\ UNCHANGED <<tables, run, expired>>

Writes(u, op) ==
  /\ user[u].op = op
  /\ status[user[u].issue] # "absent"
  /\ user' = [user EXCEPT ![u] = IdleUser]

(* The session writes the columns whose value differs from the value read: *)
(* recovered_at is set to NULL only if it was not NULL when it was read.   *)
ClearRecoveredAt(u) ==
  LET i == user[u].issue
  IN recoveredAt' = [recoveredAt EXCEPT ![i] = @ /\ ~user[u].recoveredAt]

Acknowledge(u) ==
  /\ Writes(u, "acknowledge")
  /\ acknowledged' = [acknowledged EXCEPT ![user[u].issue] = TRUE]
  /\ UNCHANGED <<status, severity, recoveredAt, lastEvent, active, run, expired>>

Ignore(u) ==
  /\ Writes(u, "ignore")
  /\ status' = [status EXCEPT ![user[u].issue] = "ignored"]
  /\ lastEvent' = [lastEvent EXCEPT ![user[u].issue] = "ignored"]
  /\ ClearRecoveredAt(u)
  /\ UNCHANGED <<severity, acknowledged, active, run, expired>>

Unignore(u) ==
  /\ Writes(u, "unignore")
  /\ status' = [status EXCEPT ![user[u].issue] = "open"]
  /\ lastEvent' = [lastEvent EXCEPT ![user[u].issue] = "unignored"]
  /\ ClearRecoveredAt(u)
  /\ UNCHANGED <<severity, acknowledged, active, run, expired>>

(* The row was deleted since it was read: the UPDATE matches no row, the   *)
(* session raises and rolls back.                                          *)
WriteFails(u) ==
  /\ user[u] # IdleUser
  /\ status[user[u].issue] = "absent"
  /\ user' = [user EXCEPT ![u] = IdleUser]
  /\ UNCHANGED <<tables, run, expired>>

-----------------------------------------------------------------------------
(* Retention.                                                              *)

(* The query for issues recovered long enough ago; how long is abstracted, *)
(* any settled issue may be old.  With an expired run to delete the job    *)
(* holds the write lock already; without one anything may still commit     *)
(* before the deletion.                                                    *)
SelectExpired(old) ==
  /\ expired = {}
  /\ old # {}
  /\ \A i \in old : status[i] = "recovered" /\ recoveredAt[i] /\ active[i] = {}
  /\ expired' = old
  /\ UNCHANGED <<tables, run, user>>

(* Deletes the selected issues with their memberships and events.          *)
DeleteExpired ==
  /\ expired # {}
  /\ status' = [i \in Issue |-> IF i \in expired THEN "absent" ELSE status[i]]
  /\ severity' = [i \in Issue |-> IF i \in expired THEN 0 ELSE severity[i]]
  /\ recoveredAt' = [i \in Issue |-> i \notin expired /\ recoveredAt[i]]
  /\ acknowledged' = [i \in Issue |-> i \notin expired /\ acknowledged[i]]
  /\ lastEvent' = [i \in Issue |-> IF i \in expired THEN "none" ELSE lastEvent[i]]
  /\ active' = [i \in Issue |-> IF i \in expired THEN {} ELSE active[i]]
  /\ expired' = {}
  /\ UNCHANGED <<run, user>>

(* The process dies and is started again: the tables survive, every open   *)
(* session is gone.                                                        *)
Restart ==
  /\ run' = [r \in Run |-> IdleRun]
  /\ user' = [u \in User |-> IdleUser]
  /\ expired' = {}
  /\ UNCHANGED tables

-----------------------------------------------------------------------------
RunStep(r) == Collect(r) \/ ApplyEvaluations(r) \/ RunFails(r)

UserStep(u) ==
  \/ \E op \in Op, i \in Issue : ReadIssue(u, op, i)
  \/ Acknowledge(u) \/ Ignore(u) \/ Unignore(u) \/ WriteFails(u)

RetentionStep == DeleteExpired \/ \E old \in SUBSET Issue : SelectExpired(old)

Next ==
  \/ \E u \in User : UserStep(u)
  \/ RetentionStep
  \/ Restart
  \/ \E r \in Run : RunStep(r)

Spec == Init /\ [][Next]_vars

-----------------------------------------------------------------------------
(* Properties.                                                             *)

(* A recovered issue is settled: its recovery time is set and no scope     *)
(* still holds an active membership of it, whatever requests raced with    *)
(* the run (_recover_missing recovers only when the last one is gone).  A  *)
(* missing row has neither memberships nor events.                         *)
RecoveredIsSettled ==
  \A i \in Issue :
    /\ status[i] = "recovered" => recoveredAt[i] /\ active[i] = {}
    /\ status[i] = "absent" => active[i] = {} /\ lastEvent[i] = "none"

(* An open issue can be recovered by a later run: a scope holds an active  *)
(* membership of it, through which _recover_missing finds it again.  Only  *)
(* an issue the operator has un-ignored may lack one.                      *)
OpenHasEvidence ==
  \A i \in Issue :
    status[i] = "open" /\ lastEvent[i] # "unignored" => active[i] # {}

(* Replaying the newest status-changing event of an issue gives its        *)
(* status: the events notifications are sent from agree with the row.      *)
StatusOfEvent(e) ==
  CASE e \in {"opened", "observed", "severity_escalated", "reopened",
              "unignored"} -> "open"
    [] e = "recovered" -> "recovered"
    [] e = "ignored"   -> "ignored"
    [] e = "none"      -> "absent"

EventsMatchStatus == \A i \in Issue : status[i] = StatusOfEvent(lastEvent[i])

(* A membership is held only by a scope in which the resource lies, and    *)
(* for required_components only by the whole-cluster scope, so that taking *)
(* all of its memberships at once takes no other scope's evidence.         *)
MembershipInScope ==
  \A i \in Issue : \A s \in active[i] :
    i \in Sees[s] /\ (CheckOf[i] = GlobalCheck => s = GlobalScope)

(* Step in which run r's transaction commits.                              *)
Applied(r) == run[r].phase = "collected" /\ run'[r] = IdleRun

(* A live issue recovers only by a run that completed the issue's check in *)
(* every scope that still held a membership of it, and saw it in none: a   *)
(* failed or skipped check, or one of another scope, recovers nothing.     *)
RecoveryStep ==
  \A i \in Issue : status[i] \in Live /\ status'[i] = "recovered" =>
    \E r \in Run :
      /\ Applied(r)
      /\ Covered(run[r].complete, i) # {}
      /\ \A s \in active[i] : <<CheckOf[i], s>> \in run[r].complete
      /\ \A s \in Covered(run[r].complete, i) : i \in Sees[s] => run[r].seen[i] = 0
RecoveryJustified == [][RecoveryStep]_vars

(* A scope gains or loses its membership of an issue only when a run       *)
(* completed the issue's check in that very scope, or with the row.        *)
MembershipStep ==
  \A i \in Issue, s \in Scope : (s \in active[i]) # (s \in active'[i]) =>
    \/ status'[i] = "absent"
    \/ \E r \in Run : Applied(r) /\ <<CheckOf[i], s>> \in run[r].complete
MembershipFollowsCoverage == [][MembershipStep]_vars

(* What the operator ignored is put back on the list of open issues by the *)
(* operator's un-ignore and by nothing else: no run reopens it, however    *)
(* often it sees it, also when the request was overtaken by a run.         *)
IgnoredStep ==
  \A i \in Issue : status[i] = "ignored" /\ status'[i] = "open" =>
    \E u \in User : user[u].op = "unignore" /\ user[u].issue = i /\ user'[u] = IdleUser
IgnoredStaysIgnored == [][IgnoredStep]_vars

(* What Issue.validate_lifecycle asserts of every row that is returned: an *)
(* open or ignored issue has no recovery time.  The code breaks it when a  *)
(* run recovers an issue while an ignore request, which read it as open,   *)
(* is under way.                                                           *)
LifecycleValid == \A i \in Issue : status[i] \in Live => ~recoveredAt[i]

(* Retention deletes recovered issues only, never one that is open or      *)
(* ignored (the settings page says so next to the retention days).  The    *)
(* code breaks it when a run reopens an issue retention has selected.      *)
PurgeStep == \A i \in Issue : status[i] \in Live => status'[i] # "absent"
OnlyRecoveredPurged == [][PurgeStep]_vars
=============================================================================
