# Verification of k8s-inspector

k8s-inspector is a FastAPI service with a SQLite database and an in-process
scheduler. It inspects a Kubernetes cluster, keeps the problems it finds as
*issues* with a life cycle, runs inspections by plan, sends notifications and
records logs. This directory holds TLA+ modules of its stateful core, TLC
configurations that check them on small instances, and theorems that TLAPS
proves for all instances. Paths below are relative to `src/backend/app` unless
they start with `docs/`, `deploy/` or `backend/`.

Contents: [inventory](#inventory) - [concurrency](#what-runs-concurrently) -
[modules](#modules) - [runs](#runs) - [bounds](#bounds) -
[fairness](#fairness) - [proofs](#proofs) -
[disagreements](#where-code-and-documents-disagree) -
[limits](#what-is-only-model-checked) - [not modelled](#not-modelled) -
[plan](#plan).

## Inventory

| component | state | operations | hard behaviour | what makes it correct |
|---|---|---|---|---|
| issue lifecycle (`services/issue_lifecycle.py`) | `issues`, `issue_events`, `issue_scope_memberships` | `apply_evaluations` (observe, recover), acknowledge, ignore, un-ignore, notes | requests decide on rows they read earlier; recovery depends on which checks of which scopes completed | recovery only on complete evidence; an open issue can always be recovered; events agree with rows; ignored stays ignored |
| status inspection (`services/inspection_run_service.py`, `resource_inspection.py`, `resource_common.py`) | `inspection_runs`, `inspection_check_results` | collect, evaluate per scope and check, persist, apply | partial failures of the collection; runs that overlap and apply out of order | a failed check never looks like a healthy one; issues follow the cluster in the end |
| plans and scheduler (`services/inspection_scheduler.py`, `inspection_plan_service.py`, `api/routes/inspection_plans.py`) | `inspection_plans`, `inspection_runs`, `inspection_records`; plan locks, jobs, threads | create/update/delete/run a plan, execute a queued run, retry, fail, restart | locks, checks and commits of several threads; retries each second; crashes; deletion of a plan under a run | no re-entry of a plan; one run in flight; no run lost or left running; a finished run stays finished |
| retention (`services/retention_service.py`) | deletes from all of the above, deliveries, audit log | daily cleanup | selects, then deletes by id; ids may be given again | never deletes what is open or in flight |
| notifications (`services/notification_service.py`, `notification_delivery.py`, `notification_adapter.py`, `notification_transport.py`) | `notification_deliveries`, channels | dispatch the changes of a run, suppress (flapping, cooldown, silence), deliver in at most three attempts, inspection failure | crash after the run's commit or between attempts; deduplication by keys built of ids | at most one delivery per event and channel; a terminal delivery is not sent again; thresholds and silence as documented |
| maintenance silence (`services/maintenance_silence_service.py`) | `maintenance_silence_windows` with a pending summary | match, mark pending, summarise and clear | a summary cleared while another dispatch marks it | every silenced event is summed up once |
| resource collection (`providers/kubernetes_collection.py`, `kubernetes_restart_state.py`, `kubernetes_cron.py`, `kubernetes_tls.py`) | the collection of a run; restart samples in memory, usage counters in a table | some fifteen listings per namespace, in order; each may fail alone | an empty list left by a failed listing makes no check look healthy; a spike of restarts is recent |
| log recording (`services/log_recording_service.py`, `log_recording_engine.py`) | recordings, pods, lines; stream threads, auto-stop jobs | create, stream, collect, stop, auto-stop, delete, restart | manager, worker and request threads with stale session rows; stop against auto-stop; limits | totals agree with lines; at most the ingestion under way is committed after the end; a full or interrupted recording ends |
| sessions and login (`security/auth.py`, `api/routes/auth.py`, `security/csrf.py`, `security/audit.py`) | `admin_sessions`, `security_audit_logs` | login, touch, revoke, password change | expiry against touch and revocation; counting failures before adding one | a revoked or expired session stays so; idle never outlives absolute expiry |
| lifespan and readiness (`security/lifespan.py`, `readiness.py`, `component_status.py`, `db/migrate.py`) | started hooks, component states | start and stop hooks in order | a hook failing half-way | what was started is stopped, in reverse order |
| resource evaluators (`services/resource_*.py`, `pod_health.py`), matcher (`engine/matcher.py`), keyword, whitelist and diagnosis services | none, or rows written once | pure functions of a collection or context | boundaries of thresholds | agreement with their rules |
| providers (`providers/*`) | none (Kubernetes API, mock) | collect, list, read logs | page and time limits, partial failures | failures are reported for every check they affect |
| queries and settings (`issue_query.py`, `overview_service.py`, `settings_service.py`, `saved_target_service.py`, `image_inventory_service.py`, `discovery_service.py`) | settings and target rows | read-only views; one request edits one row | - | - |
| sanitiser, crypto, outbound checks, middleware | none | transformations | - | - |
| frontend, Helm chart | - | browser client; deployment | a rolling update overlaps two processes | one process at a time |

`PROJECT.json` lists every component with what is modelled of it, every hazard
at its line with the properties that would catch it, and for every definition
the lines it stands for.

### What runs concurrently

* Requests run in a thread pool, each with a database session of its own.
* The scheduler's pool runs plan jobs (which only enqueue a run), queued-run
  jobs (which execute it), the heartbeat and the retention job.
* SQLite admits one write transaction at a time. Sessions are opened with
  `autoflush=False` (`db/session.py:16`) and the driver begins a transaction at
  the first write, so that *a SELECT before the first write is not protected by
  the write lock*. This is what decides the grain of the actions: a run writes
  its check results before it reads the first issue, so `apply_evaluations` is
  atomic; an operator request, retention and `enqueue_plan` read first, so they
  take two steps.
* SQLAlchemy writes only the columns whose value differs from the one loaded.
  `ClearRecoveredAt` in `IssueLifecycle` models this, because it matters.
* Plan locks, jobs and threads live in the process. The rows outlive it.

## Modules

    MCIssueLifecycle ------- IssueLifecycle ------ IssueLifecycleProofs
                                  |                        |
    MCStatusInspection ----- StatusInspection              |
           |                      |                        |
    MCInspectionHistory ---- InspectionHistory --- StatusInspectionProofs
    MCInspectionScheduler -- InspectionScheduler - PlanSlots (abstract)
           |                      |
    MCPlanEdits ------------ PlanEdits ----------- InspectionSchedulerProofs
    MCResourceCollection --- ResourceCollection -- ResourceCollectionProofs
                                  |
                              ResourceEvaluators -- CronSchedule
    MCLogRecording --------- LogRecording -------- LogRecordingProofs
    MCNotifications -------- Notifications ------- NotificationsProofs
                                                           |
                                                   NotificationRulesProofs
    MCPlatform ------------- Platform ------------ PlatformProofs

(Each line reads: instance for TLC - specification - what it uses or its proofs;
the line from InspectionScheduler to PlanSlots is an INSTANCE, the others are
EXTENDS.)

**IssueLifecycle** - the abstract promise of an inspection and the requests
around it. A run is *arbitrary*: it completes any evaluations (check, scope) of
one of its scope sets and reports any candidates those can produce.
State: `status`, `severity`, `recoveredAt`, `acknowledged` are columns of
`issues`; `lastEvent` the newest status-changing row of `issue_events`;
`active` the active memberships; `run` what a run has collected in memory;
`user` what a request has read; `expired` what retention has selected.

| action | code |
|---|---|
| `Collect`, `RunFails` | `execute_inspection` up to the commit, its rollback |
| `ApplyEvaluations` | `apply_evaluations` with `_observe_candidate`, `_recover_missing`, `_activate_membership`, and the commit |
| `ReadIssue`, `Acknowledge`, `Ignore`, `Unignore`, `WriteFails` | the three requests: read and early returns, then the write; the row may be gone |
| `SelectExpired`, `DeleteExpired` | the issue part of `cleanup_expired_data` |
| `Restart` | death of the process: sessions are rolled back |

The code treats one evaluation after another while the model treats all of them
at once. They agree because one run never sees a resource in two of its scopes
(`DisjointScopes`, an assumption that `resource_inspection.py` and the plan's
scopes justify) and because only such scopes hold memberships
(`MembershipInScope`, proved).

**StatusInspection** - extends it with the cluster (`fault`, `populated`: the
environment) and with what collection and evaluation really produce:
`EvaluationsOf` says which checks a cluster run and a namespace run evaluate in
which scopes, `Candidates` that a failed check loses its candidates while a
completed one reports every fault its scope shows, `CollectNothing` what happens
when the namespaces cannot be listed. Collecting and applying are separate
steps, so that runs overlap. `InspectionSpec => Spec` - the inspection
implements the lifecycle - is checked by TLC and proved. The implemented
variables are the lifecycle's own, so the refinement mapping is the identity.

**InspectionHistory** - adds two history variables to it: `healthy`, the issues
without a fault when each run in progress collected, and `blind`, the runs that
could not list the namespaces. They restrict nothing (`Remember` is total) and
let `RecoveredWasHealthy` say what a run may recover: only what was healthy when
*that run* looked, not merely what some run saw at some time. The failed listing
is the exception, and only for checks that are completed all the same.

**ResourceCollection** - one inspection from the inside, where StatusInspection
takes many and each as one step. A run makes its calls in the order of
`collect_namespace` and `collect_cluster`; after each the cluster may change, a
pod restart, time pass. `run[i].got` is the collection under construction,
`failed` its failures, `todo` the set of calls ahead: `IsNext` picks the one the
code makes next (`ClusterOrder` and `NamespaceOrder` within a namespace; one
namespace after the other, in any order), and `Left` says what is skipped after
a failure. When no call is left, `Observations`, `Evaluations` and `RunStatus`
translate `resource_inspection.py`, the derivation of facts and
`_aggregate_run_status`. `samples` is the `RestartSampleStore` that the
collections of a process share, `counters` the table of usage counters.

| action | code |
|---|---|
| `StartRun` | the branch on the target and the first calls |
| `CallAnswers`, `CallFails`, `MetricsUnavailable` | one listing, with its `except` branches (`_failure`, the API that is not installed), `observe()` after the references |
| `Finish` | the evaluation and `_enrich_metric_state` |
| `Tick`, `Change`, `RestartPod` | environment |

**ResourceEvaluators** holds the rules as operators: from the facts of an object
to its issues with their severities, as `resource_workloads.py`,
`resource_pods.py`, `resource_network.py`, `resource_nodes.py` and
`resource_storage.py` derive them, with the matching of hosts by certificates.
**CronSchedule** is `latest_cron_schedule`: cron fields, the search back from
day to day, hour to hour and minute to minute. `CronFindsLatest` in
MCResourceCollection compares it with a reference definition that looks at every
minute, for 108 schedules at every minute of four days.

**InspectionScheduler** - plans, runs and history records that persist; the
locks, jobs and threads of each process; requests that start and edit plans.

| action | code |
|---|---|
| `StartLock`, `StartCheck`, `StartCommit`, `StartAborts`, `StartSchedule` | `enqueue_plan`: lock, the two SELECTs, insert and commit, the `finally`, `_schedule_queued_run` |
| `ExecLookup`, `ExecMissed`, `ExecBusy`, `ExecLock` | `_execute_queued_job`, `execute_queued_run` up to the call of `execute_inspection`; a job dropped by its misfire grace time |
| `ExecStart`, `ExecFinish` | the two commits of `execute_inspection` |
| `ExecRecord`, `ExecRelease`, `ExecRaises`, `ExecFail` | the record, the plan and notifications, the `finally`, `_fail_queued_run` |
| `StartLosesRun` | what is raised between the commit and `_schedule_queued_run` (`session.refresh`, the conversion of the row) |
| `EditPlan`, `SyncRead`, `SyncAct`, `RemoveJob`, `DeletePlan` | the plan requests with `sync_plan_job` and `remove_plan_job` |
| `SyncFails`, `DeleteFails` | `sync_plan_job` raising after the edit's commit; the delete raising after `remove_plan_job` |
| `PurgeRun` | the run part of `cleanup_expired_data` |
| `StartProcess`, `StopScheduler`, `Crash` | `_start_scheduler` with `_mark_interrupted_runs`, `_stop_scheduler`, death |

`ExecLock` covers the second session's SELECTs after the lock was taken: no
other thread starts or ends a run of the plan while the lock is held, so reading
them in one step loses nothing as long as one process is up; with `Overlap` the
race between two processes shows all the same. An exception at any point of an
execution is `ExecRaises`. Plan ids and run ids may be given again after a
deletion, since the tables are created without AUTOINCREMENT. A purged run's
history record stays in its table but belongs to no run any more.

**PlanEdits** - adds one history variable to the scheduler: `unsettled`, the
plans whose latest edits overlapped or failed half-way. A request that has the
plan to itself settles it, and so does the start of a process, which adds the
jobs of all enabled plans. `JobsMatchPlans` promises nothing of unsettled plans:
there the code does leave a disabled plan with its job, or an enabled one
without.

**PlanSlots** - what the scheduler promises, without locks, jobs, threads and
rows of its own: each plan has one slot, in which at most one run waits or is
executed. `Enter` takes an empty slot, `Begin` starts the run that waits,
`Leave` empties the slot, `Restart` empties those that were being executed.
`Slots` in InspectionScheduler maps the rows of `inspection_runs` to it
(`Waiting`: queued, `Busy`: running); `ImplementsSlots` says that every step of
the scheduler is one of these or leaves all slots alone.

**LogRecording** - recordings with their lines and pods, and whoever feeds or
ends them. State: columns of `log_recordings` (`status`, `reason`, `bytes`),
the number of lines stored (`lines`), `log_recording_pods` (`mark`), the
threads (`manager`, `worker`), `_STREAMS` and the events in it (`handle`,
`stop`), the threads that end a recording (`pc`, `target`), and `tx`, what a
session that ingests has read before it asked the provider.

| action | code |
|---|---|
| `Create`, `Schedule` | `create_recording`; `schedule_auto_stop` with `start_streaming`, after the commit |
| `StopRequest`, `AutoStop`, `CollectBegin` ... `CollectRaises` | `stop_recording` and the automatic stop, up to and with their last collection |
| `Recover` | what `stop_recording` and `auto_stop_recording` do when their last collection has failed |
| `ReadStatus`, `WriteEnd`, `WriteFails`, `CleanUp`, `Delete` | the test of the status, the commit of the end, and what follows it |
| `ManagerCheck` ... `ManagerExits` | the rounds of `_stream_recording_manager` |
| `WorkerBegin` ... `StreamEnds` | `_stream_container_worker` |
| `Restart`; `Appear`, `Vanish`, `PlannedEnd`, `EditLimit` | death and start of the process; environment |

**Notifications** - with maintenance silence. State: `issue`, `events`, the
events recorded as silenced, the deliveries by deduplication key (`row`),
`channel`, `window`, and `dispatch`, where the thread of each plan's run is in
`dispatch_lifecycle_changes`. `Due`, `NextWindow`, `Clear` are the summaries of
windows that are over; `Skip`, `Announce`, `Silence`, `Mark` decide about a
change; `Create`, `Suppress`, `DeliversNothing`, `DecryptFails`, `Attempt`,
`Succeed`, `GiveUp` are the delivery with its commits. `SaveWindow`,
`DeleteWindow`, `EditChannel`, `DeleteChannel` and `Crash` come in between. A
commit expires the rows a session has loaded: `Again` marks a window whose row
is read anew, so that its deletion or its cleared stamp is noticed where the
code notices it. `owed` is a history variable, the silenced events whose summary
the code does not lose: `Silence` leaves an event out whose window is just being
summed up, by whatever dispatch (`Summing`; the mark is taken off at the end),
and `Crash` one whose process dies between the two commits of the silencing.
A commit that raises within a dispatch is not modelled, except for that of a
successful attempt (`Attempt` to `Succeed`), which the next attempt repeats
(`services/notification_delivery.py:178-200`).

**Platform** - `create_app` (`Migrate`, `MigrateFails`, `Initialize`), the
lifespan (`StartHook`, `StartHookFails`, `StopHook`, `Serve`, `Stop`, `Exit`),
`Crash`, a `Downgrade` behind the back of the process, and `Ready` and
`SchedulerOk`, what it says of itself. While it serves: the middleware
(`ReadSession`, then `Touch` or `ExpiredIsRevoked`), and the requests to log in
(`LoginDenied`, `LoginCounted`, `LoginFails`, `LoginSucceeds`), to log out and to
change the password. Each commit is a step of its own. `audit` holds the failed
logins of the window, with whether a password was verified or the limit was
reached (`Audited`).

## Runs

| run | question | distinct states |
|---|---|---|
| `lifecycle` | two issues (one that two scopes can hold, one required component), arbitrary completed, failed and skipped evaluations, a request, retention, restarts: is recovery justified, do open issues keep evidence, do events agree with the row, does an ignored issue stay ignored? | 475,671 |
| `inspection_coverage` | two overlapping runs, every combination of failed checks, failing listings, an operator, retention, restarts: does the inspection implement the lifecycle, does a run recover only what was healthy when it looked? | 327,069 |
| `inspection_liveness` | overlapping, failing, restarting runs, an operator, an emptying namespace, failing listings: does a repaired fault leave the lists, does a lasting one stay listed? | 173,063 |
| `resource_collection` | six clusters inspected call by call, a call of which fails: is what a completed check says right, has a succeeded run seen everything, do issues heal by waiting, is a spike of restarts recent? | 76,112 |
| `scheduler_safety` | two starters, two editors, late and lost jobs, failing requests, a crash: `NoReentry`, `RunningIsOwned`, `TerminalIsFinal`, does the scheduler implement `PlanSlots`, and does an enabled plan have its job (`JobsMatchPlans`)? | 351,026 up to symmetry |
| `scheduler_liveness` | two starters, an editor, a run that may lose its job, a crash: does a run that is not lost stay scheduled (`QueuedIsScheduled`), does it end? | 121,341 |
| `log_recording` | a stop request, the automatic stop, deletion, size limits, failures, restarts: are totals right, is there at most one late commit, can every stream be stopped, does whatever is due end? | 191,244 |
| `notifications` | a plan's runs around a silence window, failing attempts, edits, a crash: cooldown, silence and final deliveries hold, and every summary follows | 565,587 |
| `platform` | starts that fail, crashes, a downgrade; two clients and two sessions: is a ready process complete, are revoked sessions final, are attempts bounded? | 2,512,873 |
| `missing_component`, `deleted_mark`, `summary_once` | a sentence of the documents, violated; see below | - |

The properties aim at the hazards of `PROJECT.json`; each is stated with a
comment in its module and has a mutant there - a definition changed as a
plausible bug would change it - under which TLC finds it violated.

### Bounds

* `lifecycle`: one workload issue in two scopes is the least instance in which a
  scope can go while another stays; the required component has its own recovery
  rule. One run at a time suffices since a run is arbitrary: what an overlapping
  one could have collected, it can collect. One request, which a run, retention
  or a restart overtakes. Two runs and two requests at one issue with two
  severities (399,680 states) were checked in the same way.
* `inspection_*`: a pod of a namespace, whose check a failed listing of the
  namespaces fails, too, and a node, whose check it does not: one issue for each
  side of `ListingCheck`. (Required components, the third kind, are in
  `lifecycle`; with the listing failing they are the subject of
  `missing_component`.) Plans are the cluster plan and a namespace plan of
  overlapping scope; two runs, so that the older observation can be applied
  last; an operator, who may act at any time and read before. `OneInTrouble`
  bounds the product of the two issues: one breaks only when nothing is left of
  the other, in the tables or in a run. Issues share nothing but the runs, and
  each of them breaks, is repaired, seen, missed, ignored, recovered and purged
  in every order. Failures are enumerated for evaluations that can find an issue
  (`Relevant`); others make no difference to one. Namespaces empty
  (`Vanishing`) in the liveness run.
* `resource_collection`: each world is made for one part - network, storage,
  workloads, two namespaces with a required component, usage, restarts - and
  varies the objects that part relates. Eight days of four minutes, thresholds
  of one or two units. One call fails (`MaxFaults`); two failing calls (320,710
  states, three restarts) were checked too and show nothing else. Two
  inspectors share the restart samples, two restarts make a spike.
* `scheduler_*`: one plan, since plans share nothing but the pool; two runs, so
  that a plan has one run queued while another one ends; two starters and, for
  safety, two editors, whose edits overlap and fail; one crash or stop
  (`MaxCrashes`), after which everything may start again.
* `log_recording`: one recording of one pod, since recordings share only the
  storage limit and a pod's lines enter under the recording's lock; two values
  of the limit, so that it changes while a session holds the old one; snapshots
  of up to one line. Two namespaces with two pods (5,538,000 states) were
  checked without liveness.
* `notifications`: one plan, issue, channel and window; a clock of three values,
  so that a window starts, ends and cools down; three events, the least that
  open, recover and reopen; an attempt and a retry; one failure of each kind.
  Two windows and two channels (7.1 million states) were checked without
  liveness. Two plans: `summary_once`; with its bounds, two events and a fault
  `SilenceIsRemembered` was checked for two plans as well (2,273,030 states).
* `platform`: two hooks as in the code, two clients, so that each step of one
  can be overtaken, two sessions, so that a password change has another one to
  revoke; idle and absolute times such that a touch is cut by the absolute end;
  two faults, so that a start can fail and its rollback too. Logins denied by the
  limit change nothing but the number of rows that count, of which one is enough
  (`MaxDenied`).

Rows of recordings and of sessions are used once each; SQLite may give ids again,
which is left out there (`deleted` recordings stay deleted). Everywhere else
nothing is bounded but the constants named Max.

### Fairness

* `StatusInspection!Fairness`: every plan is inspected again and again, from time
  to time by a run that collects everything and commits
  (`[]<><<AppliesWhole(P)>>`: the plan's job is periodic, and the claim is void
  where every run of a plan fails for ever), and runs that have collected end
  (weak fairness of `Ends`). When these runs collect, what runs in between, and
  which other runs fail is left open. Nothing is assumed of cluster, operators,
  retention or restarts. What a property needs of the environment is in its own
  hypothesis: that the operators come to an end (`OperatorsDone`) and that the
  namespaces can be listed from some time on (`ListingRecovers`).
* `InspectionScheduler!Fairness`: threads get on with their work and the
  scheduler runs its jobs (weak fairness; that `_fail_queued_run` itself
  succeeds is part of this), a process that is down or stopped is replaced
  (the Deployment restarts it), and an execution that is retried every second
  meets a free lock at some time (strong fairness of `ExecFindsFree` and
  `ExecLock`: a request holds the lock for two SELECTs and an insert).
  `QueuedRunsEnd` leaves out the runs of `MayMiss`, one of two in this run: a job
  more than 300 s late is dropped, and one is never added when `session.refresh`
  raises after the commit; such a run waits for the next restart.
* `LogRecording!Fairness`: threads get on (weak fairness); the automatic stop is
  a job of every ten seconds, which at some time gets the lock of the recording
  and at some time commits (strong fairness of `CollectBegin` and `WriteEnd`).
  Nothing is assumed of requests. Streams end since the connection has a read
  timeout.
* `Notifications!Fairness`: time passes, plans go on having runs, a dispatch
  goes on. Nothing is assumed of channels: every attempt may fail.

## Proofs

TLAPS proves, for every value of the constants that meets the named assumptions:

* **IssueLifecycleProofs**, from `LifecycleAssumption` (and `DisjointScopes`
  where runs must not see a resource twice): `TypeCorrect`, `RecoveredSettled`,
  `MembershipsInScope`, `OpenEvidence`, `EventsAgree`, `RecoveriesJustified`,
  `MembershipsFollowCoverage`, `IgnoredKept`. Two lemmas carry them:
  `ApplyToIssue` says what applying a run does to one issue, `StepOfIssue` that
  any step leaves an issue alone, applies a run to it, ignores, un-ignores or
  deletes it. Each invariant is inductive together with `TypeOK` (`OpenEvidence`
  also needs that recovery takes the last membership,
  `UnrecoveredKeepsMembership`).
* **StatusInspectionProofs**: `InspectionRefinesLifecycle`
  (`InspectionSpec => Spec`): every way to collect is a `Collect` of the
  lifecycle, cluster steps stutter. Hence every theorem about the lifecycle
  holds of the inspection; `InspectionSettles` spells out one.
  `RecoveriesWereHealthy` (`HistorySpec => RecoveredWasHealthy`) has no further
  hypothesis: any number of runs overlap, any checks and listings fail. Its
  invariant `RunsSawHealthy` says of a run in progress that whatever it shows
  and does not report was healthy when it collected, unless it is `blind`, and
  `RecoversWhatIsShown` that a run recovers nothing else. What outlives a run
  needs a hypothesis: `Stands` says of an issue and its lasting fault that every
  run in progress either saw the fault or is older than the first report, and
  that a reported issue stays live; `FaultsStand` is its invariance as long as
  `RunsAgree` (a run that saw the fault and one that did not are not in progress
  together) for issues of which a failed listing says nothing (`Unlisted`).
  Without either it is false, see the next section.
* **InspectionSchedulerProofs**: `SchedulerTypes` without restriction; from
  `~Overlap` (one process at a time) `OneRunInFlight`, `RunningRunsOwned`,
  `ExecutionsExclusive`, `TerminalRunsFinal` and `SchedulerImplementsSlots`.
  None of these is inductive: a starter that has checked and not yet committed
  must know that no run is in flight *still*. The inductive invariant `Inv` adds
  that what a thread holds is locked and a lock has one holder (`LocksHeld`,
  `OneHolder`), that only the process that is up has threads (`OneUp`,
  `DownIsIdle`), and that what a thread has read is still so (`CheckedIsFree`,
  `ExecIsCurrent`). `Invariance` proves it. The refinement rests on it: the run
  a starter commits enters an *empty* slot because of `CheckedIsFree`, and a run
  that starts was waiting in a slot nobody is executed in because of
  `ExecIsCurrent`; every other step stutters (`SlotsStutter`). `~Overlap` is not
  a convenience: with two processes TLC finds `NoReentry` violated.
  `QueuedScheduled` says further that a queued run is in somebody's hands
  (unless it is one of `MayMiss`), and `EnabledPlansHaveJobs` that the jobs are
  those of the enabled plans. It holds for any number of editors that overlap
  and fail: `JobsOK` says that a settled plan has at most one request at it
  (`Alone`) and that its job is what the plan and this request make of it
  (`Matches`). The plans it leaves out are those of `unsettled`, for which the
  statement is false.
* **LogRecordingProofs**, from `RecordingAssumption`: `RecordingTypes`,
  `TotalsAgree`, `FullEnds`, `OneCommitLate`. Of some thirty actions only a few
  touch a row or an ingestion, and they do one of eight things to them: `NextRows`
  says which (`RowStep`), and each of the eight has its lemma. The inductive
  part `RowsInv` adds what makes the commit of an old reading harmless: one
  thread at most ingests into a recording (`OneIngests`), and the size it has
  read is the size still (`SizeIsCurrent`), since nobody else writes it. A
  commit is late only if the recording ended during it, and nobody begins one
  afterwards (`LateIsLast`). `StreamsCanBeStopped` follows the handle of a
  stream through start, stop, deletion and restart.
* **NotificationsProofs**, from `NotificationAssumption`: `NotificationTypes`
  and `DispatchSafety`, the invariant on which all else about notifications
  rests: the changes a dispatch has left are consecutive recorded events, no two
  dispatches share one (`ChangesApart`), and the message in hand has a subject,
  a channel and a key that belong together (`DispatchOK`). What the fourteen
  actions of a dispatch do to it is first brought down to moves (`StepMoves`),
  and the invariants are proved of these moves.
* **NotificationRulesProofs**: what a dispatch promises, however many overlap,
  with crashes and edits in between: `SilencedNotSent` (a change is either sent
  or silenced, and only the dispatch that has it decides) and
  `IssueDeliveriesStayFinal` (`FinalIsFinal` for all deliveries but those of
  summaries: a message goes out while its row says `delivering`, `SendingInv`).
  `SilenceRemembered` has no hypothesis either: `OwedInv` adds to
  `SilenceIsRemembered` that no dispatch is summing up a window which owes an
  event a summary, so that taking the mark off loses none. Two promises hold as
  long as no two dispatches meet, which each theorem has as its hypothesis:
  `DeliveriesStayFinal` unless two deliver the same summary (`SummariesApart`);
  `CooldownIsQuiet` unless two have changes of one issue (`IssuesApart`: both
  look for a flapping message before either has created one). With two plans TLC
  finds `FinalIsFinal` and `QuietInCooldown` violated, so that neither
  hypothesis can be dropped. `QuietInCooldown` is far from inductive. `QuietInv`
  adds that rows of an issue come in the order of its events (`RowsPrecede`),
  that a row is of the kind its dispatch announces (`RowsFit`), and that what
  notifies found every earlier cooldown over when it was taken up (`RowsAfter`),
  which time does not take back.
* **ResourceCollectionProofs**, from `CollectionAssumption`, `ThresholdAssumption`,
  `WorldsAssumption` (the times in objects are numbers) and `TargetsAssumption`
  (targets are what `InspectionScope.validate_target` admits; names of
  namespaces and kinds of required components are such): `CollectionTypes`
  (`TypeOK`, with no call made twice); `CompletedChecksAreRight`
  (`CompletedIsRight`); `SucceededRunsSawAll` (`SucceededSawAll`);
  `SpikesAreRecent` (`NoSpikeFromHistory` for any number of overlapping
  inspections); `AgeingNeverHeals`. A sample that another inspection has left is
  dated by when that one *began* and counts what it had seen later, when it
  listed the pod. `SpikeInv` says that this errs on the right side: every sample,
  and every inspection of the pods it has listed, counts at least the restarts
  from before its date. So the increase over a recent sample consists of recent
  restarts (`SinceSample`, by counting finite sets). Ageing is a lemma about
  each evaluator (`JobsAge`, `PodsAge`, `ClaimsAge`, `VolumesAge`, `NodesAge`,
  `CertificatesAge`), which rest on two about severities: `MoreIsWorse`, and
  `WorstGrows` for claims and certificates, where a Warning is replaced by a
  Critical.
  What checks report rests on `CallsInv`, which has two parts. `Ahead`: calls
  ahead have not been made, and until the namespaces are listed only the first
  calls are known. `Faithful`, of a cluster that stands still: what has been
  found is what there is, except for metrics that are not available, and a call
  that could have been made and was not was left out for one of four reasons -
  the namespaces or the nodes or the single pod could not be listed, or the
  metrics of pods were not available (`IsLeftOut`). It is inductive because
  metrics of nodes are asked for after those of pods (`MetricsInOrder`). At the
  end of an inspection `SawClear` turns this round: a listing that feeds a check
  which has neither failed nor is fed by a listing that failed has found what
  there is. From there the argument goes up as the code does: the same listings
  make the same observations (`SameWorkloads` and its neighbours, with what a
  label selector leaves, `RelatedWorkloads`, `RelatedServices`), hence each
  check sees what there is (`SeesWorkloads` ...), hence it has the same issues
  (`SameIssue`, `EvaluationIsRight`; `RequiredIsRight` for required components).
  Two corners took most care. Metrics that are not available make a check
  skipped, not passed, unless the metrics of nodes are there; then those of pods
  were (`AllSampled`). And an invalid schedule fails `workload.status` even when
  every call is answered, so that the ideal inspection has failures too
  (`FailsAlike`).
* **PlatformProofs**, from `PlatformAssumption`: `PlatformTypes`,
  `ReadyIsRunning`, `RevocationIsFinal`, `LoginsBounded`. `Inv` has four parts:
  types of sessions and requests (`SessionsOK`) and of the process
  (`ProcessOK`); `Progress`, that how far the process is tells which hooks run
  and whether the settings exist, which is why readiness, a test of error flags
  only, implies them; and `AuditInv`, that refused passwords *and* clients that
  have been counted but not yet refused are bounded together, since a client is
  counted only below the limit.

No proof assumes more than the ASSUME of its module and the hypotheses named
here.

## Where code and documents disagree

Each of three runs checks a sentence of a document and finds it violated:

* `missing_component` - one failed listing makes every required component look
  missing: `_required_component_failures` counts only failures that carry a
  resource, and those of `list_namespace` carry none
  (`services/resource_inspection.py:57`, against `docs/v1.1.0/ux-design.md:535`).
* `deleted_mark` - a snapshot of one namespace, or the lines of one pod, mark
  every other pod of a recording as deleted - those, that is, whose row had been
  committed before; `autoflush=False` keeps its SELECT from seeing pods that were
  added in the same transaction (`MarkedAll`)
  (`services/log_recording_service.py:671`, against `docs/v1.3.0/prd.md:194`).
* `summary_once` - two runs that end at the same time after a window both send
  its summary (`services/notification_service.py:436`, against
  `docs/v1.2.0/prd.md:534`).

The following were found by adding the named formula, which its module still
states, to a run, or by a choice of constants; no run repeats them.

* `IssueLifecycle!LifecycleValid`: an ignore request overtaken by a recovery
  leaves an ignored row with `recovered_at` set, for which the schema's own
  validator (`schemas/v1_1.py:259-260`) raises when the row is next returned.
* `IssueLifecycle!OnlyRecoveredPurged`: retention deletes an issue that a run
  reopened after the selection; `docs/v1.1.0/prd.md:661` excludes it.
* `UnfixedNeverRecovers` with nothing `Fixable`, and `CompletedIsRight` without
  `Fed`: some listings feed checks that do not notice when they fail
  (`providers/kubernetes_collection.py:217`); these pass on nothing and recover
  issues nobody looked at, against `docs/v1.1.0/architecture-contract.md:134`.
  The first fails in a second way, without any failure: a run that collected
  before the fault and applies after another has reported it recovers the issue
  until the next run.
* `FixedLeavesLists` without `Abandoned`: an operator who has read an open issue
  ignores it after it has recovered. The issue has no membership left, no run
  comes back to it, it stays ignored for good and is open once un-ignored;
  `docs/v1.2.0/prd.md:168` says without exception that what has been repaired
  leaves the list.
* `FixedLeavesLists` with cluster plans only and `Vanishing` namespaces: issues
  of a namespace without objects are never evaluated again
  (`services/resource_inspection.py:84`), against `docs/v1.2.0/prd.md:191`.
* `NoReentry` with `Overlap`: the Deployment has no `strategy`, so that an
  upgrade overlaps two schedulers, which execute the same queued run twice,
  against `docs/v1.1.0/prd.md:322` and the single-writer remark in
  `deploy/helm/k8s-inspector/templates/deployment.yaml:2`.
* `RecordFollowsRun`: a restart fails interrupted runs but not their history
  records, which stay `queued` (`services/inspection_scheduler.py:394`).
* `JobsMatchPlans` without `unsettled`: two edits of one plan that overlap leave
  the job of a disabled plan behind or an enabled plan without one, and so does
  an edit whose `sync_plan_job` raises after the commit, or a delete that fails
  after `remove_plan_job` (`api/routes/inspection_plans.py:83-84`). The next edit
  of the plan or the next start repairs it.
* `SilenceIsRemembered` without the two exceptions of `owed`: an event that one
  plan's dispatch silences while another's sums up the window, and one whose
  process dies between the commit of the event and that of the mark
  (`services/notification_service.py:306`), lose the summary that
  `docs/v1.2.0/prd.md:534` promises.

Read in the code while modelling, and modelled as the code has it:

* a Job that has failed pods and then completes is still reported
  (`services/resource_workloads.py:110`, against `docs/v1.1.0/prd.md:177`);
* the message of the version check names the range 1.34-1.36 while the
  collector accepts minor versions 31 to 36
  (`providers/kubernetes_collection.py:272`, `services/resource_inspection.py:233`);
* counters of high usage count one sample of the metrics API once for each
  scheduled run that reads it;
* the fact `blocks_pod`, which `services/resource_storage.py:40` reads, is set
  nowhere, so that `PVCIssues` leaves it out;
* a touch that commits after a later one moves the idle end of a session back;
* the new password is committed before the other sessions are revoked: a crash
  in between leaves them (`api/routes/auth.py:139`), and expired sessions are
  never deleted;
* deleting a maintenance window drops its pending summary; issues opened by
  manual runs are not notified; a summary whose success could not be recorded is
  sent again by a later dispatch (a change has no later dispatch, its message is
  only repeated by the next attempt);
* deleting a recording leaves its lines and pods in their tables
  (no cascade is declared), and a stop request that comes second overwrites the
  status and the reason of the first end.

## What is only model-checked

* Every liveness property (fairness and ENABLED are beyond TLAPS):
  `FixedLeavesLists`, `FaultStaysListed`, `QueuedRunsEnd`, `RecordingEnds`,
  `StreamsEnd`, `SummaryFollows`.
* `FinalIsFinal` and `QuietInCooldown` when dispatches of two plans meet over one
  summary or issue: they are false then, see Proofs.
* `CronSchedule`: that the search finds the latest match needs an induction over
  days and minutes. It is compared with its reference for the schedules and the
  days listed in MCResourceCollection.

## Not modelled

* *Template matcher, diagnosis, keywords, whitelist* (`engine/matcher.py`,
  `services/diagnosis_service.py` and their neighbours): functions of one
  request, almost wholly comparisons of strings; a model of them would be the
  code again.
* *Manual inspection* (`services/inspection_service.py`): builds a report within
  one request and stores it as one record. What it does to issues is
  `apply_evaluations`, which `IssueLifecycle` has.
* *Queries* (`issue_query.py`, `overview_service.py`, `discovery_service.py`,
  `image_inventory_service.py`): read-only.
* *Settings and saved targets*: one request edits one row.
* *Lists of the providers for the browser, the mock provider*: pages of objects
  without state.
* *Sanitiser, crypto, outbound checks*: transformations of strings and bytes.
* *Frontend*: keeps no authoritative state.

Of the modelled components: notes on issues and the texts and evidence of an
observation; template and keyword matches of a run; a run's scope of several
namespaces, which `services/inspection_run_service.py:329` collects in a thread
pool, each into a collection of its own; next-run times (displayed
only; jobs have their own triggers) and the heartbeat; the evidence of a pod
(logs, events); levels, folding and export of recorded lines; the wording of
messages and the request to test a channel; the matching of a window's scope;
hashes, cookies and CSRF tokens; the removal of old deliveries and audit rows;
component states other than the scheduler's.

## Plan

1. A module that composes scheduler, lifecycle and notifications: what happens
   to a change between the commit of a run and its delivery.
2. Recording ids that SQLite gives again after a deletion, with the handle of
   the old manager in `_STREAMS`.
3. The matching of maintenance windows and of the whitelist as operators against
   a reference definition.
