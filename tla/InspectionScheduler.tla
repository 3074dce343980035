------------------------- MODULE InspectionScheduler -------------------------
(***************************************************************************)
(* Inspection plans and their runs: the requests that change and start     *)
(* plans, the in-process scheduler with its jobs, the threads that execute *)
(* queued runs, and the rows of `inspection_plans` and `inspection_runs`   *)
(* that survive a restart.                                                 *)
(*                                                                         *)
(* A plan is started (by its job or by a request) in three steps under the *)
(* plan's lock - take the lock, look for a run in flight, insert a queued  *)
(* run - and a fourth that hands the run to the scheduler.  A thread of    *)
(* the scheduler's pool executes it: it looks the run up, takes the lock   *)
(* or asks to be called again, marks the run as running, inspects, stores  *)
(* the result, then the history record and the plan, and gives the lock    *)
(* back; whatever is raised on the way ends in _fail_queued_run.           *)
(*                                                                         *)
(* Locks, jobs and threads belong to a process and die with it.            *)
(***************************************************************************)
EXTENDS Naturals

CONSTANTS
  Plan,         \* row ids of inspection plans
  Run,          \* row ids of inspection runs
  Process,      \* application processes
  Starter,      \* threads that start plans: requests and plan jobs
  Editor,       \* requests that create, update or delete plans
  NoPlan,       \* plan_id of a run whose plan was deleted
  Overlap,      \* may a process start while another one is still up?
  MayMiss,      \* runs whose job may be dropped as late, or never be added
  MaxCrashes    \* bound on the number of crashes and stops

ASSUME SchedulerAssumption ==
  /\ NoPlan \notin Plan
  /\ Overlap \in BOOLEAN
  /\ MayMiss \subseteq Run
  /\ MaxCrashes \in Nat

VARIABLES
  plan,     \* state of each plan row
  run,      \* each run row: its status and plan_id
  record,   \* summary_status of the run's history record
  up,       \* processes that are up
  running,  \* processes whose scheduler is running
  locked,   \* locked[x]: the plans whose lock is held in process x
  planJob,  \* planJob[x]: plans with a job in the scheduler of process x
  runJob,   \* runJob[x]: queued runs with a job in the scheduler of process x
  starter,  \* starter[x][s]: what thread s of process x is doing
  exec,     \* exec[x][r]: what the thread that executes run r is doing
  editor,   \* editor[x][e]: what request e of process x is doing
  crashes   \* number of crashes and stops so far

rows == <<plan, run, record>>
process == <<up, running, crashes>>
jobs == <<planJob, runJob>>
vars == <<rows, process, locked, jobs, starter, exec, editor>>

PlanState == {"absent", "enabled", "disabled"}
InFlight == {"queued", "running"}
Terminal == {"succeeded", "failed"}     \* partial counts as succeeded
RunStatus == {"absent"} \cup InFlight \cup Terminal

Idle == [pc |-> "idle"]
StarterState ==
  {Idle} \cup [pc : {"locked", "checked"}, plan : Plan] \cup [pc : {"committed"}, run : Run]
ExecState ==
  {Idle} \cup [pc : {"looked", "locked", "running", "finished", "recorded"}, plan : Plan]
         \cup [pc : {"failing"}]
EditorState ==
  {Idle} \cup [pc : {"sync"}, plan : Plan]
         \cup [pc : {"act"}, plan : Plan, enabled : BOOLEAN]
         \cup [pc : {"delete"}, plan : Plan]

TypeOK ==
  /\ plan \in [Plan -> PlanState]
  /\ run \in [Run -> [status : RunStatus, plan : Plan \cup {NoPlan}]]
  /\ record \in [Run -> RunStatus]
  /\ up \in SUBSET Process
  /\ running \in SUBSET up
  /\ locked \in [Process -> SUBSET Plan]
  /\ planJob \in [Process -> SUBSET Plan]
  /\ runJob \in [Process -> SUBSET Run]
  /\ starter \in [Process -> [Starter -> StarterState]]
  /\ exec \in [Process -> [Run -> ExecState]]
  /\ editor \in [Process -> [Editor -> EditorState]]
  /\ crashes \in 0..MaxCrashes

NoRun == [status |-> "absent", plan |-> NoPlan]

Init ==
  /\ plan = [p \in Plan |-> "absent"]
  /\ run = [r \in Run |-> NoRun]
  /\ record = [r \in Run |-> "absent"]
  /\ up = {}
  /\ running = {}
  /\ locked = [x \in Process |-> {}]
  /\ planJob = [x \in Process |-> {}]
  /\ runJob = [x \in Process |-> {}]
  /\ starter = [x \in Process |-> [s \in Starter |-> Idle]]
  /\ exec = [x \in Process |-> [r \in Run |-> Idle]]
  /\ editor = [x \in Process |-> [e \in Editor |-> Idle]]
  /\ crashes = 0

-----------------------------------------------------------------------------
(* Starting a plan: enqueue_plan.                                          *)

Goes(s, x, state) == starter' = [starter EXCEPT ![x][s] = state]
Release(x, p) == locked' = [locked EXCEPT ![x] = @ \ {p}]

InFlightRuns(p) == {r \in Run : run[r].plan = p /\ run[r].status \in InFlight}

(* Two mutants: the lock is not taken; a busy lock is given back as if it  *)
(* had been taken.                                                         *)
StartWithoutLock(x, s, p) ==
  /\ x \in up
  /\ starter[x][s] = Idle
  /\ Goes(s, x, [pc |-> "locked", plan |-> p])
  /\ UNCHANGED <<rows, process, locked, jobs, exec, editor>>

StartReleasesBusy(x, s, p) ==
  /\ x \in up
  /\ starter[x][s] = Idle
  /\ IF p \in locked[x] THEN Release(x, p) /\ UNCHANGED starter
     ELSE /\ locked' = [locked EXCEPT ![x] = @ \cup {p}]
          /\ Goes(s, x, [pc |-> "locked", plan |-> p])
  /\ UNCHANGED <<rows, process, jobs, exec, editor>>

(* lock.acquire(blocking=False); a busy lock ends the attempt.             *)
StartLock(x, s, p) ==
  /\ x \in up
  /\ starter[x][s] = Idle
  /\ p \notin locked[x]
  /\ locked' = [locked EXCEPT ![x] = @ \cup {p}]
  /\ Goes(s, x, [pc |-> "locked", plan |-> p])
  /\ UNCHANGED <<rows, process, jobs, exec, editor>>

(* The two SELECTs: the plan exists and none of its runs is in flight.     *)
StartCheck(x, s) ==
  LET p == starter[x][s].plan IN
  /\ starter[x][s].pc = "locked"
  /\ \/ /\ plan[p] # "absent"
        /\ InFlightRuns(p) = {}
        /\ Goes(s, x, [pc |-> "checked", plan |-> p])
        /\ UNCHANGED locked
     \/ /\ plan[p] = "absent" \/ InFlightRuns(p) # {}
        /\ Goes(s, x, Idle)
        /\ Release(x, p)
  /\ UNCHANGED <<rows, process, jobs, exec, editor>>

(* The queued run and its record are inserted, the lock is released.       *)
StartCommit(x, s) ==
  LET p == starter[x][s].plan IN
  /\ starter[x][s].pc = "checked"
  /\ \E r \in Run :
       /\ run[r].status = "absent"
       /\ run' = [run EXCEPT ![r] = [status |-> "queued", plan |-> p]]
       /\ record' = [record EXCEPT ![r] = "queued"]
       /\ Goes(s, x, [pc |-> "committed", run |-> r])
  /\ Release(x, p)
  /\ UNCHANGED <<plan, process, jobs, exec, editor>>

(* The insert raises: rolled back, the lock is released.                   *)
StartAborts(x, s) ==
  /\ starter[x][s].pc = "checked"
  /\ Goes(s, x, Idle)
  /\ Release(x, starter[x][s].plan)
  /\ UNCHANGED <<rows, process, jobs, exec, editor>>

(* _schedule_queued_run, a no-op without a running scheduler.              *)
StartSchedule(x, s) ==
  /\ starter[x][s].pc = "committed"
  /\ runJob' = [runJob EXCEPT ![x] =
       IF x \in running THEN @ \cup {starter[x][s].run} ELSE @]
  /\ Goes(s, x, Idle)
  /\ UNCHANGED <<rows, process, locked, planJob, exec, editor>>

(* session.refresh raises after the commit: the run stays queued, nobody   *)
(* hands it to the scheduler.                                              *)
StartLosesRun(x, s) ==
  /\ starter[x][s].pc = "committed"
  /\ starter[x][s].run \in MayMiss
  /\ Goes(s, x, Idle)
  /\ UNCHANGED <<rows, process, locked, jobs, exec, editor>>

-----------------------------------------------------------------------------
(* Executing a queued run: _execute_queued_job and execute_queued_run.     *)

Moves(r, x, state) == exec' = [exec EXCEPT ![x][r] = state]
Continues(r, x, pc) == Moves(r, x, [pc |-> pc, plan |-> exec[x][r].plan])
Failing == [pc |-> "failing"]

(* A mutant: the job is not added again.                                   *)
NotCalledAgain(x, r) == UNCHANGED runJob

(* PlanAlreadyRunningError: the job is added again, a second later.        *)
CallAgain(x, r) ==
  runJob' = [runJob EXCEPT ![x] = IF x \in running THEN @ \cup {r} ELSE @]

(* The scheduler runs the job; the first session looks the run up.         *)
ExecLookup(x, r) ==
  /\ x \in running
  /\ r \in runJob[x]
  /\ exec[x][r] = Idle
  /\ runJob' = [runJob EXCEPT ![x] = @ \ {r}]
  /\ \/ run[r].status # "queued" /\ UNCHANGED exec
     \/ run[r].status = "queued" /\ run[r].plan = NoPlan /\ Moves(r, x, Failing)
     \/ /\ run[r].status = "queued" /\ run[r].plan # NoPlan
        /\ Moves(r, x, [pc |-> "looked", plan |-> run[r].plan])
  /\ UNCHANGED <<rows, process, locked, planJob, starter, editor>>

(* The job comes up later than misfire_grace_time after its time, because  *)
(* every thread of the pool was busy: the scheduler drops it.              *)
ExecMissed(x, r) ==
  /\ x \in running
  /\ r \in runJob[x] \cap MayMiss
  /\ runJob' = [runJob EXCEPT ![x] = @ \ {r}]
  /\ UNCHANGED <<rows, process, locked, planJob, starter, exec, editor>>

OtherRunning(p, r) == {q \in InFlightRuns(p) \ {r} : run[q].status = "running"}

(* The lock of the plan is busy, or another of its runs is running.        *)
ExecBusy(x, r) ==
  LET p == exec[x][r].plan IN
  /\ exec[x][r].pc = "looked"
  /\ \/ p \in locked[x]
     \/ run[r].status = "queued" /\ OtherRunning(p, r) # {}
  /\ Moves(r, x, Idle)
  /\ CallAgain(x, r)
  /\ UNCHANGED <<rows, process, locked, planJob, starter, editor>>

(* The lock is taken and the second session looks again; it keeps the row  *)
(* it has read.                                                            *)
ExecLock(x, r) ==
  LET p == exec[x][r].plan IN
  /\ exec[x][r].pc = "looked"
  /\ p \notin locked[x]
  /\ \/ /\ run[r].status # "queued"
        /\ Moves(r, x, Idle)
        /\ UNCHANGED locked
     \/ /\ run[r].status = "queued" /\ OtherRunning(p, r) = {}
        /\ plan[p] = "absent"
        /\ Moves(r, x, Failing)
        /\ UNCHANGED locked
     \/ /\ run[r].status = "queued" /\ OtherRunning(p, r) = {}
        /\ plan[p] # "absent"
        /\ Moves(r, x, [pc |-> "locked", plan |-> p])
        /\ locked' = [locked EXCEPT ![x] = @ \cup {p}]
  /\ UNCHANGED <<rows, process, jobs, starter, editor>>

(* execute_inspection commits the run as running, by what it has read.     *)
ExecStart(x, r) ==
  /\ exec[x][r].pc = "locked"
  /\ run' = [run EXCEPT ![r].status = "running"]
  /\ Continues(r, x, "running")
  /\ UNCHANGED <<plan, record, process, locked, jobs, starter, editor>>

(* ... and at its end as succeeded, partial or failed.                     *)
ExecFinish(x, r) ==
  /\ exec[x][r].pc = "running"
  /\ \E t \in Terminal : run' = [run EXCEPT ![r].status = t]
  /\ Continues(r, x, "finished")
  /\ UNCHANGED <<plan, record, process, locked, jobs, starter, editor>>

(* The history record follows in a transaction of its own.                 *)
ExecRecord(x, r) ==
  /\ exec[x][r].pc = "finished"
  /\ record' = [record EXCEPT ![r] = run[r].status]
  /\ Continues(r, x, "recorded")
  /\ UNCHANGED <<plan, run, process, locked, jobs, starter, editor>>

(* The plan's last run is noted, notifications are sent, the lock is       *)
(* released.                                                               *)
ExecRelease(x, r) ==
  /\ exec[x][r].pc = "recorded"
  /\ Moves(r, x, Idle)
  /\ Release(x, exec[x][r].plan)
  /\ UNCHANGED <<rows, process, jobs, starter, editor>>

(* Something is raised while the lock is held.                             *)
ExecRaises(x, r) ==
  /\ exec[x][r].pc \in {"locked", "running", "finished", "recorded"}
  /\ Moves(r, x, Failing)
  /\ Release(x, exec[x][r].plan)
  /\ UNCHANGED <<rows, process, jobs, starter, editor>>

(* Mutants of the next definition: a status of its own for what was        *)
(* interrupted; a run that has ended fails all the same; only one that had *)
(* started fails.                                                          *)
FailedAsInterrupted(status) == IF status \in InFlight THEN "interrupted" ELSE status
FailedAnyway(status) == "failed"
FailedIfStarted(status) == IF status = "running" THEN "failed" ELSE status

(* _fail_queued_run leaves a run that has ended as it is; the record       *)
(* follows the run.                                                        *)
AfterFailure(status) == IF status \in InFlight THEN "failed" ELSE status

ExecFail(x, r) ==
  LET failed == AfterFailure(run[r].status) IN
  /\ exec[x][r] = Failing
  /\ run' = [run EXCEPT ![r].status = failed]
  /\ record' = [record EXCEPT ![r] = IF @ \in InFlight THEN failed ELSE @]
  /\ Moves(r, x, Idle)
  /\ UNCHANGED <<plan, process, locked, jobs, starter, editor>>

-----------------------------------------------------------------------------
(* Editing plans.                                                          *)

Edits(e, x, state) == editor' = [editor EXCEPT ![x][e] = state]

(* create_plan or update_plan, committed.  The id of a deleted plan may be *)
(* given to a new one.                                                     *)
EditPlan(x, e, p, enabled) ==
  /\ x \in up
  /\ editor[x][e] = Idle
  /\ plan' = [plan EXCEPT ![p] = IF enabled THEN "enabled" ELSE "disabled"]
  /\ Edits(e, x, [pc |-> "sync", plan |-> p])
  /\ UNCHANGED <<run, record, process, locked, jobs, starter, exec>>

(* sync_plan_job reads the plan in a session of its own ...                *)
SyncRead(x, e) ==
  LET p == editor[x][e].plan IN
  /\ editor[x][e].pc = "sync"
  /\ Edits(e, x, IF x \in running
                 THEN [pc |-> "act", plan |-> p, enabled |-> plan[p] = "enabled"]
                 ELSE Idle)
  /\ UNCHANGED <<rows, process, locked, jobs, starter, exec>>

(* A mutant: the job of a disabled plan is not removed.                    *)
SyncAddsOnly(x, e) ==
  /\ editor[x][e].pc = "act"
  /\ planJob' = [planJob EXCEPT ![x] =
       IF editor[x][e].enabled /\ x \in running THEN @ \cup {editor[x][e].plan} ELSE @]
  /\ Edits(e, x, Idle)
  /\ UNCHANGED <<rows, process, locked, runJob, starter, exec>>

(* ... and then adds or removes its job.                                   *)
SyncAct(x, e) ==
  LET p == editor[x][e].plan IN
  /\ editor[x][e].pc = "act"
  /\ planJob' = [planJob EXCEPT ![x] =
       IF editor[x][e].enabled /\ x \in running THEN @ \cup {p} ELSE @ \ {p}]
  /\ Edits(e, x, Idle)
  /\ UNCHANGED <<rows, process, locked, runJob, starter, exec>>

(* Something is raised after the edit was committed, by session.refresh or *)
(* in sync_plan_job: the job stays as it is.                               *)
SyncFails(x, e) ==
  /\ editor[x][e].pc \in {"sync", "act"}
  /\ Edits(e, x, Idle)
  /\ UNCHANGED <<rows, process, locked, jobs, starter, exec>>

(* The request to delete plan p removes its job first.                     *)
RemoveJob(x, e, p) ==
  /\ x \in up
  /\ editor[x][e] = Idle
  /\ plan[p] # "absent"
  /\ planJob' = [planJob EXCEPT ![x] = @ \ {p}]
  /\ Edits(e, x, [pc |-> "delete", plan |-> p])
  /\ UNCHANGED <<rows, process, locked, runJob, starter, exec>>

(* delete_plan detaches the runs of the plan and deletes the row with its  *)
(* id, whether that is still there, gone, or another plan by now.          *)
DeletePlan(x, e) ==
  LET p == editor[x][e].plan IN
  /\ editor[x][e].pc = "delete"
  /\ plan' = [plan EXCEPT ![p] = "absent"]
  /\ run' = [r \in Run |-> IF run[r].plan = p
                           THEN [status |-> run[r].status, plan |-> NoPlan] ELSE run[r]]
  /\ Edits(e, x, Idle)
  /\ UNCHANGED <<record, process, locked, jobs, starter, exec>>

(* The deletion raises and is rolled back; the job is gone already.        *)
DeleteFails(x, e) ==
  /\ editor[x][e].pc = "delete"
  /\ Edits(e, x, Idle)
  /\ UNCHANGED <<rows, process, locked, jobs, starter, exec>>

-----------------------------------------------------------------------------
(* Retention and the life of a process.                                    *)

(* cleanup_expired_data deletes finished runs; their ids may come again.   *)
PurgeRun(r) ==
  /\ run[r].status \in Terminal
  /\ \A x \in Process : exec[x][r] = Idle
  /\ run' = [run EXCEPT ![r] = NoRun]
  /\ record' = [record EXCEPT ![r] = "absent"]
  /\ UNCHANGED <<plan, process, locked, jobs, starter, exec, editor>>

(* A mutant: a run that was left running stays so.                         *)
LeftRunning(r) == FALSE

(* _start_scheduler: runs that were left running are failed, the jobs of   *)
(* the enabled plans and of the queued runs are added.                     *)
Interrupted(r) == run[r].status = "running"

StartProcess(x) ==
  /\ x \notin up
  /\ Overlap \/ up = {}
  /\ run' = [r \in Run |-> IF Interrupted(r) THEN [status |-> "failed", plan |-> run[r].plan]
                           ELSE run[r]]
  /\ planJob' = [planJob EXCEPT ![x] = {p \in Plan : plan[p] = "enabled"}]
  /\ runJob' = [runJob EXCEPT ![x] = {r \in Run : run[r].status = "queued"}]
  /\ up' = up \cup {x}
  /\ running' = running \cup {x}
  /\ UNCHANGED <<plan, record, crashes, locked, starter, exec, editor>>

(* _stop_scheduler: shutdown(wait=False) drops the jobs, threads go on.    *)
StopScheduler(x) ==
  /\ x \in running
  /\ crashes < MaxCrashes
  /\ crashes' = crashes + 1
  /\ running' = running \ {x}
  /\ planJob' = [planJob EXCEPT ![x] = {}]
  /\ runJob' = [runJob EXCEPT ![x] = {}]
  /\ UNCHANGED <<rows, up, locked, starter, exec, editor>>

(* The process dies; one whose scheduler was stopped is going to anyway.   *)
Crash(x) ==
  /\ x \in up
  /\ x \in running => crashes < MaxCrashes
  /\ crashes' = IF x \in running THEN crashes + 1 ELSE crashes
  /\ up' = up \ {x}
  /\ running' = running \ {x}
  /\ locked' = [locked EXCEPT ![x] = {}]
  /\ planJob' = [planJob EXCEPT ![x] = {}]
  /\ runJob' = [runJob EXCEPT ![x] = {}]
  /\ starter' = [starter EXCEPT ![x] = [s \in Starter |-> Idle]]
  /\ exec' = [exec EXCEPT ![x] = [r \in Run |-> Idle]]
  /\ editor' = [editor EXCEPT ![x] = [e \in Editor |-> Idle]]
  /\ UNCHANGED rows

-----------------------------------------------------------------------------
StarterStep(x, s) ==
  \/ \E p \in Plan : StartLock(x, s, p)
  \/ StartCheck(x, s) \/ StartCommit(x, s) \/ StartAborts(x, s) \/ StartSchedule(x, s)
  \/ StartLosesRun(x, s)

ExecStep(x, r) ==
  \/ ExecLookup(x, r) \/ ExecMissed(x, r) \/ ExecBusy(x, r) \/ ExecLock(x, r)
  \/ ExecStart(x, r) \/ ExecFinish(x, r) \/ ExecRecord(x, r) \/ ExecRelease(x, r)
  \/ ExecRaises(x, r) \/ ExecFail(x, r)

EditorStep(x, e) ==
  \/ \E p \in Plan, enabled \in BOOLEAN : EditPlan(x, e, p, enabled)
  \/ SyncRead(x, e) \/ SyncAct(x, e) \/ SyncFails(x, e)
  \/ \E p \in Plan : RemoveJob(x, e, p)
  \/ DeletePlan(x, e) \/ DeleteFails(x, e)

ProcessStep(x) == StartProcess(x) \/ StopScheduler(x) \/ Crash(x)

Next ==
  \/ \E x \in Process, s \in Starter : StarterStep(x, s)
  \/ \E x \in Process, r \in Run : ExecStep(x, r)
  \/ \E x \in Process, e \in Editor : EditorStep(x, e)
  \/ \E r \in Run : PurgeRun(r)
  \/ \E x \in Process : ProcessStep(x)

Spec == Init /\ [][Next]_vars

(* Threads get on with their work, the scheduler runs its jobs, a process  *)
(* that is not up or whose scheduler was stopped is replaced in the end,   *)
(* and an execution that is called again every second finds the lock free  *)
(* once: a request to start the plan holds it for an instant only.         *)
StarterProgress(x, s) ==
  StartCheck(x, s) \/ StartCommit(x, s) \/ StartAborts(x, s) \/ StartSchedule(x, s)
ExecProgress(x, r) ==
  \/ ExecLookup(x, r) \/ ExecBusy(x, r) \/ ExecLock(x, r) \/ ExecStart(x, r)
  \/ ExecFinish(x, r) \/ ExecRecord(x, r) \/ ExecRelease(x, r) \/ ExecFail(x, r)
ExecFindsFree(x, r) == run[r].plan \notin locked[x] /\ ExecLookup(x, r)
Replace(x) == StartProcess(x) \/ (x \notin running /\ Crash(x))

Fairness ==
  /\ \A x \in Process, s \in Starter : WF_vars(StarterProgress(x, s))
  /\ \A x \in Process, r \in Run :
       WF_vars(ExecProgress(x, r)) /\ SF_vars(ExecFindsFree(x, r)) /\ SF_vars(ExecLock(x, r))
  /\ \A x \in Process : WF_vars(Replace(x))

FairSpec == Spec /\ Fairness

-----------------------------------------------------------------------------
(* Properties.                                                             *)

Executing(x, r) == exec[x][r].pc \in {"running", "finished", "recorded"}

(* A plan is never executed twice at a time, whatever requests, jobs,      *)
(* retries, deletions and restarts come together.                          *)
NoReentry ==
  \A x, y \in Process, q, r \in Run :
    Executing(x, q) /\ Executing(y, r) /\ exec[x][q].plan = exec[y][r].plan
      => x = y /\ q = r

(* No plan has two runs queued or running.                                 *)
OneInFlight == \A p \in Plan : \A q, r \in InFlightRuns(p) : q = r

(* The scheduler implements the slots of PlanSlots: whatever threads,      *)
(* locks, jobs, edits and restarts do, a plan has one run in flight, which *)
(* comes in when there is none, goes from queued to running and leaves.    *)
Waiting(p) == {r \in Run : run[r].plan = p /\ run[r].status = "queued"}
Busy(p) == {r \in Run : run[r].plan = p /\ run[r].status = "running"}
Slots == INSTANCE PlanSlots WITH waiting <- [p \in Plan |-> Waiting(p)],
                                 executing <- [p \in Plan |-> Busy(p)]
ImplementsSlots == Slots!Spec

(* A run is marked as running only while a thread is at it, so that no run *)
(* blocks its plan for ever; when no process is up, the next start will    *)
(* fail it.                                                                *)
RunningIsOwned ==
  up # {} => \A r \in Run : run[r].status = "running" =>
    \E x \in up : exec[x][r].pc = "running" \/ exec[x][r] = Failing

(* A queued run is in somebody's hands: a job, the thread that inserted it *)
(* or the one that executes it, unless a scheduler has been stopped.  Runs *)
(* whose job is dropped or never added are the exception, but none that    *)
(* another run suffers from.                                               *)
QueuedIsScheduled ==
  \A x \in running, r \in Run \ MayMiss : run[r].status = "queued" =>
    \/ r \in runJob[x]
    \/ exec[x][r].pc \in {"looked", "locked", "failing"}
    \/ \E s \in Starter : starter[x][s] = [pc |-> "committed", run |-> r]

(* What a run ended with is final: nothing runs or fails it again.         *)
FinalStep ==
  \A r \in Run : run[r].status \in Terminal =>
    run'[r].status \in {run[r].status, "absent"}
TerminalIsFinal == [][FinalStep]_vars

(* Every queued run comes to an end, unless its own job is dropped as late *)
(* or never added; what becomes of the jobs of others does not keep it.    *)
QueuedRunsEnd ==
  \A r \in Run \ MayMiss : run[r].status = "queued" ~> run[r].status \notin InFlight

(* The record of a run that has ended, and that no thread is still at,     *)
(* shows the status of the run.  The code breaks it: the restart after a   *)
(* crash fails the run but not its record.                                 *)
RecordFollowsRun ==
  \A r \in Run : run[r].status \in Terminal /\ (\A x \in Process : exec[x][r] = Idle) =>
    record[r] = run[r].status
=============================================================================
