---------------------- MODULE InspectionSchedulerProofs ----------------------
(***************************************************************************)
(* Proofs about InspectionScheduler, for every set of plans, runs,         *)
(* processes, threads and requests, as long as no two processes overlap.   *)
(***************************************************************************)
EXTENDS PlanEdits, TLAPS

-----------------------------------------------------------------------------
(* The inductive invariant.                                                *)

(* The threads that hold the lock of plan p in process x.                  *)
StarterHolds(x, s, p) == starter[x][s].pc \in {"locked", "checked"} /\ starter[x][s].plan = p
ExecHolds(x, r, p) ==
  exec[x][r].pc \in {"locked", "running", "finished", "recorded"} /\ exec[x][r].plan = p

(* What a thread holds is locked, and a lock has one holder.               *)
LocksHeld ==
  \A x \in Process, p \in Plan :
    /\ \A s \in Starter : StarterHolds(x, s, p) => p \in locked[x]
    /\ \A r \in Run : ExecHolds(x, r, p) => p \in locked[x]
OneHolder ==
  \A x \in Process, p \in Plan :
    /\ \A s, t \in Starter : StarterHolds(x, s, p) /\ StarterHolds(x, t, p) => s = t
    /\ \A q, r \in Run : ExecHolds(x, q, p) /\ ExecHolds(x, r, p) => q = r
    /\ \A s \in Starter, r \in Run : ~(StarterHolds(x, s, p) /\ ExecHolds(x, r, p))

(* One process is up, and nothing goes on in the others.                   *)
OneUp == \A x, y \in up : x = y
DownIsIdle ==
  \A x \in Process \ up :
    (\A s \in Starter : starter[x][s] = Idle) /\ (\A r \in Run : exec[x][r] = Idle)

(* What a thread has read of its plan and run is still so.                 *)
CheckedIsFree ==
  \A x \in Process, s \in Starter :
    starter[x][s].pc = "checked" => InFlightRuns(starter[x][s].plan) = {}
ExecIsCurrent ==
  \A x \in Process, r \in Run :
    /\ exec[x][r].pc = "locked" => run[r].status = "queued"
    /\ exec[x][r].pc = "running" => run[r].status = "running"

Inv ==
  /\ TypeOK /\ LocksHeld /\ OneHolder /\ OneUp /\ DownIsIdle
  /\ CheckedIsFree /\ ExecIsCurrent /\ OneInFlight /\ RunningIsOwned

-----------------------------------------------------------------------------
(* Type correctness.                                                       *)

(* What a thread or a request goes on with has the type of its variable.   *)
LEMMA GoesType ==
  ASSUME TypeOK, NEW x \in Process, NEW s \in Starter, NEW state \in StarterState,
         Goes(s, x, state)
  PROVE  starter' \in [Process -> [Starter -> StarterState]]
  BY DEF TypeOK, Goes

LEMMA MovesType ==
  ASSUME TypeOK, NEW x \in Process, NEW r \in Run, NEW state \in ExecState,
         Moves(r, x, state)
  PROVE  exec' \in [Process -> [Run -> ExecState]]
  BY DEF TypeOK, Moves

LEMMA ReleaseType ==
  ASSUME TypeOK, NEW x \in Process, NEW p, Release(x, p)
  PROVE  locked' \in [Process -> SUBSET Plan]
  BY DEF TypeOK, Release

(* A thread that is not idle works on a plan or on a run.                  *)
LEMMA StarterPlan ==
  ASSUME TypeOK, NEW x \in Process, NEW s \in Starter
  PROVE  /\ starter[x][s].pc \in {"locked", "checked"} => starter[x][s].plan \in Plan
         /\ starter[x][s].pc = "committed" => starter[x][s].run \in Run
  BY DEF TypeOK, StarterState, Idle

LEMMA ExecPlan ==
  ASSUME TypeOK, NEW x \in Process, NEW r \in Run,
         exec[x][r].pc \in {"looked", "locked", "running", "finished", "recorded"}
  PROVE  /\ exec[x][r].plan \in Plan
         /\ exec[x][r] = [pc |-> exec[x][r].pc, plan |-> exec[x][r].plan]
<1>1. exec[x][r] \in ExecState
  BY DEF TypeOK
<1> QED
  BY <1>1 DEF ExecState, Idle

(* A row of inspection_runs keeps its type when its status changes.        *)
LEMMA RunType ==
  ASSUME TypeOK, NEW r \in Run, NEW status \in RunStatus,
         run' = [run EXCEPT ![r].status = status]
  PROVE  run' \in [Run -> [status : RunStatus, plan : Plan \cup {NoPlan}]]
  BY DEF TypeOK

LEMMA TypeInit == Init => TypeOK
  BY SchedulerAssumption DEF Init, TypeOK, NoRun, RunStatus, PlanState, StarterState, ExecState,
     EditorState, Idle

(* The steps of a thread that starts a plan.                               *)
LEMMA StarterTypes ==
  ASSUME TypeOK, NEW x \in Process, NEW s \in Starter, StarterStep(x, s)
  PROVE  TypeOK'
<1> USE DEF rows, process, jobs
<1>1. ASSUME NEW p \in Plan, StartLock(x, s, p)
      PROVE  TypeOK'
  <2>1. [pc |-> "locked", plan |-> p] \in StarterState
    BY DEF StarterState
  <2> QED
    BY <1>1, <2>1, GoesType DEF StartLock, TypeOK
<1>2. CASE StartCheck(x, s)
  <2>1. starter[x][s].plan \in Plan
    BY <1>2, StarterPlan DEF StartCheck
  <2>2. [pc |-> "checked", plan |-> starter[x][s].plan] \in StarterState /\ Idle \in StarterState
    BY <2>1 DEF StarterState
  <2>3. starter' \in [Process -> [Starter -> StarterState]]
    BY <1>2, <2>2, GoesType DEF StartCheck
  <2>4. locked' \in [Process -> SUBSET Plan]
    BY <1>2, ReleaseType DEF StartCheck, TypeOK
  <2> QED
    BY <1>2, <2>3, <2>4 DEF StartCheck, TypeOK
<1>3. CASE StartCommit(x, s)
  <2>1. starter[x][s].plan \in Plan
    BY <1>3, StarterPlan DEF StartCommit
  <2>2. PICK r \in Run :
          /\ run' = [run EXCEPT ![r] = [status |-> "queued", plan |-> starter[x][s].plan]]
          /\ record' = [record EXCEPT ![r] = "queued"]
          /\ Goes(s, x, [pc |-> "committed", run |-> r])
    BY <1>3 DEF StartCommit
  <2>3. [pc |-> "committed", run |-> r] \in StarterState
    BY DEF StarterState
  <2>4. starter' \in [Process -> [Starter -> StarterState]]
    BY <2>2, <2>3, GoesType
  <2>5. "queued" \in RunStatus
    BY DEF RunStatus, InFlight
  <2> QED
    BY <1>3, <2>1, <2>2, <2>4, <2>5, ReleaseType DEF StartCommit, TypeOK
<1>4. CASE StartAborts(x, s)
  <2>1. Idle \in StarterState
    BY DEF StarterState
  <2> QED
    BY <1>4, <2>1, GoesType, ReleaseType DEF StartAborts, TypeOK
<1>5. CASE StartSchedule(x, s)
  <2>1. Idle \in StarterState
    BY DEF StarterState
  <2>2. starter[x][s].run \in Run
    BY <1>5, StarterPlan DEF StartSchedule
  <2> QED
    BY <1>5, <2>1, <2>2, GoesType DEF StartSchedule, TypeOK
<1>6. CASE StartLosesRun(x, s)
  <2>1. Idle \in StarterState
    BY DEF StarterState
  <2> QED
    BY <1>6, <2>1, GoesType DEF StartLosesRun, TypeOK
<1> QED
  BY <1>1, <1>2, <1>3, <1>4, <1>5, <1>6 DEF StarterStep

(* The steps of a thread that executes a run.                              *)
LEMMA ExecTypes ==
  ASSUME TypeOK, NEW x \in Process, NEW r \in Run, ExecStep(x, r)
  PROVE  TypeOK'
<1> USE DEF rows, process, jobs
<1> DEFINE p == exec[x][r].plan
<1>a. Idle \in ExecState /\ Failing \in ExecState
  BY DEF ExecState, Failing
<1>b. \A q \in Plan, pc \in {"looked", "locked", "running", "finished", "recorded"} :
        [pc |-> pc, plan |-> q] \in ExecState
  BY DEF ExecState
<1>1. CASE ExecLookup(x, r)
  <2>1. run[r].plan \in Plan \cup {NoPlan}
    BY DEF TypeOK
  <2>2. exec' \in [Process -> [Run -> ExecState]]
    BY <1>1, <1>a, <1>b, <2>1, MovesType DEF ExecLookup, TypeOK
  <2> QED
    BY <1>1, <2>2 DEF ExecLookup, TypeOK
<1>2. CASE ExecMissed(x, r)
  BY <1>2 DEF ExecMissed, TypeOK
<1>3. CASE ExecBusy(x, r)
  BY <1>3, <1>a, MovesType DEF ExecBusy, CallAgain, TypeOK
<1>4. CASE ExecLock(x, r)
  <2>1. p \in Plan
    BY <1>4, ExecPlan DEF ExecLock
  <2>2. exec' \in [Process -> [Run -> ExecState]]
    BY <1>4, <1>a, <1>b, <2>1, MovesType DEF ExecLock
  <2>3. CASE UNCHANGED locked
    BY <1>4, <2>2, <2>3 DEF ExecLock, TypeOK
  <2>4. CASE locked' = [locked EXCEPT ![x] = @ \cup {p}]
    <3>1. locked' \in [Process -> SUBSET Plan]
      BY <2>1, <2>4 DEF TypeOK
    <3> QED
      BY <1>4, <2>2, <3>1 DEF ExecLock, TypeOK
  <2> QED
    BY <1>4, <2>3, <2>4 DEF ExecLock
<1>5. CASE ExecStart(x, r)
  <2>1. "running" \in RunStatus
    BY DEF RunStatus, InFlight
  <2>2. [pc |-> "running", plan |-> p] \in ExecState
    BY <1>5, <1>b, ExecPlan DEF ExecStart
  <2> QED
    BY <1>5, <2>1, <2>2, RunType, MovesType DEF ExecStart, Continues, TypeOK
<1>6. CASE ExecFinish(x, r)
  <2>1. Terminal \subseteq RunStatus
    BY DEF RunStatus
  <2>2. [pc |-> "finished", plan |-> p] \in ExecState
    BY <1>6, <1>b, ExecPlan DEF ExecFinish
  <2> QED
    BY <1>6, <2>1, <2>2, RunType, MovesType DEF ExecFinish, Continues, TypeOK
<1>7. CASE ExecRecord(x, r)
  <2>1. [pc |-> "recorded", plan |-> p] \in ExecState
    BY <1>7, <1>b, ExecPlan DEF ExecRecord
  <2> QED
    BY <1>7, <2>1, MovesType DEF ExecRecord, Continues, TypeOK
<1>8. CASE ExecRelease(x, r)
  BY <1>8, <1>a, MovesType, ReleaseType DEF ExecRelease, TypeOK
<1>9. CASE ExecRaises(x, r)
  BY <1>9, <1>a, MovesType, ReleaseType DEF ExecRaises, TypeOK
<1>10. CASE ExecFail(x, r)
  <2>1. AfterFailure(run[r].status) \in RunStatus
    BY DEF AfterFailure, RunStatus, Terminal, TypeOK
  <2>2. run' \in [Run -> [status : RunStatus, plan : Plan \cup {NoPlan}]]
    BY <1>10, <2>1, RunType DEF ExecFail
  <2> QED
    BY <1>10, <1>a, <2>1, <2>2, MovesType DEF ExecFail, TypeOK
<1> QED
  BY <1>1, <1>2, <1>3, <1>4, <1>5, <1>6, <1>7, <1>8, <1>9, <1>10 DEF ExecStep

(* The steps of a request that edits a plan.                               *)
LEMMA EditorTypes ==
  ASSUME TypeOK, NEW x \in Process, NEW e \in Editor, EditorStep(x, e)
  PROVE  TypeOK'
<1> USE DEF rows, process, jobs
<1>1. editor[x][e].pc \in {"sync", "act", "delete"} => editor[x][e].plan \in Plan
  BY DEF TypeOK, EditorState, Idle
<1>2. ASSUME NEW state \in EditorState, Edits(e, x, state)
      PROVE  editor' \in [Process -> [Editor -> EditorState]]
  BY <1>2 DEF Edits, TypeOK
<1>3. Idle \in EditorState
  BY DEF EditorState
<1>4. ASSUME NEW p \in Plan, NEW enabled \in BOOLEAN, EditPlan(x, e, p, enabled)
      PROVE  TypeOK'
  <2>1. [pc |-> "sync", plan |-> p] \in EditorState
    BY DEF EditorState
  <2>2. editor' \in [Process -> [Editor -> EditorState]]
    BY <1>2, <1>4, <2>1 DEF EditPlan
  <2> QED
    BY <1>4, <2>2 DEF EditPlan, TypeOK, PlanState
<1>5. CASE SyncRead(x, e)
  <2>1. [pc |-> "act", plan |-> editor[x][e].plan, enabled |-> plan[editor[x][e].plan] = "enabled"]
          \in EditorState
    BY <1>1, <1>5 DEF SyncRead, EditorState
  <2>2. editor' \in [Process -> [Editor -> EditorState]]
    BY <1>2, <1>3, <1>5, <2>1 DEF SyncRead
  <2> QED
    BY <1>5, <2>2 DEF SyncRead, TypeOK
<1>6. CASE SyncAct(x, e)
  <2>1. editor' \in [Process -> [Editor -> EditorState]]
    BY <1>2, <1>3, <1>6 DEF SyncAct
  <2> QED
    BY <1>1, <1>6, <2>1 DEF SyncAct, TypeOK
<1>7. ASSUME NEW p \in Plan, RemoveJob(x, e, p)
      PROVE  TypeOK'
  <2>1. [pc |-> "delete", plan |-> p] \in EditorState
    BY DEF EditorState
  <2>2. editor' \in [Process -> [Editor -> EditorState]]
    BY <1>2, <1>7, <2>1 DEF RemoveJob
  <2> QED
    BY <1>7, <2>2 DEF RemoveJob, TypeOK
<1>8. CASE DeletePlan(x, e)
  <2>1. editor' \in [Process -> [Editor -> EditorState]]
    BY <1>2, <1>3, <1>8 DEF DeletePlan
  <2>2. run' \in [Run -> [status : RunStatus, plan : Plan \cup {NoPlan}]]
    BY <1>8 DEF DeletePlan, TypeOK
  <2> QED
    BY <1>1, <1>8, <2>1, <2>2 DEF DeletePlan, TypeOK, PlanState
<1>9. ASSUME SyncFails(x, e) \/ DeleteFails(x, e)
      PROVE  TypeOK'
  <2>1. editor' \in [Process -> [Editor -> EditorState]]
    BY <1>2, <1>3, <1>9 DEF SyncFails, DeleteFails
  <2> QED
    BY <1>9, <2>1 DEF SyncFails, DeleteFails, TypeOK
<1> QED
  BY <1>4, <1>5, <1>6, <1>7, <1>8, <1>9 DEF EditorStep

(* Retention and the life of a process.                                    *)
LEMMA ProcessTypes ==
  ASSUME TypeOK, NEW x \in Process, ProcessStep(x)
  PROVE  TypeOK'
<1> USE DEF rows, process, jobs
<1>1. CASE StartProcess(x)
  <2>1. "failed" \in RunStatus
    BY DEF RunStatus, Terminal
  <2>2. run' \in [Run -> [status : RunStatus, plan : Plan \cup {NoPlan}]]
    BY <1>1, <2>1 DEF StartProcess, TypeOK
  <2>3. planJob' \in [Process -> SUBSET Plan] /\ runJob' \in [Process -> SUBSET Run]
    BY <1>1 DEF StartProcess, TypeOK
  <2> QED
    BY <1>1, <2>2, <2>3 DEF StartProcess, TypeOK
<1>2. ASSUME crashes < MaxCrashes
      PROVE  crashes + 1 \in 0..MaxCrashes
  BY <1>2, SchedulerAssumption DEF TypeOK
<1>3. CASE StopScheduler(x)
  BY <1>2, <1>3 DEF StopScheduler, TypeOK
<1>4. CASE Crash(x)
  <2>1. Idle \in StarterState /\ Idle \in ExecState /\ Idle \in EditorState
    BY DEF StarterState, ExecState, EditorState
  <2>2. /\ starter' \in [Process -> [Starter -> StarterState]]
        /\ exec' \in [Process -> [Run -> ExecState]]
        /\ editor' \in [Process -> [Editor -> EditorState]]
    BY <1>4, <2>1 DEF Crash, TypeOK
  <2>3. /\ locked' \in [Process -> SUBSET Plan]
        /\ planJob' \in [Process -> SUBSET Plan]
        /\ runJob' \in [Process -> SUBSET Run]
    BY <1>4 DEF Crash, TypeOK
  <2>4. crashes' \in 0..MaxCrashes
    BY <1>2, <1>4 DEF Crash, TypeOK
  <2> QED
    BY <1>4, <2>2, <2>3, <2>4 DEF Crash, TypeOK
<1> QED
  BY <1>1, <1>3, <1>4 DEF ProcessStep

LEMMA TypeStep ==
  ASSUME TypeOK, [Next]_vars
  PROVE  TypeOK'
<1>1. ASSUME NEW r \in Run, PurgeRun(r)
      PROVE  TypeOK'
  BY <1>1 DEF PurgeRun, NoRun, RunStatus, process, jobs, TypeOK
<1>2. CASE UNCHANGED vars
  BY <1>2 DEF vars, rows, process, jobs, TypeOK
<1> QED
  BY <1>1, <1>2, StarterTypes, ExecTypes, EditorTypes, ProcessTypes DEF Next

(* Every variable keeps its type.                                          *)
THEOREM SchedulerTypes == Spec => []TypeOK
<1> QED
  BY TypeInit, TypeStep, PTL DEF Spec

-----------------------------------------------------------------------------
(* The locks.                                                              *)

(* One entry of starter, exec or locked changes at a time.                 *)
LEMMA GoesFrame ==
  ASSUME TypeOK, NEW x \in Process, NEW s \in Starter, NEW state, Goes(s, x, state),
         NEW y \in Process, NEW t \in Starter
  PROVE  starter'[y][t] = IF y = x /\ t = s THEN state ELSE starter[y][t]
  BY DEF TypeOK, Goes

LEMMA MovesFrame ==
  ASSUME TypeOK, NEW x \in Process, NEW r \in Run, NEW state, Moves(r, x, state),
         NEW y \in Process, NEW q \in Run
  PROVE  exec'[y][q] = IF y = x /\ q = r THEN state ELSE exec[y][q]
  BY DEF TypeOK, Moves

LEMMA ReleaseFrame ==
  ASSUME TypeOK, NEW x \in Process, NEW p, Release(x, p), NEW y \in Process
  PROVE  locked'[y] = IF y = x THEN locked[y] \ {p} ELSE locked[y]
  BY DEF TypeOK, Release

LocksOK == LocksHeld /\ OneHolder

(* A thread takes a lock that is free, ...                                 *)
LEMMA StarterTakes ==
  ASSUME TypeOK, LocksOK, NEW x \in Process, NEW s \in Starter, NEW p \in Plan,
         p \notin locked[x], locked' = [locked EXCEPT ![x] = @ \cup {p}], UNCHANGED exec,
         Goes(s, x, [pc |-> "locked", plan |-> p])
  PROVE  LocksOK'
<1>1. \A y \in Process : locked'[y] = IF y = x THEN locked[y] \cup {p} ELSE locked[y]
  BY DEF TypeOK
<1>2. \A y \in Process, t \in Starter :
        starter'[y][t] = IF y = x /\ t = s THEN [pc |-> "locked", plan |-> p] ELSE starter[y][t]
  BY GoesFrame
<1>3. \A y \in Process, t \in Starter, q \in Plan :
        StarterHolds(y, t, q)' <=> IF y = x /\ t = s THEN q = p ELSE StarterHolds(y, t, q)
  BY <1>2 DEF StarterHolds
<1>4. \A y \in Process, r \in Run, q \in Plan : ExecHolds(y, r, q)' <=> ExecHolds(y, r, q)
  BY DEF ExecHolds
<1> QED
  BY <1>1, <1>3, <1>4 DEF LocksOK, LocksHeld, OneHolder

LEMMA ExecTakes ==
  ASSUME TypeOK, LocksOK, NEW x \in Process, NEW r \in Run, NEW p \in Plan,
         p \notin locked[x], locked' = [locked EXCEPT ![x] = @ \cup {p}], UNCHANGED starter,
         Moves(r, x, [pc |-> "locked", plan |-> p])
  PROVE  LocksOK'
<1>1. \A y \in Process : locked'[y] = IF y = x THEN locked[y] \cup {p} ELSE locked[y]
  BY DEF TypeOK
<1>2. \A y \in Process, q \in Run :
        exec'[y][q] = IF y = x /\ q = r THEN [pc |-> "locked", plan |-> p] ELSE exec[y][q]
  BY MovesFrame
<1> QED
  BY <1>1, <1>2 DEF LocksOK, LocksHeld, OneHolder, StarterHolds, ExecHolds

(* ... gives back its own, ...                                             *)
LEMMA StarterReleases ==
  ASSUME TypeOK, LocksOK, NEW x \in Process, NEW s \in Starter, NEW p \in Plan,
         StarterHolds(x, s, p), Release(x, p), UNCHANGED exec,
         NEW state, Goes(s, x, state), state.pc \notin {"locked", "checked"}
  PROVE  LocksOK'
<1>1. \A y \in Process : locked'[y] = IF y = x THEN locked[y] \ {p} ELSE locked[y]
  BY ReleaseFrame
<1>2. \A y \in Process, t \in Starter :
        starter'[y][t] = IF y = x /\ t = s THEN state ELSE starter[y][t]
  BY GoesFrame
<1>3. \A y \in Process, t \in Starter, q \in Plan :
        StarterHolds(y, t, q)' <=> ~(y = x /\ t = s) /\ StarterHolds(y, t, q)
  BY <1>2 DEF StarterHolds
<1>4. \A y \in Process, r \in Run, q \in Plan : ExecHolds(y, r, q)' <=> ExecHolds(y, r, q)
  BY DEF ExecHolds
<1>5. \A t \in Starter : StarterHolds(x, t, p) => t = s
  BY DEF LocksOK, OneHolder
<1>6. \A q \in Run : ~ExecHolds(x, q, p)
  BY DEF LocksOK, OneHolder
<1>7. LocksHeld'
  BY <1>1, <1>3, <1>4, <1>5, <1>6 DEF LocksOK, LocksHeld
<1>8. OneHolder'
  BY <1>3, <1>4 DEF LocksOK, OneHolder
<1> QED
  BY <1>7, <1>8 DEF LocksOK

LEMMA ExecReleases ==
  ASSUME TypeOK, LocksOK, NEW x \in Process, NEW r \in Run, NEW p \in Plan,
         ExecHolds(x, r, p), Release(x, p), UNCHANGED starter,
         NEW state, Moves(r, x, state), state.pc \in {"idle", "failing"}
  PROVE  LocksOK'
<1>1. \A y \in Process : locked'[y] = IF y = x THEN locked[y] \ {p} ELSE locked[y]
  BY ReleaseFrame
<1>2. \A y \in Process, q \in Run :
        exec'[y][q] = IF y = x /\ q = r THEN state ELSE exec[y][q]
  BY MovesFrame
<1>3. \A y \in Process, q \in Run, o \in Plan :
        ExecHolds(y, q, o)' <=> ~(y = x /\ q = r) /\ ExecHolds(y, q, o)
  BY <1>2 DEF ExecHolds
<1>4. \A y \in Process, s \in Starter, o \in Plan : StarterHolds(y, s, o)' <=> StarterHolds(y, s, o)
  BY DEF StarterHolds
<1>5. \A s \in Starter : ~StarterHolds(x, s, p)
  BY DEF LocksOK, OneHolder
<1>6. \A q \in Run : ExecHolds(x, q, p) => q = r
  BY DEF LocksOK, OneHolder
<1>7. LocksHeld'
  BY <1>1, <1>3, <1>4, <1>5, <1>6 DEF LocksOK, LocksHeld
<1>8. OneHolder'
  BY <1>3, <1>4 DEF LocksOK, OneHolder
<1> QED
  BY <1>7, <1>8 DEF LocksOK

(* ... or goes on without touching any.                                    *)
LEMMA StarterKeeps ==
  ASSUME TypeOK, LocksOK, NEW x \in Process, NEW s \in Starter, UNCHANGED <<locked, exec>>,
         NEW state, Goes(s, x, state),
         \A p \in Plan : state.pc \in {"locked", "checked"} /\ state.plan = p => StarterHolds(x, s, p)
  PROVE  LocksOK'
<1>1. \A y \in Process, t \in Starter :
        starter'[y][t] = IF y = x /\ t = s THEN state ELSE starter[y][t]
  BY GoesFrame
<1> QED
  BY <1>1 DEF LocksOK, LocksHeld, OneHolder, StarterHolds, ExecHolds

LEMMA ExecKeeps ==
  ASSUME TypeOK, LocksOK, NEW x \in Process, NEW r \in Run, UNCHANGED <<locked, starter>>,
         NEW state, Moves(r, x, state),
         \A p \in Plan : state.pc \in {"locked", "running", "finished", "recorded"} /\ state.plan = p
           => ExecHolds(x, r, p)
  PROVE  LocksOK'
<1>1. \A y \in Process, q \in Run :
        exec'[y][q] = IF y = x /\ q = r THEN state ELSE exec[y][q]
  BY MovesFrame
<1> QED
  BY <1>1 DEF LocksOK, LocksHeld, OneHolder, StarterHolds, ExecHolds

LEMMA LocksUnchanged ==
  ASSUME LocksOK, UNCHANGED <<locked, starter, exec>>
  PROVE  LocksOK'
  BY DEF LocksOK, LocksHeld, OneHolder, StarterHolds, ExecHolds

LEMMA StarterLocks ==
  ASSUME TypeOK, LocksOK, NEW x \in Process, NEW s \in Starter, StarterStep(x, s)
  PROVE  LocksOK'
<1> USE DEF rows, process, jobs
<1> DEFINE p == starter[x][s].plan
<1>a. Idle.pc = "idle"
  BY DEF Idle
<1>1. ASSUME NEW q \in Plan, StartLock(x, s, q)
      PROVE  LocksOK'
  BY <1>1, StarterTakes DEF StartLock
<1>2. CASE StartCheck(x, s)
  <2>1. p \in Plan /\ StarterHolds(x, s, p)
    BY <1>2, StarterPlan DEF StartCheck, StarterHolds
  <2>2. CASE Goes(s, x, [pc |-> "checked", plan |-> p]) /\ UNCHANGED locked
    BY <1>2, <2>1, <2>2, StarterKeeps DEF StartCheck
  <2>3. CASE Goes(s, x, Idle) /\ Release(x, p)
    BY <1>2, <1>a, <2>1, <2>3, StarterReleases DEF StartCheck
  <2> QED
    BY <1>2, <2>2, <2>3 DEF StartCheck
<1>3. CASE StartCommit(x, s)
  <2>1. p \in Plan /\ StarterHolds(x, s, p)
    BY <1>3, StarterPlan DEF StartCommit, StarterHolds
  <2>2. PICK r \in Run : Goes(s, x, [pc |-> "committed", run |-> r])
    BY <1>3 DEF StartCommit
  <2> QED
    BY <1>3, <2>1, <2>2, StarterReleases DEF StartCommit
<1>4. CASE StartAborts(x, s)
  <2>1. p \in Plan /\ StarterHolds(x, s, p)
    BY <1>4, StarterPlan DEF StartAborts, StarterHolds
  <2> QED
    BY <1>4, <1>a, <2>1, StarterReleases DEF StartAborts
<1>5. CASE StartSchedule(x, s)
  BY <1>5, <1>a, StarterKeeps DEF StartSchedule
<1>6. CASE StartLosesRun(x, s)
  BY <1>6, <1>a, StarterKeeps DEF StartLosesRun
<1> QED
  BY <1>1, <1>2, <1>3, <1>4, <1>5, <1>6 DEF StarterStep

LEMMA ExecLocks ==
  ASSUME TypeOK, LocksOK, NEW x \in Process, NEW r \in Run, ExecStep(x, r)
  PROVE  LocksOK'
<1> USE DEF rows, process, jobs
<1> DEFINE p == exec[x][r].plan
<1>a. Idle.pc = "idle" /\ Failing.pc = "failing"
  BY DEF Idle, Failing
<1>1. CASE ExecLookup(x, r)
  <2>1. CASE UNCHANGED exec
    BY <1>1, <2>1, LocksUnchanged DEF ExecLookup
  <2>2. CASE Moves(r, x, Failing)
    BY <1>1, <1>a, <2>2, ExecKeeps DEF ExecLookup
  <2>3. CASE Moves(r, x, [pc |-> "looked", plan |-> run[r].plan])
    BY <1>1, <2>3, ExecKeeps DEF ExecLookup
  <2> QED
    BY <1>1, <2>1, <2>2, <2>3 DEF ExecLookup
<1>2. CASE ExecMissed(x, r)
  BY <1>2, LocksUnchanged DEF ExecMissed
<1>3. CASE ExecBusy(x, r)
  BY <1>3, <1>a, ExecKeeps DEF ExecBusy
<1>4. CASE ExecLock(x, r)
  <2>1. p \in Plan /\ p \notin locked[x]
    BY <1>4, ExecPlan DEF ExecLock
  <2>2. CASE Moves(r, x, Idle) /\ UNCHANGED locked
    BY <1>4, <1>a, <2>2, ExecKeeps DEF ExecLock
  <2>3. CASE Moves(r, x, Failing) /\ UNCHANGED locked
    BY <1>4, <1>a, <2>3, ExecKeeps DEF ExecLock
  <2>4. CASE /\ Moves(r, x, [pc |-> "locked", plan |-> p])
             /\ locked' = [locked EXCEPT ![x] = @ \cup {p}]
    BY <1>4, <2>1, <2>4, ExecTakes DEF ExecLock
  <2> QED
    BY <1>4, <2>2, <2>3, <2>4 DEF ExecLock
<1>5. CASE ExecStart(x, r) \/ ExecFinish(x, r) \/ ExecRecord(x, r)
  <2>1. /\ UNCHANGED <<locked, starter>>
        /\ exec[x][r].pc \in {"locked", "running", "finished", "recorded"}
        /\ \E pc \in {"running", "finished", "recorded"} : Continues(r, x, pc)
    BY <1>5 DEF ExecStart, ExecFinish, ExecRecord
  <2>2. PICK pc \in {"running", "finished", "recorded"} : Moves(r, x, [pc |-> pc, plan |-> p])
    BY <2>1 DEF Continues
  <2> QED
    BY <2>1, <2>2, ExecKeeps DEF ExecHolds
<1>6. CASE ExecRelease(x, r) \/ ExecRaises(x, r)
  <2>1. /\ exec[x][r].pc \in {"locked", "running", "finished", "recorded"}
        /\ Release(x, p) /\ UNCHANGED starter
        /\ Moves(r, x, Idle) \/ Moves(r, x, Failing)
    BY <1>6 DEF ExecRelease, ExecRaises
  <2>2. p \in Plan /\ ExecHolds(x, r, p)
    BY <2>1, ExecPlan DEF ExecHolds
  <2> QED
    BY <1>a, <2>1, <2>2, ExecReleases
<1>7. CASE ExecFail(x, r)
  BY <1>7, <1>a, ExecKeeps DEF ExecFail
<1> QED
  BY <1>1, <1>2, <1>3, <1>4, <1>5, <1>6, <1>7 DEF ExecStep

LEMMA CrashLocks ==
  ASSUME TypeOK, LocksOK, NEW x \in Process, Crash(x)
  PROVE  LocksOK'
<1>1. \A y \in Process : locked'[y] = IF y = x THEN {} ELSE locked[y]
  BY DEF TypeOK, Crash
<1>2. \A y \in Process, s \in Starter : starter'[y][s] = IF y = x THEN Idle ELSE starter[y][s]
  BY DEF TypeOK, Crash
<1>3. \A y \in Process, r \in Run : exec'[y][r] = IF y = x THEN Idle ELSE exec[y][r]
  BY DEF TypeOK, Crash
<1>4. Idle.pc = "idle"
  BY DEF Idle
<1> QED
  BY <1>1, <1>2, <1>3, <1>4 DEF LocksOK, LocksHeld, OneHolder, StarterHolds, ExecHolds

LEMMA EditorFrame ==
  ASSUME NEW x \in Process, NEW e \in Editor, EditorStep(x, e)
  PROVE  UNCHANGED <<up, locked, starter, exec>>
  BY DEF EditorStep, EditPlan, SyncRead, SyncAct, SyncFails, DeleteFails, RemoveJob, DeletePlan, process

LEMMA LocksStep ==
  ASSUME TypeOK, LocksOK, [Next]_vars
  PROVE  LocksOK'
<1>1. ASSUME NEW r \in Run, PurgeRun(r)
      PROVE  LocksOK'
  BY <1>1, LocksUnchanged DEF PurgeRun
<1>2. ASSUME NEW x \in Process, ProcessStep(x)
      PROVE  LocksOK'
  BY <1>2, LocksUnchanged, CrashLocks DEF ProcessStep, StartProcess, StopScheduler
<1>3. ASSUME NEW x \in Process, NEW e \in Editor, EditorStep(x, e)
      PROVE  LocksOK'
  BY <1>3, EditorFrame, LocksUnchanged
<1>4. CASE UNCHANGED vars
  BY <1>4, LocksUnchanged DEF vars
<1> QED
  BY <1>1, <1>2, <1>3, <1>4, StarterLocks, ExecLocks DEF Next

-----------------------------------------------------------------------------
(* The process that is up.                                                 *)

(* Only threads of a process that is up do anything, each its own step.    *)
LEMMA StarterEffect ==
  ASSUME TypeOK, DownIsIdle, NEW x \in Process, NEW s \in Starter, StarterStep(x, s)
  PROVE  /\ x \in up
         /\ UNCHANGED <<up, exec>>
         /\ \E state : Goes(s, x, state)
<1>1. x \notin up => starter[x][s].pc = "idle"
  BY DEF DownIsIdle, Idle
<1> QED
  BY <1>1 DEF StarterStep, StartLock, StartCheck, StartCommit, StartAborts, StartSchedule, StartLosesRun, process

LEMMA ExecEffect ==
  ASSUME TypeOK, DownIsIdle, NEW x \in Process, NEW r \in Run, ExecStep(x, r)
  PROVE  /\ x \in up
         /\ UNCHANGED <<up, starter>>
         /\ UNCHANGED exec \/ \E state : Moves(r, x, state)
<1> USE DEF process
<1>1. x \notin up => exec[x][r].pc = "idle"
  BY DEF DownIsIdle, Idle
<1>2. running \subseteq up
  BY DEF TypeOK
<1>3. ASSUME ExecLookup(x, r) \/ ExecMissed(x, r)
      PROVE  /\ x \in up
             /\ UNCHANGED <<up, starter>>
             /\ UNCHANGED exec \/ \E state : Moves(r, x, state)
  BY <1>2, <1>3 DEF ExecLookup, ExecMissed
<1>4. ASSUME ~ExecLookup(x, r), ~ExecMissed(x, r)
      PROVE  /\ x \in up
             /\ UNCHANGED <<up, starter>>
             /\ \E state : Moves(r, x, state)
  <2>1. exec[x][r].pc # "idle"
    BY <1>4 DEF ExecStep, ExecBusy, ExecLock, ExecStart, ExecFinish, ExecRecord, ExecRelease,
       ExecRaises, ExecFail, Failing
  <2>2. UNCHANGED <<up, starter>>
    BY <1>4 DEF ExecStep, ExecBusy, ExecLock, ExecStart, ExecFinish, ExecRecord, ExecRelease,
       ExecRaises, ExecFail
  <2>3. \E state : Moves(r, x, state)
    BY <1>4 DEF ExecStep, ExecBusy, ExecLock, ExecStart, ExecFinish, ExecRecord, ExecRelease,
       ExecRaises, ExecFail, Continues
  <2> QED
    BY <1>1, <2>1, <2>2, <2>3
<1> QED
  BY <1>3, <1>4

UpOK == OneUp /\ DownIsIdle

LEMMA UpStep ==
  ASSUME ~Overlap, TypeOK, UpOK, [Next]_vars
  PROVE  UpOK'
<1> USE DEF UpOK, OneUp, DownIsIdle
<1>1. ASSUME NEW x \in Process, NEW s \in Starter, StarterStep(x, s)
      PROVE  UpOK'
  <2>1. PICK state : Goes(s, x, state)
    BY <1>1, StarterEffect
  <2>2. \A y \in Process, t \in Starter : y # x => starter'[y][t] = starter[y][t]
    BY <2>1, GoesFrame
  <2> QED
    BY <1>1, <2>2, StarterEffect
<1>2. ASSUME NEW x \in Process, NEW r \in Run, ExecStep(x, r)
      PROVE  UpOK'
  <2>1. \A y \in Process, q \in Run : y # x => exec'[y][q] = exec[y][q]
    <3>1. CASE UNCHANGED exec
      BY <3>1
    <3>2. ASSUME NEW state, Moves(r, x, state)
          PROVE  \A y \in Process, q \in Run : y # x => exec'[y][q] = exec[y][q]
      BY <3>2, MovesFrame
    <3> QED
      BY <1>2, <3>1, <3>2, ExecEffect
  <2> QED
    BY <1>2, <2>1, ExecEffect
<1>3. ASSUME NEW x \in Process, NEW e \in Editor, EditorStep(x, e)
      PROVE  UpOK'
  BY <1>3, EditorFrame
<1>4. ASSUME NEW r \in Run, PurgeRun(r)
      PROVE  UpOK'
  BY <1>4 DEF PurgeRun, process
<1>5. ASSUME NEW x \in Process, StartProcess(x)
      PROVE  UpOK'
  BY <1>5 DEF StartProcess
<1>6. ASSUME NEW x \in Process, StopScheduler(x)
      PROVE  UpOK'
  BY <1>6 DEF StopScheduler
<1>7. ASSUME NEW x \in Process, Crash(x)
      PROVE  UpOK'
  <2>1. /\ \A s \in Starter : starter'[x][s] = Idle
        /\ \A r \in Run : exec'[x][r] = Idle
    BY <1>7 DEF Crash, TypeOK
  <2>2. \A y \in Process : y # x => starter'[y] = starter[y] /\ exec'[y] = exec[y]
    BY <1>7 DEF Crash, TypeOK
  <2> QED
    BY <1>7, <2>1, <2>2 DEF Crash
<1>8. CASE UNCHANGED vars
  BY <1>8 DEF vars, process
<1> QED
  BY <1>1, <1>2, <1>3, <1>4, <1>5, <1>6, <1>7, <1>8 DEF Next, ProcessStep

-----------------------------------------------------------------------------
(* Who is at a run.                                                        *)

(* What thread r of process x knows of its run, and that it is the one.    *)
Current(x, r) ==
  /\ exec[x][r].pc = "locked" => run[r].status = "queued"
  /\ exec[x][r].pc = "running" => run[r].status = "running"
Owned(x, r) ==
  run[r].status = "running" => exec[x][r].pc = "running" \/ exec[x][r] = Failing

OwnersOK == ExecIsCurrent /\ RunningIsOwned

LEMMA OwnersByThread ==
  ASSUME OneUp
  PROVE  OwnersOK <=> /\ \A x \in Process, r \in Run : Current(x, r)
                      /\ \A x \in up, r \in Run : Owned(x, r)
  BY DEF OwnersOK, ExecIsCurrent, RunningIsOwned, Current, Owned, OneUp

LEMMA OwnersByThreadNext ==
  ASSUME OneUp'
  PROVE  OwnersOK' <=> /\ \A x \in Process, r \in Run : Current(x, r)'
                       /\ \A x \in up', r \in Run : Owned(x, r)'
  BY DEF OwnersOK, ExecIsCurrent, RunningIsOwned, Current, Owned, OneUp

(* A thread that executes a run changes that run only, never its plan; it  *)
(* neither puts it in flight nor touches it once it has ended.             *)
LEMMA ExecRun ==
  ASSUME TypeOK, NEW x \in Process, NEW r \in Run, Current(x, r), Owned(x, r), ExecStep(x, r)
  PROVE  /\ Current(x, r)' /\ Owned(x, r)'
         /\ \A q \in Run : q # r => run'[q] = run[q]
         /\ run'[r].plan = run[r].plan
         /\ run'[r].status \in InFlight => run[r].status \in InFlight
         /\ run[r].status \in Terminal => run'[r].status = run[r].status
<1> USE DEF rows, process, jobs, Current, Owned
<1>a. Idle.pc = "idle" /\ Failing.pc = "failing" /\ Idle # Failing
  BY DEF Idle, Failing
<1>b. ASSUME NEW state, Moves(r, x, state)
      PROVE  exec'[x][r] = state
  BY <1>b, MovesFrame
<1>c. ASSUME NEW status, run' = [run EXCEPT ![r].status = status]
      PROVE  /\ run'[r].status = status /\ run'[r].plan = run[r].plan
             /\ \A q \in Run : q # r => run'[q] = run[q]
  BY <1>c DEF TypeOK
<1>1. CASE ExecLookup(x, r)
  <2>1. UNCHANGED run /\ run[r].status # "running"
    BY <1>1, <1>a DEF ExecLookup
  <2>2. exec'[x][r] = exec[x][r] \/ exec'[x][r] = Failing
          \/ exec'[x][r] = [pc |-> "looked", plan |-> run[r].plan]
    BY <1>1, <1>b DEF ExecLookup
  <2>3. exec'[x][r].pc \notin {"locked", "running"}
    BY <1>1, <1>a, <2>2 DEF ExecLookup
  <2> QED
    BY <2>1, <2>3
<1>2. CASE ExecMissed(x, r)
  BY <1>2 DEF ExecMissed
<1>3. CASE ExecBusy(x, r)
  <2>1. UNCHANGED run /\ run[r].status # "running" /\ exec'[x][r] = Idle
    BY <1>3, <1>a, <1>b DEF ExecBusy
  <2> QED
    BY <1>a, <2>1
<1>4. CASE ExecLock(x, r)
  <2>1. UNCHANGED run /\ run[r].status # "running"
    BY <1>4, <1>a DEF ExecLock
  <2>2. \/ exec'[x][r] = Idle
        \/ exec'[x][r] = Failing
        \/ run[r].status = "queued" /\ exec'[x][r] = [pc |-> "locked", plan |-> exec[x][r].plan]
    BY <1>4, <1>b DEF ExecLock
  <2> QED
    BY <1>a, <2>1, <2>2
<1>5. CASE ExecStart(x, r)
  <2>1. exec'[x][r] = [pc |-> "running", plan |-> exec[x][r].plan] /\ run[r].status = "queued"
    BY <1>5, <1>b DEF ExecStart, Continues
  <2>2. /\ run'[r].status = "running" /\ run'[r].plan = run[r].plan
        /\ \A q \in Run : q # r => run'[q] = run[q]
    BY <1>5, <1>c DEF ExecStart
  <2> QED
    BY <2>1, <2>2 DEF InFlight, Terminal
<1>6. CASE ExecFinish(x, r)
  <2>1. exec'[x][r] = [pc |-> "finished", plan |-> exec[x][r].plan] /\ run[r].status = "running"
    BY <1>6, <1>b DEF ExecFinish, Continues
  <2>2. PICK t \in Terminal : run' = [run EXCEPT ![r].status = t]
    BY <1>6 DEF ExecFinish
  <2>3. /\ run'[r].status = t /\ run'[r].plan = run[r].plan
        /\ \A q \in Run : q # r => run'[q] = run[q]
    BY <1>c, <2>2
  <2> QED
    BY <2>1, <2>3 DEF InFlight, Terminal
<1>7. CASE ExecRecord(x, r)
  <2>1. UNCHANGED run /\ run[r].status # "running"
    BY <1>7, <1>a DEF ExecRecord
  <2>2. exec'[x][r] = [pc |-> "recorded", plan |-> exec[x][r].plan]
    BY <1>7, <1>b DEF ExecRecord, Continues
  <2> QED
    BY <2>1, <2>2
<1>8. CASE ExecRelease(x, r)
  <2>1. UNCHANGED run /\ run[r].status # "running" /\ exec'[x][r] = Idle
    BY <1>8, <1>a, <1>b DEF ExecRelease
  <2> QED
    BY <1>a, <2>1
<1>9. CASE ExecRaises(x, r)
  <2>1. UNCHANGED run /\ exec'[x][r] = Failing
    BY <1>9, <1>b DEF ExecRaises
  <2> QED
    BY <1>a, <2>1
<1>10. CASE ExecFail(x, r)
  <2>1. exec'[x][r] = Idle
    BY <1>10, <1>b DEF ExecFail
  <2>2. run' = [run EXCEPT ![r].status = AfterFailure(run[r].status)]
    BY <1>10 DEF ExecFail
  <2>3. AfterFailure(run[r].status) \notin InFlight
    BY DEF AfterFailure, InFlight
  <2>4. run[r].status \in Terminal => AfterFailure(run[r].status) = run[r].status
    BY DEF AfterFailure, InFlight, Terminal
  <2> QED
    BY <1>a, <1>c, <2>1, <2>2, <2>3, <2>4 DEF InFlight
<1> QED
  BY <1>1, <1>2, <1>3, <1>4, <1>5, <1>6, <1>7, <1>8, <1>9, <1>10 DEF ExecStep

(* Starting a plan inserts a run, editing plans detaches runs.             *)
LEMMA StarterRun ==
  ASSUME TypeOK, NEW x \in Process, NEW s \in Starter, StarterStep(x, s), NEW q \in Run
  PROVE  run'[q] = run[q] \/ (run[q].status = "absent" /\ run'[q].status = "queued")
<1>1. CASE StartCommit(x, s)
  <2>1. PICK r \in Run :
          /\ run[r].status = "absent"
          /\ run' = [run EXCEPT ![r] = [status |-> "queued", plan |-> starter[x][s].plan]]
    BY <1>1 DEF StartCommit
  <2>2. run \in [Run -> [status : RunStatus, plan : Plan \cup {NoPlan}]]
    BY DEF TypeOK
  <2> QED
    BY <2>1, <2>2
<1>2. CASE ~StartCommit(x, s)
  <2>1. UNCHANGED run
    BY <1>2 DEF StarterStep, StartLock, StartCheck, StartAborts, StartSchedule, StartLosesRun, rows
  <2> QED
    BY <2>1
<1> QED
  BY <1>1, <1>2

LEMMA EditorRun ==
  ASSUME TypeOK, NEW x \in Process, NEW e \in Editor, EditorStep(x, e), NEW q \in Run
  PROVE  /\ run'[q].status = run[q].status
         /\ run'[q].plan = run[q].plan \/ run'[q].plan = NoPlan
<1>1. CASE DeletePlan(x, e)
  BY <1>1 DEF DeletePlan
<1>2. CASE ~DeletePlan(x, e)
  BY <1>2 DEF EditorStep, EditPlan, SyncRead, SyncAct, SyncFails, DeleteFails, RemoveJob, rows
<1> QED
  BY <1>1, <1>2

LEMMA OwnersStep ==
  ASSUME ~Overlap, TypeOK, UpOK, UpOK', OwnersOK, [Next]_vars
  PROVE  OwnersOK'
<1> USE DEF rows, process, jobs
<1>a. OneUp /\ OneUp' /\ DownIsIdle
  BY DEF UpOK
<1>b. /\ \A x \in Process, r \in Run : Current(x, r)
      /\ \A x \in up, r \in Run : Owned(x, r)
  BY <1>a, OwnersByThread
<1>c. Idle.pc = "idle"
  BY DEF Idle
<1>1. ASSUME NEW x \in Process, NEW s \in Starter, StarterStep(x, s)
      PROVE  OwnersOK'
  <2>1. UNCHANGED <<up, exec>>
    BY <1>1, <1>a, StarterEffect
  <2>2. \A q \in Run : run'[q] = run[q] \/ (run[q].status = "absent" /\ run'[q].status = "queued")
    BY <1>1, StarterRun
  <2>3. \A y \in Process, q \in Run : Current(y, q)'
    BY <1>b, <2>1, <2>2 DEF Current
  <2>4. \A y \in up, q \in Run : Owned(y, q)'
    BY <1>b, <2>1, <2>2 DEF Owned
  <2> QED
    BY <1>a, <2>1, <2>3, <2>4, OwnersByThreadNext
<1>2. ASSUME NEW x \in Process, NEW r \in Run, ExecStep(x, r)
      PROVE  OwnersOK'
  <2>1. x \in up /\ UNCHANGED up
    BY <1>2, <1>a, ExecEffect
  <2>2. /\ Current(x, r)' /\ Owned(x, r)'
        /\ \A q \in Run : q # r => run'[q] = run[q]
    BY <1>2, <1>b, <2>1, ExecRun
  <2>3. \A y \in Process, q \in Run : ~(y = x /\ q = r) => exec'[y][q] = exec[y][q]
    <3>1. ASSUME NEW state, Moves(r, x, state)
          PROVE  \A y \in Process, q \in Run : ~(y = x /\ q = r) => exec'[y][q] = exec[y][q]
      BY <3>1, MovesFrame
    <3> QED
      BY <1>2, <1>a, <3>1, ExecEffect
  <2>4. \A y \in Process, q \in Run : Current(y, q)'
    <3>1. ASSUME NEW y \in Process, NEW q \in Run, y # x
          PROVE  Current(y, q)'
      <4>1. y \notin up
        BY <1>a, <2>1, <3>1 DEF OneUp
      <4>2. exec'[y][q] = Idle
        BY <1>a, <2>3, <3>1, <4>1 DEF DownIsIdle
      <4> QED
        BY <1>c, <4>2 DEF Current
    <3>2. ASSUME NEW q \in Run, q # r
          PROVE  Current(x, q)'
      BY <1>b, <2>2, <2>3, <3>2 DEF Current
    <3> QED
      BY <2>2, <3>1, <3>2
  <2>5. \A y \in up, q \in Run : Owned(y, q)'
    <3>1. ASSUME NEW q \in Run, q # r
          PROVE  Owned(x, q)'
      BY <1>b, <2>1, <2>2, <2>3, <3>1 DEF Owned
    <3> QED
      BY <1>a, <2>1, <2>2, <3>1 DEF OneUp
  <2> QED
    BY <1>a, <2>1, <2>4, <2>5, OwnersByThreadNext
<1>3. ASSUME NEW x \in Process, NEW e \in Editor, EditorStep(x, e)
      PROVE  OwnersOK'
  <2>1. \A q \in Run : run'[q].status = run[q].status
    BY <1>3, EditorRun
  <2>2. UNCHANGED <<up, exec>>
    BY <1>3, EditorFrame
  <2>3. \A y \in Process, q \in Run : Current(y, q)'
    BY <1>b, <2>1, <2>2 DEF Current
  <2>4. \A y \in up, q \in Run : Owned(y, q)'
    BY <1>b, <2>1, <2>2 DEF Owned
  <2> QED
    BY <1>a, <2>2, <2>3, <2>4, OwnersByThreadNext
<1>4. ASSUME NEW r \in Run, PurgeRun(r)
      PROVE  OwnersOK'
  <2>1. \A q \in Run : q # r => run'[q] = run[q]
    BY <1>4 DEF PurgeRun, TypeOK
  <2>2. run'[r].status = "absent" /\ \A y \in Process : exec[y][r] = Idle
    BY <1>4 DEF PurgeRun, NoRun, TypeOK
  <2>3. UNCHANGED <<up, exec>>
    BY <1>4 DEF PurgeRun
  <2>4. \A y \in Process, q \in Run : Current(y, q)'
    BY <1>b, <1>c, <2>1, <2>2, <2>3 DEF Current
  <2>5. \A y \in up, q \in Run : Owned(y, q)'
    BY <1>b, <2>1, <2>2, <2>3 DEF Owned
  <2> QED
    BY <1>a, <2>3, <2>4, <2>5, OwnersByThreadNext
<1>5. ASSUME NEW x \in Process, StartProcess(x)
      PROVE  OwnersOK'
  <2>1. up = {} /\ UNCHANGED exec
    BY <1>5 DEF StartProcess
  <2>2. \A y \in Process, q \in Run : exec'[y][q] = Idle
    BY <1>a, <2>1 DEF DownIsIdle
  <2>3. \A q \in Run : run'[q].status # "running"
    BY <1>5 DEF StartProcess, Interrupted
  <2>4. \A y \in Process, q \in Run : Current(y, q)'
    BY <1>c, <2>2 DEF Current
  <2>5. \A y \in up', q \in Run : Owned(y, q)'
    BY <2>3 DEF Owned
  <2> QED
    BY <1>a, <2>4, <2>5, OwnersByThreadNext
<1>6. ASSUME NEW x \in Process, StopScheduler(x)
      PROVE  OwnersOK'
  BY <1>6 DEF StopScheduler, OwnersOK, ExecIsCurrent, RunningIsOwned
<1>7. ASSUME NEW x \in Process, Crash(x)
      PROVE  OwnersOK'
  <2>1. up' = {} /\ UNCHANGED run
    BY <1>7, <1>a DEF Crash, OneUp
  <2>2. \A y \in Process, q \in Run : exec'[y][q] = Idle \/ exec'[y][q] = exec[y][q]
    BY <1>7 DEF Crash, TypeOK
  <2>3. \A y \in Process, q \in Run : Current(y, q)'
    BY <1>b, <1>c, <2>1, <2>2 DEF Current
  <2> QED
    BY <1>a, <2>1, <2>3, OwnersByThreadNext
<1>8. CASE UNCHANGED vars
  BY <1>8 DEF vars, OwnersOK, ExecIsCurrent, RunningIsOwned
<1> QED
  BY <1>1, <1>2, <1>3, <1>4, <1>5, <1>6, <1>7, <1>8 DEF Next, ProcessStep

-----------------------------------------------------------------------------
(* Runs in flight.                                                         *)

FlightOK == CheckedIsFree /\ OneInFlight

(* A step that puts no run in flight, and after which the threads that     *)
(* have checked a plan had checked it before or find it free.              *)
LEMMA FlightKeeps ==
  ASSUME TypeOK, FlightOK,
         \A p \in Plan : InFlightRuns(p)' \subseteq InFlightRuns(p),
         \A x \in Process, s \in Starter : starter'[x][s].pc = "checked" =>
           /\ starter'[x][s].plan \in Plan
           /\ starter'[x][s] = starter[x][s] \/ InFlightRuns(starter'[x][s].plan) = {}
  PROVE  FlightOK'
<1>1. CheckedIsFree'
  <2> SUFFICES ASSUME NEW x \in Process, NEW s \in Starter, starter'[x][s].pc = "checked"
               PROVE  InFlightRuns(starter[x][s].plan)' = {}
    BY DEF CheckedIsFree
  <2>1. InFlightRuns(starter'[x][s].plan) = {}
    BY DEF FlightOK, CheckedIsFree
  <2> QED
    BY <2>1
<1>2. OneInFlight'
  BY DEF FlightOK, OneInFlight
<1> QED
  BY <1>1, <1>2 DEF FlightOK

(* No run comes in flight when every one keeps its plan, or loses it, and  *)
(* only runs in flight are in flight afterwards.                           *)
LEMMA InFlightShrinks ==
  ASSUME NEW p \in Plan,
         \A q \in Run : run'[q].plan = p /\ run'[q].status \in InFlight
           => run[q].plan = p /\ run[q].status \in InFlight
  PROVE  InFlightRuns(p)' \subseteq InFlightRuns(p)
  BY DEF InFlightRuns

LEMMA CommitFlight ==
  ASSUME TypeOK, UpOK, LocksOK, FlightOK, NEW x \in Process, NEW s \in Starter, StartCommit(x, s)
  PROVE  FlightOK'
<1> DEFINE p == starter[x][s].plan
<1>1. p \in Plan /\ StarterHolds(x, s, p)
  BY StarterPlan DEF StartCommit, StarterHolds
<1>2. PICK r \in Run :
        /\ run[r].status = "absent"
        /\ run' = [run EXCEPT ![r] = [status |-> "queued", plan |-> p]]
        /\ Goes(s, x, [pc |-> "committed", run |-> r])
  BY DEF StartCommit
<1>3. InFlightRuns(p) = {}
  BY DEF FlightOK, CheckedIsFree, StartCommit
<1>4. /\ \A q \in Run : q # r => run'[q] = run[q]
      /\ run'[r].status = "queued" /\ run'[r].plan = p
  BY <1>2 DEF TypeOK
<1>5. ASSUME NEW q \in Run, q # r
      PROVE  ~(run'[q].plan = p /\ run'[q].status \in InFlight)
  BY <1>3, <1>4, <1>5 DEF InFlightRuns
<1>6. \A o \in Plan : o # p => InFlightRuns(o)' \subseteq InFlightRuns(o)
  BY <1>4 DEF InFlightRuns
<1>7. \A y \in Process, t \in Starter :
        starter'[y][t] = IF y = x /\ t = s THEN [pc |-> "committed", run |-> r] ELSE starter[y][t]
  BY <1>2, GoesFrame
<1>8. ASSUME NEW y \in Process, NEW t \in Starter, starter'[y][t].pc = "checked"
      PROVE  InFlightRuns(starter[y][t].plan)' = {}
  <2>1. ~(y = x /\ t = s) /\ starter'[y][t] = starter[y][t]
    BY <1>7, <1>8
  <2>2. starter[y][t].plan \in Plan /\ StarterHolds(y, t, starter[y][t].plan)
    BY <1>8, <2>1, StarterPlan DEF StarterHolds
  <2>3. y = x
    <3>1. x \in up /\ y \in up
      <4>1. Idle.pc = "idle"
        BY DEF Idle
      <4> QED
        BY <1>8, <2>1, <4>1 DEF StartCommit, UpOK, DownIsIdle
    <3> QED
      BY <3>1 DEF UpOK, OneUp
  <2>4. starter[y][t].plan # p
    BY <1>1, <2>1, <2>2, <2>3 DEF LocksOK, OneHolder
  <2>5. InFlightRuns(starter[y][t].plan) = {}
    BY <1>8, <2>1 DEF FlightOK, CheckedIsFree
  <2> QED
    BY <1>6, <2>1, <2>2, <2>4, <2>5
<1>9. CheckedIsFree'
  BY <1>8 DEF CheckedIsFree
<1>10. OneInFlight'
  <2> SUFFICES ASSUME NEW o \in Plan, NEW q1 \in InFlightRuns(o)', NEW q2 \in InFlightRuns(o)'
               PROVE  q1 = q2
    BY DEF OneInFlight
  <2>1. CASE o = p
    BY <1>5, <2>1 DEF InFlightRuns
  <2>2. CASE o # p
    BY <1>6, <2>2 DEF FlightOK, OneInFlight
  <2> QED
    BY <2>1, <2>2
<1> QED
  BY <1>9, <1>10 DEF FlightOK

LEMMA FlightStep ==
  ASSUME ~Overlap, TypeOK, TypeOK', UpOK, LocksOK, OwnersOK, FlightOK, [Next]_vars
  PROVE  FlightOK'
<1> USE DEF rows, process, jobs
<1>a. \A x \in Process, s \in Starter :
        starter'[x][s].pc = "checked" => starter'[x][s].plan \in Plan
  <2>1. \A x \in Process, s \in Starter : starter'[x][s] \in StarterState
    BY DEF TypeOK
  <2> QED
    BY <2>1 DEF StarterState, Idle
<1>b. ASSUME UNCHANGED starter, \A p \in Plan : InFlightRuns(p)' \subseteq InFlightRuns(p)
      PROVE  FlightOK'
  BY <1>a, <1>b, FlightKeeps
<1>1. ASSUME NEW x \in Process, NEW s \in Starter, StarterStep(x, s)
      PROVE  FlightOK'
  <2>1. CASE StartCommit(x, s)
    BY <2>1, CommitFlight
  <2>2. CASE ~StartCommit(x, s)
    <3>1. UNCHANGED run
      BY <1>1, <2>2 DEF StarterStep, StartLock, StartCheck, StartAborts, StartSchedule, StartLosesRun
    <3>2. PICK state : Goes(s, x, state) /\ (state.pc = "checked" => InFlightRuns(state.plan) = {})
      <4>1. CASE StartCheck(x, s)
        BY <4>1 DEF StartCheck, Idle
      <4>2. ASSUME NEW p \in Plan, StartLock(x, s, p)
            PROVE  \E state : Goes(s, x, state) /\ state.pc # "checked"
        <5> DEFINE taken == [pc |-> "locked", plan |-> p]
        <5>1. Goes(s, x, taken) /\ taken.pc # "checked"
          BY <4>2 DEF StartLock
        <5> HIDE DEF taken
        <5> QED
          BY <5>1
      <4>3. CASE StartAborts(x, s) \/ StartSchedule(x, s) \/ StartLosesRun(x, s)
        BY <4>3 DEF StartAborts, StartSchedule, StartLosesRun, Idle
      <4> QED
        BY <1>1, <2>2, <4>1, <4>2, <4>3 DEF StarterStep
    <3>3. \A y \in Process, t \in Starter :
            starter'[y][t] = IF y = x /\ t = s THEN state ELSE starter[y][t]
      BY <3>2, GoesFrame
    <3>4. \A p \in Plan : InFlightRuns(p)' \subseteq InFlightRuns(p)
      BY <3>1, InFlightShrinks
    <3> QED
      BY <1>a, <3>2, <3>3, <3>4, FlightKeeps
  <2> QED
    BY <2>1, <2>2
<1>2. ASSUME NEW x \in Process, NEW r \in Run, ExecStep(x, r)
      PROVE  FlightOK'
  <2>1. x \in up /\ UNCHANGED starter
    BY <1>2, ExecEffect DEF UpOK
  <2>2. Current(x, r) /\ Owned(x, r)
    BY <2>1, OwnersByThread DEF UpOK
  <2>3. \A p \in Plan : InFlightRuns(p)' \subseteq InFlightRuns(p)
    BY <1>2, <2>2, ExecRun, InFlightShrinks
  <2> QED
    BY <1>b, <2>1, <2>3
<1>3. ASSUME NEW x \in Process, NEW e \in Editor, EditorStep(x, e)
      PROVE  FlightOK'
  <2>1. \A q \in Run : /\ run'[q].status = run[q].status
                       /\ run'[q].plan = run[q].plan \/ run'[q].plan = NoPlan
    BY <1>3, EditorRun
  <2>2. \A p \in Plan : InFlightRuns(p)' \subseteq InFlightRuns(p)
    BY <2>1, InFlightShrinks, SchedulerAssumption
  <2> QED
    BY <1>3, <1>b, <2>2, EditorFrame
<1>4. ASSUME NEW r \in Run, PurgeRun(r)
      PROVE  FlightOK'
  <2>1. \A q \in Run : run'[q] = run[q] \/ run'[q].status = "absent"
    BY <1>4 DEF PurgeRun, NoRun, TypeOK
  <2>2. \A p \in Plan : InFlightRuns(p)' \subseteq InFlightRuns(p)
    BY <2>1, InFlightShrinks DEF InFlight
  <2> QED
    BY <1>4, <1>b, <2>2 DEF PurgeRun
<1>5. ASSUME NEW x \in Process, StartProcess(x)
      PROVE  FlightOK'
  <2>1. \A q \in Run : run'[q] = run[q] \/ run'[q].status = "failed"
    BY <1>5 DEF StartProcess
  <2>2. \A p \in Plan : InFlightRuns(p)' \subseteq InFlightRuns(p)
    BY <2>1, InFlightShrinks DEF InFlight
  <2> QED
    BY <1>5, <1>b, <2>2 DEF StartProcess
<1>6. ASSUME NEW x \in Process, StopScheduler(x)
      PROVE  FlightOK'
  <2>1. \A p \in Plan : InFlightRuns(p)' \subseteq InFlightRuns(p)
    BY <1>6, InFlightShrinks DEF StopScheduler
  <2> QED
    BY <1>6, <1>b, <2>1 DEF StopScheduler
<1>7. ASSUME NEW x \in Process, Crash(x)
      PROVE  FlightOK'
  <2>1. \A p \in Plan : InFlightRuns(p)' \subseteq InFlightRuns(p)
    BY <1>7, InFlightShrinks DEF Crash
  <2>2. \A y \in Process, s \in Starter : starter'[y][s] = Idle \/ starter'[y][s] = starter[y][s]
    BY <1>7 DEF Crash, TypeOK
  <2>3. Idle.pc = "idle"
    BY DEF Idle
  <2> QED
    BY <1>a, <2>1, <2>2, <2>3, FlightKeeps
<1>8. CASE UNCHANGED vars
  <2>1. \A p \in Plan : InFlightRuns(p)' \subseteq InFlightRuns(p)
    BY <1>8, InFlightShrinks DEF vars
  <2> QED
    BY <1>8, <1>b, <2>1 DEF vars
<1> QED
  BY <1>1, <1>2, <1>3, <1>4, <1>5, <1>6, <1>7, <1>8 DEF Next, ProcessStep

-----------------------------------------------------------------------------
(* The theorems.                                                           *)

LEMMA InvInit == Init => Inv
<1> SUFFICES ASSUME Init
             PROVE  Inv
  OBVIOUS
<1>1. TypeOK
  BY TypeInit
<1>2. /\ \A x \in Process, s \in Starter : starter[x][s] = Idle
      /\ \A x \in Process, r \in Run : exec[x][r] = Idle
      /\ \A r \in Run : run[r].status = "absent"
      /\ up = {}
  BY DEF Init, NoRun
<1>3. Idle.pc = "idle"
  BY DEF Idle
<1>4. LocksHeld /\ OneHolder
  BY <1>2, <1>3 DEF LocksHeld, OneHolder, StarterHolds, ExecHolds
<1>5. OneUp /\ DownIsIdle /\ CheckedIsFree /\ ExecIsCurrent
  BY <1>2, <1>3 DEF OneUp, DownIsIdle, CheckedIsFree, ExecIsCurrent
<1>6. OneInFlight /\ RunningIsOwned
  BY <1>2 DEF OneInFlight, InFlightRuns, InFlight, RunningIsOwned
<1> QED
  BY <1>1, <1>4, <1>5, <1>6 DEF Inv

LEMMA InvStep ==
  ASSUME ~Overlap, Inv, [Next]_vars
  PROVE  Inv'
<1>1. TypeOK /\ LocksOK /\ UpOK /\ OwnersOK /\ FlightOK
  BY DEF Inv, LocksOK, UpOK, OwnersOK, FlightOK
<1>2. TypeOK' /\ LocksOK' /\ UpOK'
  BY <1>1, TypeStep, LocksStep, UpStep
<1>3. OwnersOK' /\ FlightOK'
  BY <1>1, <1>2, OwnersStep, FlightStep
<1> QED
  BY <1>2, <1>3 DEF Inv, LocksOK, UpOK, OwnersOK, FlightOK

THEOREM Invariance ==
  ASSUME ~Overlap
  PROVE  Spec => []Inv
<1>1. Init => Inv
  BY InvInit
<1>2. Inv /\ [Next]_vars => Inv'
  BY InvStep
<1> QED
  BY <1>1, <1>2, PTL DEF Spec

(* No plan ever has two runs queued or running.                            *)
THEOREM OneRunInFlight ==
  ASSUME ~Overlap
  PROVE  Spec => []OneInFlight
<1>1. Inv => OneInFlight
  BY DEF Inv
<1> QED
  BY <1>1, Invariance, PTL

(* A run that is marked as running is in the hands of a thread.            *)
THEOREM RunningRunsOwned ==
  ASSUME ~Overlap
  PROVE  Spec => []RunningIsOwned
<1>1. Inv => RunningIsOwned
  BY DEF Inv
<1> QED
  BY <1>1, Invariance, PTL

(* Two executions at a time are of different plans.                        *)
THEOREM ExecutionsExclusive ==
  ASSUME ~Overlap
  PROVE  Spec => []NoReentry
<1>1. ASSUME Inv
      PROVE  NoReentry
  <2> SUFFICES ASSUME NEW x \in Process, NEW y \in Process, NEW q \in Run, NEW r \in Run,
                      Executing(x, q), Executing(y, r), exec[x][q].plan = exec[y][r].plan
               PROVE  x = y /\ q = r
    BY DEF NoReentry
  <2>1. x \in up /\ y \in up
    BY <1>1 DEF Inv, DownIsIdle, Executing, Idle
  <2>2. x = y
    BY <1>1, <2>1 DEF Inv, OneUp
  <2>3. exec[x][q].plan \in Plan
    BY <1>1, ExecPlan DEF Inv, Executing
  <2>4. ExecHolds(x, q, exec[x][q].plan) /\ ExecHolds(x, r, exec[x][q].plan)
    BY <2>2 DEF Executing, ExecHolds
  <2> QED
    BY <1>1, <2>2, <2>3, <2>4 DEF Inv, OneHolder
<1> QED
  BY <1>1, Invariance, PTL

(* What a run ended with is final.                                         *)
THEOREM TerminalRunsFinal ==
  ASSUME ~Overlap
  PROVE  Spec => TerminalIsFinal
<1>1. ASSUME Inv, [Next]_vars
      PROVE  FinalStep
  <2> USE DEF rows, process, jobs
  <2> SUFFICES ASSUME NEW r \in Run, run[r].status \in Terminal
               PROVE  run'[r].status \in {run[r].status, "absent"}
    BY DEF FinalStep
  <2>a. run[r].status \notin {"absent", "queued", "running"}
    BY DEF Terminal
  <2>b. TypeOK
    BY <1>1 DEF Inv
  <2>1. ASSUME NEW x \in Process, NEW s \in Starter, StarterStep(x, s)
        PROVE  run'[r] = run[r]
    BY <2>1, <2>a, <2>b, StarterRun
  <2>2. ASSUME NEW x \in Process, NEW q \in Run, ExecStep(x, q)
        PROVE  run'[r].status = run[r].status
    <3>1. x \in up
      BY <1>1, <2>2, ExecEffect DEF Inv
    <3>2. Current(x, q) /\ Owned(x, q)
      BY <1>1, <3>1, OwnersByThread DEF Inv, OwnersOK
    <3> QED
      BY <2>2, <2>b, <3>2, ExecRun
  <2>3. ASSUME NEW x \in Process, NEW e \in Editor, EditorStep(x, e)
        PROVE  run'[r].status = run[r].status
    BY <2>3, <2>b, EditorRun
  <2>4. ASSUME NEW q \in Run, PurgeRun(q)
        PROVE  run'[r].status \in {run[r].status, "absent"}
    BY <2>4, <2>b DEF PurgeRun, NoRun, TypeOK
  <2>5. ASSUME NEW x \in Process, ProcessStep(x)
        PROVE  run'[r] = run[r]
    BY <2>5, <2>a DEF ProcessStep, StartProcess, StopScheduler, Crash, Interrupted
  <2>6. CASE UNCHANGED vars
    BY <2>6 DEF vars
  <2> QED
    BY <1>1, <2>1, <2>2, <2>3, <2>4, <2>5, <2>6 DEF Next
<1>2. Inv /\ [Next]_vars => [FinalStep]_vars
  BY <1>1
<1> QED
  BY <1>2, Invariance, PTL DEF Spec, TerminalIsFinal

-----------------------------------------------------------------------------
(* The scheduler implements PlanSlots.                                     *)

(* What becomes of a run while it is executed: it begins, it ends, or it   *)
(* stays as it is.                                                         *)
LEMMA ExecMoves ==
  ASSUME TypeOK, NEW x \in Process, NEW r \in Run, Current(x, r), ExecStep(x, r)
  PROVE  \/ UNCHANGED run
         \/ /\ \A q \in Run : q # r => run'[q] = run[q]
            /\ run'[r].plan = run[r].plan
            /\ \/ run[r].status = "queued" /\ run'[r].status = "running"
               \/ run'[r].status \notin InFlight
<1>1. ASSUME NEW status, run' = [run EXCEPT ![r].status = status]
      PROVE  /\ run'[r].status = status /\ run'[r].plan = run[r].plan
             /\ \A q \in Run : q # r => run'[q] = run[q]
  BY <1>1 DEF TypeOK
<1>2. CASE ExecStart(x, r)
  BY <1>1, <1>2 DEF ExecStart, Current
<1>3. CASE ExecFinish(x, r)
  <2>1. PICK t \in Terminal : run' = [run EXCEPT ![r].status = t]
    BY <1>3 DEF ExecFinish
  <2> QED
    BY <1>1, <2>1 DEF Terminal, InFlight
<1>4. CASE ExecFail(x, r)
  <2>1. run' = [run EXCEPT ![r].status = AfterFailure(run[r].status)]
    BY <1>4 DEF ExecFail
  <2>2. AfterFailure(run[r].status) \notin InFlight
    BY DEF AfterFailure, InFlight
  <2> QED
    BY <1>1, <2>1, <2>2
<1>5. CASE ~ExecStart(x, r) /\ ~ExecFinish(x, r) /\ ~ExecFail(x, r)
  BY <1>5 DEF ExecStep, ExecLookup, ExecMissed, ExecBusy, ExecLock, ExecRecord, ExecRelease,
     ExecRaises, rows
<1> QED
  BY <1>2, <1>3, <1>4, <1>5

(* When no run changes its slot, the slots stutter.                        *)
LEMMA SlotsStutter ==
  ASSUME \A q \in Run : /\ run'[q].plan \in Plan /\ run'[q].status \in InFlight =>
                             run[q].plan = run'[q].plan /\ run[q].status = run'[q].status
                        /\ run[q].plan \in Plan /\ run[q].status \in InFlight =>
                             run[q].plan = run'[q].plan /\ run[q].status = run'[q].status
  PROVE  UNCHANGED Slots!slots
<1>1. \A p \in Plan : Waiting(p)' = Waiting(p) /\ Busy(p)' = Busy(p)
  BY DEF Waiting, Busy, InFlight
<1> QED
  BY <1>1 DEF Slots!slots

(* A run that ends, or whose plan is deleted, leaves its slot with nothing *)
(* in it.                                                                  *)
LEMMA SlotsLeave ==
  ASSUME NEW p \in Plan,
         \A q \in Run : ~(run'[q].plan = p /\ run'[q].status \in InFlight),
         \A o \in Plan : o # p => Waiting(o)' = Waiting(o) /\ Busy(o)' = Busy(o)
  PROVE  Slots!Leave(p)
<1>1. Waiting(p)' = {} /\ Busy(p)' = {}
  BY DEF Waiting, Busy, InFlight
<1> QED
  BY <1>1 DEF Slots!Leave

LEMMA SlotsOfThread ==
  ASSUME TypeOK, OneInFlight, NEW x \in Process, NEW r \in Run, Current(x, r), ExecStep(x, r)
  PROVE  [Slots!Next]_(Slots!slots)
<1>1. CASE UNCHANGED run
  BY <1>1, SlotsStutter
<1>2. CASE run[r].plan \notin Plan
  BY <1>2, SlotsStutter, ExecMoves
<1>3. CASE run[r].plan \in Plan /\ run' # run
  <2>0. PICK p \in Plan : run[r].plan = p
    BY <1>3
  <2>1. /\ \A q \in Run : q # r => run'[q] = run[q]
        /\ run'[r].plan = p
        /\ \/ run[r].status = "queued" /\ run'[r].status = "running"
           \/ run'[r].status \notin InFlight
    BY <1>3, <2>0, ExecMoves
  <2>2. \A o \in Plan : o # p => Waiting(o)' = Waiting(o) /\ Busy(o)' = Busy(o)
    BY <2>0, <2>1 DEF Waiting, Busy
  <2>3. CASE run[r].status = "queued" /\ run'[r].status = "running"
    <3>1. Waiting(p) = {r} /\ Busy(p) = {}
      BY <2>0, <2>3 DEF OneInFlight, InFlightRuns, InFlight, Waiting, Busy
    <3>2. Waiting(p)' = {} /\ Busy(p)' = {r}
      BY <2>1, <2>3, <3>1 DEF Waiting, Busy
    <3>3. Slots!Begin(p, r)
      BY <2>2, <3>1, <3>2 DEF Slots!Begin
    <3> QED
      BY <3>3 DEF Slots!Next
  <2>4. CASE run[r].status \in InFlight /\ run'[r].status \notin InFlight
    <3>1. \A q \in Run : ~(run'[q].plan = p /\ run'[q].status \in InFlight)
      BY <2>0, <2>1, <2>4 DEF OneInFlight, InFlightRuns
    <3>2. Slots!Leave(p)
      BY <2>2, <3>1, SlotsLeave
    <3> QED
      BY <3>2 DEF Slots!Next
  <2>5. CASE run[r].status \notin InFlight /\ run'[r].status \notin InFlight
    BY <2>0, <2>1, <2>5, SlotsStutter
  <2> QED
    BY <2>1, <2>3, <2>4, <2>5 DEF InFlight
<1> QED
  BY <1>1, <1>2, <1>3

(* A run comes in when the plan was checked to have none in flight.        *)
LEMMA SlotsOfStarter ==
  ASSUME TypeOK, CheckedIsFree, NEW x \in Process, NEW s \in Starter, StarterStep(x, s)
  PROVE  [Slots!Next]_(Slots!slots)
<1>1. CASE StartCommit(x, s)
  <2>1. PICK p \in Plan : starter[x][s].plan = p
    BY <1>1, StarterPlan DEF StartCommit
  <2>2. PICK r \in Run :
          /\ run[r].status = "absent"
          /\ run' = [run EXCEPT ![r] = [status |-> "queued", plan |-> p]]
    BY <1>1, <2>1 DEF StartCommit
  <2>3. InFlightRuns(p) = {}
    BY <1>1, <2>1 DEF CheckedIsFree, StartCommit
  <2>4. /\ \A q \in Run : q # r => run'[q] = run[q]
        /\ run'[r].status = "queued" /\ run'[r].plan = p
    BY <2>2 DEF TypeOK
  <2>5. Waiting(p) = {} /\ Busy(p) = {}
    BY <2>3 DEF InFlightRuns, InFlight, Waiting, Busy
  <2>6. \A o \in Plan : r \notin Waiting(o) /\ r \notin Busy(o)
    BY <2>2 DEF Waiting, Busy
  <2>7. Waiting(p)' = {r} /\ Busy(p)' = {}
    BY <2>4, <2>5 DEF Waiting, Busy
  <2>8. \A o \in Plan : o # p => Waiting(o)' = Waiting(o) /\ Busy(o)' = Busy(o)
    BY <2>2, <2>4 DEF Waiting, Busy
  <2>9. Slots!Enter(p, r)
    BY <2>5, <2>6, <2>7, <2>8 DEF Slots!Enter, Slots!Free, Slots!Unused
  <2> QED
    BY <2>9 DEF Slots!Next
<1>2. CASE ~StartCommit(x, s)
  <2>1. UNCHANGED run
    BY <1>2 DEF StarterStep, StartLock, StartCheck, StartAborts, StartSchedule, StartLosesRun, rows
  <2> QED
    BY <2>1, SlotsStutter
<1> QED
  BY <1>1, <1>2

(* The runs of a deleted plan are detached from it.                        *)
LEMMA SlotsOfEditor ==
  ASSUME TypeOK, NEW x \in Process, NEW e \in Editor, EditorStep(x, e)
  PROVE  [Slots!Next]_(Slots!slots)
<1>1. CASE DeletePlan(x, e)
  <2>1. PICK p \in Plan : editor[x][e].plan = p
    BY <1>1 DEF DeletePlan, TypeOK, EditorState, Idle
  <2>2. run' = [r \in Run |-> IF run[r].plan = p
                              THEN [status |-> run[r].status, plan |-> NoPlan] ELSE run[r]]
    BY <1>1, <2>1 DEF DeletePlan
  <2>3. \A q \in Run : run'[q].plan # p
    BY <2>2, SchedulerAssumption
  <2>4. \A o \in Plan : o # p => Waiting(o)' = Waiting(o) /\ Busy(o)' = Busy(o)
    BY <2>2, SchedulerAssumption DEF Waiting, Busy
  <2>5. Slots!Leave(p)
    BY <2>3, <2>4, SlotsLeave
  <2> QED
    BY <2>5 DEF Slots!Next
<1>2. CASE ~DeletePlan(x, e)
  <2>1. UNCHANGED run
    BY <1>2 DEF EditorStep, EditPlan, SyncRead, SyncAct, SyncFails, DeleteFails, RemoveJob, rows
  <2> QED
    BY <2>1, SlotsStutter
<1> QED
  BY <1>1, <1>2

(* The start of a process fails every run that was left running.           *)
LEMMA SlotsOfProcess ==
  ASSUME TypeOK, NEW x \in Process, ProcessStep(x)
  PROVE  [Slots!Next]_(Slots!slots)
<1>1. CASE StartProcess(x)
  <2>1. run' = [r \in Run |-> IF run[r].status = "running"
                              THEN [status |-> "failed", plan |-> run[r].plan] ELSE run[r]]
    BY <1>1 DEF StartProcess, Interrupted
  <2>2. \A p \in Plan : Waiting(p)' = Waiting(p) /\ Busy(p)' = {}
    BY <2>1 DEF Waiting, Busy
  <2>3. Slots!Restart
    BY <2>2 DEF Slots!Restart
  <2> QED
    BY <2>3 DEF Slots!Next
<1>2. CASE StopScheduler(x) \/ Crash(x)
  <2>1. UNCHANGED run
    BY <1>2 DEF StopScheduler, Crash, rows
  <2> QED
    BY <2>1, SlotsStutter
<1> QED
  BY <1>1, <1>2 DEF ProcessStep

(* The scheduler implements the slots of the plans.                        *)
THEOREM SchedulerImplementsSlots ==
  ASSUME ~Overlap
  PROVE  Spec => ImplementsSlots
<1>1. Init => Slots!Init
  BY DEF Init, NoRun, Slots!Init, Waiting, Busy
<1>2. ASSUME Inv, [Next]_vars
      PROVE  [Slots!Next]_(Slots!slots)
  <2>a. TypeOK
    BY <1>2 DEF Inv
  <2>1. ASSUME NEW x \in Process, NEW s \in Starter, StarterStep(x, s)
        PROVE  [Slots!Next]_(Slots!slots)
    BY <1>2, <2>1, SlotsOfStarter DEF Inv
  <2>2. ASSUME NEW x \in Process, NEW r \in Run, ExecStep(x, r)
        PROVE  [Slots!Next]_(Slots!slots)
    <3>1. Current(x, r)
      BY <1>2 DEF Inv, ExecIsCurrent, Current
    <3> QED
      BY <1>2, <2>2, <3>1, SlotsOfThread DEF Inv
  <2>3. ASSUME NEW x \in Process, NEW e \in Editor, EditorStep(x, e)
        PROVE  [Slots!Next]_(Slots!slots)
    BY <2>3, <2>a, SlotsOfEditor
  <2>4. ASSUME NEW r \in Run, PurgeRun(r)
        PROVE  [Slots!Next]_(Slots!slots)
    <3>1. run[r].status \notin InFlight /\ run'[r].status \notin InFlight
      BY <2>4, <2>a DEF PurgeRun, NoRun, TypeOK, Terminal, InFlight
    <3>2. \A q \in Run : q # r => run'[q] = run[q]
      BY <2>4, <2>a DEF PurgeRun, TypeOK
    <3> QED
      BY <3>1, <3>2, SlotsStutter
  <2>5. ASSUME NEW x \in Process, ProcessStep(x)
        PROVE  [Slots!Next]_(Slots!slots)
    BY <2>5, <2>a, SlotsOfProcess
  <2>6. CASE UNCHANGED vars
    <3>1. UNCHANGED run
      BY <2>6 DEF vars, rows
    <3> QED
      BY <3>1, SlotsStutter
  <2> QED
    BY <1>2, <2>1, <2>2, <2>3, <2>4, <2>5, <2>6 DEF Next
<1>3. Inv /\ [Next]_vars => [Slots!Next]_(Slots!slots)
  BY <1>2
<1> QED
  BY <1>1, <1>3, Invariance, PTL DEF Spec, ImplementsSlots, Slots!Spec
-----------------------------------------------------------------------------
(* Queued runs are in somebody's hands.                                    *)

Committed(x, r) == \E s \in Starter : starter[x][s] = [pc |-> "committed", run |-> r]
Held(x, r) ==
  r \in runJob[x] \/ exec[x][r].pc \in {"looked", "locked", "failing"} \/ Committed(x, r)

LEMMA QueuedAreHeld ==
  QueuedIsScheduled <=> \A x \in running, r \in Run \ MayMiss : run[r].status = "queued" => Held(x, r)
  BY DEF QueuedIsScheduled, Held, Committed

LEMMA QueuedAreHeldNext ==
  QueuedIsScheduled' <=>
    \A x \in running', r \in Run \ MayMiss : run'[r].status = "queued" => Held(x, r)'
  BY DEF QueuedIsScheduled, Held, Committed

(* The jobs of queued runs in one process change at a time.                *)
LEMMA JobFrame ==
  ASSUME TypeOK, NEW x \in Process, NEW set,
         runJob' = [runJob EXCEPT ![x] = set], NEW y \in Process
  PROVE  runJob'[y] = IF y = x THEN set ELSE runJob[y]
  BY DEF TypeOK

(* The thread that inserts a run hands it to the scheduler.                *)
LEMMA StarterHands ==
  ASSUME TypeOK, NEW x \in running, NEW s \in Starter, StarterStep(x, s),
         NEW r \in Run \ MayMiss, run[r].status = "queued" => Held(x, r), run'[r].status = "queued"
  PROVE  Held(x, r)'
<1> USE DEF rows, process, jobs
<1>a. x \in Process
  BY DEF TypeOK
<1>b. UNCHANGED exec
  BY DEF StarterStep, StartLock, StartCheck, StartCommit, StartAborts, StartSchedule, StartLosesRun
<1>c. ASSUME NEW t \in Starter, t # s, starter[x][t] = [pc |-> "committed", run |-> r]
      PROVE  Committed(x, r)'
  <2>1. PICK state : Goes(s, x, state)
    BY DEF StarterStep, StartLock, StartCheck, StartCommit, StartAborts, StartSchedule, StartLosesRun
  <2>2. starter'[x][t] = starter[x][t]
    BY <1>a, <1>c, <2>1, GoesFrame
  <2> QED
    BY <1>c, <2>2 DEF Committed
<1>d. ASSUME starter[x][s] # [pc |-> "committed", run |-> r], UNCHANGED runJob,
             run[r].status = "queued"
      PROVE  Held(x, r)'
  BY <1>b, <1>c, <1>d DEF Held, Committed
<1>e. ASSUME NEW set, runJob' = [runJob EXCEPT ![x] = set]
      PROVE  runJob'[x] = set
  BY <1>a, <1>e DEF TypeOK
<1>1. ASSUME NEW p \in Plan, StartLock(x, s, p)
      PROVE  Held(x, r)'
  BY <1>1, <1>d DEF StartLock, Idle
<1>2. CASE StartCheck(x, s)
  BY <1>2, <1>d DEF StartCheck
<1>3. CASE StartAborts(x, s)
  BY <1>3, <1>d DEF StartAborts
<1>4. CASE StartCommit(x, s)
  <2>1. PICK q \in Run :
          /\ run' = [run EXCEPT ![q] = [status |-> "queued", plan |-> starter[x][s].plan]]
          /\ Goes(s, x, [pc |-> "committed", run |-> q])
    BY <1>4 DEF StartCommit
  <2>2. starter'[x][s] = [pc |-> "committed", run |-> q]
    BY <1>a, <2>1, GoesFrame
  <2>3. CASE r = q
    BY <2>2, <2>3 DEF Held, Committed
  <2>4. CASE r # q
    <3>1. run'[r] = run[r]
      BY <2>1, <2>4 DEF TypeOK
    <3> QED
      BY <1>4, <1>d, <3>1 DEF StartCommit
  <2> QED
    BY <2>3, <2>4
<1>5. CASE StartSchedule(x, s)
  <2>1. runJob'[x] = runJob[x] \cup {starter[x][s].run} /\ UNCHANGED run
    BY <1>5, <1>e DEF StartSchedule
  <2>2. CASE starter[x][s] = [pc |-> "committed", run |-> r]
    BY <2>1, <2>2 DEF Held
  <2>3. CASE starter[x][s] # [pc |-> "committed", run |-> r]
    BY <1>b, <1>c, <2>1, <2>3 DEF Held, Committed
  <2> QED
    BY <2>2, <2>3
<1>6. CASE StartLosesRun(x, s)
  BY <1>6, <1>d DEF StartLosesRun
<1> QED
  BY <1>1, <1>2, <1>3, <1>4, <1>5, <1>6 DEF StarterStep

(* The thread that executes a run calls it again, starts it or fails it.   *)
LEMMA ExecHands ==
  ASSUME TypeOK, NEW x \in running, NEW q \in Run, ExecStep(x, q), NEW r \in Run \ MayMiss,
         Current(x, q), Owned(x, q),
         run[r].status = "queued" => Held(x, r), run'[r].status = "queued"
  PROVE  Held(x, r)'
<1> USE DEF rows, process, jobs
<1>a. x \in Process
  BY DEF TypeOK
<1>b. UNCHANGED starter
  BY DEF ExecStep, ExecLookup, ExecMissed, ExecBusy, ExecLock, ExecStart, ExecFinish,
         ExecRecord, ExecRelease, ExecRaises, ExecFail
<1>c. ASSUME NEW state, Moves(q, x, state)
      PROVE  exec'[x][q] = state
  BY <1>a, <1>c, MovesFrame
<1>d. ASSUME NEW status, run' = [run EXCEPT ![q].status = status]
      PROVE  run'[q].status = status
  BY <1>d DEF TypeOK
<1>e. ASSUME exec[x][q].pc \notin {"looked", "locked", "failing"}, UNCHANGED runJob,
             run[r].status = "queued", r = q
      PROVE  Held(x, r)'
  BY <1>b, <1>e DEF Held, Committed
<1>f. Idle.pc = "idle" /\ Failing.pc = "failing"
  BY DEF Idle, Failing
<1>g. ASSUME NEW set, runJob' = [runJob EXCEPT ![x] = set]
      PROVE  runJob'[x] = set
  BY <1>a, <1>g DEF TypeOK
<1>1. CASE r # q
  <2>1. run'[r] = run[r]
    BY <1>1, <1>a, ExecRun
  <2>2. exec'[x][r] = exec[x][r]
    <3>1. UNCHANGED exec \/ \E state : Moves(q, x, state)
      BY DEF ExecStep, ExecLookup, ExecMissed, ExecBusy, ExecLock, ExecStart, ExecFinish,
             ExecRecord, ExecRelease, ExecRaises, ExecFail, Continues
    <3> QED
      BY <1>1, <1>a, <3>1, MovesFrame
  <2>3. r \in runJob[x] => r \in runJob'[x]
    <3>1. UNCHANGED runJob \/ \E set : /\ runJob' = [runJob EXCEPT ![x] = set]
                                      /\ runJob[x] \ {q} \subseteq set
      BY DEF ExecStep, ExecLookup, ExecMissed, ExecBusy, ExecLock, ExecStart, ExecFinish,
             ExecRecord, ExecRelease, ExecRaises, ExecFail, CallAgain
    <3> QED
      BY <1>1, <1>a, <3>1, JobFrame
  <2> QED
    BY <1>b, <2>1, <2>2, <2>3 DEF Held, Committed
<1>2. CASE r = q
  <2>1. CASE ExecLookup(x, q)
    <3>1. run[q].status = "queued"
      BY <1>2, <2>1 DEF ExecLookup
    <3>2. exec'[x][q] = Failing \/ exec'[x][q] = [pc |-> "looked", plan |-> run[q].plan]
      BY <1>c, <2>1, <3>1 DEF ExecLookup
    <3> QED
      BY <1>2, <1>f, <3>2 DEF Held
  <2>2. CASE ExecMissed(x, q)
    BY <1>2, <2>2 DEF ExecMissed
  <2>3. CASE ExecBusy(x, q)
    <3>1. runJob'[x] = runJob[x] \cup {q}
      BY <2>3, <1>g DEF ExecBusy, CallAgain
    <3> QED
      BY <1>2, <3>1 DEF Held
  <2>4. CASE ExecLock(x, q)
    <3>1. run[q].status = "queued"
      BY <1>2, <2>4 DEF ExecLock
    <3>2. exec'[x][q] = Failing \/ exec'[x][q] = [pc |-> "locked", plan |-> exec[x][q].plan]
      BY <1>c, <2>4, <3>1 DEF ExecLock
    <3> QED
      BY <1>2, <1>f, <3>2 DEF Held
  <2>5. CASE ExecStart(x, q)
    BY <1>2, <1>d, <2>5 DEF ExecStart
  <2>6. CASE ExecFinish(x, q)
    <3>1. PICK t \in Terminal : run' = [run EXCEPT ![q].status = t]
      BY <2>6 DEF ExecFinish
    <3> QED
      BY <1>2, <1>d, <3>1 DEF Terminal
  <2>7. CASE ExecRecord(x, q)
    BY <1>2, <1>e, <2>7 DEF ExecRecord
  <2>8. CASE ExecRelease(x, q)
    BY <1>2, <1>e, <2>8 DEF ExecRelease
  <2>9. CASE ExecRaises(x, q)
    BY <1>2, <1>c, <1>f, <2>9 DEF ExecRaises, Held
  <2>10. CASE ExecFail(x, q)
    <3>1. run' = [run EXCEPT ![q].status = AfterFailure(run[q].status)]
      BY <2>10 DEF ExecFail
    <3>2. AfterFailure(run[q].status) # "queued"
      BY DEF AfterFailure, InFlight
    <3> QED
      BY <1>2, <1>d, <3>1, <3>2
  <2> QED
    BY <2>1, <2>2, <2>3, <2>4, <2>5, <2>6, <2>7, <2>8, <2>9, <2>10 DEF ExecStep
<1> QED
  BY <1>1, <1>2

LEMMA QueuedStep ==
  ASSUME ~Overlap, Inv, QueuedIsScheduled, [Next]_vars
  PROVE  QueuedIsScheduled'
<1> USE DEF rows, process, jobs
<1>a. TypeOK /\ OneUp /\ DownIsIdle /\ running \subseteq up
  BY DEF Inv, TypeOK
<1>b. \A x \in running, r \in Run \ MayMiss : run[r].status = "queued" => Held(x, r)
  BY QueuedAreHeld
<1>c. ASSUME UNCHANGED <<running, runJob, starter, exec>>,
             \A r \in Run : run'[r].status = "queued" => run[r].status = "queued"
      PROVE  QueuedIsScheduled'
  <2>1. ASSUME NEW x \in running', NEW r \in Run \ MayMiss, run'[r].status = "queued"
        PROVE  Held(x, r)'
    <3>1. Held(x, r)
      BY <1>b, <1>c, <2>1
    <3> QED
      BY <1>c, <3>1 DEF Held, Committed
  <2> QED
    BY <2>1, QueuedAreHeldNext
<1>1. ASSUME NEW x \in Process, NEW s \in Starter, StarterStep(x, s)
      PROVE  QueuedIsScheduled'
  <2>1. x \in up /\ UNCHANGED running
    BY <1>1, <1>a, StarterEffect
       DEF StarterStep, StartLock, StartCheck, StartCommit, StartAborts, StartSchedule, StartLosesRun
  <2>2. \A y \in running : y = x
    BY <1>a, <2>1 DEF OneUp
  <2>3. ASSUME NEW y \in running', NEW r \in Run \ MayMiss, run'[r].status = "queued"
        PROVE  Held(y, r)'
    BY <1>1, <1>a, <1>b, <2>1, <2>2, <2>3, StarterHands
  <2> QED
    BY <2>3, QueuedAreHeldNext
<1>2. ASSUME NEW x \in Process, NEW q \in Run, ExecStep(x, q)
      PROVE  QueuedIsScheduled'
  <2>1. x \in up /\ UNCHANGED running
    BY <1>2, <1>a, ExecEffect
       DEF ExecStep, ExecLookup, ExecMissed, ExecBusy, ExecLock, ExecStart, ExecFinish,
           ExecRecord, ExecRelease, ExecRaises, ExecFail
  <2>2. \A y \in running : y = x
    BY <1>a, <2>1 DEF OneUp
  <2>3. Current(x, q) /\ Owned(x, q)
    BY <2>1, OwnersByThread DEF Inv, OwnersOK
  <2>4. ASSUME NEW y \in running', NEW r \in Run \ MayMiss, run'[r].status = "queued"
        PROVE  Held(y, r)'
    BY <1>2, <1>a, <1>b, <2>1, <2>2, <2>3, <2>4, ExecHands
  <2> QED
    BY <2>4, QueuedAreHeldNext
<1>3. ASSUME NEW x \in Process, NEW e \in Editor, EditorStep(x, e)
      PROVE  QueuedIsScheduled'
  <2>1. \A r \in Run : run'[r].status = run[r].status
    BY <1>3, <1>a, EditorRun
  <2>2. UNCHANGED <<running, runJob, starter, exec>>
    BY <1>3 DEF EditorStep, EditPlan, SyncRead, SyncAct, SyncFails, DeleteFails, RemoveJob, DeletePlan
  <2> QED
    BY <1>c, <2>1, <2>2
<1>4. ASSUME NEW q \in Run, PurgeRun(q)
      PROVE  QueuedIsScheduled'
  <2>1. \A r \in Run : run'[r].status = "queued" => run[r].status = "queued"
    BY <1>4, <1>a DEF PurgeRun, NoRun, TypeOK
  <2> QED
    BY <1>4, <1>c, <2>1 DEF PurgeRun
<1>5. ASSUME NEW x \in Process, StartProcess(x)
      PROVE  QueuedIsScheduled'
  <2>1. running = {} /\ running' = {x}
    BY <1>5, <1>a DEF StartProcess
  <2>2. runJob'[x] = {r \in Run : run[r].status = "queued"}
    BY <1>5, <1>a DEF StartProcess, TypeOK
  <2>3. \A r \in Run : run'[r].status = "queued" => run[r].status = "queued"
    BY <1>5 DEF StartProcess
  <2>4. ASSUME NEW y \in running', NEW r \in Run \ MayMiss, run'[r].status = "queued"
        PROVE  Held(y, r)'
    BY <2>1, <2>2, <2>3, <2>4 DEF Held
  <2> QED
    BY <2>4, QueuedAreHeldNext
<1>6. ASSUME NEW x \in Process, StopScheduler(x) \/ Crash(x)
      PROVE  QueuedIsScheduled'
  <2>1. running' = {}
    BY <1>6, <1>a DEF StopScheduler, Crash, OneUp
  <2> QED
    BY <2>1, QueuedAreHeldNext
<1>7. CASE UNCHANGED vars
  BY <1>7, <1>c DEF vars
<1> QED
  BY <1>1, <1>2, <1>3, <1>4, <1>5, <1>6, <1>7 DEF Next, ProcessStep

(* While the scheduler runs, a queued run has a job, or the thread that    *)
(* inserted it, or the one that executes it, has it in hand: for any       *)
(* number of plans, threads and requests, whatever becomes of the jobs of   *)
(* runs that may lose theirs.                                              *)
THEOREM QueuedScheduled ==
  ASSUME ~Overlap
  PROVE  Spec => []QueuedIsScheduled
<1>1. Init => QueuedIsScheduled
  BY DEF Init, QueuedIsScheduled
<1>2. Inv /\ QueuedIsScheduled /\ [Next]_vars => QueuedIsScheduled'
  BY QueuedStep
<1> QED
  BY <1>1, <1>2, Invariance, PTL DEF Spec

-----------------------------------------------------------------------------
(* The jobs of plans.                                                      *)

(* A settled plan is edited by one request at a time.                      *)
Alone(p) ==
  \A y, z \in Process, e, f \in Editor : At(y, e, p) /\ At(z, f, p) => y = z /\ e = f

(* It has a job when it is enabled, unless a request is at it; what a      *)
(* request that is about to add or remove the job has read of the plan is  *)
(* still so; and when the plan is about to be deleted it has no job.       *)
Matches(x, p) ==
  /\ ~Edited(p) => (p \in planJob[x] <=> plan[p] = "enabled")
  /\ \A e \in Editor : At(x, e, p) /\ editor[x][e].pc = "act" =>
       (editor[x][e].enabled <=> plan[p] = "enabled")
  /\ \A e \in Editor : At(x, e, p) /\ editor[x][e].pc = "delete" => p \notin planJob[x]

PlanOK(p) == Alone(p) /\ \A x \in running : Matches(x, p)

JobsOK ==
  /\ \A x \in Process \ up : \A e \in Editor : editor[x][e] = Idle
  /\ \A p \in Plan \ unsettled : PlanOK(p)

LEMMA EditsFrame ==
  ASSUME TypeOK, NEW x \in Process, NEW e \in Editor, NEW state, Edits(e, x, state),
         NEW y \in Process, NEW f \in Editor
  PROVE  editor'[y][f] = IF y = x /\ f = e THEN state ELSE editor[y][f]
  BY DEF TypeOK, Edits

(* A step of a request moves it and no other request.                      *)
LEMMA EditorMoves ==
  ASSUME TypeOK, NEW x \in Process, NEW e \in Editor, EditorStep(x, e)
  PROVE  \A y \in Process, f \in Editor :
           ~(y = x /\ f = e) => editor'[y][f] = editor[y][f]
<1>1. PICK state : Edits(e, x, state)
  BY DEF EditorStep, EditPlan, SyncRead, SyncAct, SyncFails, RemoveJob, DeletePlan, DeleteFails
<1> QED
  BY <1>1, EditsFrame

LEMMA EditorKinds ==
  ASSUME NEW pc, NEW p
  PROVE  /\ [pc |-> pc, plan |-> p] # Idle
         /\ \A b : [pc |-> pc, plan |-> p, enabled |-> b] # Idle
         /\ Idle.pc = "idle"
  BY DEF Idle

(* A request leaves the plans it is not at alone.                          *)
LEMMA EditedElsewhere ==
  ASSUME TypeOK, NEW x \in Process, NEW e \in Editor, EditorStep(x, e), NEW p \in Plan,
         ~At(x, e, p), ~At(x, e, p)'
  PROVE  plan'[p] = plan[p] /\ \A y \in Process : p \in planJob'[y] <=> p \in planJob[y]
<1> USE DEF rows, jobs
<1>1. ASSUME NEW set, planJob' = [planJob EXCEPT ![x] = set], p \in set <=> p \in planJob[x]
      PROVE  \A y \in Process : p \in planJob'[y] <=> p \in planJob[y]
  BY <1>1 DEF TypeOK
<1>2. ASSUME NEW q \in Plan, NEW enabled \in BOOLEAN, EditPlan(x, e, q, enabled)
      PROVE  plan'[p] = plan[p] /\ UNCHANGED planJob
  <2>1. editor'[x][e] = [pc |-> "sync", plan |-> q]
    BY <1>2, EditsFrame DEF EditPlan
  <2>2. q # p
    BY <2>1, EditorKinds DEF At
  <2> QED
    BY <1>2, <2>2 DEF EditPlan, TypeOK
<1>3. ASSUME SyncRead(x, e) \/ SyncFails(x, e) \/ DeleteFails(x, e)
      PROVE  plan'[p] = plan[p] /\ UNCHANGED planJob
  BY <1>3 DEF SyncRead, SyncFails, DeleteFails
<1>4. ASSUME SyncAct(x, e) \/ DeletePlan(x, e)
      PROVE  editor[x][e].plan # p
  BY <1>4, EditorKinds DEF SyncAct, DeletePlan, At
<1>5. CASE SyncAct(x, e)
  <2> DEFINE set == IF editor[x][e].enabled /\ x \in running
                    THEN planJob[x] \cup {editor[x][e].plan}
                    ELSE planJob[x] \ {editor[x][e].plan}
  <2>1. planJob' = [planJob EXCEPT ![x] = set] /\ UNCHANGED plan
    BY <1>5 DEF SyncAct
  <2>2. p \in set <=> p \in planJob[x]
    BY <1>4, <1>5
  <2> QED
    BY <1>1, <2>1, <2>2
<1>6. CASE DeletePlan(x, e)
  BY <1>4, <1>6 DEF DeletePlan, TypeOK
<1>7. ASSUME NEW q \in Plan, RemoveJob(x, e, q)
      PROVE  plan'[p] = plan[p] /\ \A y \in Process : p \in planJob'[y] <=> p \in planJob[y]
  <2>1. editor'[x][e] = [pc |-> "delete", plan |-> q]
    BY <1>7, EditsFrame DEF RemoveJob
  <2>2. q # p
    BY <2>1, EditorKinds DEF At
  <2> DEFINE set == planJob[x] \ {q}
  <2>3. planJob' = [planJob EXCEPT ![x] = set] /\ UNCHANGED plan
    BY <1>7 DEF RemoveJob
  <2>4. p \in set <=> p \in planJob[x]
    BY <2>2
  <2> QED
    BY <1>1, <2>3, <2>4
<1> QED
  BY <1>2, <1>3, <1>5, <1>6, <1>7 DEF EditorStep

(* A request that is at the plan, alone, keeps the plan in order, or the   *)
(* plan is no longer settled.                                              *)
LEMMA EditorGoesOn ==
  ASSUME TypeOK, OneUp, NEW x \in up, NEW e \in Editor, EditorStep(x, e), NEW p \in Plan,
         At(x, e, p), PlanOK(p), ~Fails(p)
  PROVE  PlanOK(p)'
<1> USE DEF rows, jobs, process
<1>a. x \in Process /\ running \subseteq up
  BY DEF TypeOK
<1>b. \A y \in Process, f \in Editor : ~(y = x /\ f = e) => editor'[y][f] = editor[y][f] /\ ~At(y, f, p)
  BY <1>a, EditorMoves DEF PlanOK, Alone
<1>c. \A y \in Process, f \in Editor : At(y, f, p)' => y = x /\ f = e
  BY <1>b DEF At
<1>d. \A y \in running : y = x
  BY <1>a DEF OneUp
<1>e. UNCHANGED running
  BY DEF EditorStep, EditPlan, SyncRead, SyncAct, SyncFails, RemoveJob, DeletePlan, DeleteFails
<1>f. editor[x][e] # Idle /\ editor[x][e].plan = p
  BY DEF At
<1>g. (SyncFails(x, e) => SyncAct(x, e)) /\ ~DeleteFails(x, e)
  <2>1. ~(DeleteFails(x, e) /\ SyncAct(x, e))
    BY DEF DeleteFails, SyncAct
  <2> QED
    BY <1>a, <2>1 DEF Fails
<1>h. Alone(p)'
  BY <1>c DEF Alone
<1>i. SUFFICES ASSUME x \in running PROVE Matches(x, p)'
  BY <1>d, <1>e, <1>h DEF PlanOK
<1>j. Matches(x, p)
  BY <1>i DEF PlanOK
<1>1. CASE SyncRead(x, e)
  <2>1. editor'[x][e] = [pc |-> "act", plan |-> p, enabled |-> plan[p] = "enabled"]
    BY <1>1, <1>a, <1>f, <1>i, EditsFrame DEF SyncRead
  <2>2. At(x, e, p)' /\ UNCHANGED plan
    BY <1>1, <2>1, EditorKinds DEF At, SyncRead
  <2>3. Edited(p)'
    BY <1>a, <2>2 DEF Edited
  <2>4. editor'[x][e].pc = "act" /\ (editor'[x][e].enabled <=> plan'[p] = "enabled")
    <3> DEFINE on == plan[p] = "enabled"
               state == editor'[x][e]
    <3>1. state = [pc |-> "act", plan |-> p, enabled |-> on]
      BY <2>1
    <3>2. on <=> plan'[p] = "enabled"
      BY <2>2
    <3>3. state.pc = "act" /\ state.enabled = on
      <4> HIDE DEF on, state
      <4> QED
        BY <3>1
    <3> QED
      BY <3>2, <3>3, Zenon
  <2>5. \A f \in Editor : At(x, f, p)' => f = e
    BY <1>a, <1>c
  <2>6. editor'[x][e].pc # "delete"
    BY <2>4
  <2>7. \A f \in Editor : At(x, f, p)' /\ editor'[x][f].pc = "act" =>
          (editor'[x][f].enabled <=> plan'[p] = "enabled")
    BY <2>4, <2>5, Zenon
  <2>8. \A f \in Editor : ~(At(x, f, p)' /\ editor'[x][f].pc = "delete")
    BY <2>5, <2>6, Zenon
  <2> QED
    BY <2>3, <2>7, <2>8, Zenon DEF Matches
<1>2. CASE SyncAct(x, e)
  <2>1. editor'[x][e] = Idle /\ UNCHANGED plan
    BY <1>2, <1>a, EditsFrame DEF SyncAct
  <2>2. \A y \in Process, f \in Editor : ~At(y, f, p)'
    BY <1>c, <2>1 DEF At
  <2>3. editor[x][e].enabled <=> plan[p] = "enabled"
    BY <1>2, <1>j DEF SyncAct, Matches
  <2>4. planJob'[x] = IF editor[x][e].enabled THEN planJob[x] \cup {p} ELSE planJob[x] \ {p}
    BY <1>2, <1>a, <1>f, <1>i DEF SyncAct, TypeOK
  <2>5. p \in planJob'[x] <=> plan'[p] = "enabled"
    BY <2>1, <2>3, <2>4
  <2> QED
    BY <1>a, <2>2, <2>5 DEF Matches
<1>3. CASE DeletePlan(x, e)
  <2>1. editor'[x][e] = Idle /\ UNCHANGED planJob
    BY <1>3, <1>a, EditsFrame DEF DeletePlan
  <2>2. \A y \in Process, f \in Editor : ~At(y, f, p)'
    BY <1>c, <2>1 DEF At
  <2>3. p \notin planJob[x]
    BY <1>3, <1>j DEF DeletePlan, Matches
  <2>4. plan'[p] = "absent"
    BY <1>3, <1>f DEF DeletePlan, TypeOK
  <2> QED
    BY <1>a, <2>1, <2>2, <2>3, <2>4 DEF Matches
<1>4. ASSUME NEW q \in Plan, NEW enabled \in BOOLEAN, EditPlan(x, e, q, enabled)
      PROVE  FALSE
  BY <1>4, <1>f DEF EditPlan
<1>5. ASSUME NEW q \in Plan, RemoveJob(x, e, q)
      PROVE  FALSE
  BY <1>5, <1>f DEF RemoveJob
<1> QED
  BY <1>1, <1>2, <1>3, <1>4, <1>5, <1>g DEF EditorStep

(* A request that begins with a plan nobody is at has it to itself.        *)
LEMMA EditorBegins ==
  ASSUME TypeOK, OneUp, NEW x \in up, NEW e \in Editor, EditorStep(x, e), NEW p \in Plan,
         editor[x][e] = Idle, At(x, e, p)', ~Edited(p)
  PROVE  PlanOK(p)'
<1> USE DEF rows, jobs, process
<1>a. x \in Process /\ running \subseteq up
  BY DEF TypeOK
<1>b. \A y \in Process, f \in Editor : ~(y = x /\ f = e) => ~At(y, f, p)'
  BY <1>a, EditorMoves DEF Edited, At
<1>c. Edited(p)'
  BY <1>a DEF Edited
<1>d. \A y \in running' : y = x
  BY <1>a DEF OneUp, EditorStep, EditPlan, SyncRead, SyncAct, SyncFails, RemoveJob, DeletePlan,
                DeleteFails
<1>e. Alone(p)'
  BY <1>b DEF Alone
<1>1. ASSUME NEW q \in Plan, NEW enabled \in BOOLEAN, EditPlan(x, e, q, enabled)
      PROVE  Matches(x, p)'
  <2>1. editor'[x][e] = [pc |-> "sync", plan |-> q]
    BY <1>1, <1>a, EditsFrame DEF EditPlan
  <2>2. editor'[x][e].pc = "sync"
    BY <2>1
  <2> QED
    BY <1>a, <1>b, <1>c, <2>2 DEF Matches
<1>2. ASSUME NEW q \in Plan, RemoveJob(x, e, q)
      PROVE  Matches(x, p)'
  <2>1. editor'[x][e] = [pc |-> "delete", plan |-> q]
    BY <1>2, <1>a, EditsFrame DEF RemoveJob
  <2>2. editor'[x][e].pc = "delete" /\ q = p
    BY <2>1 DEF At
  <2>3. p \notin planJob'[x]
    BY <1>2, <1>a, <2>2 DEF RemoveJob, TypeOK
  <2> QED
    BY <1>a, <1>b, <1>c, <2>2, <2>3 DEF Matches
<1>3. Idle.pc = "idle"
  BY EditorKinds
<1>4. Matches(x, p)'
  BY <1>1, <1>2, <1>3
     DEF EditorStep, SyncRead, SyncAct, SyncFails, DeletePlan, DeleteFails
<1> QED
  BY <1>d, <1>e, <1>4 DEF PlanOK

LEMMA EditorKeepsJobs ==
  ASSUME TypeOK, OneUp, JobsOK, NEW x \in up, NEW e \in Editor, EditorStep(x, e), Remember
  PROVE  JobsOK'
<1>a. x \in Process /\ UNCHANGED <<up, running>>
  BY DEF TypeOK, EditorStep, EditPlan, SyncRead, SyncAct, SyncFails, RemoveJob, DeletePlan,
         DeleteFails, process
<1>b. \A y \in Process, f \in Editor :
        ~(y = x /\ f = e) => editor'[y][f] = editor[y][f]
  BY <1>a, EditorMoves
<1>c. \A p \in Plan : Begins(p) <=> editor[x][e] = Idle /\ At(x, e, p)'
  BY <1>a, <1>b DEF Begins, At
<1>d. \A p \in Plan \ unsettled' :
        /\ Begins(p) => ~Edited(p)
        /\ ~Begins(p) => p \notin unsettled /\ ~Fails(p)
  BY <1>a DEF Remember
<1>1. ASSUME NEW p \in Plan \ unsettled', Begins(p)
      PROVE  PlanOK(p)'
  BY <1>1, <1>c, <1>d, EditorBegins
<1>2. ASSUME NEW p \in Plan \ unsettled', ~Begins(p), At(x, e, p)
      PROVE  PlanOK(p)'
  BY <1>2, <1>d, EditorGoesOn DEF JobsOK
<1>3. ASSUME NEW p \in Plan \ unsettled', ~Begins(p), ~At(x, e, p)
      PROVE  PlanOK(p)'
  <2>1. PlanOK(p)
    BY <1>3, <1>d DEF JobsOK
  <2>2. ~At(x, e, p)'
    <3>1. editor[x][e] # Idle => editor'[x][e] = Idle \/ editor'[x][e].plan = editor[x][e].plan
      <4>1. CASE SyncRead(x, e)
        BY <1>a, <4>1, EditsFrame DEF SyncRead
      <4>2. ASSUME SyncAct(x, e) \/ SyncFails(x, e) \/ DeletePlan(x, e) \/ DeleteFails(x, e)
            PROVE  editor'[x][e] = Idle
        BY <1>a, <4>2, EditsFrame DEF SyncAct, SyncFails, DeletePlan, DeleteFails
      <4>3. ASSUME NEW q \in Plan, NEW enabled \in BOOLEAN,
                   EditPlan(x, e, q, enabled) \/ RemoveJob(x, e, q)
            PROVE  editor[x][e] = Idle
        BY <4>3 DEF EditPlan, RemoveJob
      <4> QED
        BY <4>1, <4>2, <4>3 DEF EditorStep
    <3> QED
      BY <1>3, <1>c, <3>1 DEF At
  <2>3. plan'[p] = plan[p] /\ \A y \in Process : p \in planJob'[y] <=> p \in planJob[y]
    BY <1>3, <1>a, <2>2, EditedElsewhere
  <2>4. \A y \in Process, f \in Editor : At(y, f, p)' <=> At(y, f, p)
    BY <1>3, <1>b, <2>2 DEF At
  <2>5. \A y \in Process, f \in Editor : At(y, f, p) => editor'[y][f] = editor[y][f]
    BY <1>3, <1>b
  <2>6. Edited(p)' <=> Edited(p)
    BY <2>4 DEF Edited
  <2>7. Alone(p)'
    BY <2>1, <2>4 DEF PlanOK, Alone
  <2>8. ASSUME NEW y \in running
        PROVE  Matches(y, p)'
    <3>1. Matches(y, p) /\ y \in Process
      BY <2>1, <2>8 DEF PlanOK, TypeOK
    <3> QED
      BY <2>3, <2>4, <2>5, <2>6, <3>1 DEF Matches
  <2> QED
    BY <1>a, <2>7, <2>8 DEF PlanOK
<1>4. \A y \in Process \ up' : \A f \in Editor : editor'[y][f] = Idle
  BY <1>a, <1>b DEF JobsOK
<1> QED
  BY <1>1, <1>2, <1>3, <1>4 DEF JobsOK

LEMMA JobsStep ==
  ASSUME ~Overlap, Inv, JobsOK, [EditsNext]_edit_vars
  PROVE  JobsOK'
<1> USE DEF rows, process, jobs
<1>a. TypeOK /\ OneUp /\ DownIsIdle /\ running \subseteq up /\ up \subseteq Process
  BY DEF Inv, TypeOK
<1>b. ASSUME UNCHANGED <<plan, up, planJob, editor>>, running' \subseteq running,
             \A p \in Plan : p \notin unsettled' => p \notin unsettled
      PROVE  JobsOK'
  <2>1. \A p \in Plan \ unsettled' : PlanOK(p)'
    BY <1>b DEF JobsOK, PlanOK, Alone, Matches, At, Edited
  <2> QED
    BY <1>b, <2>1 DEF JobsOK
<1>c. ASSUME Remember, UNCHANGED <<up, editor>>
      PROVE  \A p \in Plan : p \notin unsettled' => p \notin unsettled
  <2>1. \A p \in Plan : ~Begins(p)
    BY <1>c DEF Begins, At
  <2> QED
    BY <1>c, <2>1 DEF Remember
<1>1. ASSUME NEW x \in Process, NEW s \in Starter, StarterStep(x, s), Remember
      PROVE  JobsOK'
  <2>1. UNCHANGED <<plan, up, running, planJob, editor>>
    BY <1>1 DEF StarterStep, StartLock, StartCheck, StartCommit, StartAborts, StartSchedule,
                StartLosesRun
  <2> QED
    BY <1>1, <1>b, <1>c, <2>1
<1>2. ASSUME NEW x \in Process, NEW r \in Run, ExecStep(x, r), Remember
      PROVE  JobsOK'
  <2>1. UNCHANGED <<plan, up, running, planJob, editor>>
    BY <1>2 DEF ExecStep, ExecLookup, ExecMissed, ExecBusy, ExecLock, ExecStart, ExecFinish,
           ExecRecord, ExecRelease, ExecRaises, ExecFail, Continues
  <2> QED
    BY <1>2, <1>b, <1>c, <2>1
<1>3. ASSUME NEW x \in Process, NEW e \in Editor, EditorStep(x, e), Remember
      PROVE  JobsOK'
  <2>1. x \in up
    <3>1. x \notin up => editor[x][e].pc = "idle"
      BY DEF JobsOK, Idle
    <3> QED
      BY <1>3, <3>1 DEF EditorStep, EditPlan, SyncRead, SyncAct, SyncFails, RemoveJob, DeletePlan,
                       DeleteFails
  <2> QED
    BY <1>3, <1>a, <2>1, EditorKeepsJobs
<1>4. ASSUME NEW r \in Run, PurgeRun(r), Remember
      PROVE  JobsOK'
  <2>1. UNCHANGED <<plan, up, running, planJob, editor>>
    BY <1>4 DEF PurgeRun
  <2> QED
    BY <1>4, <1>b, <1>c, <2>1
<1>5. ASSUME NEW x \in Process, StartProcess(x), Remember
      PROVE  JobsOK'
  <2>1. /\ up = {} /\ running' = {x} /\ up' = {x}
        /\ UNCHANGED <<plan, editor>>
    BY <1>5, <1>a DEF StartProcess
  <2>2. planJob'[x] = {p \in Plan : plan[p] = "enabled"}
    BY <1>5, <1>a DEF StartProcess, TypeOK
  <2>3. \A y \in Process, e \in Editor : editor'[y][e] = Idle
    BY <2>1 DEF JobsOK
  <2>4. ASSUME NEW p \in Plan
        PROVE  PlanOK(p)'
    <3>1. \A y \in Process, e \in Editor : ~At(y, e, p)'
      BY <2>3 DEF At
    <3>2. Matches(x, p)'
      BY <1>5, <2>1, <2>2, <3>1 DEF Matches
    <3> QED
      BY <2>1, <3>1, <3>2 DEF PlanOK, Alone
  <2> QED
    BY <2>3, <2>4 DEF JobsOK
<1>6. ASSUME NEW x \in Process, StopScheduler(x), Remember
      PROVE  JobsOK'
  <2>1. running' = {} /\ UNCHANGED <<up, editor>>
    BY <1>6, <1>a DEF StopScheduler, OneUp
  <2>2. ASSUME NEW p \in Plan \ unsettled' PROVE Alone(p)'
    <3>1. Alone(p)
      BY <1>6, <1>c, <2>1 DEF JobsOK, PlanOK
    <3> QED
      BY <2>1, <3>1 DEF Alone, At
  <2> QED
    BY <2>1, <2>2 DEF JobsOK, PlanOK
<1>7. ASSUME NEW x \in Process, Crash(x)
      PROVE  JobsOK'
  <2>1. running' = {} /\ up' = {}
    BY <1>7, <1>a DEF Crash, OneUp
  <2>2. \A y \in Process, f \in Editor :
          editor'[y][f] = IF y = x THEN Idle ELSE editor[y][f]
    BY <1>7, <1>a DEF Crash, TypeOK
  <2>3. \A y \in Process : y # x => y \notin up
    BY <1>7, <1>a DEF Crash, OneUp
  <2>4. \A y \in Process, f \in Editor : editor'[y][f] = Idle
    BY <2>2, <2>3 DEF JobsOK
  <2>5. ASSUME NEW p \in Plan PROVE Alone(p)'
    BY <2>4 DEF Alone, At
  <2> QED
    BY <2>1, <2>4, <2>5 DEF JobsOK, PlanOK
<1>8. CASE UNCHANGED edit_vars
  BY <1>8, <1>b DEF edit_vars, vars
<1>9. CASE EditsNext
  BY <1>1, <1>2, <1>3, <1>4, <1>5, <1>6, <1>7, <1>9 DEF EditsNext, Next, ProcessStep
<1> QED
  BY <1>8, <1>9

LEMMA EditsAreSchedules == EditsSpec => Spec
<1>1. EditsInit => Init
  BY DEF EditsInit
<1>2. [EditsNext]_edit_vars => [Next]_vars
  BY DEF EditsNext, edit_vars
<1> QED
  BY <1>1, <1>2, PTL DEF EditsSpec, Spec

(* The scheduler that runs has a job for each enabled plan and for no      *)
(* other, whatever requests overlap or fail half-way, as far as these did  *)
(* not unsettle the very plan: for any number of plans and requests.       *)
THEOREM EnabledPlansHaveJobs ==
  ASSUME ~Overlap
  PROVE  EditsSpec => []JobsMatchPlans
<1>1. EditsInit => JobsOK
  BY DEF EditsInit, Init, JobsOK, PlanOK, Alone, At
<1>2. Inv /\ JobsOK /\ [EditsNext]_edit_vars => JobsOK'
  BY JobsStep
<1>3. JobsOK => JobsMatchPlans
  BY DEF JobsOK, PlanOK, Matches, JobsMatchPlans
<1> QED
  BY <1>1, <1>2, <1>3, EditsAreSchedules, Invariance, PTL DEF EditsSpec
=============================================================================
