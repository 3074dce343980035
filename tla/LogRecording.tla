---------------------------- MODULE LogRecording ----------------------------
(***************************************************************************)
(* Log recordings: the rows of `log_recordings` with their lines and pods, *)
(* the stream threads that feed a recording while it lasts, and whoever    *)
(* ends it - a request, the automatic stop, a failed collection, a         *)
(* recording's size, a restart.                                            *)
(*                                                                         *)
(* Lines enter a recording in one way only: a session takes the lock of    *)
(* the recording, reads its row, and commits lines, pods and totals when   *)
(* the provider has answered (`tx`).  The row is not locked meanwhile:     *)
(* whoever ends or deletes a recording does not take that lock.            *)
(*                                                                         *)
(* SQLAlchemy keeps rows by weak reference and SQLite reads outside of a   *)
(* write transaction, so every first read of a session sees what was last  *)
(* committed; a commit writes the columns that session has changed.        *)
(***************************************************************************)
EXTENDS FiniteSets, Functions, Naturals

CONSTANTS
  Recording,    \* row ids; each is used once (a bound: SQLite may reuse them)
  NoRecording,  \* of a session that ingests nothing
  Namespace,    \* the namespaces of the cluster, all of them recorded
  Pod,          \* pods by uid, each with one container
  NamespaceOf,  \* the namespace of each pod
  Stopper,      \* threads of stop and delete requests
  AutoStopper,  \* threads of the automatic stop
  Limits,       \* the values of max_recording_bytes; a line is one byte
  GlobalBytes,  \* global_storage_bytes
  MaxLines      \* bound on the lines of one snapshot

ASSUME RecordingAssumption ==
  /\ NoRecording \notin Recording
  /\ NamespaceOf \in [Pod -> Namespace]
  /\ Limits \subseteq Nat \ {0}
  /\ Limits # {}
  /\ GlobalBytes \in Nat
  /\ MaxLines \in Nat \ {0}
  /\ Stopper \cap AutoStopper = {}

VARIABLES
  status,   \* column status of each recording
  reason,   \* column stop_reason
  bytes,    \* column total_bytes
  lines,    \* the number of bytes of its rows in log_recording_lines
  mark,     \* mark[r][p]: the row of pod p in log_recording_pods
  due,      \* recordings whose planned end has passed
  limit,    \* max_recording_bytes of the settings
  cluster,  \* state of each pod
  starting, \* recordings whose request has yet to call schedule_auto_stop
  manager,  \* state of the stream manager of each recording
  todo,     \* namespaces its round has still to discover
  snapshot, \* pods it has just discovered
  worker,   \* worker[r][p]: state of the stream of pod p
  handle,   \* recordings with a handle in _STREAMS
  stop,     \* recordings whose stop_event is set
  pc,       \* what each ending thread does
  target,   \* the recording it does this to
  tx,       \* the ingestion each thread is in the middle of
  late      \* history: commits of lines since the recording ended

rows == <<status, reason, bytes, lines, mark, late>>
world == <<due, limit, cluster>>
streams == <<manager, todo, snapshot, worker, handle, stop>>
enders == <<pc, target>>
vars == <<rows, world, starting, streams, enders, tx>>

Ender == Stopper \cup AutoStopper
Manager(r) == <<r, "manager">>
Worker(r, p) == <<r, p>>
Thread == {Manager(r) : r \in Recording} \cup (Recording \X Pod) \cup Ender

Ended == {"completed", "auto_completed", "failed"}
Status == {"none", "recording", "deleted"} \cup Ended
Reasons == [completed |-> {"user_stopped"},
            auto_completed |-> {"duration_timeout", "max_recording_bytes_reached"},
            failed |-> {"collection_failed", "recovery_failed_after_restart"}]

Row(r) == status[r] \in Ended \cup {"recording"}

NoTx == [rec |-> NoRecording, limit |-> 0, bytes |-> 0, seen |-> {}, size |-> 0]

(* Requests, the automatic stop, failures, the size limit and restarts all *)
(* end recordings and may overtake one another.  Still, status and reason  *)
(* always come from the same one of them.                                  *)
ReasonMatchesStatus ==
  /\ reason \in [Recording -> {"none"} \cup UNION {Reasons[s] : s \in Ended}]
  /\ \A r \in Recording :
       /\ status[r] = "recording" => reason[r] = "none"
       /\ status[r] \in Ended => reason[r] \in Reasons[status[r]]

TypeOK ==
  /\ status \in [Recording -> Status]
  /\ ReasonMatchesStatus
  /\ bytes \in [Recording -> Nat]
  /\ lines \in [Recording -> Nat]
  /\ mark \in [Recording -> [Pod -> {"absent", "present", "deleted"}]]
  /\ due \subseteq Recording
  /\ limit \in Limits
  /\ cluster \in [Pod -> {"future", "running", "gone"}]
  /\ starting \subseteq Recording
  /\ manager \in [Recording -> {"off", "check", "scan", "discovered", "ingest",
                                "exit", "ended", "died"}]
  /\ todo \in [Recording -> SUBSET Namespace]
  /\ snapshot \in [Recording -> SUBSET Pod]
  /\ worker \in [Recording -> [Pod -> {"none", "alive", "ingest"}]]
  /\ handle \subseteq Recording
  /\ stop \subseteq Recording
  /\ pc \in [Ender -> {"idle", "collect", "collecting", "raised", "read",
                       "write", "cleanup"}]
  /\ target \in [Ender -> Recording]
  /\ tx \in [Thread -> [rec : Recording \cup {NoRecording}, limit : Nat, bytes : Nat,
                        seen : SUBSET Pod, size : Nat]]
  /\ late \in [Recording -> Nat]

Init ==
  /\ status = [r \in Recording |-> "none"]
  /\ reason = [r \in Recording |-> "none"]
  /\ bytes = [r \in Recording |-> 0]
  /\ lines = [r \in Recording |-> 0]
  /\ mark = [r \in Recording |-> [p \in Pod |-> "absent"]]
  /\ due = {}
  /\ limit \in Limits
  /\ cluster \in [Pod -> {"future", "running"}]
  /\ starting = {}
  /\ manager = [r \in Recording |-> "off"]
  /\ todo = [r \in Recording |-> {}]
  /\ snapshot = [r \in Recording |-> {}]
  /\ worker = [r \in Recording |-> [p \in Pod |-> "none"]]
  /\ handle = {}
  /\ stop = {}
  /\ pc = [e \in Ender |-> "idle"]
  /\ target \in [Ender -> Recording]
  /\ tx = [t \in Thread |-> NoTx]
  /\ late = [r \in Recording |-> 0]

-----------------------------------------------------------------------------
(* The environment: pods come and go, time passes, settings are edited.    *)

Appear(p) ==
  /\ cluster[p] = "future"
  /\ cluster' = [cluster EXCEPT ![p] = "running"]
  /\ UNCHANGED <<rows, due, limit, starting, streams, enders, tx>>

Vanish(p) ==
  /\ cluster[p] = "running"
  /\ cluster' = [cluster EXCEPT ![p] = "gone"]
  /\ UNCHANGED <<rows, due, limit, starting, streams, enders, tx>>

PlannedEnd(r) ==
  /\ Row(r)
  /\ due' = due \cup {r}
  /\ UNCHANGED <<rows, limit, cluster, starting, streams, enders, tx>>

EditLimit ==
  /\ limit' \in Limits
  /\ UNCHANGED <<rows, due, cluster, starting, streams, enders, tx>>

-----------------------------------------------------------------------------
(* Ingesting a snapshot, which every thread does in the same two steps:    *)
(* the lock and the row, then the commit.                                  *)

Locked(r) == \E t \in Thread : tx[t].rec = r

(* Mutant: the lock is not taken.                                          *)
BeginUnlocked(t, r, seen, size) ==
  /\ status[r] = "recording"
  /\ tx' = [tx EXCEPT ![t] = [rec |-> r, limit |-> limit, bytes |-> bytes[r],
                              seen |-> seen, size |-> size]]

Begin(t, r, seen, size) ==
  /\ ~Locked(r)
  /\ status[r] = "recording"
  /\ tx' = [tx EXCEPT ![t] = [rec |-> r, limit |-> limit, bytes |-> bytes[r],
                              seen |-> seen, size |-> size]]

(* The pods of a recording after a snapshot of the pods `seen`: every      *)
(* other pod it knows counts as deleted.                                   *)
Marked(old, seen) ==
  [p \in Pod |-> IF p \in seen THEN "present"
                 ELSE IF old[p] = "absent" THEN "absent" ELSE "deleted"]

(* Mutant: the size is tested before the lines are added only.             *)
FullBefore(x, size) == x.bytes >= x.limit

(* Is the recording full after `size` more bytes than the session read?    *)
Full(x, size) == x.bytes + size >= x.limit

Store(t, marks, size) ==
  LET x == tx[t]
      r == x.rec
  IN /\ Row(r)
     /\ bytes' = [bytes EXCEPT ![r] = x.bytes + size]
     /\ lines' = [lines EXCEPT ![r] = @ + size]
     /\ mark' = [mark EXCEPT ![r] = marks]
     /\ late' = [late EXCEPT ![r] = @ + IF status[r] \in Ended /\ size > 0 THEN 1 ELSE 0]
     /\ tx' = [tx EXCEPT ![t] = NoTx]

(* Mutant: a reason already there stays.                                   *)
EndKeepingReason(r, s, why) ==
  /\ status' = [status EXCEPT ![r] = s]
  /\ reason' = [reason EXCEPT ![r] = IF @ = "none" THEN why ELSE @]

EndAs(r, s, why) ==
  /\ status' = [status EXCEPT ![r] = s]
  /\ reason' = [reason EXCEPT ![r] = why]

StatusAfter(x, size) ==
  IF Full(x, size)
  THEN EndAs(x.rec, "auto_completed", "max_recording_bytes_reached")
  ELSE UNCHANGED <<status, reason>>

(* ingest_recording_snapshot: a recording that is full already takes in    *)
(* nothing more.                                                           *)
Commit(t) ==
  LET x == tx[t]
      accepts == x.bytes < x.limit
      size == IF accepts THEN x.size ELSE 0
  IN /\ Store(t, IF accepts THEN Marked(mark[x.rec], x.seen) ELSE mark[x.rec], size)
     /\ StatusAfter(x, size)

(* The commit fails: the row is gone, or the database is locked.           *)
Rollback(t) ==
  /\ tx' = [tx EXCEPT ![t] = NoTx]
  /\ UNCHANGED rows

-----------------------------------------------------------------------------
(* Requests that create, stop and delete, and the automatic stop.          *)

(* create_recording: refused when the recordings fill the storage.         *)
Create(r) ==
  /\ status[r] = "none"
  /\ SumFunctionOnSet(bytes, {x \in Recording : Row(x)}) < GlobalBytes
  /\ status' = [status EXCEPT ![r] = "recording"]
  /\ starting' = starting \cup {r}
  /\ UNCHANGED <<reason, bytes, lines, mark, late, world, streams, enders, tx>>

(* schedule_auto_stop, after the commit: a recording that still lasts gets *)
(* a stream manager.                                                       *)
Schedule(r) ==
  /\ r \in starting
  /\ starting' = starting \ {r}
  /\ IF status[r] = "recording"
     THEN /\ manager' = [manager EXCEPT ![r] = "check"]
          /\ handle' = handle \cup {r}
          /\ UNCHANGED <<todo, snapshot, worker, stop>>
     ELSE UNCHANGED streams
  /\ UNCHANGED <<rows, world, enders, tx>>

Goes(e, where) == pc' = [pc EXCEPT ![e] = where] /\ UNCHANGED target

StopRequest(e, r) ==
  /\ e \in Stopper
  /\ pc[e] = "idle"
  /\ pc' = [pc EXCEPT ![e] = "collect"]
  /\ target' = [target EXCEPT ![e] = r]
  /\ UNCHANGED <<rows, world, starting, streams, tx>>

(* auto_stop_due_recordings selects what is due every ten seconds; the     *)
(* job of one recording, auto_stop_recording, does the same for it.        *)
AutoStop(e, r) ==
  /\ e \in AutoStopper
  /\ pc[e] = "idle"
  /\ status[r] = "recording"
  /\ r \in due
  /\ pc' = [pc EXCEPT ![e] = "collect"]
  /\ target' = [target EXCEPT ![e] = r]
  /\ UNCHANGED <<rows, world, starting, streams, tx>>

(* collect_recording_once: the last snapshot of every namespace before the *)
(* end.  It takes the lock, and does nothing when the recording has ended. *)
CollectBegin(e) ==
  /\ pc[e] = "collect"
  /\ Begin(e, target[e], {}, 0)
  /\ Goes(e, "collecting")
  /\ UNCHANGED <<rows, world, starting, streams>>

CollectNothing(e) ==
  /\ pc[e] = "collect"
  /\ ~Locked(target[e])
  /\ status[target[e]] # "recording"
  /\ Goes(e, IF Row(target[e]) THEN "read" ELSE "raised")
  /\ UNCHANGED <<rows, world, starting, streams, tx>>

Running(n) == {p \in Pod : cluster[p] = "running" /\ NamespaceOf[p] = n}

(* The marks after the snapshots of the namespaces N, `last` the last one. *)
(* The rows of pods first seen are added without a flush, so the snapshots *)
(* that follow do not find them: only pods known before count as deleted.  *)
MarkedAll(old, N, last) ==
  [p \in Pod |->
     IF old[p] = "absent" /\ p \in UNION {Running(n) : n \in N} THEN "present"
     ELSE Marked(old, Running(last))[p]]

(* What the namespaces N that answered yield, within what the limit leaves.*)
CollectCommit(e) ==
  LET x == tx[e]
  IN /\ pc[e] = "collecting"
     /\ \/ /\ x.bytes < x.limit
           /\ \E N \in (SUBSET Namespace) \ {{}}, size \in 0..MaxLines :
                \E last \in N :
                  /\ x.bytes + size =< x.limit
                  /\ Store(e, MarkedAll(mark[x.rec], N, last), size)
                  /\ StatusAfter(x, size)
        \/ /\ x.bytes >= x.limit
           /\ Store(e, mark[x.rec], 0)
           /\ StatusAfter(x, 0)
     /\ Goes(e, "read")
     /\ UNCHANGED <<world, starting, streams>>

(* No namespace answered, or one has too many pods - after others were     *)
(* ingested, perhaps: _fail_recording.                                     *)
CollectFails(e) ==
  LET x == tx[e]
  IN /\ pc[e] = "collecting"
     /\ x.bytes < x.limit
     /\ \/ Store(e, mark[x.rec], 0)
        \/ \E N \in (SUBSET Namespace) \ {{}}, size \in 0..MaxLines :
             \E last \in N :
               /\ x.bytes + size =< x.limit
               /\ Store(e, MarkedAll(mark[x.rec], N, last), size)
     /\ EndAs(x.rec, "failed", "collection_failed")
     /\ Goes(e, "raised")
     /\ UNCHANGED <<world, starting, streams>>

CollectRaises(e) ==
  /\ pc[e] = "collecting"
  /\ Rollback(e)
  /\ Goes(e, "raised")
  /\ UNCHANGED <<world, starting, streams>>

(* Mutant: the automatic stop gives up when its collection fails.          *)
RecoverGivesUp(e) ==
  /\ pc[e] = "raised"
  /\ Goes(e, IF ~Row(target[e]) \/ e \in AutoStopper THEN "idle"
             ELSE IF status[target[e]] # "recording" THEN "cleanup"
             ELSE "read")
  /\ UNCHANGED <<rows, world, starting, streams, tx>>

(* A stop request whose collection failed returns the row as it is when it *)
(* has ended; the automatic stop ignores the failure.                      *)
Recover(e) ==
  /\ pc[e] = "raised"
  /\ Goes(e, IF ~Row(target[e]) THEN "idle"
             ELSE IF e \in Stopper /\ status[target[e]] # "recording" THEN "cleanup"
             ELSE "read")
  /\ UNCHANGED <<rows, world, starting, streams, tx>>

(* The status is read, and what has ended is left alone...                 *)
ReadStatus(e) ==
  /\ pc[e] = "read"
  /\ Goes(e, IF status[target[e]] = "recording" THEN "write" ELSE "idle")
  /\ UNCHANGED <<rows, world, starting, streams, tx>>

(* ... and the end is committed, whatever has happened since.              *)
WriteEnd(e) ==
  /\ pc[e] = "write"
  /\ Row(target[e])
  /\ IF e \in Stopper
     THEN EndAs(target[e], "completed", "user_stopped")
     ELSE EndAs(target[e], "auto_completed", "duration_timeout")
  /\ Goes(e, "cleanup")
  /\ UNCHANGED <<bytes, lines, mark, late, world, starting, streams, tx>>

WriteFails(e) ==
  /\ pc[e] = "write"
  /\ Goes(e, "idle")
  /\ UNCHANGED <<rows, world, starting, streams, tx>>

(* delete_recording; the lines and pods stay in their tables.              *)
Delete(e, r) ==
  /\ e \in Stopper
  /\ pc[e] = "idle"
  /\ Row(r)
  /\ status' = [status EXCEPT ![r] = "deleted"]
  /\ pc' = [pc EXCEPT ![e] = "cleanup"]
  /\ target' = [target EXCEPT ![e] = r]
  /\ UNCHANGED <<reason, bytes, lines, mark, late, world, starting, streams, tx>>

(* Mutant: the handle is taken out only.                                   *)
PopOnly(r) ==
  /\ handle' = handle \ {r}
  /\ UNCHANGED stop

(* _stop_streaming: the handle is taken out of _STREAMS and its event set. *)
StopStreaming(r) ==
  /\ handle' = handle \ {r}
  /\ stop' = IF r \in handle THEN stop \cup {r} ELSE stop

(* remove_auto_stop                                                        *)
CleanUp(e) ==
  /\ pc[e] = "cleanup"
  /\ StopStreaming(target[e])
  /\ Goes(e, "idle")
  /\ UNCHANGED <<rows, world, starting, manager, todo, snapshot, worker, tx>>

-----------------------------------------------------------------------------
(* The stream manager of a recording.                                      *)

At(r, where) == manager' = [manager EXCEPT ![r] = where]

(* Mutant: the manager looks at its event only.                            *)
ManagerCheckEvent(r) ==
  /\ manager[r] = "check"
  /\ IF r \in stop
     THEN At(r, "exit") /\ UNCHANGED todo
     ELSE At(r, "scan") /\ todo' = [todo EXCEPT ![r] = Namespace]
  /\ UNCHANGED <<rows, world, starting, snapshot, worker, handle, stop, enders, tx>>

(* A round starts with a look at the row.                                  *)
ManagerCheck(r) ==
  /\ manager[r] = "check"
  /\ IF r \in stop
     THEN At(r, "exit") /\ UNCHANGED <<todo, stop>>
     ELSE IF status[r] # "recording"
     THEN At(r, "exit") /\ stop' = stop \cup {r} /\ UNCHANGED todo
     ELSE At(r, "scan") /\ todo' = [todo EXCEPT ![r] = Namespace] /\ UNCHANGED stop
  /\ UNCHANGED <<rows, world, starting, snapshot, worker, handle, enders, tx>>

(* The pods of a namespace are listed, which may fail.                     *)
Discover(r, n) ==
  /\ manager[r] = "scan"
  /\ r \notin stop
  /\ n \in todo[r]
  /\ todo' = [todo EXCEPT ![r] = @ \ {n}]
  /\ \/ At(r, "discovered") /\ snapshot' = [snapshot EXCEPT ![r] = Running(n)]
     \/ UNCHANGED <<manager, snapshot>>
  /\ UNCHANGED <<rows, world, starting, worker, handle, stop, enders, tx>>

ManagerBegin(r) ==
  /\ manager[r] = "discovered"
  /\ Begin(Manager(r), r, snapshot[r], 0)
  /\ At(r, "ingest")
  /\ UNCHANGED <<rows, world, starting, todo, snapshot, worker, handle, stop, enders>>

(* The recording has ended meanwhile, or is gone, which nobody catches.    *)
ManagerTooLate(r) ==
  /\ manager[r] = "discovered"
  /\ ~Locked(r)
  /\ status[r] # "recording"
  /\ snapshot' = [snapshot EXCEPT ![r] = {}]
  /\ IF Row(r) THEN At(r, "exit") /\ stop' = stop \cup {r}
     ELSE At(r, "died") /\ UNCHANGED stop
  /\ UNCHANGED <<rows, world, starting, todo, worker, handle, enders, tx>>

(* The commit, and a stream for every pod that has none.                   *)
ManagerCommit(r) ==
  /\ manager[r] = "ingest"
  /\ Commit(Manager(r))
  /\ snapshot' = [snapshot EXCEPT ![r] = {}]
  /\ IF status'[r] # "recording"
     THEN At(r, "exit") /\ stop' = stop \cup {r} /\ UNCHANGED worker
     ELSE /\ At(r, "scan")
          /\ UNCHANGED stop
          /\ worker' = [worker EXCEPT ![r] =
                [p \in Pod |-> IF r \in handle /\ p \in snapshot[r] /\ @[p] = "none"
                               THEN "alive" ELSE @[p]]]
  /\ UNCHANGED <<world, starting, todo, handle, enders>>

ManagerRaises(r) ==
  /\ manager[r] = "ingest"
  /\ Rollback(Manager(r))
  /\ At(r, "died")
  /\ snapshot' = [snapshot EXCEPT ![r] = {}]
  /\ UNCHANGED <<world, starting, todo, worker, handle, stop, enders>>

(* The round is over after fifteen seconds, or at once when it shall stop. *)
ManagerRests(r) ==
  /\ manager[r] = "scan"
  /\ todo[r] = {} \/ r \in stop
  /\ At(r, "check")
  /\ todo' = [todo EXCEPT ![r] = {}]
  /\ UNCHANGED <<rows, world, starting, snapshot, worker, handle, stop, enders, tx>>

ManagerExits(r) ==
  /\ manager[r] = "exit"
  /\ At(r, "ended")
  /\ todo' = [todo EXCEPT ![r] = {}]
  /\ StopStreaming(r)
  /\ UNCHANGED <<rows, world, starting, snapshot, worker, enders, tx>>

(* The stream of one pod: a line, the end of the stream, a line too late.  *)
WorkerGoes(r, p, where) == worker' = [worker EXCEPT ![r][p] = where]

WorkerBegin(r, p) ==
  /\ worker[r][p] = "alive"
  /\ r \notin stop
  /\ cluster[p] = "running"
  /\ Begin(Worker(r, p), r, {p}, 1)
  /\ WorkerGoes(r, p, "ingest")
  /\ UNCHANGED <<rows, world, starting, manager, todo, snapshot, handle, stop, enders>>

WorkerTooLate(r, p) ==
  /\ worker[r][p] = "alive"
  /\ ~Locked(r)
  /\ status[r] # "recording"
  /\ WorkerGoes(r, p, "none")
  /\ stop' = IF Row(r) THEN stop \cup {r} ELSE stop
  /\ UNCHANGED <<rows, world, starting, manager, todo, snapshot, handle, enders, tx>>

WorkerCommit(r, p) ==
  /\ worker[r][p] = "ingest"
  /\ Commit(Worker(r, p))
  /\ IF status'[r] # "recording"
     THEN WorkerGoes(r, p, "none") /\ stop' = stop \cup {r}
     ELSE WorkerGoes(r, p, "alive") /\ UNCHANGED stop
  /\ UNCHANGED <<world, starting, manager, todo, snapshot, handle, enders>>

WorkerRaises(r, p) ==
  /\ worker[r][p] = "ingest"
  /\ Rollback(Worker(r, p))
  /\ WorkerGoes(r, p, "none")
  /\ UNCHANGED <<world, starting, manager, todo, snapshot, handle, stop, enders>>

StreamEnds(r, p) ==
  /\ worker[r][p] = "alive"
  /\ WorkerGoes(r, p, "none")
  /\ UNCHANGED <<rows, world, starting, manager, todo, snapshot, handle, stop, enders, tx>>

(* Death of the process and the next start: sessions are rolled back,      *)
(* threads are gone, and mark_interrupted_recordings fails what was left.  *)
Restart ==
  /\ status' = [r \in Recording |-> IF status[r] = "recording" THEN "failed" ELSE status[r]]
  /\ reason' = [r \in Recording |-> IF status[r] = "recording"
                                     THEN "recovery_failed_after_restart" ELSE reason[r]]
  /\ starting' = {}
  /\ manager' = [r \in Recording |-> "off"]
  /\ todo' = [r \in Recording |-> {}]
  /\ snapshot' = [r \in Recording |-> {}]
  /\ worker' = [r \in Recording |-> [p \in Pod |-> "none"]]
  /\ handle' = {}
  /\ stop' = {}
  /\ pc' = [e \in Ender |-> "idle"]
  /\ tx' = [t \in Thread |-> NoTx]
  /\ UNCHANGED <<bytes, lines, mark, late, world, target>>

EnderStep(e) ==
  \/ CollectBegin(e) \/ CollectNothing(e) \/ CollectCommit(e) \/ CollectFails(e)
  \/ CollectRaises(e) \/ Recover(e) \/ ReadStatus(e) \/ WriteEnd(e) \/ WriteFails(e)
  \/ CleanUp(e)

ManagerStep(r) ==
  \/ ManagerCheck(r) \/ (\E n \in Namespace : Discover(r, n)) \/ ManagerBegin(r)
  \/ ManagerTooLate(r) \/ ManagerCommit(r) \/ ManagerRaises(r) \/ ManagerRests(r)
  \/ ManagerExits(r)

WorkerStep(r, p) ==
  \/ WorkerBegin(r, p) \/ WorkerTooLate(r, p) \/ WorkerCommit(r, p)
  \/ WorkerRaises(r, p) \/ StreamEnds(r, p)

Next ==
  \/ \E p \in Pod : Appear(p) \/ Vanish(p)
  \/ \E r \in Recording : PlannedEnd(r) \/ Create(r) \/ Schedule(r) \/ ManagerStep(r)
  \/ \E r \in Recording, p \in Pod : WorkerStep(r, p)
  \/ \E e \in Ender, r \in Recording : StopRequest(e, r) \/ AutoStop(e, r) \/ Delete(e, r)
  \/ \E e \in Ender : EnderStep(e)
  \/ EditLimit
  \/ Restart

Spec == Init /\ [][Next]_vars

(* Threads get on; the automatic stop runs every ten seconds, and one that *)
(* waits for a lock or writes to the database again and again succeeds at  *)
(* some time.  Streams end by the read timeout of their connection.        *)
Fairness ==
  /\ \A e \in Ender : WF_vars(EnderStep(e))
  /\ \A e \in AutoStopper :
       /\ \A r \in Recording : WF_vars(AutoStop(e, r))
       /\ SF_vars(CollectBegin(e))
       /\ SF_vars(WriteEnd(e))
  /\ \A r \in Recording : WF_vars(ManagerStep(r))
  /\ \A r \in Recording, p \in Pod : WF_vars(WorkerStep(r, p))

FairSpec == Spec /\ Fairness

-----------------------------------------------------------------------------
(* total_bytes is read, and written back with the lines of a snapshot a    *)
(* provider call later.  No concurrent ingestion is lost in it: it is the  *)
(* size of the lines stored.                                               *)
TotalsMatchLines == \A r \in Recording : bytes[r] = lines[r]

(* A recording that has reached the largest limit ever set does not go on  *)
(* recording, through whichever way its last bytes came.                   *)
FullIsEnded ==
  \A r \in Recording :
    status[r] = "recording" => \E m \in Limits : bytes[r] < m

(* Ending a recording does not wait for an ingestion under way, but only   *)
(* that one still adds lines to it: whoever takes the lock afterwards sees *)
(* the end.                                                                *)
AtMostOneLate == \A r \in Recording : late[r] =< 1

(* A stream manager that has not been told to stop can be told: its handle *)
(* is in _STREAMS.                                                         *)
StreamsAreStoppable ==
  \A r \in Recording :
    manager[r] \in {"check", "scan", "discovered", "ingest"} => r \in handle \cup stop

(* A pod is marked as deleted during the recording only if it was deleted, *)
(* which docs/v1.3.0/prd.md:194 asks for.                                  *)
DeletedMarkIsTrue ==
  \A r \in Recording, p \in Pod : mark[r][p] = "deleted" => cluster[p] = "gone"

(* A recording whose planned end has passed ends, however many streams     *)
(* want its lock.                                                          *)
RecordingEnds ==
  \A r \in Recording : (r \in due /\ status[r] = "recording") ~> status[r] # "recording"

(* Once a recording has ended or is deleted, its threads end, even if no   *)
(* one is left to stop them.                                               *)
StreamsEnd ==
  \A r \in Recording :
    (status[r] \in Ended \cup {"deleted"}) ~>
      (/\ manager[r] \in {"off", "ended", "died"}
       /\ \A p \in Pod : worker[r][p] = "none")
=============================================================================
