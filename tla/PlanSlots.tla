------------------------------ MODULE PlanSlots ------------------------------
(***************************************************************************)
(* What the inspection plans promise, without threads, locks, jobs and     *)
(* processes: a plan is a slot that one run at a time waits in, executes   *)
(* in and leaves, at its end or because the plan is deleted.  A run is     *)
(* never put back, overtaken or replaced while it is in the slot, and a    *)
(* restart clears every slot in which a run was executing.                 *)
(***************************************************************************)
CONSTANTS
  Plan,
  Run

VARIABLES
  waiting,    \* waiting[p]: the run of plan p that is queued
  executing   \* executing[p]: the run of plan p that is being executed

slots == <<waiting, executing>>

Init ==
  /\ waiting = [p \in Plan |-> {}]
  /\ executing = [p \in Plan |-> {}]

Free(p) == waiting[p] = {} /\ executing[p] = {}
Unused(r) == \A p \in Plan : r \notin waiting[p] /\ r \notin executing[p]

Enter(p, r) ==
  /\ Free(p)
  /\ Unused(r)
  /\ waiting' = [waiting EXCEPT ![p] = {r}]
  /\ UNCHANGED executing

Begin(p, r) ==
  /\ waiting[p] = {r}
  /\ executing[p] = {}
  /\ waiting' = [waiting EXCEPT ![p] = {}]
  /\ executing' = [executing EXCEPT ![p] = {r}]

Leave(p) ==
  /\ waiting' = [waiting EXCEPT ![p] = {}]
  /\ executing' = [executing EXCEPT ![p] = {}]

Restart ==
  /\ executing' = [p \in Plan |-> {}]
  /\ UNCHANGED waiting

Next ==
  \/ \E p \in Plan, r \in Run : Enter(p, r) \/ Begin(p, r)
  \/ \E p \in Plan : Leave(p)
  \/ Restart

Spec == Init /\ [][Next]_slots
=============================================================================
