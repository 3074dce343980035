------------------------------ MODULE PlanEdits ------------------------------
(***************************************************************************)
(* The inspection scheduler with a memory of how plans were edited.  The   *)
(* history variable records and restricts nothing; it names the plans of   *)
(* which the code no longer makes sure that their job in the scheduler     *)
(* agrees with their row.                                                  *)
(***************************************************************************)
EXTENDS InspectionScheduler

VARIABLE
  unsettled   \* plans whose latest edits overlapped, or failed half-way

edit_vars == <<vars, unsettled>>

At(x, e, p) == editor[x][e] # Idle /\ editor[x][e].plan = p
Edited(p) == \E x \in Process, e \in Editor : At(x, e, p)

Begins(p) ==
  \E x \in Process, e \in Editor : editor[x][e] = Idle /\ At(x, e, p)'

(* What fails counts as such unless there was nothing left to be done.     *)
Fails(p) ==
  \E x \in Process, e \in Editor :
    At(x, e, p) /\ (SyncFails(x, e) \/ DeleteFails(x, e)) /\ ~SyncAct(x, e)

(* A request settles the plan, unless another one is at it already; a      *)
(* process that starts settles every plan.                                 *)
Remember ==
  unsettled' = IF up' \ up # {} THEN {}
               ELSE {p \in Plan : IF Begins(p) THEN Edited(p)
                                  ELSE p \in unsettled \/ Fails(p)}

EditsInit == Init /\ unsettled = {}
EditsNext == Next /\ Remember
EditsSpec == EditsInit /\ [][EditsNext]_edit_vars

EditsTypeOK == TypeOK /\ unsettled \in SUBSET Plan

-----------------------------------------------------------------------------
(* A plan that no request is at has a job exactly when it is enabled,      *)
(* whatever starts, executions, retention, crashes and restarts do.  Only  *)
(* edits of the same plan that overlap, or fail half-way, leave it without *)
(* its job or with a job too many - and no longer than to the next edit    *)
(* that has the plan to itself, or to the next start.                      *)
JobsMatchPlans ==
  \A x \in running, p \in Plan \ unsettled :
    ~Edited(p) => (p \in planJob[x] <=> plan[p] = "enabled")
=============================================================================
