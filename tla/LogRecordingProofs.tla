------------------------- MODULE LogRecordingProofs -------------------------
(***************************************************************************)
(* Proofs about LogRecording, for any recordings, pods, threads and        *)
(* limits.  Only few of the actions touch a row or an ingestion, and those *)
(* do one of a handful of things to them (RowStep); the invariants about   *)
(* rows are proved from these.                                             *)
(***************************************************************************)
EXTENDS LogRecording, TLAPS

Marks == [Pod -> {"absent", "present", "deleted"}]
Ingestion == [rec : Recording \cup {NoRecording}, limit : Limits \cup {0}, bytes : Nat,
              seen : SUBSET Pod, size : Nat]

(* The ways a recording ends.                                              *)
Endings == {<<"completed", "user_stopped">>,
            <<"auto_completed", "duration_timeout">>,
            <<"auto_completed", "max_recording_bytes_reached">>,
            <<"failed", "collection_failed">>}

RowsOK ==
  /\ status \in [Recording -> Status]
  /\ ReasonMatchesStatus
  /\ bytes \in [Recording -> Nat]
  /\ lines \in [Recording -> Nat]
  /\ mark \in [Recording -> Marks]
  /\ late \in [Recording -> Nat]
  /\ limit \in Limits
  /\ tx \in [Thread -> Ingestion]

(* One thread at most ingests into a recording, and what it has read of    *)
(* the size is still so.                                                   *)
OneIngests ==
  \A t, u \in Thread : tx[t].rec = tx[u].rec /\ tx[t].rec \in Recording => t = u
SizeIsCurrent ==
  \A t \in Thread : tx[t].rec \in Recording =>
    tx[t].bytes = bytes[tx[t].rec] /\ tx[t].limit \in Limits

(* Lines come late only after the end, and then no thread is left that     *)
(* ingests.                                                                *)
LateIsLast ==
  \A r \in Recording :
    /\ status[r] \in {"none", "recording"} => late[r] = 0
    /\ Locked(r) => late[r] = 0 /\ status[r] # "none"
    /\ late[r] <= 1

UnusedIsEmpty ==
  \A r \in Recording : status[r] = "none" => bytes[r] = 0 /\ reason[r] = "none"

RowsInv ==
  RowsOK /\ OneIngests /\ SizeIsCurrent /\ LateIsLast /\ UnusedIsEmpty /\ TotalsMatchLines
  /\ FullIsEnded

-----------------------------------------------------------------------------
(* What steps do to rows and ingestions.                                   *)

Nothing == UNCHANGED <<rows, tx>> /\ limit' \in Limits

Begins ==
  \E t \in Thread, r \in Recording, seen \in SUBSET Pod, size \in Nat :
    Begin(t, r, seen, size) /\ UNCHANGED <<rows, limit>>

Stores ==
  \E t \in Thread, size \in Nat : \E marks :
    /\ tx[t].rec \in Recording => marks \in Marks
    /\ Store(t, marks, size)
    /\ StatusAfter(tx[t], size) \/ EndAs(tx[t].rec, "failed", "collection_failed")
    /\ limit' = limit

RollsBack == \E t \in Thread : Rollback(t) /\ limit' = limit

Ends ==
  /\ \E r \in Recording, ending \in Endings : Row(r) /\ EndAs(r, ending[1], ending[2])
  /\ UNCHANGED <<bytes, lines, mark, late, tx, limit>>

Appears ==
  /\ \E r \in Recording : status[r] = "none" /\ status' = [status EXCEPT ![r] = "recording"]
  /\ UNCHANGED <<reason, bytes, lines, mark, late, tx, limit>>

Disappears ==
  /\ \E r \in Recording : Row(r) /\ status' = [status EXCEPT ![r] = "deleted"]
  /\ UNCHANGED <<reason, bytes, lines, mark, late, tx, limit>>

RowStep ==
  \/ Nothing \/ Begins \/ Stores \/ RollsBack \/ Ends \/ Appears \/ Disappears
  \/ Restart /\ UNCHANGED limit

LEMMA ReasonsOf ==
  /\ Reasons["completed"] = {"user_stopped"}
  /\ Reasons["auto_completed"] = {"duration_timeout", "max_recording_bytes_reached"}
  /\ Reasons["failed"] = {"collection_failed", "recovery_failed_after_restart"}
  /\ \A s \in Ended : Reasons[s] \subseteq UNION {Reasons[x] : x \in Ended}
BY DEF Reasons, Ended

LEMMA NoTxFits == NoTx \in Ingestion /\ NoTx.rec \notin Recording
BY RecordingAssumption DEF NoTx, Ingestion

(* Ending a recording leaves its status and reason in agreement.           *)
LEMMA EndAgrees ==
  ASSUME status \in [Recording -> Status], ReasonMatchesStatus,
         NEW r \in Recording, NEW ending \in Endings, EndAs(r, ending[1], ending[2])
  PROVE  /\ status' \in [Recording -> Status]
         /\ ReasonMatchesStatus'
         /\ status'[r] \in Ended
         /\ \A q \in Recording : q # r => status'[q] = status[q] /\ reason'[q] = reason[q]
<1>1. /\ ending[1] \in Ended
      /\ ending[2] \in Reasons[ending[1]]
      /\ ending[2] \in UNION {Reasons[x] : x \in Ended}
      /\ ending[1] # "recording"
  BY ReasonsOf DEF Endings, Ended
<1>2. status' = [status EXCEPT ![r] = ending[1]] /\ reason' = [reason EXCEPT ![r] = ending[2]]
  BY DEF EndAs
<1>3. status' \in [Recording -> Status] /\ status'[r] = ending[1]
  BY <1>1, <1>2 DEF Status
<1>4. reason' \in [Recording -> {"none"} \cup UNION {Reasons[s] : s \in Ended}]
  BY <1>1, <1>2 DEF ReasonMatchesStatus
<1>6. \A q \in Recording : q # r => status'[q] = status[q] /\ reason'[q] = reason[q]
  BY <1>2 DEF ReasonMatchesStatus
<1>5. ASSUME NEW q \in Recording
      PROVE  /\ status'[q] = "recording" => reason'[q] = "none"
             /\ status'[q] \in Ended => reason'[q] \in Reasons[status'[q]]
  BY <1>1, <1>2 DEF ReasonMatchesStatus
<1> QED
  BY <1>1, <1>3, <1>4, <1>5, <1>6 DEF ReasonMatchesStatus

LEMMA NothingKeeps == ASSUME RowsInv, Nothing PROVE RowsInv'
BY DEF Nothing, rows, RowsInv, RowsOK, ReasonMatchesStatus, OneIngests, SizeIsCurrent, LateIsLast,
       Locked, UnusedIsEmpty, TotalsMatchLines, FullIsEnded

LEMMA BeginKeeps == ASSUME RowsInv, Begins PROVE RowsInv'
<1>1. PICK t \in Thread, r \in Recording, seen \in SUBSET Pod, size \in Nat :
        Begin(t, r, seen, size) /\ UNCHANGED <<rows, limit>>
  BY DEF Begins
<1> DEFINE x == [rec |-> r, limit |-> limit, bytes |-> bytes[r], seen |-> seen, size |-> size]
<1>2. /\ \A u \in Thread : tx[u].rec # r
      /\ status[r] = "recording"
      /\ tx' = [tx EXCEPT ![t] = x]
      /\ UNCHANGED <<status, reason, bytes, lines, mark, late, limit>>
  BY <1>1 DEF Begin, Locked, rows
<1>3. x \in Ingestion /\ x.limit \in Limits
  BY DEF RowsInv, RowsOK, Ingestion
<1>4. tx' \in [Thread -> Ingestion]
  BY <1>2, <1>3 DEF RowsInv, RowsOK
<1>5. \A u \in Thread : tx'[u] = IF u = t THEN x ELSE tx[u]
  BY <1>2 DEF RowsInv, RowsOK
<1>6. RowsOK' /\ UnusedIsEmpty' /\ TotalsMatchLines' /\ FullIsEnded'
  BY <1>2, <1>4
     DEF RowsInv, RowsOK, ReasonMatchesStatus, UnusedIsEmpty, TotalsMatchLines, FullIsEnded
<1>7. OneIngests' /\ SizeIsCurrent'
  BY <1>2, <1>3, <1>5 DEF RowsInv, OneIngests, SizeIsCurrent
<1>8. LateIsLast'
  BY <1>2, <1>5 DEF RowsInv, LateIsLast, Locked
<1> QED
  BY <1>6, <1>7, <1>8 DEF RowsInv

LEMMA FreeKeeps ==
  ASSUME RowsInv, NEW t \in Thread, tx' = [tx EXCEPT ![t] = NoTx]
  PROVE  /\ tx' \in [Thread -> Ingestion]
         /\ \A u \in Thread : tx'[u] = IF u = t THEN NoTx ELSE tx[u]
         /\ \A u \in Thread : tx'[u].rec \in Recording => u # t /\ tx'[u] = tx[u]
         /\ OneIngests'
<1>1. \A u \in Thread : tx'[u] = IF u = t THEN NoTx ELSE tx[u]
  BY DEF RowsInv, RowsOK
<1>2. tx' \in [Thread -> Ingestion]
  BY NoTxFits DEF RowsInv, RowsOK
<1>3. \A u \in Thread : tx'[u].rec \in Recording => u # t /\ tx'[u] = tx[u]
  BY <1>1, NoTxFits
<1>4. OneIngests'
  BY <1>3 DEF RowsInv, OneIngests
<1> QED
  BY <1>1, <1>2, <1>3, <1>4

LEMMA RollbackKeeps == ASSUME RowsInv, RollsBack PROVE RowsInv'
<1>1. PICK t \in Thread : tx' = [tx EXCEPT ![t] = NoTx] /\ UNCHANGED <<rows, limit>>
  BY DEF RollsBack, Rollback
<1>2. UNCHANGED <<status, reason, bytes, lines, mark, late, limit>>
  BY <1>1 DEF rows
<1>3. /\ tx' \in [Thread -> Ingestion]
      /\ \A u \in Thread : tx'[u].rec \in Recording => u # t /\ tx'[u] = tx[u]
      /\ OneIngests'
  BY <1>1, FreeKeeps
<1>4. RowsOK' /\ UnusedIsEmpty' /\ TotalsMatchLines' /\ FullIsEnded'
  BY <1>2, <1>3
     DEF RowsInv, RowsOK, ReasonMatchesStatus, UnusedIsEmpty, TotalsMatchLines, FullIsEnded
<1>5. SizeIsCurrent'
  BY <1>2, <1>3 DEF RowsInv, SizeIsCurrent
<1>6. LateIsLast'
  BY <1>2, <1>3 DEF RowsInv, LateIsLast, Locked
<1> QED
  BY <1>3, <1>4, <1>5, <1>6 DEF RowsInv

LEMMA EndKeeps == ASSUME RowsInv, Ends PROVE RowsInv'
<1>1. PICK r \in Recording, ending \in Endings : Row(r) /\ EndAs(r, ending[1], ending[2])
  BY DEF Ends
<1>2. UNCHANGED <<bytes, lines, mark, late, tx, limit>>
  BY DEF Ends
<1>3. /\ status' \in [Recording -> Status]
      /\ ReasonMatchesStatus'
      /\ status'[r] \in Ended
      /\ \A q \in Recording : q # r => status'[q] = status[q] /\ reason'[q] = reason[q]
  BY <1>1, EndAgrees DEF RowsInv, RowsOK
<1>4. status'[r] \notin {"none", "recording"}
  BY <1>3 DEF Ended
<1>5. RowsOK' /\ OneIngests' /\ SizeIsCurrent' /\ TotalsMatchLines'
  BY <1>2, <1>3 DEF RowsInv, RowsOK, OneIngests, SizeIsCurrent, TotalsMatchLines
<1>6. LateIsLast' /\ UnusedIsEmpty' /\ FullIsEnded'
  BY <1>2, <1>3, <1>4 DEF RowsInv, LateIsLast, Locked, UnusedIsEmpty, FullIsEnded
<1> QED
  BY <1>5, <1>6 DEF RowsInv

LEMMA AppearKeeps == ASSUME RowsInv, Appears PROVE RowsInv'
<1>1. PICK r \in Recording : status[r] = "none" /\ status' = [status EXCEPT ![r] = "recording"]
  BY DEF Appears
<1>2. UNCHANGED <<reason, bytes, lines, mark, late, tx, limit>>
  BY DEF Appears
<1>3. status' \in [Recording -> Status]
  BY <1>1 DEF RowsInv, RowsOK, Status
<1>4. \A q \in Recording : status'[q] = IF q = r THEN "recording" ELSE status[q]
  BY <1>1 DEF RowsInv, RowsOK
<1>5. "recording" \notin Ended
  BY DEF Ended
<1>6. ReasonMatchesStatus'
  BY <1>1, <1>2, <1>4, <1>5 DEF RowsInv, RowsOK, ReasonMatchesStatus, UnusedIsEmpty
<1>7. RowsOK' /\ OneIngests' /\ SizeIsCurrent' /\ TotalsMatchLines'
  BY <1>2, <1>3, <1>6 DEF RowsInv, RowsOK, OneIngests, SizeIsCurrent, TotalsMatchLines
<1>8. LateIsLast' /\ UnusedIsEmpty'
  BY <1>1, <1>2, <1>4 DEF RowsInv, LateIsLast, Locked, UnusedIsEmpty
<1>9. PICK m \in Limits : TRUE
  BY RecordingAssumption
<1>10. bytes[r] = 0
  BY <1>1 DEF RowsInv, UnusedIsEmpty
<1>11. FullIsEnded'
  BY <1>1, <1>2, <1>4, <1>9, <1>10, RecordingAssumption DEF RowsInv, FullIsEnded
<1> QED
  BY <1>7, <1>8, <1>11 DEF RowsInv

LEMMA DisappearKeeps == ASSUME RowsInv, Disappears PROVE RowsInv'
<1>1. PICK r \in Recording : Row(r) /\ status' = [status EXCEPT ![r] = "deleted"]
  BY DEF Disappears
<1>2. UNCHANGED <<reason, bytes, lines, mark, late, tx, limit>>
  BY DEF Disappears
<1>3. status' \in [Recording -> Status]
  BY <1>1 DEF RowsInv, RowsOK, Status
<1>4. \A q \in Recording : status'[q] = IF q = r THEN "deleted" ELSE status[q]
  BY <1>1 DEF RowsInv, RowsOK
<1>5. "deleted" \notin Ended
  BY DEF Ended
<1>6. ReasonMatchesStatus'
  BY <1>2, <1>4, <1>5 DEF RowsInv, RowsOK, ReasonMatchesStatus
<1>7. RowsOK' /\ OneIngests' /\ SizeIsCurrent' /\ TotalsMatchLines'
  BY <1>2, <1>3, <1>6 DEF RowsInv, RowsOK, OneIngests, SizeIsCurrent, TotalsMatchLines
<1>8. LateIsLast' /\ UnusedIsEmpty' /\ FullIsEnded'
  BY <1>2, <1>4 DEF RowsInv, LateIsLast, Locked, UnusedIsEmpty, FullIsEnded
<1> QED
  BY <1>7, <1>8 DEF RowsInv

LEMMA RestartKeeps == ASSUME RowsInv, Restart, UNCHANGED limit PROVE RowsInv'
<1>1. /\ status' = [r \in Recording |-> IF status[r] = "recording" THEN "failed" ELSE status[r]]
      /\ reason' = [r \in Recording |-> IF status[r] = "recording"
                                         THEN "recovery_failed_after_restart" ELSE reason[r]]
      /\ tx' = [t \in Thread |-> NoTx]
      /\ UNCHANGED <<bytes, lines, mark, late, limit>>
  BY DEF Restart, world
<1>2. status' \in [Recording -> Status]
  BY <1>1 DEF RowsInv, RowsOK, Status, Ended
<1>3. /\ "failed" \in Ended
      /\ "recovery_failed_after_restart" \in Reasons["failed"]
      /\ "recovery_failed_after_restart" \in UNION {Reasons[s] : s \in Ended}
  BY ReasonsOf DEF Ended
<1>4. reason' \in [Recording -> {"none"} \cup UNION {Reasons[s] : s \in Ended}]
  BY <1>1, <1>3 DEF RowsInv, RowsOK, ReasonMatchesStatus
<1>5. ASSUME NEW q \in Recording
      PROVE  /\ status'[q] = "recording" => reason'[q] = "none"
             /\ status'[q] \in Ended => reason'[q] \in Reasons[status'[q]]
  BY <1>1, <1>3 DEF RowsInv, RowsOK, ReasonMatchesStatus
<1>6. ReasonMatchesStatus'
  BY <1>4, <1>5 DEF ReasonMatchesStatus
<1>7. \A t \in Thread : tx'[t] = NoTx
  BY <1>1
<1>8. tx' \in [Thread -> Ingestion]
  BY <1>1, NoTxFits
<1>9. RowsOK' /\ OneIngests' /\ SizeIsCurrent' /\ TotalsMatchLines'
  BY <1>1, <1>2, <1>6, <1>7, <1>8, NoTxFits
     DEF RowsInv, RowsOK, OneIngests, SizeIsCurrent, TotalsMatchLines
<1>10. LateIsLast' /\ UnusedIsEmpty' /\ FullIsEnded'
  BY <1>1, <1>7, NoTxFits DEF RowsInv, LateIsLast, Locked, UnusedIsEmpty, FullIsEnded
<1> QED
  BY <1>9, <1>10 DEF RowsInv

(* A commit with no recording changes no row.                              *)
LEMMA EmptyStore ==
  ASSUME RowsInv, NEW t \in Thread, NEW marks, NEW size \in Nat, tx[t].rec \notin Recording,
         Store(t, marks, size),
         StatusAfter(tx[t], size) \/ EndAs(tx[t].rec, "failed", "collection_failed")
  PROVE  Rollback(t)
<1> DEFINE r == tx[t].rec
<1>1. /\ \A f, v : f \in [Recording -> Nat] => [f EXCEPT ![r] = v] = f
      /\ \A f, v : f \in [Recording -> Marks] => [f EXCEPT ![r] = v] = f
      /\ \A f, v : f \in [Recording -> Status] => [f EXCEPT ![r] = v] = f
      /\ \A f, v : f \in [Recording -> {"none"} \cup UNION {Reasons[s] : s \in Ended}]
                     => [f EXCEPT ![r] = v] = f
  OBVIOUS
<1>2. bytes' = bytes
  BY <1>1 DEF Store, RowsInv, RowsOK
<1>3. /\ lines' = [lines EXCEPT ![r] = lines[r] + size]
      /\ late' = [late EXCEPT ![r] = late[r] + IF status[r] \in Ended /\ size > 0 THEN 1 ELSE 0]
  BY DEF Store
<1>4. lines' = lines /\ late' = late
  BY <1>1, <1>3 DEF RowsInv, RowsOK
<1>5. mark' = mark /\ tx' = [tx EXCEPT ![t] = NoTx]
  BY <1>1 DEF Store, RowsInv, RowsOK
<1>6. status' = status /\ reason' = reason
  BY <1>1 DEF StatusAfter, EndAs, RowsInv, RowsOK, ReasonMatchesStatus
<1> QED
  BY <1>2, <1>4, <1>5, <1>6 DEF Rollback, rows

LEMMA StoreKeeps == ASSUME RowsInv, Stores PROVE RowsInv'
<1>0. PICK t \in Thread, size \in Nat : \E marks :
        /\ tx[t].rec \in Recording => marks \in Marks
        /\ Store(t, marks, size)
        /\ StatusAfter(tx[t], size) \/ EndAs(tx[t].rec, "failed", "collection_failed")
        /\ limit' = limit
  BY DEF Stores
<1>1. PICK marks :
        /\ tx[t].rec \in Recording => marks \in Marks
        /\ Store(t, marks, size)
        /\ StatusAfter(tx[t], size) \/ EndAs(tx[t].rec, "failed", "collection_failed")
        /\ limit' = limit
  BY <1>0
<1>2. CASE tx[t].rec \notin Recording
  BY <1>1, <1>2, EmptyStore, RollbackKeeps DEF RollsBack
<1>3. CASE tx[t].rec \in Recording
  <2>0. PICK x \in Ingestion, r \in Recording : x = tx[t] /\ r = x.rec
    BY <1>3 DEF RowsInv, RowsOK
  <2>1. /\ Row(r)
        /\ bytes' = [bytes EXCEPT ![r] = x.bytes + size]
        /\ lines' = [lines EXCEPT ![r] = lines[r] + size]
        /\ mark' = [mark EXCEPT ![r] = marks]
        /\ late' = [late EXCEPT ![r] = late[r] + IF status[r] \in Ended /\ size > 0
                                                  THEN 1 ELSE 0]
        /\ tx' = [tx EXCEPT ![t] = NoTx]
        /\ limit' = limit
    BY <1>1, <2>0 DEF Store
  <2>2. /\ x.bytes = bytes[r]
        /\ x.limit \in Limits
        /\ late[r] = 0
        /\ bytes[r] = lines[r]
        /\ bytes[r] \in Nat
    BY <2>0 DEF RowsInv, RowsOK, SizeIsCurrent, LateIsLast, Locked, TotalsMatchLines
  <2>3. /\ tx' \in [Thread -> Ingestion]
        /\ \A u \in Thread : tx'[u].rec \in Recording => u # t /\ tx'[u] = tx[u]
        /\ OneIngests'
    BY <2>1, FreeKeeps
  <2>4. \A u \in Thread : tx'[u].rec # r
    BY <2>0, <2>3 DEF RowsInv, OneIngests
  <2>5. \A q \in Recording :
          /\ bytes'[q] = IF q = r THEN bytes[r] + size ELSE bytes[q]
          /\ lines'[q] = IF q = r THEN lines[r] + size ELSE lines[q]
          /\ q # r => late'[q] = late[q]
    BY <2>1, <2>2 DEF RowsInv, RowsOK
  <2>6. late'[r] = IF status[r] \in Ended /\ size > 0 THEN 1 ELSE 0
    BY <2>1, <2>2 DEF RowsInv, RowsOK
  <2>7. \/ UNCHANGED <<status, reason>> /\ bytes'[r] < x.limit
        \/ \E ending \in Endings : EndAs(r, ending[1], ending[2])
    <3>1. CASE Full(x, size) /\ StatusAfter(x, size)
      BY <2>0, <3>1 DEF StatusAfter, Endings
    <3>2. CASE ~Full(x, size) /\ StatusAfter(x, size)
      <4>1. x.limit \in Nat /\ bytes'[r] = x.bytes + size /\ x.bytes \in Nat
        BY <2>2, <2>5, RecordingAssumption
      <4>2. bytes'[r] < x.limit
        BY <3>2, <4>1 DEF Full
      <4>3. UNCHANGED <<status, reason>>
        BY <3>2 DEF StatusAfter
      <4> QED
        BY <4>2, <4>3
    <3>3. CASE EndAs(r, "failed", "collection_failed")
      BY <3>3 DEF Endings
    <3> QED
      BY <1>1, <2>0, <3>1, <3>2, <3>3
  <2>8. /\ status' \in [Recording -> Status]
        /\ ReasonMatchesStatus'
        /\ \A q \in Recording : q # r => status'[q] = status[q] /\ reason'[q] = reason[q]
        /\ status'[r] \notin Ended => status'[r] = status[r] /\ bytes'[r] < x.limit
    <3>1. CASE UNCHANGED <<status, reason>> /\ bytes'[r] < x.limit
      BY <3>1 DEF RowsInv, RowsOK, ReasonMatchesStatus
    <3>2. CASE \E ending \in Endings : EndAs(r, ending[1], ending[2])
      BY <3>2, EndAgrees DEF RowsInv, RowsOK
    <3> QED
      BY <2>7, <3>1, <3>2
  <2>9. bytes' \in [Recording -> Nat] /\ lines' \in [Recording -> Nat]
    BY <2>1, <2>2 DEF RowsInv, RowsOK
  <2>10. mark' \in [Recording -> Marks] /\ late' \in [Recording -> Nat]
    BY <1>1, <2>0, <2>1, <2>2 DEF RowsInv, RowsOK
  <2>11. RowsOK'
    BY <2>1, <2>3, <2>8, <2>9, <2>10 DEF RowsInv, RowsOK
  <2>12. SizeIsCurrent' /\ TotalsMatchLines'
    BY <2>2, <2>3, <2>4, <2>5 DEF RowsInv, SizeIsCurrent, TotalsMatchLines
  <2>13. "none" \notin Ended /\ "recording" \notin Ended
    BY DEF Ended
  <2>14. LateIsLast'
    <3>1. ASSUME NEW q \in Recording, q # r
          PROVE  /\ status'[q] \in {"none", "recording"} => late'[q] = 0
                 /\ Locked(q)' => late'[q] = 0 /\ status'[q] # "none"
                 /\ late'[q] <= 1
      BY <2>3, <2>5, <2>8, <3>1 DEF RowsInv, LateIsLast, Locked
    <3>2. /\ status'[r] \in {"none", "recording"} => late'[r] = 0
          /\ ~Locked(r)'
          /\ late'[r] <= 1
      BY <2>4, <2>6, <2>8, <2>13 DEF Locked
    <3> QED
      BY <3>1, <3>2 DEF LateIsLast
  <2>15. UnusedIsEmpty' /\ FullIsEnded'
    BY <2>1, <2>2, <2>5, <2>8, <2>13 DEF RowsInv, UnusedIsEmpty, FullIsEnded, Row
  <2> QED
    BY <2>3, <2>11, <2>12, <2>14, <2>15 DEF RowsInv
<1> QED
  BY <1>2, <1>3

LEMMA RowStepKeeps == ASSUME RowsInv, RowStep PROVE RowsInv'
BY NothingKeeps, BeginKeeps, StoreKeeps, RollbackKeeps, EndKeeps, AppearKeeps, DisappearKeeps,
   RestartKeeps DEF RowStep

LEMMA RowsInitially == ASSUME Init PROVE RowsInv
<1>1. /\ status = [r \in Recording |-> "none"] /\ reason = [r \in Recording |-> "none"]
      /\ bytes = [r \in Recording |-> 0] /\ lines = [r \in Recording |-> 0]
      /\ mark = [r \in Recording |-> [p \in Pod |-> "absent"]]
      /\ late = [r \in Recording |-> 0] /\ tx = [t \in Thread |-> NoTx] /\ limit \in Limits
  BY DEF Init
<1>2. "none" \notin Ended
  BY DEF Ended
<1>3. ReasonMatchesStatus
  BY <1>1, <1>2 DEF ReasonMatchesStatus
<1>4. tx \in [Thread -> Ingestion]
  BY <1>1, NoTxFits
<1>5. mark \in [Recording -> Marks]
  BY <1>1 DEF Marks
<1>6. RowsOK
  BY <1>1, <1>3, <1>4, <1>5 DEF RowsOK, Status
<1>7. \A t \in Thread : tx[t] = NoTx
  BY <1>1
<1>8. OneIngests /\ SizeIsCurrent
  BY <1>7, NoTxFits DEF OneIngests, SizeIsCurrent
<1>9. LateIsLast /\ UnusedIsEmpty /\ TotalsMatchLines /\ FullIsEnded
  BY <1>1, <1>7, NoTxFits DEF LateIsLast, Locked, UnusedIsEmpty, TotalsMatchLines, FullIsEnded
<1> QED
  BY <1>6, <1>8, <1>9 DEF RowsInv

-----------------------------------------------------------------------------
(* The streams and the threads that end recordings.                        *)

StreamsOK ==
  /\ due \subseteq Recording
  /\ cluster \in [Pod -> {"future", "running", "gone"}]
  /\ starting \subseteq Recording
  /\ manager \in [Recording -> {"off", "check", "scan", "discovered", "ingest",
                                "exit", "ended", "died"}]
  /\ todo \in [Recording -> SUBSET Namespace]
  /\ snapshot \in [Recording -> SUBSET Pod]
  /\ worker \in [Recording -> [Pod -> {"none", "alive", "ingest"}]]
  /\ handle \subseteq Recording
  /\ stop \subseteq Recording
  /\ pc \in [Ender -> {"idle", "collect", "collecting", "raised", "read",
                       "write", "cleanup"}]
  /\ target \in [Ender -> Recording]

Inv == RowsInv /\ StreamsOK

LEMMA TypesOf == ASSUME Inv PROVE TypeOK
<1>1. tx \in [Thread -> [rec : Recording \cup {NoRecording}, limit : Nat, bytes : Nat,
                         seen : SUBSET Pod, size : Nat]]
  <2>1. Ingestion \subseteq [rec : Recording \cup {NoRecording}, limit : Nat, bytes : Nat,
                             seen : SUBSET Pod, size : Nat]
    <3>1. Limits \cup {0} \subseteq Nat
      BY RecordingAssumption
    <3> QED
      BY <3>1 DEF Ingestion
  <2> QED
    BY <2>1 DEF Inv, RowsInv, RowsOK
<1> QED
  BY <1>1 DEF Inv, RowsInv, RowsOK, Marks, StreamsOK, TypeOK

LEMMA ThreadsOf ==
  /\ \A r \in Recording : Manager(r) \in Thread
  /\ \A r \in Recording, p \in Pod : Worker(r, p) \in Thread
  /\ Ender \subseteq Thread
BY DEF Thread, Manager, Worker

(* What is known of the pods after a snapshot are pods.                    *)
LEMMA MarkedIsMarks == ASSUME NEW old \in Marks, NEW seen PROVE Marked(old, seen) \in Marks
BY DEF Marked, Marks

LEMMA MarksOf ==
  ASSUME Inv, NEW t \in Thread, tx[t].rec \in Recording
  PROVE  mark[tx[t].rec] \in Marks
BY DEF Inv, RowsInv, RowsOK

LEMMA CommitStores ==
  ASSUME Inv, NEW t \in Thread, Commit(t), UNCHANGED limit
  PROVE  Stores
<1> DEFINE x == tx[t]
           accepts == x.bytes < x.limit
           size == IF accepts THEN x.size ELSE 0
           marks == IF accepts THEN Marked(mark[x.rec], x.seen) ELSE mark[x.rec]
<1>1. Store(t, marks, size) /\ StatusAfter(x, size)
  BY DEF Commit
<1>2. size \in Nat
  BY DEF Inv, RowsInv, RowsOK, Ingestion
<1>3. tx[t].rec \in Recording => marks \in Marks
  BY MarksOf, MarkedIsMarks
<1> QED
  BY <1>1, <1>2, <1>3 DEF Stores

(* The last snapshot of every namespace is stored, or part of it before    *)
(* the recording fails.                                                    *)
LEMMA CollectStores ==
  ASSUME Inv, NEW e \in Ender, CollectCommit(e) \/ CollectFails(e)
  PROVE  Stores
<1> DEFINE x == tx[e]
<1>1. e \in Thread /\ limit' = limit
  BY ThreadsOf DEF CollectCommit, CollectFails, world
<1>2. tx[e].rec \in Recording =>
        /\ mark[x.rec] \in Marks
        /\ \A N, last : MarkedAll(mark[x.rec], N, last) \in Marks
  BY <1>1, MarksOf DEF MarkedAll, Marked, Marks
<1>3. 0..MaxLines \subseteq Nat /\ 0 \in Nat
  BY RecordingAssumption
<1>4. CASE \E size \in Nat : \E marks :
             /\ marks = mark[x.rec] \/ \E N, last : marks = MarkedAll(mark[x.rec], N, last)
             /\ Store(e, marks, size)
             /\ StatusAfter(x, size) \/ EndAs(x.rec, "failed", "collection_failed")
  BY <1>1, <1>2, <1>4 DEF Stores
<1>5. CASE CollectCommit(e)
  BY <1>3, <1>4, <1>5 DEF CollectCommit
<1>6. CASE CollectFails(e)
  BY <1>3, <1>4, <1>6 DEF CollectFails
<1> QED
  BY <1>5, <1>6

LEMMA EnderRows == ASSUME Inv, NEW e \in Ender, EnderStep(e) PROVE RowStep
<1>1. e \in Thread /\ target[e] \in Recording /\ limit \in Limits
  BY ThreadsOf DEF Inv, RowsInv, RowsOK, StreamsOK
<1>2. CASE CollectBegin(e)
  BY <1>1, <1>2 DEF CollectBegin, RowStep, Begins, world
<1>3. CASE CollectNothing(e) \/ Recover(e) \/ ReadStatus(e) \/ WriteFails(e) \/ CleanUp(e)
  BY <1>1, <1>3 DEF CollectNothing, Recover, ReadStatus, WriteFails, CleanUp, RowStep, Nothing,
                    world
<1>4. CASE CollectCommit(e) \/ CollectFails(e)
  BY <1>4, CollectStores DEF RowStep
<1>5. CASE CollectRaises(e)
  BY <1>1, <1>5 DEF CollectRaises, RowStep, RollsBack, world
<1>6. CASE WriteEnd(e)
  <2>1. \E ending \in Endings : EndAs(target[e], ending[1], ending[2])
    BY <1>6 DEF WriteEnd, Endings
  <2> QED
    BY <1>1, <1>6, <2>1 DEF WriteEnd, RowStep, Ends, world
<1> QED
  BY <1>2, <1>3, <1>4, <1>5, <1>6 DEF EnderStep

LEMMA ManagerRows == ASSUME Inv, NEW r \in Recording, ManagerStep(r) PROVE RowStep
<1>1. Manager(r) \in Thread /\ snapshot[r] \in SUBSET Pod /\ limit \in Limits
  BY ThreadsOf DEF Inv, RowsInv, RowsOK, StreamsOK
<1>2. CASE ManagerBegin(r)
  BY <1>1, <1>2 DEF ManagerBegin, RowStep, Begins, world
<1>3. CASE ManagerCommit(r)
  BY <1>1, <1>3, CommitStores DEF ManagerCommit, RowStep, world
<1>4. CASE ManagerRaises(r)
  BY <1>1, <1>4 DEF ManagerRaises, RowStep, RollsBack, world
<1>5. CASE \/ ManagerCheck(r) \/ (\E n \in Namespace : Discover(r, n)) \/ ManagerTooLate(r)
           \/ ManagerRests(r) \/ ManagerExits(r)
  BY <1>1, <1>5 DEF ManagerCheck, Discover, ManagerTooLate, ManagerRests, ManagerExits, RowStep,
                    Nothing, world
<1> QED
  BY <1>2, <1>3, <1>4, <1>5 DEF ManagerStep

LEMMA WorkerRows ==
  ASSUME Inv, NEW r \in Recording, NEW p \in Pod, WorkerStep(r, p)
  PROVE  RowStep
<1>1. Worker(r, p) \in Thread /\ limit \in Limits
  BY ThreadsOf DEF Inv, RowsInv, RowsOK
<1>2. CASE WorkerBegin(r, p)
  BY <1>1, <1>2 DEF WorkerBegin, RowStep, Begins, world
<1>3. CASE WorkerCommit(r, p)
  BY <1>1, <1>3, CommitStores DEF WorkerCommit, RowStep, world
<1>4. CASE WorkerRaises(r, p)
  BY <1>1, <1>4 DEF WorkerRaises, RowStep, RollsBack, world
<1>5. CASE WorkerTooLate(r, p) \/ StreamEnds(r, p)
  BY <1>1, <1>5 DEF WorkerTooLate, StreamEnds, RowStep, Nothing, world
<1> QED
  BY <1>2, <1>3, <1>4, <1>5 DEF WorkerStep

(* Every step does at most one of these things to the rows.                *)
LEMMA NextRows == ASSUME Inv, Next PROVE RowStep
<1>0. limit \in Limits
  BY DEF Inv, RowsInv, RowsOK
<1>1. ASSUME NEW p \in Pod, Appear(p) \/ Vanish(p) PROVE RowStep
  BY <1>0, <1>1 DEF Appear, Vanish, RowStep, Nothing
<1>2. ASSUME NEW r \in Recording, PlannedEnd(r) \/ Schedule(r) PROVE RowStep
  BY <1>0, <1>2 DEF PlannedEnd, Schedule, RowStep, Nothing, world
<1>3. ASSUME NEW r \in Recording, Create(r) PROVE RowStep
  BY <1>3 DEF Create, RowStep, Appears, world
<1>4. ASSUME NEW e \in Ender, NEW r \in Recording, StopRequest(e, r) \/ AutoStop(e, r)
      PROVE  RowStep
  BY <1>0, <1>4 DEF StopRequest, AutoStop, RowStep, Nothing, world
<1>5. ASSUME NEW e \in Ender, NEW r \in Recording, Delete(e, r) PROVE RowStep
  BY <1>5 DEF Delete, RowStep, Disappears, world
<1>6. ASSUME EditLimit PROVE RowStep
  BY <1>6 DEF EditLimit, RowStep, Nothing
<1>7. ASSUME Restart PROVE RowStep
  BY <1>7 DEF Restart, RowStep, world
<1> QED
  BY <1>1, <1>2, <1>3, <1>4, <1>5, <1>6, <1>7, EnderRows, ManagerRows, WorkerRows DEF Next

-----------------------------------------------------------------------------
(* Types of the streams and of the threads that end recordings.            *)

LEMMA EndersKeepStreams ==
  ASSUME Inv, NEW e \in Ender, EnderStep(e)
  PROVE  StreamsOK'
<1>1. StreamsOK
  BY DEF Inv
<1>2. ASSUME NEW where \in {"idle", "collect", "collecting", "raised", "read", "write", "cleanup"},
             Goes(e, where), UNCHANGED <<world, starting, streams>>
      PROVE  StreamsOK'
  BY <1>1, <1>2 DEF Goes, world, streams, StreamsOK
<1>3. CASE CollectBegin(e)
  BY <1>2, <1>3 DEF CollectBegin
<1>4. CASE CollectNothing(e)
  BY <1>2, <1>4 DEF CollectNothing
<1>5. CASE CollectCommit(e) \/ CollectFails(e) \/ CollectRaises(e)
  BY <1>2, <1>5 DEF CollectCommit, CollectFails, CollectRaises
<1>6. CASE Recover(e)
  BY <1>2, <1>6 DEF Recover
<1>7. CASE ReadStatus(e) \/ WriteEnd(e) \/ WriteFails(e)
  BY <1>2, <1>7 DEF ReadStatus, WriteEnd, WriteFails
<1>8. CASE CleanUp(e)
  BY <1>1, <1>8 DEF CleanUp, StopStreaming, Goes, world, StreamsOK
<1> QED
  BY <1>3, <1>4, <1>5, <1>6, <1>7, <1>8 DEF EnderStep

LEMMA ManagerKeepsStreams ==
  ASSUME Inv, NEW r \in Recording, ManagerStep(r)
  PROVE  StreamsOK'
<1>1. StreamsOK
  BY DEF Inv
<1>2. CASE ManagerCheck(r)
  BY <1>1, <1>2 DEF ManagerCheck, At, world, enders, StreamsOK
<1>3. ASSUME NEW n \in Namespace, Discover(r, n) PROVE StreamsOK'
  <2>1. Running(n) \in SUBSET Pod
    BY DEF Running
  <2>2. manager' \in [Recording -> {"off", "check", "scan", "discovered", "ingest",
                                   "exit", "ended", "died"}]
    BY <1>1, <1>3 DEF Discover, At, StreamsOK
  <2>3. snapshot' \in [Recording -> SUBSET Pod]
    BY <1>1, <1>3, <2>1 DEF Discover, StreamsOK
  <2>4. todo' \in [Recording -> SUBSET Namespace]
    BY <1>1, <1>3 DEF Discover, StreamsOK
  <2> QED
    BY <1>1, <1>3, <2>2, <2>3, <2>4 DEF Discover, world, enders, StreamsOK
<1>4. CASE ManagerBegin(r)
  BY <1>1, <1>4 DEF ManagerBegin, At, world, enders, StreamsOK
<1>5. CASE ManagerTooLate(r)
  BY <1>1, <1>5 DEF ManagerTooLate, At, world, enders, StreamsOK
<1>6. CASE ManagerCommit(r)
  <2>1. worker' \in [Recording -> [Pod -> {"none", "alive", "ingest"}]]
    BY <1>1, <1>6 DEF ManagerCommit, StreamsOK
  <2> QED
    BY <1>1, <1>6, <2>1 DEF ManagerCommit, At, world, enders, StreamsOK
<1>7. CASE ManagerRaises(r)
  BY <1>1, <1>7 DEF ManagerRaises, At, world, enders, StreamsOK
<1>8. CASE ManagerRests(r)
  BY <1>1, <1>8 DEF ManagerRests, At, world, enders, StreamsOK
<1>9. CASE ManagerExits(r)
  BY <1>1, <1>9 DEF ManagerExits, At, StopStreaming, world, enders, StreamsOK
<1> QED
  BY <1>2, <1>3, <1>4, <1>5, <1>6, <1>7, <1>8, <1>9 DEF ManagerStep

LEMMA WorkerKeepsStreams ==
  ASSUME Inv, NEW r \in Recording, NEW p \in Pod, WorkerStep(r, p)
  PROVE  StreamsOK'
<1>1. StreamsOK
  BY DEF Inv
<1>2. ASSUME NEW where \in {"none", "alive", "ingest"}, WorkerGoes(r, p, where)
      PROVE  worker' \in [Recording -> [Pod -> {"none", "alive", "ingest"}]]
  BY <1>1, <1>2 DEF WorkerGoes, StreamsOK
<1>3. UNCHANGED <<world, starting, manager, todo, snapshot, handle, enders>>
  BY DEF WorkerStep, WorkerBegin, WorkerTooLate, WorkerCommit, WorkerRaises, StreamEnds
<1>4. worker' \in [Recording -> [Pod -> {"none", "alive", "ingest"}]]
  BY <1>2 DEF WorkerStep, WorkerBegin, WorkerTooLate, WorkerCommit, WorkerRaises, StreamEnds
<1>5. stop' \subseteq Recording
  BY <1>1 DEF WorkerStep, WorkerBegin, WorkerTooLate, WorkerCommit, WorkerRaises, StreamEnds,
              StreamsOK
<1> QED
  BY <1>1, <1>3, <1>4, <1>5 DEF world, enders, StreamsOK

LEMMA NextKeepsStreams == ASSUME Inv, Next PROVE StreamsOK'
<1>1. StreamsOK
  BY DEF Inv
<1>2. ASSUME NEW p \in Pod, Appear(p) \/ Vanish(p) PROVE StreamsOK'
  BY <1>1, <1>2 DEF Appear, Vanish, streams, enders, StreamsOK
<1>3. ASSUME NEW r \in Recording, PlannedEnd(r) \/ Create(r) PROVE StreamsOK'
  BY <1>1, <1>3 DEF PlannedEnd, Create, world, streams, enders, StreamsOK
<1>4. ASSUME NEW r \in Recording, Schedule(r) PROVE StreamsOK'
  <2>1. /\ manager' \in [Recording -> {"off", "check", "scan", "discovered", "ingest",
                                      "exit", "ended", "died"}]
        /\ handle' \subseteq Recording /\ starting' \subseteq Recording
        /\ UNCHANGED <<todo, snapshot, worker, stop>>
    BY <1>1, <1>4 DEF Schedule, streams, StreamsOK
  <2> QED
    BY <1>1, <1>4, <2>1 DEF Schedule, world, enders, StreamsOK
<1>5. ASSUME NEW e \in Ender, NEW r \in Recording,
             StopRequest(e, r) \/ AutoStop(e, r) \/ Delete(e, r)
      PROVE  StreamsOK'
  <2>1. pc' = [pc EXCEPT ![e] = "collect"] \/ pc' = [pc EXCEPT ![e] = "cleanup"]
    BY <1>5 DEF StopRequest, AutoStop, Delete
  <2>2. /\ pc' \in [Ender -> {"idle", "collect", "collecting", "raised", "read",
                             "write", "cleanup"}]
        /\ target' = [target EXCEPT ![e] = r]
    BY <1>1, <1>5, <2>1 DEF StopRequest, AutoStop, Delete, StreamsOK
  <2>3. target' \in [Ender -> Recording]
    BY <1>1, <2>2 DEF StreamsOK
  <2>4. UNCHANGED <<world, starting, streams>>
    BY <1>5 DEF StopRequest, AutoStop, Delete
  <2> QED
    BY <1>1, <2>2, <2>3, <2>4 DEF world, streams, StreamsOK
<1>6. ASSUME EditLimit PROVE StreamsOK'
  BY <1>1, <1>6 DEF EditLimit, streams, enders, StreamsOK
<1>7. ASSUME Restart PROVE StreamsOK'
  BY <1>1, <1>7 DEF Restart, world, StreamsOK
<1> QED
  BY <1>2, <1>3, <1>4, <1>5, <1>6, <1>7, EndersKeepStreams, ManagerKeepsStreams,
     WorkerKeepsStreams DEF Next

LEMMA InvariantInitially == ASSUME Init PROVE Inv
BY RowsInitially DEF Inv, Init, StreamsOK

LEMMA InvariantKept == ASSUME Inv, [Next]_vars PROVE Inv'
<1>1. CASE Next
  BY <1>1, NextRows, RowStepKeeps, NextKeepsStreams DEF Inv
<1>2. CASE UNCHANGED vars
  <2>1. Nothing
    BY <1>2 DEF Nothing, vars, rows, world, Inv, RowsInv, RowsOK
  <2> QED
    BY <1>2, <2>1, NothingKeeps DEF Inv, StreamsOK, vars, world, streams, enders
<1> QED
  BY <1>1, <1>2

(* The rows, the one ingestion there may be, and the types of the rest.    *)
THEOREM RecordingInvariant == Spec => []Inv
<1>1. Init => Inv
  BY InvariantInitially
<1>2. Inv /\ [Next]_vars => Inv'
  BY InvariantKept
<1> QED
  BY <1>1, <1>2, PTL DEF Spec

(* Every variable has its type, and a recording's reason is one of those   *)
(* its status may have: end_recording and mark_interrupted_recordings set  *)
(* the two together.                                                       *)
THEOREM RecordingTypes == Spec => []TypeOK
<1>1. Inv => TypeOK
  BY TypesOf
<1> QED
  BY <1>1, RecordingInvariant, PTL

(* total_bytes is the size of the lines stored: sessions that ingest       *)
(* exclude one another from reading the row to the commit.                 *)
THEOREM TotalsAgree == Spec => []TotalsMatchLines
<1>1. Inv => TotalsMatchLines
  BY DEF Inv, RowsInv
<1> QED
  BY <1>1, RecordingInvariant, PTL

(* A recording that reaches its size ends with the commit that fills it.   *)
THEOREM FullEnds == Spec => []FullIsEnded
<1>1. Inv => FullIsEnded
  BY DEF Inv, RowsInv
<1> QED
  BY <1>1, RecordingInvariant, PTL

(* At most one commit adds lines to a recording that has ended.            *)
THEOREM OneCommitLate == Spec => []AtMostOneLate
<1>1. Inv => AtMostOneLate
  BY DEF Inv, RowsInv, LateIsLast, AtMostOneLate
<1> QED
  BY <1>1, RecordingInvariant, PTL
-----------------------------------------------------------------------------
(* What a stream manager can be told by.                                   *)

Streaming == {"check", "scan", "discovered", "ingest"}

(* A manager gets its handle when it is started, and only _stop_streaming  *)
(* takes the handle away, which sets the event in the same step.           *)
Tellable ==
  /\ handle \cup stop \subseteq handle' \cup stop'
  /\ \A r \in Recording :
       manager'[r] \in Streaming => manager[r] \in Streaming \/ r \in handle'

LEMMA TellableKeeps ==
  ASSUME StreamsAreStoppable, Tellable PROVE StreamsAreStoppable'
BY DEF Tellable, StreamsAreStoppable, Streaming

LEMMA StopIsTellable ==
  ASSUME NEW r, StopStreaming(r) PROVE handle \cup stop \subseteq handle' \cup stop'
BY DEF StopStreaming

LEMMA EnderTellable ==
  ASSUME NEW e \in Ender, EnderStep(e) PROVE Tellable
<1>1. CASE CleanUp(e)
  BY <1>1, StopIsTellable DEF CleanUp, Tellable
<1>2. CASE ~CleanUp(e)
  <2>1. UNCHANGED streams
    BY <1>2 DEF EnderStep, CollectBegin, CollectNothing, CollectCommit, CollectFails,
                CollectRaises, Recover, ReadStatus, WriteEnd, WriteFails
  <2> QED
    BY <2>1 DEF streams, Tellable
<1> QED
  BY <1>1, <1>2

LEMMA ManagerTellable ==
  ASSUME Inv, NEW r \in Recording, ManagerStep(r) PROVE Tellable
<1>1. manager \in [Recording -> {"off", "check", "scan", "discovered", "ingest",
                                "exit", "ended", "died"}]
  BY DEF Inv, StreamsOK
<1>2. CASE ManagerExits(r)
  <2>1. manager' = [manager EXCEPT ![r] = "ended"] /\ StopStreaming(r)
    BY <1>2 DEF ManagerExits, At
  <2> QED
    BY <1>1, <2>1, StopIsTellable DEF Tellable, Streaming
<1>3. CASE ~ManagerExits(r)
  <2>1. /\ handle' = handle
        /\ stop \subseteq stop'
        /\ manager[r] \in Streaming
        /\ manager' = manager \/ \E where : At(r, where)
    BY <1>3 DEF ManagerStep, ManagerCheck, Discover, ManagerBegin, ManagerTooLate,
                ManagerCommit, ManagerRaises, ManagerRests, Streaming
  <2> QED
    BY <1>1, <2>1 DEF At, Tellable
<1> QED
  BY <1>2, <1>3

LEMMA NextTellable == ASSUME Inv, Next, ~Restart PROVE Tellable
<1>1. ASSUME NEW p \in Pod, Appear(p) \/ Vanish(p) PROVE Tellable
  BY <1>1 DEF Appear, Vanish, streams, Tellable
<1>2. ASSUME NEW r \in Recording, PlannedEnd(r) \/ Create(r) PROVE Tellable
  BY <1>2 DEF PlannedEnd, Create, streams, Tellable
<1>3. ASSUME NEW r \in Recording, Schedule(r) PROVE Tellable
  <2>1. manager \in [Recording -> {"off", "check", "scan", "discovered", "ingest",
                                  "exit", "ended", "died"}]
    BY DEF Inv, StreamsOK
  <2>2. CASE status[r] = "recording"
    BY <1>3, <2>1, <2>2 DEF Schedule, Tellable
  <2>3. CASE status[r] # "recording"
    BY <1>3, <2>3 DEF Schedule, streams, Tellable
  <2> QED
    BY <2>2, <2>3
<1>4. ASSUME NEW r \in Recording, NEW p \in Pod, WorkerStep(r, p) PROVE Tellable
  BY <1>4 DEF WorkerStep, WorkerBegin, WorkerTooLate, WorkerCommit, WorkerRaises, StreamEnds,
              Tellable
<1>5. ASSUME NEW e \in Ender, NEW r \in Recording,
             StopRequest(e, r) \/ AutoStop(e, r) \/ Delete(e, r)
      PROVE  Tellable
  BY <1>5 DEF StopRequest, AutoStop, Delete, streams, Tellable
<1>6. ASSUME EditLimit PROVE Tellable
  BY <1>6 DEF EditLimit, streams, Tellable
<1> QED
  BY <1>1, <1>2, <1>3, <1>4, <1>5, <1>6, EnderTellable, ManagerTellable DEF Next

(* No interleaving of stop requests, the automatic stop, size limits and   *)
(* deletions leaves a stream manager running that nobody can tell to stop: *)
(* _stop_streaming takes a handle out of _STREAMS only with its event.     *)
THEOREM StreamsCanBeStopped == Spec => []StreamsAreStoppable
<1>1. Init => StreamsAreStoppable
  BY DEF Init, StreamsAreStoppable
<1>2. Inv /\ StreamsAreStoppable /\ [Next]_vars => StreamsAreStoppable'
  <2>1. ASSUME Inv, StreamsAreStoppable, Next PROVE StreamsAreStoppable'
    <3>1. CASE Restart
      BY <3>1 DEF Restart, StreamsAreStoppable
    <3> QED
      BY <2>1, <3>1, NextTellable, TellableKeeps
  <2>2. ASSUME StreamsAreStoppable, UNCHANGED vars PROVE StreamsAreStoppable'
    BY <2>2 DEF vars, streams, StreamsAreStoppable
  <2> QED
    BY <2>1, <2>2
<1> QED
  BY <1>1, <1>2, RecordingInvariant, PTL DEF Spec
=============================================================================
