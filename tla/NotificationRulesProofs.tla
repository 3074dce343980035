---------------------- MODULE NotificationRulesProofs ----------------------
(***************************************************************************)
(* Proofs of what Notifications promises: the silenced is not sent, final  *)
(* rows stay final, silence is remembered until it is summed up, and a     *)
(* flapping issue is quiet in its cooldown.  The first and the third, and  *)
(* the second for all but summaries, hold however many dispatches overlap; *)
(* the finality of summaries and the cooldown hold as long as no two of    *)
(* them overlap over the same summary or issue, which each takes as its    *)
(* hypothesis: TLC finds each to fail for two plans without it.            *)
(***************************************************************************)
EXTENDS NotificationsProofs

(* A plan whose dispatch begins anew, with later changes than there were.  *)
Begins(q) ==
  /\ dispatch'[q].pc \in {"idle", "due"}
  /\ \A x \in 1..MaxEvents : IsLeft(x, dispatch'[q]) => x > Len(events)

(* What the steps do that are not steps of a dispatch.                     *)
LEMMA OtherSteps ==
  ASSUME DispatchInv, [Next]_vars, ~ \E p \in Plan : DispatchStep(p)
  PROVE  /\ UNCHANGED <<silenced, row, acks>>
         /\ Len(events) <= Len(events') /\ \A k \in 1..Len(events) : events'[k] = events[k]
         /\ \A q \in Plan : dispatch'[q] = dispatch[q] \/ Begins(q)
         /\ now' >= now
         /\ issue' = issue \/ \E p \in Plan : RunCommits(p)
<1>1. TypeOK /\ Len(events) \in Nat /\ now \in Nat
  <2>1. TypeOK /\ now \in Stamp
    BY DEF DispatchInv, TypeOK
  <2> QED  BY <2>1, EventsFinite, NotificationAssumption DEF Stamp
<1>2. CASE Tick
  BY <1>1, <1>2 DEF Tick, tables
<1>3. ASSUME NEW p \in Plan, RunCommits(p)
      PROVE  /\ UNCHANGED <<silenced, row, acks>> /\ now' >= now
             /\ Len(events) <= Len(events') /\ \A k \in 1..Len(events) : events'[k] = events[k]
             /\ \A q \in Plan : dispatch'[q] = dispatch[q] \/ Begins(q)
  <2>1. UNCHANGED <<silenced, row, acks, now>>
    BY <1>3 DEF RunCommits
  <2>2. RunAdds(p) /\ \A e \in 1..MaxEvents : IsLeft(e, dispatch'[p]) => e > Len(events)
    BY <1>1, <1>3, RunCommitsAdds, RunAddsKeeps
  <2>3. PICK e \in Dispatch :
          /\ dispatch' = [dispatch EXCEPT ![p] = e] /\ e.pc = "due"
          /\ Len(e.changes) \in Nat /\ Len(events') = Len(events) + Len(e.changes)
          /\ \A k \in 1..Len(events) : events'[k] = events[k]
    BY <2>2 DEF RunAdds
  <2>4. \A q \in Plan : dispatch'[q] = IF q = p THEN e ELSE dispatch[q]
    BY <1>1, <2>3 DEF TypeOK
  <2>5. \A q \in Plan : dispatch'[q] = dispatch[q] \/ Begins(q)
    BY <2>2, <2>3, <2>4 DEF Begins
  <2>6. Len(events) <= Len(events')
    <3>1. PICK l \in Nat, n \in Nat : l = Len(events) /\ n = Len(e.changes)
      BY <1>1, <2>3
    <3>2. l <= l + n
      OBVIOUS
    <3> QED  BY <2>3, <3>1, <3>2, Zenon
  <2> QED  BY <1>1, <2>1, <2>3, <2>5, <2>6
<1>4. ASSUME NEW p \in Plan, RunFails(p)
      PROVE  /\ UNCHANGED <<silenced, row, acks, events, issue, now>>
             /\ \A q \in Plan : dispatch'[q] = dispatch[q] \/ Begins(q)
  <2>1. UNCHANGED <<silenced, row, acks, events, issue, now>>
    BY <1>4 DEF RunFails, tables
  <2>2. PICK e \in Dispatch :
          /\ dispatch' = [dispatch EXCEPT ![p] = e] /\ e.pc = "due"
          /\ e.failure = used.failures + 1
    BY <1>1, <1>4, RunFailsReports DEF RunReports
  <2>3. e.failure # 0
    BY <1>1, <2>2, EventsFinite
  <2>4. \A q \in Plan : dispatch'[q] = IF q = p THEN e ELSE dispatch[q]
    BY <1>1, <2>2 DEF TypeOK
  <2> QED  BY <2>1, <2>2, <2>3, <2>4 DEF Begins, IsLeft, HasChanges
<1>5. CASE Request
  BY <1>1, <1>5, RequestTables
<1>6. CASE Crash
  <2>1. \A q \in Plan : dispatch'[q] = Idle
    BY <1>6 DEF Crash
  <2>2. \A q \in Plan : Begins(q)
    BY <2>1, IdleFits DEF Begins, IsLeft, HasChanges
  <2> QED  BY <1>1, <1>6, <2>2 DEF Crash, tables
<1>7. CASE UNCHANGED vars
  BY <1>1, <1>7 DEF vars, tables
<1> QED  BY <1>1, <1>2, <1>3, <1>4, <1>5, <1>6, <1>7 DEF Next, Request

-----------------------------------------------------------------------------
(* The keys of the deliveries about a change.                              *)
KeysOf(e) == {EventKey(e, c) : c \in Channel} \cup {FlappingKey(e, c) : c \in Channel}

(* They tell changes apart, and are no other dispatch's.                   *)
LEMMA KeysApart ==
  /\ \A e \in 1..MaxEvents : KeysOf(e) \subseteq Key
  /\ \A e, f : \A k \in KeysOf(e) : k \in KeysOf(f) => e = f
BY DEF KeysOf, Key, EventKey, FlappingKey

(* The delivery in hand is about the change in hand.                       *)
LEMMA KeyOfChange ==
  ASSUME NEW d \in Dispatch, NEW c \in Channel, KeyMatches(d, c), NEW e, d.key \in KeysOf(e)
  PROVE  d.kind \in ChangeKind /\ e = d.changes[1]
<1>1. PICK b \in Channel : d.key = EventKey(e, b) \/ d.key = FlappingKey(e, b)
  BY DEF KeysOf
<1>2. CASE d.kind = "maintenance_summary" /\ \E t \in Stamp : d.key = SummaryKey(d.window, t, c)
  BY <1>1, <1>2 DEF SummaryKey, EventKey, FlappingKey
<1>3. CASE d.kind = "inspection_failed" /\ d.key = FailureKey(d.failure, c)
  BY <1>1, <1>3 DEF FailureKey, EventKey, FlappingKey
<1>4. CASE d.kind = "flapping" /\ d.send /\ d.key = FlappingKey(d.changes[1], c)
  BY <1>1, <1>4 DEF EventKey, FlappingKey, ChangeKind
<1>5. CASE d.kind \in ChangeKind /\ ~(d.kind = "flapping" /\ d.send)
           /\ d.key = EventKey(d.changes[1], c)
  BY <1>1, <1>5 DEF EventKey, FlappingKey
<1> QED  BY <1>2, <1>3, <1>4, <1>5 DEF KeyMatches

(* The same, for the dispatch of a plan.                                   *)
LEMMA KeyOfHand ==
  ASSUME DispatchInv, NEW p \in Plan, Delivers(dispatch[p]),
         NEW e, dispatch[p].key \in KeysOf(e)
  PROVE  /\ OnChange(dispatch[p]) /\ e = dispatch[p].changes[1] /\ IsLeft(e, dispatch[p])
         /\ e \in 1..Len(events) /\ e \in 1..MaxEvents
<1>1. /\ TypeOK /\ dispatch[p] \in Dispatch
      /\ DispatchOK(dispatch[p], Len(events), used.failures)
  BY OfPlan DEF DispatchInv
<1>2. PICK c \in Channel : KeyMatches(dispatch[p], c)
  BY <1>1 DEF DispatchOK
<1>3. OnChange(dispatch[p]) /\ e = dispatch[p].changes[1]
  BY <1>1, <1>2, KeyOfChange DEF OnChange, InHand, Delivers
<1>4. HasChanges(dispatch[p]) /\ ChangesOK(dispatch[p], Len(events))
  BY <1>1, <1>3 DEF DispatchOK, OnChange, SubjectOK, ChangeKind
<1> QED  BY <1>1, <1>3, <1>4, HeadIsEvent

(* What a step of a dispatch leaves to do, and what is in hand after it.   *)
LEMMA StepProgress ==
  ASSUME DispatchInv, NEW p \in Plan, DispatchStep(p)
  PROVE  /\ \A q \in Plan : q # p => dispatch'[q] = dispatch[q]
         /\ \A x \in 1..MaxEvents : IsLeft(x, dispatch'[p]) => IsLeft(x, dispatch[p])
         /\ \A x \in 1..MaxEvents : IsLeft(x, dispatch'[p]) /\ x = dispatch[p].changes[1] =>
              Stays(dispatch[p], dispatch'[p])
         /\ events' = events
<1>1. /\ Moves(p) /\ dispatch[p] \in Dispatch /\ dispatch'[p] \in Dispatch
      /\ \/ ~HasChanges(dispatch'[p]) \/ TakesUp(dispatch[p], dispatch'[p])
         \/ Stays(dispatch[p], dispatch'[p])
  BY DispatchStepKeeps, OfPlan DEF DispatchInv, Moves
<1>2. events' = events
  BY StepTables DEF DispatchInv
<1>3. ASSUME NEW x \in 1..MaxEvents, IsLeft(x, dispatch'[p])
      PROVE  /\ IsLeft(x, dispatch[p])
             /\ x = dispatch[p].changes[1] => Stays(dispatch[p], dispatch'[p])
  <2>1. x \in Nat
    BY NotificationAssumption
  <2>2. /\ IsLeft(x, dispatch[p])
        /\ TakesUp(dispatch[p], dispatch'[p]) => x # dispatch[p].changes[1]
    BY <1>1, <1>3, <2>1, FewerLeft
  <2>3. HasChanges(dispatch'[p])
    BY <1>3 DEF IsLeft
  <2> QED  BY <1>1, <2>2, <2>3
<1> QED  BY <1>1, <1>2, <1>3 DEF Moves

-----------------------------------------------------------------------------
(* The event is recorded as silenced, by some window.                      *)
IsSilenced(e) == \E w \in Window : <<e, w>> \in silenced

(* What has been recorded as silenced, and what has been acknowledged, is  *)
(* the change in hand if it is still left; the former is suppressed, the   *)
(* latter sent.                                                            *)
AckedIsSent(e, d) == IsLeft(e, d) => e = d.changes[1] /\ OnChange(d) /\ d.send
SilencedIsNot(e, d) ==
  IsLeft(e, d) => e = d.changes[1] /\ (d.pc = "mark" \/ (OnChange(d) /\ ~d.send))

AckedAreSent ==
  \A e \in 1..MaxEvents : \A k \in KeysOf(e) : acks[k] # 0 =>
    /\ e <= Len(events)
    /\ ~IsSilenced(e)
    /\ \A p \in Plan : AckedIsSent(e, dispatch[p])
SilencedAreNot ==
  \A e \in 1..MaxEvents, p \in Plan : IsSilenced(e) => SilencedIsNot(e, dispatch[p])

(* What is sent is not silenced, and what is silenced is not sent.         *)
SilenceInv == AckedAreSent /\ SilencedAreNot

(* Only the delivery in hand can be acknowledged.                          *)
LEMMA AcksOf ==
  ASSUME TypeOK, NEW p \in Plan, dispatch[p].key \in Key,
         \/ acks' = acks
         \/ acks' = [acks EXCEPT ![dispatch[p].key] = IF @ < 2 THEN @ + 1 ELSE @]
  PROVE  \A k \in Key : k # dispatch[p].key => acks'[k] = acks[k]
BY DEF TypeOK

(* A step of a dispatch does not turn a sent change into a silenced one, or*)
(* back.                                                                   *)
LEMMA StaysSent ==
  ASSUME DispatchInv, NEW p \in Plan, DispatchStep(p), NEW e \in 1..MaxEvents
  PROVE  /\ AckedIsSent(e, dispatch[p]) => AckedIsSent(e, dispatch'[p])
         /\ SilencedIsNot(e, dispatch[p]) => SilencedIsNot(e, dispatch'[p])
<1>1. /\ IsLeft(e, dispatch'[p]) => IsLeft(e, dispatch[p])
      /\ IsLeft(e, dispatch'[p]) /\ e = dispatch[p].changes[1] => Stays(dispatch[p], dispatch'[p])
  BY StepProgress
<1> QED  BY <1>1 DEF AckedIsSent, SilencedIsNot, Stays, Shares

(* Every step of a dispatch keeps them apart.                              *)
LEMMA SilenceStep ==
  ASSUME DispatchInv, SilenceInv, NEW p \in Plan, DispatchStep(p)
  PROVE  SilenceInv'
<1>1. /\ TypeOK /\ DispatchesOK /\ ChangesApart /\ dispatch[p] \in Dispatch
      /\ DispatchOK(dispatch[p], Len(events), used.failures)
  BY OfPlan DEF DispatchInv
<1>2. /\ events' = events /\ \A q \in Plan : q # p => dispatch'[q] = dispatch[q]
      /\ \A x \in 1..MaxEvents : IsLeft(x, dispatch'[p]) => IsLeft(x, dispatch[p])
  BY StepProgress
<1>3. \A e \in 1..MaxEvents, q \in Plan :
        /\ AckedIsSent(e, dispatch[q]) => AckedIsSent(e, dispatch'[q])
        /\ SilencedIsNot(e, dispatch[q]) => SilencedIsNot(e, dispatch'[q])
  BY <1>2, StaysSent
<1>4. StepFrame(p)
  BY StepsFrame
<1>5. CASE Silence(p)
  <2>1. /\ Silences(dispatch[p], dispatch'[p])
        /\ dispatch[p].changes[1] \in 1..Len(events)
        /\ silenced' = silenced \cup {<<dispatch[p].changes[1], dispatch'[p].window>>}
        /\ acks' = acks
    <3>1. acks' = acks
      BY <1>5 DEF Silence
    <3> QED  BY <1>1, <1>5, <3>1, SilenceMoves
  <2>2. dispatch[p].pc = "change" /\ dispatch'[p].pc = "mark" /\ Shares(dispatch[p], dispatch'[p])
    BY <2>1 DEF Silences
  <2>3. PICK f : f = dispatch[p].changes[1] /\ f \in 1..MaxEvents /\ IsLeft(f, dispatch[p])
    <3>1. HasChanges(dispatch[p]) /\ ChangesOK(dispatch[p], Len(events))
      BY <1>1, <2>2 DEF DispatchOK
    <3> QED  BY <1>1, <3>1, HeadIsEvent
  <2>4. \A e : IsSilenced(e)' => IsSilenced(e) \/ e = f
    BY <2>1, <2>3 DEF IsSilenced
  <2>5. \A k \in KeysOf(f) : acks[k] = 0
    <3> SUFFICES ASSUME NEW k \in KeysOf(f), acks[k] # 0 PROVE FALSE
      OBVIOUS
    <3>1. AckedIsSent(f, dispatch[p])
      BY <2>3 DEF SilenceInv, AckedAreSent
    <3> QED  BY <2>2, <2>3, <3>1 DEF AckedIsSent, OnChange, InHand
  <2>6. ASSUME NEW e \in 1..MaxEvents, NEW k \in KeysOf(e), acks'[k] # 0
        PROVE  e <= Len(events') /\ ~IsSilenced(e)' /\ \A q \in Plan : AckedIsSent(e, dispatch'[q])
    <3>1. e # f /\ acks[k] # 0
      BY <2>1, <2>5, <2>6
    <3>2. e <= Len(events) /\ ~IsSilenced(e) /\ \A q \in Plan : AckedIsSent(e, dispatch[q])
      BY <3>1 DEF SilenceInv, AckedAreSent
    <3> QED  BY <1>2, <1>3, <2>4, <3>1, <3>2
  <2>7. ASSUME NEW e \in 1..MaxEvents, NEW q \in Plan, IsSilenced(e)'
        PROVE  SilencedIsNot(e, dispatch'[q])
    <3>1. CASE IsSilenced(e)
      BY <3>1, <1>3 DEF SilenceInv, SilencedAreNot
    <3>2. CASE e = f /\ q = p
      BY <2>2, <2>3, <3>2 DEF SilencedIsNot, Shares
    <3>3. CASE e = f /\ q # p
      BY <1>1, <1>2, <2>3, <3>3 DEF SilencedIsNot, ChangesApart
    <3> QED  BY <2>4, <2>7, <3>1, <3>2, <3>3
  <2> QED  BY <2>6, <2>7 DEF SilenceInv, AckedAreSent, SilencedAreNot
<1>6. CASE ~Silence(p)
  <2>1. silenced' = silenced
    BY <1>4, <1>6 DEF StepFrame
  <2>2. SilencedAreNot'
    BY <1>3, <2>1 DEF SilenceInv, SilencedAreNot, IsSilenced
  <2>3. ASSUME NEW e \in 1..MaxEvents, NEW k \in KeysOf(e), acks'[k] # 0
        PROVE  e <= Len(events) /\ ~IsSilenced(e) /\ \A q \in Plan : AckedIsSent(e, dispatch'[q])
    <3>1. CASE acks[k] # 0
      BY <1>3, <3>1 DEF SilenceInv, AckedAreSent
    <3>2. CASE acks[k] = 0
      <4>1. Attempt(p)
        BY <1>4, <2>3, <3>2 DEF StepFrame
      <4>2. /\ Sends(dispatch[p], dispatch'[p])
            /\ \/ acks' = acks
               \/ acks' = [acks EXCEPT ![dispatch[p].key] = IF @ < 2 THEN @ + 1 ELSE @]
        BY <1>1, <4>1, AttemptMoves
      <4>3. Delivers(dispatch[p]) /\ dispatch[p].key \in Key
        BY <1>1, <4>2, KeyInHand DEF Sends, Delivers
      <4>4. k = dispatch[p].key
        BY <1>1, <2>3, <3>2, <4>2, <4>3, AcksOf, KeysApart
      <4>5. /\ OnChange(dispatch[p]) /\ e = dispatch[p].changes[1] /\ IsLeft(e, dispatch[p])
            /\ e \in 1..Len(events)
        BY <4>3, <4>4, KeyOfHand
      <4>6. dispatch[p].send /\ dispatch[p].pc # "mark"
        BY <4>2 DEF Sends
      <4>7. ~IsSilenced(e)
        BY <4>5, <4>6 DEF SilenceInv, SilencedAreNot, SilencedIsNot
      <4>8. \A q \in Plan : AckedIsSent(e, dispatch[q])
        BY <1>1, <4>5, <4>6 DEF ChangesApart, AckedIsSent
      <4> QED  BY <1>3, <4>5, <4>7, <4>8
    <3> QED  BY <3>1, <3>2
  <2> QED  BY <1>2, <2>1, <2>2, <2>3 DEF SilenceInv, AckedAreSent, IsSilenced
<1> QED  BY <1>5, <1>6

(* So does every other step.                                               *)
LEMMA SilenceNext == DispatchInv /\ SilenceInv /\ [Next]_vars => SilenceInv'
<1> SUFFICES ASSUME DispatchInv, SilenceInv, [Next]_vars PROVE SilenceInv'
  OBVIOUS
<1>1. ASSUME NEW p \in Plan, DispatchStep(p) PROVE SilenceInv'
  BY <1>1, SilenceStep
<1>2. CASE ~ \E p \in Plan : DispatchStep(p)
  <2>1. /\ UNCHANGED <<silenced, acks>> /\ Len(events) <= Len(events')
        /\ \A q \in Plan : dispatch'[q] = dispatch[q] \/ Begins(q)
    BY <1>2, OtherSteps
  <2>2. TypeOK /\ TypeOK'
    BY DispatchNext DEF DispatchInv
  <2>3. Len(events) \in Nat /\ Len(events') \in Nat /\ MaxEvents \in Nat
    BY <2>2, NotificationAssumption DEF TypeOK
  <2>4. \A e \in 1..MaxEvents, q \in Plan : e <= Len(events) =>
          /\ AckedIsSent(e, dispatch[q]) => AckedIsSent(e, dispatch'[q])
          /\ SilencedIsNot(e, dispatch[q]) => SilencedIsNot(e, dispatch'[q])
    <3> TAKE e \in 1..MaxEvents, q \in Plan
    <3> HAVE e <= Len(events)
    <3>1. CASE Begins(q)
      <4>1. ~(e > Len(events))
        BY <2>3
      <4> QED  BY <3>1, <4>1 DEF Begins, AckedIsSent, SilencedIsNot
    <3> QED  BY <2>1, <3>1
  <2>5. \A e : IsSilenced(e) => e \in 1..Len(events)
    BY <2>2 DEF IsSilenced, TypeOK
  <2>6. \A e \in 1..MaxEvents : e <= Len(events) => e <= Len(events')
    BY <2>1, <2>3
  <2>7. \A e \in 1..MaxEvents : IsSilenced(e) => e <= Len(events)
    BY <2>3, <2>5
  <2> QED  BY <2>1, <2>4, <2>6, <2>7
           DEF SilenceInv, AckedAreSent, SilencedAreNot, IsSilenced
<1> QED  BY <1>1, <1>2

(* Nothing is silenced and nothing is sent at the start.                   *)
LEMMA SilenceInit == Init => SilenceInv
<1> SUFFICES ASSUME Init PROVE SilenceInv
  OBVIOUS
<1>1. silenced = {} /\ \A k \in Key : acks[k] = 0
  BY DEF Init
<1> QED  BY <1>1, KeysApart DEF SilenceInv, AckedAreSent, SilencedAreNot, IsSilenced

(* A change that a maintenance window silenced reaches no channel:         *)
(* _dispatch_change either records the silence and creates suppressed      *)
(* deliveries, or sends, and the change is given to no other dispatch. This*)
(* holds for any number of runs whose dispatches overlap, with crashes,    *)
(* edited windows and edited channels.                                     *)
THEOREM SilencedNotSent == Spec => []SilencedSendsNothing
<1>1. DispatchInv /\ SilenceInv => SilencedSendsNothing
  <2> SUFFICES ASSUME DispatchInv, SilenceInv, NEW s \in silenced, NEW c \in Channel
               PROVE  acks[EventKey(s[1], c)] = 0 /\ acks[FlappingKey(s[1], c)] = 0
    BY DEF SilencedSendsNothing
  <2>1. TypeOK
    BY DEF DispatchInv
  <2>2. s = <<s[1], s[2]>> /\ s[1] \in 1..Len(events) /\ s[2] \in Window
    BY <2>1 DEF TypeOK
  <2>3. s[1] \in 1..MaxEvents
    BY <2>1, <2>2, EventsFinite
  <2>4. IsSilenced(s[1])
    BY <2>2 DEF IsSilenced
  <2> QED  BY <2>3, <2>4 DEF SilenceInv, AckedAreSent, KeysOf
<1>2. Spec => []SilenceInv
  <2>1. DispatchInv /\ SilenceInv /\ [Next]_vars => SilenceInv'
    BY SilenceNext
  <2> QED  BY <2>1, SilenceInit, DispatchSafety, PTL DEF Spec
<1> QED  BY <1>1, <1>2, DispatchSafety, PTL

(* A delivery is being sent only after an attempt.                         *)
LEMMA SendsByAttempt ==
  ASSUME TypeOK, DispatchesOK, NEW p \in Plan, DispatchStep(p),
         dispatch'[p].pc \in {"acked", "unacked"}
  PROVE  Attempt(p)
<1> USE IdleFits DEF Ends, Returns, Sums, Reports, Starts, Turns, Clears, Announces, Silences, Marks, Takes,
            GoesOn, Concludes, Fresh, NextOne
<1>1. ~Due(p)
  BY DueMoves
<1>2. ~NextWindow(p)
  BY NextWindowMoves
<1>3. ~Clear(p)
  BY ClearMoves
<1>4. ~Skip(p)
  BY SkipMoves
<1>5. ~Announce(p)
  BY AnnounceMoves
<1>6. ~Silence(p)
  BY SilenceMoves
<1>7. ~Mark(p)
  BY MarkMoves
<1>8. ~Create(p)
  BY CreateMoves
<1>9. ~Suppress(p)
  BY SuppressMoves
<1>10. ~DeliversNothing(p)
  BY DeliversNothingMoves
<1>11. ~DecryptFails(p)
  BY DecryptFailsMoves
<1>12. ~Succeed(p)
  BY SucceedMoves
<1>13. ~GiveUp(p)
  BY GiveUpMoves
<1> QED  BY <1>1, <1>2, <1>3, <1>4, <1>5, <1>6, <1>7, <1>8, <1>9, <1>10, <1>11, <1>12, <1>13
         DEF DispatchStep

(* The one delivery a step of a dispatch changes, and how.                 *)
Creates(p) ==
  /\ Create(p) /\ Takes(dispatch[p], dispatch'[p])
  /\ \A l \in Key : l # dispatch'[p].key => row'[l] = row[l]
  /\ row[dispatch'[p].key].status = None =>
       /\ row'[dispatch'[p].key].status = "pending" /\ row'[dispatch'[p].key].at = now
       /\ row'[dispatch'[p].key].kind = dispatch[p].kind
  /\ row[dispatch'[p].key].status # None => row'[dispatch'[p].key] = row[dispatch'[p].key]
Settles(p) ==
  /\ Delivers(dispatch[p])
  /\ \A l \in Key : l # dispatch[p].key => row'[l] = row[l]
  /\ row'[dispatch[p].key].kind = row[dispatch[p].key].kind
  /\ row'[dispatch[p].key].at = row[dispatch[p].key].at
  /\ row'[dispatch[p].key].status \in Terminal \cup {"delivering"}
  /\ dispatch[p].send \/ row'[dispatch[p].key].status = "suppressed"
  /\ \/ row[dispatch[p].key].status \notin Terminal
     \/ dispatch[p].pc \in {"acked", "unacked"}

(* A step of a dispatch creates a row, settles one, or changes none.       *)
LEMMA RowStep ==
  ASSUME TypeOK, DispatchesOK, NEW p \in Plan, DispatchStep(p)
  PROVE  /\ row' = row \/ Creates(p) \/ Settles(p)
         /\ Attempt(p) => /\ row'[dispatch[p].key].status = "delivering"
                          /\ dispatch'[p].key = dispatch[p].key
<1>1. row \in [Key -> Row] /\ now \in Stamp
  BY TypesOfRow DEF TypeOK
<1>2. /\ dispatch[p] \in Dispatch /\ DispatchOK(dispatch[p], Len(events), used.failures)
      /\ Delivers(dispatch[p]) => dispatch[p].key \in Key
      /\ dispatch[p].pc \in {"acked", "unacked"} => dispatch[p].send
  BY OfPlan, KeyInHand DEF DispatchOK
<1>3. CASE Create(p)
  <2>1. dispatch[p].kind \in Kind
    BY <1>2, <1>3, KindsOf DEF Create, DispatchOK, InHand, SubjectOK
  <2>2. CASE row' = row
    BY <1>3, <2>2 DEF Create, Attempt, MayAttempt
  <2>3. CASE /\ Takes(dispatch[p], dispatch'[p]) /\ dispatch'[p].key \in Key
             /\ row' = [row EXCEPT ![dispatch'[p].key] =
                  IF @.status = None
                    THEN [status |-> "pending", kind |-> dispatch[p].kind, at |-> now] ELSE @]
    <3>1. Creates(p)
      BY <1>1, <1>3, <2>1, <2>3, RowCreated DEF Creates
    <3> QED  BY <1>3, <3>1 DEF Create, Attempt, MayAttempt
  <2> QED  BY <1>3, <2>2, <2>3, CreateMoves
<1>4. ASSUME NEW s \in Terminal \cup {"delivering"}, Delivers(dispatch[p]),
             row' = [row EXCEPT ![dispatch[p].key].status = s],
             dispatch[p].send \/ s = "suppressed",
             row[dispatch[p].key].status \notin Terminal \/ dispatch[p].pc \in {"acked", "unacked"}
      PROVE  Settles(p) /\ row'[dispatch[p].key].status = s
  BY <1>1, <1>2, <1>4, StatusSet DEF Settles
<1>5. CASE Suppress(p)
  <2>1. CASE row' = row
    BY <1>5, <2>1 DEF Suppress, Attempt, MayAttempt
  <2> QED  BY <1>4, <1>5, <2>1, SuppressMoves DEF Delivers, Terminal, Attempt, MayAttempt
<1>6. CASE DecryptFails(p)
  <2>1. Settles(p) /\ row'[dispatch[p].key].status = "failed"
    BY <1>4, <1>6, DecryptFailsMoves DEF Delivers, Terminal
  <2>2. ~Attempt(p) \/ row'[dispatch[p].key].status = "delivering"
    BY <1>1, <1>2, AttemptMoves, StatusSet DEF Sends, Delivers
  <2> QED  BY <2>1, <2>2
<1>7. CASE Attempt(p)
  <2>1. /\ Sends(dispatch[p], dispatch'[p])
        /\ dispatch[p].pc = "handle" => row[dispatch[p].key].status \notin Terminal
        /\ row' = [row EXCEPT ![dispatch[p].key].status = "delivering"]
    BY <1>7, AttemptMoves
  <2>2. /\ Delivers(dispatch[p]) /\ dispatch[p].send
        /\ dispatch'[p].key = dispatch[p].key
        /\ row[dispatch[p].key].status \notin Terminal \/ dispatch[p].pc \in {"acked", "unacked"}
    BY <2>1 DEF Sends, Delivers
  <2>3. Settles(p) /\ row'[dispatch[p].key].status = "delivering"
    BY <1>4, <2>1, <2>2
  <2> QED  BY <2>2, <2>3
<1>8. CASE Succeed(p)
  <2>1. Settles(p) /\ row'[dispatch[p].key].status = "succeeded"
    BY <1>2, <1>4, <1>8, SucceedMoves DEF Delivers, Terminal
  <2> QED  BY <1>8, <2>1 DEF Succeed, Attempt, MayAttempt
<1>9. CASE GiveUp(p)
  <2>1. Settles(p)
    BY <1>2, <1>4, <1>9, GiveUpMoves DEF Delivers, Terminal
  <2>2. ~Attempt(p)
    BY <1>9, NotificationAssumption DEF GiveUp, Attempt, MayAttempt
  <2> QED  BY <2>1, <2>2
<1>10. row' = row \/ Create(p) \/ Suppress(p) \/ DecryptFails(p) \/ Attempt(p) \/ Succeed(p)
       \/ GiveUp(p)
  BY StepsFrame DEF StepFrame
<1> QED  BY <1>3, <1>5, <1>6, <1>7, <1>8, <1>9, <1>10

(* The deliveries in hand are different ones, except for summaries.        *)
KeyIsItsOwn(p) ==
  \A q \in Plan :
    q # p /\ Delivers(dispatch[p]) /\ Delivers(dispatch[q]) => dispatch[p].key # dispatch[q].key

(* A message goes out while its row says that it is being delivered.       *)
Sending(p) ==
  dispatch[p].pc \in {"acked", "unacked"} => row[dispatch[p].key].status = "delivering"

(* Dispatches have different deliveries about changes and failures in hand.*)
LEMMA KeysInHandApart ==
  ASSUME DispatchInv, NEW p \in Plan, dispatch[p].kind # "maintenance_summary"
  PROVE  KeyIsItsOwn(p)
<1> SUFFICES ASSUME NEW q \in Plan, q # p, Delivers(dispatch[p]), Delivers(dispatch[q]),
                    dispatch[p].key = dispatch[q].key
             PROVE  FALSE
  BY DEF KeyIsItsOwn
<1>1. TypeOK /\ DispatchesOK /\ ChangesApart
  BY DEF DispatchInv
<1>2. PICK c \in Channel : KeyMatches(dispatch[p], c)
  BY <1>1, OfPlan, KeyInHand
<1>3. PICK b \in Channel : KeyMatches(dispatch[q], b)
  BY <1>1, OfPlan, KeyInHand
<1>4. CASE dispatch[p].kind = "inspection_failed"
  <2>1. dispatch[p].key = FailureKey(dispatch[p].failure, c)
    BY <1>2, <1>4 DEF KeyMatches, ChangeKind
  <2>2. dispatch[q].kind = "inspection_failed" /\ dispatch[q].key = FailureKey(dispatch[q].failure, b)
    BY <1>3, <2>1 DEF KeyMatches, FailureKey, SummaryKey, FlappingKey, EventKey
  <2>3. dispatch[p].failure = dispatch[q].failure
    <3>1. \A n, m : FailureKey(n, c) = FailureKey(m, b) => n = m
      BY DEF FailureKey
    <3> QED  BY <2>1, <2>2, <3>1
  <2>4. dispatch[p].failure > 0
    BY <1>1, <1>4, OfPlan DEF DispatchOK, SubjectOK, InHand, Delivers, ChangeKind
  <2> QED  BY <1>1, <2>3, <2>4 DEF ChangesApart
<1>5. CASE dispatch[p].kind # "inspection_failed"
  <2>1. PICK e : e = dispatch[p].changes[1] /\ dispatch[p].key \in KeysOf(e)
    BY <1>2, <1>5 DEF KeyMatches, KeysOf
  <2>2. IsLeft(e, dispatch[p]) /\ e \in 1..MaxEvents
    BY <2>1, KeyOfHand
  <2>3. IsLeft(e, dispatch[q])
    BY <2>1, KeyOfHand
  <2> QED  BY <1>1, <2>2, <2>3 DEF ChangesApart
<1> QED  BY <1>4, <1>5

(* A step of a dispatch does not settle the row that another one is        *)
(* delivering.                                                             *)
LEMMA StepSending ==
  ASSUME DispatchInv, NEW p \in Plan, DispatchStep(p), NEW q \in Plan,
         q = p \/ (Sending(q) /\ KeyIsItsOwn(q))
  PROVE  Sending(q)'
<1>1. TypeOK /\ DispatchesOK
  BY DEF DispatchInv
<1>2. CASE q = p
  <2> SUFFICES ASSUME dispatch'[p].pc \in {"acked", "unacked"}
               PROVE  row'[dispatch'[p].key].status = "delivering"
    BY <1>2 DEF Sending
  <2> QED  BY <1>1, SendsByAttempt, RowStep
<1>3. CASE q # p
  <2>1. dispatch'[q] = dispatch[q]
    BY <1>3, StepProgress
  <2> SUFFICES ASSUME dispatch[q].pc \in {"acked", "unacked"}
               PROVE  row'[dispatch[q].key].status = "delivering"
    BY <2>1 DEF Sending
  <2>2. /\ row[dispatch[q].key].status = "delivering" /\ Delivers(dispatch[q])
        /\ dispatch[q].key \in Key
    BY <1>1, <1>3, OfPlan, KeyInHand DEF Sending, Delivers
  <2>3. CASE Creates(p)
    BY <2>2, <2>3 DEF Creates, None
  <2>4. CASE Settles(p)
    BY <1>3, <2>2, <2>4 DEF Settles, KeyIsItsOwn
  <2> QED  BY <1>1, <2>2, <2>3, <2>4, RowStep
<1> QED  BY <1>2, <1>3

(* Nor do the steps that are not a dispatch's.                             *)
LEMMA OthersSending ==
  ASSUME DispatchInv, [Next]_vars, ~ \E p \in Plan : DispatchStep(p), NEW q \in Plan, Sending(q)
  PROVE  Sending(q)'
BY OtherSteps DEF Sending, Begins

(* A step leaves a delivery alone that is final, if it is not being sent   *)
(* against what its row says.                                              *)
LEMMA FinalStays ==
  ASSUME DispatchInv, [Next]_vars, NEW k \in Key, row[k].status \in Terminal,
         \A p \in Plan : dispatch[p].key = k => Sending(p)
  PROVE  row'[k] = row[k]
<1>1. ASSUME NEW p \in Plan, DispatchStep(p) PROVE row'[k] = row[k]
  <2>1. TypeOK /\ DispatchesOK
    BY DEF DispatchInv
  <2>2. CASE Creates(p)
    BY <2>2 DEF Creates, Terminal, None
  <2>3. CASE Settles(p)
    BY <2>3 DEF Settles, Sending, Terminal
  <2> QED  BY <1>1, <2>1, <2>2, <2>3, RowStep
<1>2. CASE ~ \E p \in Plan : DispatchStep(p)
  BY <1>2, OtherSteps
<1> QED  BY <1>1, <1>2

(* Messages about changes and failures go out while their rows say so.     *)
SendingInv == \A p \in Plan : dispatch[p].kind # "maintenance_summary" => Sending(p)

(* Every step keeps that.                                                  *)
LEMMA SendingNext == DispatchInv /\ SendingInv /\ [Next]_vars => SendingInv'
<1> SUFFICES ASSUME DispatchInv, SendingInv, [Next]_vars, NEW q \in Plan,
                    dispatch'[q].kind # "maintenance_summary"
             PROVE  Sending(q)'
  BY DEF SendingInv
<1>1. ASSUME NEW p \in Plan, DispatchStep(p) PROVE Sending(q)'
  <2>1. q = p \/ dispatch'[q] = dispatch[q]
    BY <1>1, StepProgress
  <2>2. q = p \/ (Sending(q) /\ KeyIsItsOwn(q))
    BY <2>1, KeysInHandApart DEF SendingInv
  <2> QED  BY <1>1, <2>2, StepSending
<1>2. CASE ~ \E p \in Plan : DispatchStep(p)
  <2>1. dispatch'[q] = dispatch[q] \/ Begins(q)
    BY <1>2, OtherSteps
  <2>2. CASE Begins(q)
    BY <2>2 DEF Begins, Sending
  <2> QED  BY <1>2, <2>1, <2>2, OthersSending DEF SendingInv
<1> QED  BY <1>1, <1>2

(* A delivery of a window's summary.                                       *)
IsSummary(k) == \E w \in Window, t \in Stamp, c \in Channel : k = SummaryKey(w, t, c)

(* The row of a delivery about a change of an issue or a failed run, once  *)
(* it is sent, failed or suppressed, is never changed: _deliver returns    *)
(* early when it finds a final row, and no other dispatch holds the same   *)
(* delivery. This is FinalIsFinal without the summaries, for any number of *)
(* overlapping dispatches.                                                 *)
THEOREM IssueDeliveriesStayFinal ==
  Spec => [][\A k \in Key : ~IsSummary(k) /\ row[k].status \in Terminal => row'[k] = row[k]]_vars
<1>1. DispatchInv /\ SendingInv /\ [Next]_vars =>
        \A k \in Key : ~IsSummary(k) /\ row[k].status \in Terminal => row'[k] = row[k]
  <2> SUFFICES ASSUME DispatchInv, SendingInv, [Next]_vars,
                      NEW k \in Key, ~IsSummary(k), row[k].status \in Terminal
               PROVE  row'[k] = row[k]
    OBVIOUS
  <2>1. ASSUME NEW p \in Plan, dispatch[p].key = k PROVE Sending(p)
    <3>1. CASE dispatch[p].pc \in {"acked", "unacked"}
      <4>1. PICK c \in Channel : KeyMatches(dispatch[p], c)
        BY <3>1, OfPlan, KeyInHand DEF DispatchInv, Delivers
      <4>2. dispatch[p].window \in Window \/ dispatch[p].kind # "maintenance_summary"
        BY <3>1, OfPlan DEF DispatchInv, DispatchOK, SubjectOK, InHand, ChangeKind
      <4>3. dispatch[p].kind # "maintenance_summary"
        BY <2>1, <4>1, <4>2 DEF KeyMatches, IsSummary, ChangeKind
      <4> QED  BY <4>3 DEF SendingInv
    <3> QED  BY <3>1 DEF Sending
  <2> QED  BY <2>1, FinalStays
<1>2. Init => SendingInv
  BY IdleFits DEF Init, SendingInv, Sending
<1>3. DispatchInv /\ SendingInv /\ [Next]_vars => SendingInv'
  BY SendingNext
<1> QED  BY <1>1, <1>2, <1>3, DispatchSafety, PTL DEF Spec

(* No two dispatches hold the same delivery of a summary. Two whose runs   *)
(* overlap may: each finds the same window due before the other clears it. *)
SummariesApart ==
  \A p \in Plan : dispatch[p].kind = "maintenance_summary" => KeyIsItsOwn(p)

(* Every message goes out while its row says so.                           *)
SendingAll == \A p \in Plan : Sending(p)

(* A final row is never changed, unless two dispatches deliver the same    *)
(* summary at the same time. Then the second may have passed the test of   *)
(* the row's status in _deliver before the first settled it, and settles it*)
(* again.                                                                  *)
THEOREM DeliveriesStayFinal == Spec /\ []SummariesApart => FinalIsFinal
<1>1. DispatchInv /\ SendingAll /\ [Next]_vars =>
        \A k \in Key : row[k].status \in Terminal => row'[k] = row[k]
  BY FinalStays DEF SendingAll
<1>2. Init => SendingAll
  BY IdleFits DEF Init, SendingAll, Sending
<1>3. DispatchInv /\ SummariesApart /\ SendingAll /\ [Next]_vars => SendingAll'
  <2> SUFFICES ASSUME DispatchInv, SummariesApart, SendingAll, [Next]_vars, NEW q \in Plan
               PROVE  Sending(q)'
    BY DEF SendingAll
  <2>1. Sending(q) /\ KeyIsItsOwn(q)
    BY KeysInHandApart DEF SendingAll, SummariesApart
  <2> QED  BY <2>1, StepSending, OthersSending
<1> QED  BY <1>1, <1>2, <1>3, DispatchSafety, PTL DEF Spec, FinalIsFinal

(* What is owed is owed by a window that stands and is not being summed up.*)
OwedInv ==
  /\ \A s \in owed : window[s[2]].saved
  /\ \A s \in owed, p \in Plan : ~Summing(dispatch[p], s[2])
  /\ SilenceIsRemembered

(* A silenced change is about to mark its window.                          *)
Marking(p, w) == dispatch[p].pc = "mark" /\ dispatch[p].window = w

(* A step that begins no summary and takes back no mark.                   *)
LEMMA OwedKept ==
  ASSUME OwedInv, owed' \subseteq owed,
         \A s \in owed' : window[s[2]].saved =>
           window'[s[2]].saved /\ (window[s[2]].pending # NoStamp => window'[s[2]].pending # NoStamp),
         \A s \in owed', p \in Plan : Summing(dispatch'[p], s[2]) => Summing(dispatch[p], s[2]),
         \A s \in owed', p \in Plan : Marking(p, s[2]) =>
           window'[s[2]].pending # NoStamp \/ Marking(p, s[2])'
  PROVE  OwedInv'
<1>1. \A s \in owed' : window'[s[2]].saved /\ \A p \in Plan : ~Summing(dispatch'[p], s[2])
  BY DEF OwedInv
<1>2. SilenceIsRemembered'
  <2> SUFFICES ASSUME NEW s \in owed'
               PROVE  \/ window'[s[2]].pending # NoStamp
                      \/ \E p \in Plan : dispatch'[p].pc = "mark" /\ dispatch'[p].window = s[2]
    BY DEF SilenceIsRemembered
  <2>1. \/ window[s[2]].pending # NoStamp
        \/ \E p \in Plan : Marking(p, s[2])
    BY DEF OwedInv, SilenceIsRemembered, Marking
  <2>2. window[s[2]].saved
    BY DEF OwedInv
  <2>3. CASE window[s[2]].pending # NoStamp
    BY <2>2, <2>3
  <2>4. ASSUME NEW p \in Plan, Marking(p, s[2])
        PROVE  window'[s[2]].pending # NoStamp \/ Marking(p, s[2])'
    BY <2>4
  <2> QED  BY <2>1, <2>3, <2>4 DEF Marking
<1> QED  BY <1>1, <1>2 DEF OwedInv

(* The steps of a dispatch that leave windows and owed summaries alone.    *)
LEMMA SummingBefore ==
  ASSUME NEW d, NEW e, NEW w, Summing(e, w),
         \/ Turns(d, e) \/ Announces(d, e) \/ Takes(d, e) \/ NextOne(d, e)
         \/ Marks(d, e) /\ d.kind # "maintenance_summary"
         \/ Sends(d, e) \/ Clears(d, e) \/ Returns(d, e) \/ Reports(d, e) \/ Starts(d, e)
         \/ Silences(d, e) \/ Ends(d, e)
  PROVE  Summing(d, w)
<1>1. CASE Turns(d, e) \/ Announces(d, e)
           \/ (Marks(d, e) /\ d.kind # "maintenance_summary") \/ Clears(d, e) \/ Returns(d, e)
           \/ Reports(d, e) \/ Starts(d, e) \/ Silences(d, e) \/ Ends(d, e)
  <2>1. e.pc \in {"idle", "due", "window", "change", "mark", "create"}
    BY <1>1, IdleFits DEF Turns, Announces, Marks, Clears, Returns, Reports, Starts, Silences,
                          Ends, Fresh
  <2>2. e.pc = "create" => e.kind # "maintenance_summary"
    <3>1. CASE Marks(d, e) /\ d.kind # "maintenance_summary"
      BY <3>1 DEF Marks
    <3>2. CASE ~(Marks(d, e) /\ d.kind # "maintenance_summary")
      BY <1>1, <3>2, IdleFits DEF Turns, Announces, Clears, Returns, Reports, Starts, Silences,
                                  Ends, Fresh, ChangeKind
    <3> QED  BY <3>1, <3>2
  <2> QED  BY <2>1, <2>2 DEF Summing, InHand
<1>2. CASE Takes(d, e) \/ Sends(d, e) \/ GoesOn(d, e)
  BY <1>2 DEF Takes, Sends, GoesOn, Holds, Fresh, Summing, InHand, Delivers
<1>3. CASE Concludes(d, e)
  BY <1>3 DEF Concludes, Summing, InHand
<1> QED  BY <1>1, <1>2, <1>3 DEF NextOne

(* A step of a dispatch keeps what is owed.                                *)
LEMMA OwedStep ==
  ASSUME DispatchInv, OwedInv, NEW p \in Plan, DispatchStep(p)
  PROVE  OwedInv'
<1>1. /\ TypeOK /\ DispatchesOK /\ dispatch[p] \in Dispatch
      /\ \A q \in Plan : q # p => dispatch'[q] = dispatch[q]
      /\ owed \subseteq silenced /\ silenced \subseteq (1..Len(events)) \X Window
      /\ window \in [Window -> [saved : BOOLEAN, enabled : BOOLEAN, start : Stamp, end : Stamp,
                                pending : Stamp \cup {NoStamp}]]
  BY OfPlan, StepProgress, StepTables DEF DispatchInv, TypeOK
<1>2. StepFrame(p)
  BY StepsFrame
<1>3. ASSUME owed' \subseteq owed, window' = window, dispatch[p].pc # "mark",
             \A s \in owed' : Summing(dispatch'[p], s[2]) => Summing(dispatch[p], s[2])
      PROVE  OwedInv'
  <2>1. \A s \in owed', q \in Plan : Summing(dispatch'[q], s[2]) => Summing(dispatch[q], s[2])
    BY <1>1, <1>3
  <2>2. \A s \in owed', q \in Plan : Marking(q, s[2]) => Marking(q, s[2])'
    BY <1>1, <1>3 DEF Marking
  <2> QED  BY <1>1, <1>3, <2>1, <2>2, OwedKept
<1>4. CASE Due(p) \/ NextWindow(p)
  <2>1. /\ window' = window /\ dispatch[p].pc \in {"due", "window"}
        /\ owed' \subseteq owed
    BY <1>4 DEF Due, NextWindow, tables
  <2>2. \/ Ends(dispatch[p], dispatch'[p]) \/ Returns(dispatch[p], dispatch'[p])
        \/ Reports(dispatch[p], dispatch'[p]) \/ Starts(dispatch[p], dispatch'[p])
        \/ /\ Sums(dispatch[p], dispatch'[p])
           /\ owed' = {s \in owed : s[2] # dispatch'[p].window}
    BY <1>1, <1>4, DueMoves, NextWindowMoves
  <2>3. \A s \in owed' : Summing(dispatch'[p], s[2]) => Summing(dispatch[p], s[2])
    BY <2>2, SummingBefore DEF Summing
  <2> QED  BY <1>3, <2>1, <2>3
<1>5. CASE Clear(p)
  <2>1. /\ Ends(dispatch[p], dispatch'[p]) \/ Clears(dispatch[p], dispatch'[p])
        /\ dispatch[p].window \in Window
        /\ \/ window' = [window EXCEPT ![dispatch[p].window].pending = NoStamp]
           \/ window' = window
    BY <1>1, <1>5, ClearMoves
  <2>2. owed' = owed /\ dispatch[p].pc = "clear"
    BY <1>5 DEF Clear
  <2>3. \A s \in owed : s[2] # dispatch[p].window
    BY <2>2 DEF OwedInv, Summing
  <2>4. \A s \in owed : s[2] \in Window
    BY <1>1
  <2>5. \A s \in owed : window'[s[2]] = window[s[2]]
    BY <1>1, <2>1, <2>3, <2>4
  <2>6. \A s \in owed, q \in Plan : Summing(dispatch'[q], s[2]) => Summing(dispatch[q], s[2])
    BY <1>1, <2>1, SummingBefore
  <2>7. \A s \in owed, q \in Plan : Marking(q, s[2]) => Marking(q, s[2])'
    BY <1>1, <2>2 DEF Marking
  <2> QED  BY <1>1, <2>2, <2>5, <2>6, <2>7, OwedKept
<1>6. CASE Mark(p)
  <2>1. /\ dispatch[p].pc = "mark" /\ dispatch[p].window \in Window
        /\ \/ Ends(dispatch[p], dispatch'[p]) \/ Turns(dispatch[p], dispatch'[p])
           \/ Marks(dispatch[p], dispatch'[p])
        /\ IF window[dispatch[p].window].saved
             THEN window' = [window EXCEPT ![dispatch[p].window].pending =
                               IF @ = NoStamp THEN dispatch[p].stamp ELSE @]
             ELSE window' = window
    BY <1>1, <1>6, MarkMoves
  <2>2. owed' = owed
    BY <1>6 DEF Mark
  <2>3. dispatch[p].stamp # NoStamp /\ dispatch[p].kind # "maintenance_summary"
    BY <1>1, <2>1, OfPlan, NoStampDiffers DEF DispatchOK, ChangeKind
  <2>4. \A s \in owed : s[2] \in Window /\ window[s[2]].saved
    BY <1>1 DEF OwedInv
  <2>5. PICK w : w = dispatch[p].window
    OBVIOUS
  <2>6. \A v \in Window : /\ window'[v].saved = window[v].saved
                          /\ window[v].pending # NoStamp => window'[v].pending # NoStamp
                          /\ v = w /\ window[v].saved => window'[v].pending # NoStamp
    <3>1. CASE window[w].saved
      BY <1>1, <2>1, <2>3, <2>5, <3>1
    <3>2. CASE ~window[w].saved
      BY <2>1, <2>5, <3>2
    <3> QED  BY <3>1, <3>2
  <2>7. \A s \in owed, q \in Plan : Summing(dispatch'[q], s[2]) => Summing(dispatch[q], s[2])
    BY <1>1, <2>1, <2>3, SummingBefore
  <2>8. ASSUME NEW s \in owed, NEW q \in Plan, Marking(q, s[2])
        PROVE  window'[s[2]].pending # NoStamp \/ Marking(q, s[2])'
    <3>1. CASE q = p
      BY <2>4, <2>5, <2>6, <2>8, <3>1 DEF Marking
    <3>2. CASE q # p
      BY <1>1, <2>8, <3>2 DEF Marking
    <3> QED  BY <3>1, <3>2
  <2> QED  BY <1>1, <2>2, <2>4, <2>6, <2>7, <2>8, OwedKept
<1>7. CASE Silence(p)
  <2>1. /\ Silences(dispatch[p], dispatch'[p]) /\ window[dispatch'[p].window].saved
        /\ owed' = IF \E q \in Plan : Summing(dispatch[q], dispatch'[p].window) THEN owed
                   ELSE owed \cup {<<dispatch[p].changes[1], dispatch'[p].window>>}
    BY <1>1, <1>7, SilenceMoves
  <2>2. window' = window /\ dispatch[p].pc = "change" /\ dispatch'[p].pc = "mark"
    BY <1>7, <2>1 DEF Silence, Silences
  <2>3. PICK s : s = <<dispatch[p].changes[1], dispatch'[p].window>>
    OBVIOUS
  <2>4. s[2] = dispatch'[p].window
    BY <2>3
  <2>5. owed' # owed => \A q \in Plan : ~Summing(dispatch'[q], s[2])
    BY <1>1, <2>1, <2>4, SummingBefore
  <2>6. ASSUME NEW r \in owed
        PROVE  /\ window'[r[2]].saved /\ \A q \in Plan : ~Summing(dispatch'[q], r[2])
               /\ \/ window'[r[2]].pending # NoStamp
                  \/ \E q \in Plan : dispatch'[q].pc = "mark" /\ dispatch'[q].window = r[2]
    <3>1. \A q \in Plan : ~Summing(dispatch'[q], r[2])
      BY <1>1, <2>1, SummingBefore DEF OwedInv
    <3>2. \/ window'[r[2]].pending # NoStamp
          \/ \E q \in Plan : dispatch'[q].pc = "mark" /\ dispatch'[q].window = r[2]
      <4>1. \/ window[r[2]].pending # NoStamp
            \/ \E q \in Plan : dispatch[q].pc = "mark" /\ dispatch[q].window = r[2]
        BY DEF OwedInv, SilenceIsRemembered
      <4> QED  BY <1>1, <2>2, <4>1
    <3> QED  BY <2>2, <3>1, <3>2 DEF OwedInv
  <2> QED  BY <2>1, <2>2, <2>3, <2>4, <2>5, <2>6 DEF OwedInv, SilenceIsRemembered
<1>8. CASE ~(Due(p) \/ NextWindow(p) \/ Clear(p) \/ Mark(p) \/ Silence(p))
  <2>1. owed' = owed /\ window' = window
    BY <1>2, <1>8 DEF StepFrame
  <2>2. /\ dispatch[p].pc # "mark"
        /\ \/ Turns(dispatch[p], dispatch'[p]) \/ Announces(dispatch[p], dispatch'[p])
           \/ Takes(dispatch[p], dispatch'[p]) \/ NextOne(dispatch[p], dispatch'[p])
           \/ Sends(dispatch[p], dispatch'[p]) \/ Ends(dispatch[p], dispatch'[p])
    <3>1. CASE Skip(p)
      <4>1. dispatch[p].pc # "mark"
        BY <3>1 DEF Skip
      <4> QED  BY <1>1, <3>1, <4>1, SkipMoves
    <3>2. CASE Announce(p)
      <4>1. dispatch[p].pc # "mark"
        BY <3>2 DEF Announce
      <4> QED  BY <1>1, <3>2, <4>1, AnnounceMoves
    <3>3. CASE Create(p)
      BY <1>1, <3>3, CreateMoves
    <3>4. CASE Suppress(p)
      BY <1>1, <3>4, SuppressMoves
    <3>5. CASE DeliversNothing(p)
      <4>1. dispatch[p].pc # "mark"
        BY <3>5 DEF DeliversNothing
      <4> QED  BY <1>1, <3>5, <4>1, DeliversNothingMoves
    <3>6. CASE DecryptFails(p)
      BY <1>1, <3>6, DecryptFailsMoves
    <3>7. CASE Attempt(p)
      <4>1. dispatch[p].pc # "mark"
        BY <3>7 DEF Attempt, MayAttempt
      <4> QED  BY <1>1, <3>7, <4>1, AttemptMoves
    <3>8. CASE Succeed(p)
      BY <1>1, <3>8, SucceedMoves
    <3>9. CASE GiveUp(p)
      BY <1>1, <3>9, GiveUpMoves
    <3> QED  BY <1>8, <3>1, <3>2, <3>3, <3>4, <3>5, <3>6, <3>7, <3>8, <3>9 DEF DispatchStep
  <2>3. \A s \in owed' : Summing(dispatch'[p], s[2]) => Summing(dispatch[p], s[2])
    BY <2>2, SummingBefore
  <2> QED  BY <1>3, <2>1, <2>2, <2>3
<1> QED  BY <1>4, <1>5, <1>6, <1>7, <1>8

(* What the other steps do to windows and owed summaries.                  *)
LEMMA OthersOwed ==
  ASSUME DispatchInv, [Next]_vars, ~ \E p \in Plan : DispatchStep(p)
  PROVE  /\ owed' \subseteq owed
         /\ \A s \in owed' : window[s[2]].saved =>
              window'[s[2]].saved /\ window'[s[2]].pending = window[s[2]].pending
         /\ \/ \A q \in Plan : dispatch[q].pc # "idle" => dispatch'[q] = dispatch[q]
            \/ \A s \in owed' : window[s[2]].pending # NoStamp
<1>1. /\ TypeOK /\ dispatch \in [Plan -> Dispatch] /\ owed \subseteq (1..Len(events)) \X Window
  BY DEF DispatchInv, TypeOK
<1>2. CASE Tick
  BY <1>2 DEF Tick, tables
<1>3. ASSUME NEW p \in Plan, RunCommits(p)
      PROVE  /\ UNCHANGED <<owed, window>>
             /\ \A q \in Plan : dispatch[q].pc # "idle" => dispatch'[q] = dispatch[q]
  <2>1. UNCHANGED <<owed, window>>
    BY <1>3 DEF RunCommits
  <2>2. \E e \in Dispatch : dispatch' = [dispatch EXCEPT ![p] = e] /\ dispatch[p].pc = "idle"
    BY <1>1, <1>3, RunCommitsAdds DEF RunAdds
  <2> QED  BY <1>1, <2>1, <2>2
<1>4. ASSUME NEW p \in Plan, RunFails(p)
      PROVE  /\ UNCHANGED <<owed, window>>
             /\ \A q \in Plan : dispatch[q].pc # "idle" => dispatch'[q] = dispatch[q]
  <2>1. UNCHANGED <<owed, window>>
    BY <1>4 DEF RunFails, tables
  <2>2. \E e \in Dispatch : dispatch' = [dispatch EXCEPT ![p] = e] /\ dispatch[p].pc = "idle"
    BY <1>1, <1>4, RunFailsReports DEF RunReports
  <2> QED  BY <1>1, <2>1, <2>2
<1>5. CASE Request
  <2>1. \A s \in owed' : s[2] \in Window /\ s \in owed
    BY <1>1, <1>5, RequestTables
  <2> QED  BY <1>1, <1>5, <2>1, RequestTables
<1>6. CASE Crash
  <2>1. owed' \subseteq owed /\ window' = window /\ \A s \in owed' : window[s[2]].pending # NoStamp
    BY <1>6 DEF Crash, tables
  <2> QED  BY <2>1
<1>7. CASE UNCHANGED vars
  BY <1>7 DEF vars, tables
<1> QED  BY <1>2, <1>3, <1>4, <1>5, <1>6, <1>7 DEF Next, Request

(* So does every step.                                                     *)
LEMMA OwedNext == DispatchInv /\ OwedInv /\ [Next]_vars => OwedInv'
<1> SUFFICES ASSUME DispatchInv, OwedInv, [Next]_vars PROVE OwedInv'
  OBVIOUS
<1>1. ASSUME NEW p \in Plan, DispatchStep(p) PROVE OwedInv'
  BY <1>1, OwedStep
<1>2. CASE ~ \E p \in Plan : DispatchStep(p)
  <2>1. \A q \in Plan : dispatch'[q] = dispatch[q] \/ Begins(q)
    BY <1>2, OtherSteps
  <2>2. \A w : \A q \in Plan : Summing(dispatch'[q], w) => Summing(dispatch[q], w)
    BY <2>1 DEF Begins, Summing, InHand
  <2>3. \A s \in owed' : window[s[2]].saved
    BY <1>2, OthersOwed DEF OwedInv
  <2>4. \A s \in owed', q \in Plan : Marking(q, s[2]) =>
          window'[s[2]].pending # NoStamp \/ Marking(q, s[2])'
    BY <1>2, <2>3, OthersOwed DEF Marking
  <2> QED  BY <1>2, <2>2, <2>4, OthersOwed, OwedKept
<1> QED  BY <1>1, <1>2

(* A window in which a change was silenced keeps its mark until a summary  *)
(* of it begins, however many dispatches overlap and crash:                *)
(* list_expired_pending_summary_windows finds windows by their mark.  Lost *)
(* are only the events that `owed` leaves out, one silenced while the      *)
(* window is being summed up (its dispatch clears the mark afterwards) and *)
(* one whose process dies between the two commits.                         *)
THEOREM SilenceRemembered == Spec => []SilenceIsRemembered
<1>1. Init => OwedInv
  BY DEF Init, OwedInv, SilenceIsRemembered
<1>2. DispatchInv /\ OwedInv /\ [Next]_vars => OwedInv'
  BY OwedNext
<1>3. OwedInv => SilenceIsRemembered
  BY DEF OwedInv
<1> QED  BY <1>1, <1>2, <1>3, DispatchSafety, PTL DEF Spec

(* No two plans have changes of one issue in hand.                         *)
IssuesApart ==
  \A p, q \in Plan : p # q =>
    \A e, f \in 1..Len(events) :
      IsLeft(e, dispatch[p]) /\ IsLeft(f, dispatch[q]) => events[e].issue # events[f].issue

(* A delivery about the change exists.                                     *)
HasRow(e) == \E k \in KeysOf(e) : row[k].status # None
SameIssue(e, f) == events[e].issue = events[f].issue
(* The change in hand is being sent, as one that opens or recovers an issue*)
(* or finds it flapping.                                                   *)
Notifies(d) == OnChange(d) /\ d.send /\ d.kind # "severity_escalated"

(* Rows are of kinds and of events, and the row of a delivery in hand      *)
(* exists.                                                                 *)
RowsStand ==
  /\ \A k \in Key : row[k].status = None => row[k].kind = None
  /\ \A e \in 1..MaxEvents : HasRow(e) => e <= Len(events)
  /\ \A p \in Plan : Delivers(dispatch[p]) => row[dispatch[p].key].status # None

(* Of an issue, what is left comes after what has a row.                   *)
RowsPrecede ==
  \A p \in Plan, e, f \in 1..Len(events) :
    HasRow(f) /\ IsLeft(e, dispatch[p]) /\ SameIssue(e, f) =>
      f < e \/ (f = e /\ e = dispatch[p].changes[1] /\ OnChange(dispatch[p]))

(* The rows of the change in hand say what its dispatch says.              *)
RowFits(r, d) == r.kind = d.kind /\ (d.send \/ r.status \in {"pending", "suppressed"})
RowsFit ==
  \A p \in Plan : OnChange(dispatch[p]) =>
    \A l \in KeysOf(dispatch[p].changes[1]) : row[l].status # None => RowFits(row[l], dispatch[p])

(* What notifies comes after the cooldown of each flapping before it.      *)
After(k, l) == row[l].status # None => row[k].at + Span < row[l].at
NotifiesAfter(f) ==
  \A e \in 1..Len(events) : e < f /\ SameIssue(e, f) =>
    \A k \in KeysOf(e) : row[k].kind = "flapping" =>
      row[k].at + Span < now /\ \A l \in KeysOf(f) : After(k, l)
RowsAfter == \A p \in Plan : Notifies(dispatch[p]) => NotifiesAfter(dispatch[p].changes[1])

(* QuietInCooldown, of two keys.                                           *)
QuietAfter(k, l) ==
  /\ row[k].kind = "flapping"
  /\ row[l].kind \in {"issue_opened", "issue_recovered", "flapping"}
  /\ row[l].at <= row[k].at + Span
  => row[l].status \in {"pending", "suppressed"}
Quiet ==
  \A e, f \in 1..Len(events) : e < f /\ SameIssue(e, f) =>
    \A k \in KeysOf(e), l \in KeysOf(f) : QuietAfter(k, l)

(* The inductive invariant of QuietInCooldown: the rows of an issue's      *)
(* changes come in the order of its events, and a change that is sent finds*)
(* every cooldown over, which time does not take back.                     *)
QuietInv == RowsStand /\ RowsPrecede /\ RowsFit /\ RowsAfter /\ Quiet

(* It implies the property.                                                *)
LEMMA QuietIsQuiet == TypeOK /\ Quiet => QuietInCooldown
<1> SUFFICES ASSUME TypeOK, Quiet PROVE QuietInCooldown
  OBVIOUS
<1>1. DOMAIN events = 1..Len(events)
  BY DEF TypeOK
<1>2. \A e, b : b \in Channel => {EventKey(e, b), FlappingKey(e, b)} \subseteq KeysOf(e)
  BY DEF KeysOf
<1> SUFFICES ASSUME NEW e \in DOMAIN events, NEW f \in DOMAIN events, NEW b \in Channel,
                    NEW c \in Channel, NEW k \in {EventKey(e, b), FlappingKey(e, b)},
                    NEW l \in {EventKey(f, c), FlappingKey(f, c)},
                    e < f, events[e].issue = events[f].issue,
                    row[k].kind = "flapping",
                    row[l].kind \in {"issue_opened", "issue_recovered", "flapping"},
                    row[l].at <= row[k].at + Span
             PROVE  row[l].status \in {"pending", "suppressed"}
  BY DEF QuietInCooldown
<1>3. QuietAfter(k, l)
  BY <1>1, <1>2 DEF Quiet, SameIssue
<1> QED  BY <1>3 DEF QuietAfter

-----------------------------------------------------------------------------
(* How a change comes to be in hand.                                       *)
Opens(d, e) ==
  /\ d.pc \in {"change", "mark"} /\ HasChanges(d) /\ e.changes = d.changes

(* A change is in hand because it was before, or because it is taken up    *)
(* now, out of the cooldown if it is to be sent.                           *)
LEMMA InHandStep ==
  ASSUME DispatchInv, NEW p \in Plan, DispatchStep(p), OnChange(dispatch'[p])
  PROVE  \/ OnChange(dispatch[p]) /\ Holds(dispatch[p], dispatch'[p])
         \/ /\ Opens(dispatch[p], dispatch'[p])
            /\ dispatch'[p].send => /\ ~IsCooledDown(dispatch[p].changes[1])
                                    /\ dispatch'[p].kind = Effective(dispatch[p].changes[1])
<1> DEFINE d == dispatch[p]
           e == dispatch'[p]
<1>1. /\ TypeOK /\ DispatchesOK /\ d \in Dispatch /\ DispatchOK(d, Len(events), used.failures)
      /\ AnyMove(d, e)
  BY OfPlan, StepMoves DEF DispatchInv
<1> HIDE DEF d, e
<1>2. OnChange(e)
  BY DEF e
<1>3. d.pc \in {"change", "mark"} => HasChanges(d)
  BY <1>1 DEF DispatchOK
<1>4. CASE Takes(d, e) \/ GoesOn(d, e) \/ Sends(d, e)
  <2>1. Holds(d, e) /\ InHand(d)
    BY <1>4 DEF Takes, GoesOn, Sends, InHand, Delivers
  <2> QED  BY <1>2, <2>1 DEF Holds, OnChange, d, e
<1>5. CASE ~(Takes(d, e) \/ GoesOn(d, e) \/ Sends(d, e))
  <2>1. Announces(d, e) \/ Marks(d, e)
    BY <1>1, <1>2, <1>5, IdleFits
       DEF AnyMove, Ends, Returns, Sums, Reports, Starts, Turns, Clears, Silences, Concludes,
           OnChange, InHand, ChangeKind, Fresh
  <2>2. Opens(d, e)
    BY <1>3, <2>1 DEF Opens, Announces, Marks, Shares
  <2>3. CASE Marks(d, e)
    BY <2>2, <2>3 DEF Marks, d, e
  <2>4. CASE Announces(d, e)
    <3>1. Skip(p) \/ Announce(p) \/ Silence(p)
      BY <2>4 DEF Announces, d, DispatchStep, Due, NextWindow, Clear, Mark, Create, Suppress,
                  DeliversNothing, DecryptFails, Attempt, MayAttempt, Succeed, GiveUp
    <3>2. Announce(p)
      BY <1>1, <2>4, <3>1, SkipMoves, SilenceMoves, IdleFits
         DEF Announces, Ends, Turns, Silences, Fresh, d, e
    <3>3. Announces(d, e) /\ (e.send => ~IsCooledDown(d.changes[1]) /\ e.kind = Effective(d.changes[1]))
      BY <1>1, <2>4, <3>2, AnnounceMoves, IdleFits DEF Announces, Ends, Turns, Fresh, d, e
    <3> QED  BY <2>2, <3>3 DEF d, e
  <2> QED  BY <2>1, <2>3, <2>4
<1> QED  BY <1>4, <1>5

(* A message that is sent of a change finds no flapping in cooldown.       *)
LEMMA SendsOutOfCooldown ==
  ASSUME TypeOK, NEW f \in 1..Len(events), ~IsCooledDown(f), Effective(f) # "severity_escalated"
  PROVE  ~FlappingInCooldown(events[f].issue)
<1>1. NotificationEvent[events[f].type] \in {"issue_opened", "issue_recovered", "severity_escalated"}
  BY EffectiveKind
<1>2. CASE FlappingThresholdMet(f)
  BY <1>2 DEF FlappingThresholdMet
<1>3. CASE ~FlappingThresholdMet(f)
  <2>1. TurnsOnOff(f)
    BY <1>1, <1>3 DEF TurnsOnOff, Effective
  <2> QED  BY <1>3, <2>1 DEF IsCooledDown
<1> QED  BY <1>2, <1>3

(* No flapping in cooldown: each was long enough ago.                      *)
LEMMA CooldownOver ==
  ASSUME TypeOK, NEW f \in 1..Len(events), ~FlappingInCooldown(events[f].issue),
         NEW e \in 1..Len(events), SameIssue(e, f), NEW k \in KeysOf(e), row[k].kind = "flapping"
  PROVE  row[k].at + Span < now
<1>1. PICK c \in Channel : k = EventKey(e, c) \/ k = FlappingKey(e, c)
  BY DEF KeysOf
<1>2. DOMAIN events = 1..Len(events)
  BY DEF TypeOK
<1>3. ~Recent(row[k].at)
  BY <1>1, <1>2 DEF FlappingInCooldown, SameIssue
<1>4. row[k] \in Row /\ now \in Stamp
  <2>1. e \in 1..MaxEvents
    BY EventsFinite
  <2> QED  BY <2>1, KeysApart, TypesOfRow DEF TypeOK
<1>5. row[k].at \in Nat /\ now \in Nat /\ Span \in Nat
  BY <1>4, NotificationAssumption DEF Row, Stamp
<1>6. ~(row[k].at + Span >= now)
  BY <1>3, Zenon DEF Recent
<1>7. \A a, s, n \in Nat : ~(a + s >= n) => a + s < n
  OBVIOUS
<1> QED  BY <1>5, <1>6, <1>7, Zenon

(* The change in hand is left, and that of an event.                       *)
LEMMA ChangeInHand ==
  ASSUME DispatchInv, NEW p \in Plan, OnChange(dispatch[p])
  PROVE  /\ IsLeft(dispatch[p].changes[1], dispatch[p])
         /\ dispatch[p].changes[1] \in 1..Len(events) /\ dispatch[p].changes[1] \in 1..MaxEvents
<1>1. /\ TypeOK /\ dispatch[p] \in Dispatch
      /\ DispatchOK(dispatch[p], Len(events), used.failures)
  BY OfPlan DEF DispatchInv
<1>2. HasChanges(dispatch[p]) /\ ChangesOK(dispatch[p], Len(events))
  BY <1>1 DEF DispatchOK, OnChange, SubjectOK, ChangeKind
<1> QED  BY <1>1, <1>2, HeadIsEvent

(* What is left is an event.                                               *)
LEMMA LeftIsEvent ==
  ASSUME DispatchInv, NEW p \in Plan, NEW e \in 1..MaxEvents, IsLeft(e, dispatch[p])
  PROVE  e \in 1..Len(events) /\ dispatch[p].changes[1] <= e /\ dispatch[p].changes[1] \in 1..MaxEvents
<1>1. /\ TypeOK /\ dispatch[p] \in Dispatch
      /\ DispatchOK(dispatch[p], Len(events), used.failures)
  BY OfPlan DEF DispatchInv
<1>2. HasChanges(dispatch[p]) /\ ChangesOK(dispatch[p], Len(events))
  BY <1>1 DEF IsLeft, DispatchOK
<1>3. dispatch[p].changes[1] \in 1..MaxEvents /\ Len(dispatch[p].changes) \in Nat
  BY <1>1, <1>2, HeadIsEvent
<1>4. PICK h \in 1..MaxEvents, m \in Nat, l \in Nat :
        h = dispatch[p].changes[1] /\ m = Len(dispatch[p].changes) /\ l = Len(events)
  <2>1. Len(events) \in Nat
    BY <1>1, EventsFinite
  <2> QED  BY <1>3, <2>1, Zenon
<1>5. h <= e /\ e < h + m /\ h + m <= l + 1
  BY <1>2, <1>4, Zenon DEF IsLeft, ChangesOK
<1>6. e \in 1..l
  BY <1>5
<1> QED  BY <1>4, <1>5, <1>6, Zenon

(* What a step of a dispatch does to the rows about changes.               *)
ChangeRowsStand == \A e \in 1..MaxEvents : \A k \in KeysOf(e) : row'[k] = row[k]
RowInHand(p, k) ==
  /\ OnChange(dispatch[p]) /\ k \in KeysOf(dispatch[p].changes[1])
  /\ \A l \in Key : l # k => row'[l] = row[l]
NewRow(p, k) ==
  /\ RowInHand(p, k) /\ row[k].status = None /\ row'[k].status = "pending"
  /\ row'[k].kind = dispatch[p].kind /\ row'[k].at = now
  /\ dispatch'[p].kind = dispatch[p].kind
SettledRow(p, k) ==
  /\ RowInHand(p, k) /\ row[k].status # None
  /\ row'[k].kind = row[k].kind /\ row'[k].at = row[k].at
  /\ row'[k].status \in Terminal \cup {"delivering"}
  /\ dispatch[p].send \/ row'[k].status = "suppressed"

(* A delivery that is taken in hand has its row.                           *)
LEMMA CreateRow ==
  ASSUME TypeOK, DispatchesOK, NEW p \in Plan, Create(p), Delivers(dispatch'[p])
  PROVE  Creates(p) /\ dispatch'[p].key \in Key
<1>1. row \in [Key -> Row] /\ now \in Stamp
  BY TypesOfRow DEF TypeOK
<1>2. dispatch[p].kind \in Kind
  BY OfPlan, KindsOf DEF Create, DispatchOK, InHand, SubjectOK
<1>3. /\ Takes(dispatch[p], dispatch'[p]) /\ dispatch'[p].key \in Key
      /\ row' = [row EXCEPT ![dispatch'[p].key] =
           IF @.status = None
             THEN [status |-> "pending", kind |-> dispatch[p].kind, at |-> now] ELSE @]
  BY CreateMoves, IdleFits DEF Ends, Delivers
<1> QED  BY <1>1, <1>2, <1>3, RowCreated DEF Creates

(* The rows about changes stand, or the one in hand is created or settled. *)
LEMMA ChangeRows ==
  ASSUME DispatchInv, RowsStand, NEW p \in Plan, DispatchStep(p)
  PROVE  ChangeRowsStand \/ \E k \in Key : NewRow(p, k) \/ SettledRow(p, k)
<1>1. /\ TypeOK /\ DispatchesOK /\ dispatch[p] \in Dispatch
      /\ \A e \in 1..MaxEvents : KeysOf(e) \subseteq Key
  BY OfPlan, KeysApart DEF DispatchInv
<1>2. row' = row \/ Creates(p) \/ Settles(p)
  BY <1>1, RowStep
<1>3. CASE row' = row
  BY <1>3 DEF ChangeRowsStand
<1>4. CASE Creates(p)
  <2>1. PICK k : k = dispatch'[p].key
    OBVIOUS
  <2>2. k \in Key /\ dispatch'[p] \in Dispatch
    <3>1. Create(p) /\ Delivers(dispatch'[p])
      BY <1>4 DEF Creates, Takes, Delivers
    <3>2. dispatch'[p] \in Dispatch
      BY <1>1, StepMoves DEF Moves
    <3> QED  BY <1>1, <2>1, <3>1, <3>2, CreateRow
  <2>3. CASE \E e \in 1..MaxEvents : k \in KeysOf(e)
    <3>1. PICK e \in 1..MaxEvents : k \in KeysOf(e)
      BY <2>3
    <3>2. PICK c \in Channel : KeyMatches(dispatch'[p], c)
      BY <1>4 DEF Creates, Takes
    <3>3. dispatch'[p].kind \in ChangeKind /\ e = dispatch'[p].changes[1]
      BY <2>1, <2>2, <3>1, <3>2, KeyOfChange
    <3>4. Holds(dispatch[p], dispatch'[p]) /\ dispatch[p].pc = "create"
      BY <1>4 DEF Creates, Takes
    <3>5. OnChange(dispatch[p]) /\ k \in KeysOf(dispatch[p].changes[1])
          /\ dispatch'[p].kind = dispatch[p].kind
      BY <3>1, <3>3, <3>4 DEF Holds, Shares, OnChange, InHand
    <3>6. RowInHand(p, k)
      BY <1>4, <2>1, <3>5 DEF RowInHand, Creates
    <3>7. CASE row[k].status = None
      BY <1>4, <2>1, <2>2, <3>5, <3>6, <3>7 DEF Creates, NewRow
    <3>8. CASE row[k].status # None
      <4>1. \A l \in Key : row'[l] = row[l]
        BY <1>4, <2>1, <3>8 DEF Creates
      <4> QED  BY <1>1, <4>1 DEF ChangeRowsStand
    <3> QED  BY <3>7, <3>8
  <2>4. CASE ~ \E e \in 1..MaxEvents : k \in KeysOf(e)
    BY <1>1, <1>4, <2>1, <2>4 DEF Creates, ChangeRowsStand
  <2> QED  BY <2>3, <2>4
<1>5. CASE Settles(p)
  <2>1. PICK k : k = dispatch[p].key
    OBVIOUS
  <2>2. Delivers(dispatch[p]) /\ row[k].status # None /\ k \in Key
    BY <1>1, <1>5, <2>1, OfPlan, KeyInHand DEF Settles, RowsStand
  <2>3. CASE \E e \in 1..MaxEvents : k \in KeysOf(e)
    <3>1. OnChange(dispatch[p]) /\ k \in KeysOf(dispatch[p].changes[1])
      BY <2>1, <2>2, <2>3, KeyOfHand
    <3>2. RowInHand(p, k)
      BY <1>5, <2>1, <3>1 DEF RowInHand, Settles
    <3>3. SettledRow(p, k)
      BY <1>5, <2>1, <2>2, <3>2 DEF Settles, SettledRow
    <3> QED  BY <2>2, <3>3
  <2>4. CASE ~ \E e \in 1..MaxEvents : k \in KeysOf(e)
    BY <1>1, <1>5, <2>1, <2>4 DEF Settles, ChangeRowsStand
  <2> QED  BY <2>3, <2>4
<1> QED  BY <1>2, <1>3, <1>4, <1>5

(* A delivery is taken in hand by Create only.                             *)
LEMMA HandlesByCreate ==
  ASSUME TypeOK, DispatchesOK, NEW p \in Plan, DispatchStep(p), dispatch'[p].pc = "handle"
  PROVE  Create(p)
<1> USE IdleFits DEF Ends, Returns, Sums, Reports, Starts, Turns, Clears, Announces, Silences,
            Marks, GoesOn, Concludes, Sends, Fresh, NextOne
<1>1. ~Due(p)
  BY DueMoves
<1>2. ~NextWindow(p)
  BY NextWindowMoves
<1>3. ~Clear(p)
  BY ClearMoves
<1>4. ~Skip(p)
  BY SkipMoves
<1>5. ~Announce(p)
  BY AnnounceMoves
<1>6. ~Silence(p)
  BY SilenceMoves
<1>7. ~Mark(p)
  BY MarkMoves
<1>8. ~Attempt(p)
  BY AttemptMoves
<1>9. ~Suppress(p)
  BY SuppressMoves
<1>10. ~DeliversNothing(p)
  BY DeliversNothingMoves
<1>11. ~DecryptFails(p)
  BY DecryptFailsMoves
<1>12. ~Succeed(p)
  BY SucceedMoves
<1>13. ~GiveUp(p)
  BY GiveUpMoves
<1> QED  BY <1>1, <1>2, <1>3, <1>4, <1>5, <1>6, <1>7, <1>8, <1>9, <1>10, <1>11, <1>12, <1>13
         DEF DispatchStep

(* Rows are never taken back.                                              *)
LEMMA RowsStandStep ==
  ASSUME DispatchInv, RowsStand, NEW p \in Plan, DispatchStep(p)
  PROVE  RowsStand'
<1>1. /\ TypeOK /\ DispatchesOK /\ dispatch[p] \in Dispatch
      /\ events' = events /\ \A q \in Plan : q # p => dispatch'[q] = dispatch[q]
      /\ \A q \in Plan : Delivers(dispatch[q]) => dispatch[q].key \in Key
      /\ \A e \in 1..MaxEvents : KeysOf(e) \subseteq Key
  BY OfPlan, StepProgress, KeyInHand, KeysApart DEF DispatchInv
<1>2. row' = row \/ Creates(p) \/ Settles(p)
  BY <1>1, RowStep
<1>3. \A k \in Key : row[k].status # None => row'[k].status # None
  BY <1>2 DEF Creates, Settles, Terminal, None
<1>4. \A k \in Key : row'[k].status = None => row'[k].kind = None
  <2> TAKE k \in Key
  <2> HAVE row'[k].status = None
  <2>1. row[k].status = None /\ row[k].kind = None
    BY <1>3 DEF RowsStand
  <2>2. row'[k] = row[k]
    BY <1>2, <2>1 DEF Creates, Settles, Terminal, None
  <2> QED  BY <2>1, <2>2
<1>5. \A q \in Plan : Delivers(dispatch'[q]) => row'[dispatch'[q].key].status # None
  <2>1. ASSUME Delivers(dispatch'[p])
        PROVE  row'[dispatch'[p].key].status # None
    <3>1. Attempt(p) \/ Create(p)
      <4>1. CASE dispatch'[p].pc \in {"acked", "unacked"}
        BY <1>1, <4>1, SendsByAttempt
      <4>2. CASE dispatch'[p].pc = "handle"
        BY <1>1, <4>2, HandlesByCreate
      <4> QED  BY <2>1, <4>1, <4>2 DEF Delivers
    <3>2. CASE Attempt(p)
      BY <1>1, <3>2, RowStep DEF None
    <3>3. CASE Create(p)
      BY <1>1, <2>1, <3>3, CreateRow DEF Creates, None
    <3> QED  BY <3>1, <3>2, <3>3
  <2> QED  BY <1>1, <1>3, <2>1 DEF RowsStand
<1>6. \A e \in 1..MaxEvents : HasRow(e)' => e <= Len(events)
  <2> SUFFICES ASSUME NEW e \in 1..MaxEvents, NEW k \in KeysOf(e), row'[k].status # None
               PROVE  e <= Len(events)
    BY DEF HasRow
  <2>1. CASE row[k].status # None
    BY <2>1 DEF RowsStand, HasRow
  <2>2. CASE row[k].status = None
    <3>1. PICK l \in Key : NewRow(p, l) \/ SettledRow(p, l)
      BY <2>2, ChangeRows DEF ChangeRowsStand
    <3>2. k = l /\ RowInHand(p, l)
      BY <1>1, <2>2, <3>1 DEF NewRow, SettledRow, RowInHand
    <3>3. e = dispatch[p].changes[1] /\ OnChange(dispatch[p])
      BY <3>2, KeysApart DEF RowInHand
    <3> QED  BY <1>1, <3>3, ChangeInHand, EventsFinite
  <2> QED  BY <2>1, <2>2
<1> QED  BY <1>1, <1>4, <1>5, <1>6 DEF RowsStand

(* A step of a dispatch creates rows of the change in hand only.           *)
LEMMA RowsPrecedeStep ==
  ASSUME DispatchInv, RowsStand, RowsPrecede, IssuesApart, NEW p \in Plan, DispatchStep(p)
  PROVE  RowsPrecede'
<1>1. /\ TypeOK /\ events' = events /\ \A q \in Plan : q # p => dispatch'[q] = dispatch[q]
      /\ \A e \in 1..MaxEvents : KeysOf(e) \subseteq Key
      /\ \A e \in 1..Len(events) : e \in 1..MaxEvents
  BY StepProgress, KeysApart, EventsFinite DEF DispatchInv
<1> SUFFICES ASSUME NEW q \in Plan, NEW e \in 1..Len(events), NEW f \in 1..Len(events),
                    NEW l \in KeysOf(f), row'[l].status # None,
                    IsLeft(e, dispatch'[q]), SameIssue(e, f)
             PROVE  f < e \/ (f = e /\ e = dispatch'[q].changes[1] /\ OnChange(dispatch'[q]))
  BY <1>1 DEF RowsPrecede, HasRow, SameIssue
<1>2. IsLeft(e, dispatch[q])
  BY <1>1, StepProgress
<1>3. ASSUME f < e \/ (f = e /\ e = dispatch[q].changes[1] /\ OnChange(dispatch[q]))
      PROVE  f < e \/ (f = e /\ e = dispatch'[q].changes[1] /\ OnChange(dispatch'[q]))
  <2>1. CASE q = p
    <3>1. e = dispatch[p].changes[1] => Stays(dispatch[p], dispatch'[p])
      BY <1>1, <2>1, StepProgress
    <3> QED  BY <1>3, <2>1, <3>1 DEF Stays, Shares
  <2> QED  BY <1>1, <1>3, <2>1
<1>4. CASE row[l].status # None
  <2>1. HasRow(f)
    BY <1>4 DEF HasRow
  <2> QED  BY <1>2, <1>3, <2>1 DEF RowsPrecede
<1>5. CASE row[l].status = None
  <2>1. PICK k \in Key : NewRow(p, k) \/ SettledRow(p, k)
    BY <1>1, <1>5, ChangeRows DEF ChangeRowsStand
  <2>2. l = k /\ RowInHand(p, k)
    BY <1>1, <1>5, <2>1 DEF NewRow, SettledRow, RowInHand
  <2>3. f = dispatch[p].changes[1] /\ OnChange(dispatch[p]) /\ IsLeft(f, dispatch[p])
    BY <2>2, KeysApart, ChangeInHand DEF RowInHand
  <2>4. q = p
    BY <1>2, <2>3 DEF IssuesApart, SameIssue
  <2>5. f <= e
    BY <1>1, <1>2, <2>3, <2>4, LeftIsEvent
  <2>6. f < e \/ f = e
    BY <1>1, <2>5, EventsFinite
  <2> QED  BY <1>3, <2>3, <2>4, <2>6
<1> QED  BY <1>4, <1>5

(* A change that comes to be in hand has no row yet.                       *)
LEMMA OpensWithoutRow ==
  ASSUME DispatchInv, RowsPrecede, NEW p \in Plan, NEW d,
         Opens(dispatch[p], d)
  PROVE  /\ dispatch[p].changes[1] \in 1..Len(events) /\ dispatch[p].changes[1] \in 1..MaxEvents
         /\ IsLeft(dispatch[p].changes[1], dispatch[p])
         /\ ~OnChange(dispatch[p])
         /\ \A l \in KeysOf(dispatch[p].changes[1]) : row[l].status = None
<1>1. /\ TypeOK /\ dispatch[p] \in Dispatch
      /\ DispatchOK(dispatch[p], Len(events), used.failures)
  BY OfPlan DEF DispatchInv
<1>2. PICK f : f = dispatch[p].changes[1]
  OBVIOUS
<1>3. f \in 1..Len(events) /\ f \in 1..MaxEvents /\ IsLeft(f, dispatch[p])
  BY <1>1, <1>2, HeadIsEvent DEF Opens, DispatchOK
<1>4. ~OnChange(dispatch[p])
  BY DEF Opens, OnChange, InHand
<1>5. ~(f < f)
  <2>1. f \in Int
    BY <1>3
  <2> QED  BY <2>1
<1>6. ~HasRow(f)
  BY <1>2, <1>3, <1>4, <1>5 DEF RowsPrecede, SameIssue
<1> QED  BY <1>2, <1>3, <1>4, <1>6 DEF HasRow

(* A step changes no row of the change in hand of another plan.            *)
LEMMA RowsOfOthers ==
  ASSUME DispatchInv, NEW p \in Plan, NEW q \in Plan, q # p, NEW k \in Key, RowInHand(p, k),
         OnChange(dispatch[q]), NEW l \in KeysOf(dispatch[q].changes[1])
  PROVE  l # k /\ row'[l] = row[l]
<1>1. /\ IsLeft(dispatch[p].changes[1], dispatch[p]) /\ dispatch[p].changes[1] \in 1..MaxEvents
      /\ IsLeft(dispatch[q].changes[1], dispatch[q]) /\ dispatch[q].changes[1] \in 1..MaxEvents
  BY ChangeInHand DEF RowInHand
<1>2. dispatch[p].changes[1] # dispatch[q].changes[1]
  BY <1>1 DEF DispatchInv, ChangesApart
<1>3. l # k /\ l \in Key
  BY <1>1, <1>2, KeysApart DEF RowInHand
<1> QED  BY <1>3 DEF RowInHand

(* The row created for a message is of its kind.                           *)
LEMMA RowsFitStep ==
  ASSUME DispatchInv, RowsStand, RowsPrecede, RowsFit, NEW p \in Plan, DispatchStep(p)
  PROVE  RowsFit'
<1>1. /\ TypeOK /\ \A q \in Plan : q # p => dispatch'[q] = dispatch[q]
      /\ \A e \in 1..MaxEvents : KeysOf(e) \subseteq Key
  BY StepProgress, KeysApart DEF DispatchInv
<1>2. CASE ChangeRowsStand
  <2> SUFFICES ASSUME NEW q \in Plan, OnChange(dispatch'[q]),
                      NEW l \in KeysOf(dispatch'[q].changes[1]), row'[l].status # None
               PROVE  RowFits(row'[l], dispatch'[q])
    BY DEF RowsFit
  <2>1. CASE q # p
    <3>1. dispatch'[q] = dispatch[q] /\ dispatch[q].changes[1] \in 1..MaxEvents
      BY <1>1, <2>1, ChangeInHand
    <3>2. row'[l] = row[l]
      BY <1>2, <3>1 DEF ChangeRowsStand
    <3> QED  BY <3>1, <3>2 DEF RowsFit
  <2>2. CASE q = p /\ OnChange(dispatch[p]) /\ Holds(dispatch[p], dispatch'[p])
    <3>1. dispatch'[p].changes = dispatch[p].changes /\ dispatch[p].changes[1] \in 1..MaxEvents
      BY <2>2, ChangeInHand DEF Holds, Shares
    <3>2. row'[l] = row[l]
      BY <1>2, <2>2, <3>1 DEF ChangeRowsStand
    <3> QED  BY <2>2, <3>1, <3>2 DEF RowsFit, RowFits, Holds
  <2>3. CASE q = p /\ Opens(dispatch[p], dispatch'[p])
    <3>1. dispatch'[p].changes = dispatch[p].changes /\ dispatch[p].changes[1] \in 1..MaxEvents
          /\ \A m \in KeysOf(dispatch[p].changes[1]) : row[m].status = None
      BY <2>3, OpensWithoutRow DEF Opens
    <3> QED  BY <1>2, <2>3, <3>1 DEF ChangeRowsStand
  <2> QED  BY <2>1, <2>2, <2>3, InHandStep
<1>3. ASSUME NEW k \in Key, NewRow(p, k) \/ SettledRow(p, k)
      PROVE  RowsFit'
  <2>1. RowInHand(p, k) /\ OnChange(dispatch[p])
    BY <1>3 DEF NewRow, SettledRow, RowInHand
  <2> SUFFICES ASSUME NEW q \in Plan, OnChange(dispatch'[q]),
                      NEW l \in KeysOf(dispatch'[q].changes[1]), row'[l].status # None
               PROVE  RowFits(row'[l], dispatch'[q])
    BY DEF RowsFit
  <2>2. CASE q # p
    <3>1. dispatch'[q] = dispatch[q]
      BY <1>1, <2>2
    <3>2. row'[l] = row[l]
      BY <2>1, <2>2, <3>1, RowsOfOthers
    <3> QED  BY <3>1, <3>2 DEF RowsFit
  <2>3. CASE q = p
    <3>1. Holds(dispatch[p], dispatch'[p])
      BY <2>1, <2>3, InHandStep, OpensWithoutRow
    <3>2. l \in KeysOf(dispatch[p].changes[1]) /\ l \in Key
      BY <1>1, <2>1, <2>3, <3>1, ChangeInHand DEF Holds, Shares
    <3>3. RowFits(row'[l], dispatch[p])
      <4>1. CASE l # k
        <5>1. row'[l] = row[l]
          BY <2>1, <3>2, <4>1 DEF RowInHand
        <5> QED  BY <2>1, <3>2, <5>1 DEF RowsFit
      <4>2. CASE l = k /\ NewRow(p, k)
        BY <4>2 DEF NewRow, RowFits
      <4>3. CASE l = k /\ SettledRow(p, k)
        <5>1. RowFits(row[k], dispatch[p])
          BY <2>1, <3>2, <4>3 DEF RowsFit, SettledRow
        <5> QED  BY <4>3, <5>1 DEF SettledRow, RowFits
      <4> QED  BY <1>3, <4>1, <4>2, <4>3
    <3> QED  BY <2>3, <3>1, <3>3 DEF RowFits, Holds
  <2> QED  BY <2>2, <2>3
<1> QED  BY <1>2, <1>3, ChangeRows

(* A change that notifies found the cooldowns over when it was taken up,   *)
(* and its rows are created no earlier.                                    *)
LEMMA RowsAfterStep ==
  ASSUME DispatchInv, RowsStand, RowsPrecede, RowsAfter, IssuesApart,
         NEW p \in Plan, DispatchStep(p)
  PROVE  RowsAfter'
<1>1. /\ TypeOK /\ events' = events /\ now' = now
      /\ \A q \in Plan : q # p => dispatch'[q] = dispatch[q]
      /\ \A e \in 1..MaxEvents : KeysOf(e) \subseteq Key
      /\ \A e \in 1..Len(events) : e \in 1..MaxEvents
  BY StepProgress, StepTables, KeysApart, EventsFinite DEF DispatchInv
<1> SUFFICES ASSUME NEW q \in Plan, Notifies(dispatch'[q]), NEW f, f = dispatch'[q].changes[1],
                    NEW e \in 1..Len(events), e < f, SameIssue(e, f),
                    NEW k \in KeysOf(e), row'[k].kind = "flapping"
             PROVE  row'[k].at + Span < now /\ \A l \in KeysOf(f) : After(k, l)'
  BY <1>1 DEF RowsAfter, NotifiesAfter, SameIssue
<1>2. k \in Key /\ OnChange(dispatch'[q])
  BY <1>1 DEF Notifies
<1>3. ASSUME NotifiesAfter(f), row'[k] = row[k],
             \A l \in KeysOf(f) : row'[l] = row[l]
      PROVE  row'[k].at + Span < now /\ \A l \in KeysOf(f) : After(k, l)'
  BY <1>3 DEF NotifiesAfter, After
<1>4. CASE ChangeRowsStand
  <2>1. row'[k] = row[k]
    BY <1>1, <1>4 DEF ChangeRowsStand
  <2>2. CASE q # p
    <3>1. dispatch'[q] = dispatch[q] /\ f \in 1..MaxEvents
      BY <1>1, <1>2, <2>2, ChangeInHand
    <3>2. NotifiesAfter(f) /\ \A l \in KeysOf(f) : row'[l] = row[l]
      BY <1>4, <3>1 DEF RowsAfter, ChangeRowsStand
    <3> QED  BY <1>3, <2>1, <3>2
  <2>3. CASE q = p /\ OnChange(dispatch[p]) /\ Holds(dispatch[p], dispatch'[p])
    <3>1. f = dispatch[p].changes[1] /\ f \in 1..MaxEvents /\ Notifies(dispatch[p])
      BY <2>3, ChangeInHand DEF Holds, Shares, Notifies
    <3>2. NotifiesAfter(f) /\ \A l \in KeysOf(f) : row'[l] = row[l]
      BY <1>4, <3>1 DEF RowsAfter, ChangeRowsStand
    <3> QED  BY <1>3, <2>1, <3>2
  <2>4. CASE /\ q = p /\ Opens(dispatch[p], dispatch'[p])
             /\ dispatch'[p].send => /\ ~IsCooledDown(dispatch[p].changes[1])
                                     /\ dispatch'[p].kind = Effective(dispatch[p].changes[1])
    <3>1. f = dispatch[p].changes[1]
      BY <2>4 DEF Opens
    <3>2. f \in 1..Len(events) /\ f \in 1..MaxEvents /\ \A l \in KeysOf(f) : row[l].status = None
      BY <2>4, <3>1, OpensWithoutRow
    <3>3. ~IsCooledDown(f) /\ Effective(f) # "severity_escalated"
      BY <2>4, <3>1 DEF Notifies
    <3>4. row[k].at + Span < now
      BY <1>1, <2>1, <3>2, <3>3, SendsOutOfCooldown, CooldownOver
    <3>5. \A l \in KeysOf(f) : row'[l].status = None
      BY <1>4, <3>2 DEF ChangeRowsStand
    <3> QED  BY <2>1, <3>4, <3>5 DEF After
  <2> QED  BY <1>2, <2>2, <2>3, <2>4, InHandStep
<1>5. ASSUME NEW m \in Key, NewRow(p, m) \/ SettledRow(p, m)
      PROVE  row'[k].at + Span < now /\ \A l \in KeysOf(f) : After(k, l)'
  <2>1. RowInHand(p, m) /\ OnChange(dispatch[p])
    BY <1>5 DEF NewRow, SettledRow, RowInHand
  <2>2. PICK g : /\ g = dispatch[p].changes[1] /\ m \in KeysOf(g) /\ IsLeft(g, dispatch[p])
                 /\ g \in 1..Len(events) /\ g \in 1..MaxEvents
    BY <2>1, ChangeInHand DEF RowInHand
  <2>3. CASE q # p
    <3>1. /\ dispatch'[q] = dispatch[q] /\ Notifies(dispatch[q]) /\ OnChange(dispatch[q])
          /\ f \in 1..Len(events) /\ IsLeft(f, dispatch[q])
      BY <1>1, <1>2, <2>3, ChangeInHand
    <3>2. \A l \in KeysOf(f) : row'[l] = row[l]
      BY <2>1, <2>3, <3>1, RowsOfOthers
    <3>3. e # g
      BY <2>2, <2>3, <3>1 DEF IssuesApart, SameIssue
    <3>4. row'[k] = row[k]
      BY <1>1, <1>2, <2>1, <2>2, <3>3, KeysApart DEF RowInHand
    <3> QED  BY <1>3, <3>1, <3>2, <3>4 DEF RowsAfter
  <2>4. CASE q = p
    <3>1. Holds(dispatch[p], dispatch'[p])
      BY <1>2, <2>1, <2>4, InHandStep, OpensWithoutRow
    <3>2. f = g /\ Notifies(dispatch[p]) /\ NotifiesAfter(f)
      BY <2>1, <2>2, <2>4, <3>1 DEF Holds, Shares, Notifies, RowsAfter
    <3>3. e # g
      BY <2>2, <3>2
    <3>4. row'[k] = row[k]
      BY <1>1, <1>2, <2>1, <2>2, <3>3, KeysApart DEF RowInHand
    <3>5. row[k].at + Span < now /\ \A l \in KeysOf(f) : After(k, l)
      BY <3>2, <3>4 DEF NotifiesAfter
    <3>6. ASSUME NEW l \in KeysOf(f) PROVE After(k, l)'
      <4>1. CASE l # m
        <5>1. row'[l] = row[l]
          BY <1>1, <2>1, <2>2, <3>2, <4>1 DEF RowInHand
        <5> QED  BY <3>4, <3>5, <5>1 DEF After
      <4>2. CASE l = m /\ NewRow(p, m)
        BY <3>4, <3>5, <4>2 DEF NewRow, After
      <4>3. CASE l = m /\ SettledRow(p, m)
        BY <3>4, <3>5, <4>3 DEF SettledRow, After
      <4> QED  BY <1>5, <4>1, <4>2, <4>3
    <3> QED  BY <3>4, <3>5, <3>6
  <2> QED  BY <2>3, <2>4
<1> QED  BY <1>4, <1>5, ChangeRows

(* So a row created or settled breaks no cooldown.                         *)
LEMMA QuietStep ==
  ASSUME DispatchInv, RowsStand, RowsPrecede, RowsFit, RowsAfter, Quiet,
         NEW p \in Plan, DispatchStep(p)
  PROVE  Quiet'
<1>1. /\ TypeOK /\ events' = events
      /\ \A e \in 1..MaxEvents : KeysOf(e) \subseteq Key
      /\ \A e \in 1..Len(events) : e \in 1..MaxEvents
  BY StepProgress, KeysApart, EventsFinite DEF DispatchInv
<1> SUFFICES ASSUME NEW e \in 1..Len(events), NEW f \in 1..Len(events), e < f, SameIssue(e, f),
                    NEW k \in KeysOf(e), NEW l \in KeysOf(f)
             PROVE  QuietAfter(k, l)'
  BY <1>1 DEF Quiet, SameIssue
<1>2. k \in Key /\ l \in Key /\ QuietAfter(k, l) /\ k # l
  BY <1>1, KeysApart DEF Quiet
<1>3. CASE ChangeRowsStand
  <2>1. row'[k] = row[k] /\ row'[l] = row[l]
    BY <1>1, <1>3 DEF ChangeRowsStand
  <2> QED  BY <1>2, <2>1 DEF QuietAfter
<1>4. ASSUME NEW m \in Key, NewRow(p, m) \/ SettledRow(p, m)
      PROVE  QuietAfter(k, l)'
  <2>1. RowInHand(p, m) /\ OnChange(dispatch[p])
    BY <1>4 DEF NewRow, SettledRow, RowInHand
  <2>2. PICK g : /\ g = dispatch[p].changes[1] /\ m \in KeysOf(g) /\ IsLeft(g, dispatch[p])
                 /\ g \in 1..Len(events) /\ g \in 1..MaxEvents
    BY <2>1, ChangeInHand DEF RowInHand
  <2>3. CASE l = m
    <3>1. f = g /\ row'[k] = row[k]
      BY <1>1, <1>2, <2>1, <2>2, <2>3, KeysApart DEF RowInHand
    <3>2. CASE NewRow(p, m)
      BY <2>3, <3>2 DEF NewRow, QuietAfter
    <3>3. CASE SettledRow(p, m) /\ ~dispatch[p].send
      BY <2>3, <3>3 DEF SettledRow, QuietAfter
    <3>4. CASE SettledRow(p, m) /\ dispatch[p].send
      <4> SUFFICES ASSUME row'[k].kind = "flapping",
                          row'[l].kind \in {"issue_opened", "issue_recovered", "flapping"},
                          row'[l].at <= row'[k].at + Span
                   PROVE  FALSE
        BY DEF QuietAfter
      <4>1. row[l].kind = row'[l].kind /\ row[l].at = row'[l].at /\ row[l].status # None
        BY <2>3, <3>4 DEF SettledRow
      <4>2. row[l].kind = dispatch[p].kind
        BY <2>1, <2>2, <2>3, <4>1 DEF RowsFit, RowFits
      <4>3. Notifies(dispatch[p])
        BY <2>1, <3>4, <4>1, <4>2 DEF Notifies
      <4>4. NotifiesAfter(f)
        BY <2>2, <3>1, <4>3 DEF RowsAfter
      <4>5. row[k].at + Span < row[l].at
        BY <3>1, <4>1, <4>4 DEF NotifiesAfter, After
      <4>6. row[k].at \in Nat /\ row[l].at \in Nat /\ Span \in Nat
        <5>1. row[k] \in Row /\ row[l] \in Row
          BY <1>1, <1>2, TypesOfRow
        <5> QED  BY <5>1, NotificationAssumption DEF Row, Stamp
      <4>7. row[l].at <= row[k].at + Span
        BY <3>1, <4>1
      <4>8. \A a, b, c \in Nat : ~(a + c < b /\ b <= a + c)
        OBVIOUS
      <4> QED  BY <4>5, <4>6, <4>7, <4>8, Zenon
    <3> QED  BY <1>4, <3>2, <3>3, <3>4
  <2>4. CASE k = m
    <3>1. e = g /\ row'[l] = row[l]
      BY <1>1, <1>2, <2>1, <2>2, <2>4, KeysApart DEF RowInHand
    <3>2. CASE NewRow(p, m)
      <4>1. ~(f < e) /\ f # e
        OBVIOUS
      <4>2. ~HasRow(f)
        BY <2>2, <3>1, <4>1 DEF RowsPrecede, SameIssue
      <4>3. row[l].kind = None
        BY <1>2, <4>2 DEF HasRow, RowsStand
      <4> QED  BY <3>1, <4>3 DEF QuietAfter, None
    <3>3. CASE SettledRow(p, m)
      BY <1>2, <2>4, <3>1, <3>3 DEF SettledRow, QuietAfter
    <3> QED  BY <1>4, <3>2, <3>3
  <2>5. CASE k # m /\ l # m
    <3>1. row'[k] = row[k] /\ row'[l] = row[l]
      BY <1>2, <2>1, <2>5 DEF RowInHand
    <3> QED  BY <1>2, <3>1 DEF QuietAfter
  <2> QED  BY <2>3, <2>4, <2>5
<1> QED  BY <1>3, <1>4, ChangeRows

(* The other steps keep the invariant.                                     *)
LEMMA OthersQuiet ==
  ASSUME DispatchInv, QuietInv, [Next]_vars, ~ \E p \in Plan : DispatchStep(p)
  PROVE  QuietInv'
<1>1. /\ row' = row /\ Len(events) <= Len(events')
      /\ \A k \in 1..Len(events) : events'[k] = events[k]
      /\ \A q \in Plan : dispatch'[q] = dispatch[q] \/ Begins(q)
      /\ now' >= now
  BY OtherSteps
<1>2. TypeOK /\ TypeOK' /\ \A e \in 1..MaxEvents : KeysOf(e) \subseteq Key
  BY DispatchNext, KeysApart DEF DispatchInv
<1>3. PICK n \in Nat, m \in Nat : n = Len(events) /\ m = Len(events') /\ n <= m /\ m <= MaxEvents
  BY <1>1, <1>2 DEF TypeOK
<1>4. \A e \in 1..m : e \in 1..MaxEvents
  BY <1>3, NotificationAssumption
<1>5. \A e \in 1..m : HasRow(e) => e \in 1..n
  BY <1>3, <1>4 DEF QuietInv, RowsStand
<1>6. \A e, f \in 1..n : SameIssue(e, f)' => SameIssue(e, f)
  BY <1>1, <1>3 DEF SameIssue
<1>7. \A q \in Plan : OnChange(dispatch'[q]) \/ Delivers(dispatch'[q]) => dispatch'[q] = dispatch[q]
  BY <1>1 DEF Begins, OnChange, InHand, Delivers
<1>8. RowsStand'
  <2>1. \A e \in 1..MaxEvents : HasRow(e)' => e <= Len(events')
    <3> SUFFICES ASSUME NEW e \in 1..MaxEvents, HasRow(e) PROVE e <= m
      BY <1>1, <1>3 DEF HasRow
    <3>1. e <= n
      BY <1>3 DEF QuietInv, RowsStand
    <3> QED  BY <1>3, <3>1
  <2> QED  BY <1>1, <1>7, <2>1 DEF QuietInv, RowsStand
<1>9. RowsPrecede'
  <2> SUFFICES ASSUME NEW q \in Plan, NEW e \in 1..m, NEW f \in 1..m,
                      HasRow(f), IsLeft(e, dispatch'[q]), SameIssue(e, f)'
               PROVE  f < e \/ (f = e /\ e = dispatch'[q].changes[1] /\ OnChange(dispatch'[q]))
    BY <1>1, <1>3 DEF RowsPrecede, HasRow
  <2>1. f \in 1..n /\ e \in 1..MaxEvents
    BY <1>4, <1>5
  <2>2. CASE Begins(q)
    <3>1. e > n
      BY <1>3, <2>1, <2>2 DEF Begins
    <3> QED  BY <2>1, <3>1
  <2>3. CASE dispatch'[q] = dispatch[q]
    <3>1. e \in 1..n
      BY <1>3, <2>1, <2>3, LeftIsEvent
    <3> QED  BY <1>3, <1>6, <2>1, <2>3, <3>1 DEF QuietInv, RowsPrecede
  <2> QED  BY <1>1, <2>2, <2>3
<1>10. RowsFit'
  BY <1>1, <1>7 DEF QuietInv, RowsFit
<1>11. RowsAfter'
  <2> SUFFICES ASSUME NEW q \in Plan, Notifies(dispatch'[q]), NEW f, f = dispatch'[q].changes[1],
                      NEW e \in 1..m, e < f, SameIssue(e, f)',
                      NEW k \in KeysOf(e), row[k].kind = "flapping"
               PROVE  row[k].at + Span < now' /\ \A l \in KeysOf(f) : After(k, l)
    BY <1>1, <1>3 DEF RowsAfter, NotifiesAfter, After
  <2>1. dispatch'[q] = dispatch[q] /\ Notifies(dispatch[q]) /\ OnChange(dispatch[q])
    BY <1>7 DEF Notifies
  <2>2. f \in 1..n
    BY <1>3, <2>1, ChangeInHand
  <2>3. e \in 1..n
    BY <2>2
  <2>4. row[k].at + Span < now /\ \A l \in KeysOf(f) : After(k, l)
    BY <1>3, <1>6, <2>1, <2>2, <2>3 DEF QuietInv, RowsAfter, NotifiesAfter
  <2>5. row[k].at \in Nat /\ now \in Nat /\ now' \in Nat /\ Span \in Nat
    <3>1. row[k] \in Row /\ now \in Stamp /\ now' \in Stamp
      BY <1>2, <1>4, TypesOfRow DEF TypeOK
    <3> QED  BY <3>1, NotificationAssumption DEF Row, Stamp
  <2>6. \A a, b, c, d \in Nat : a + b < c /\ d >= c => a + b < d
    OBVIOUS
  <2>7. row[k].at + Span < now'
    BY <1>1, <2>4, <2>5, <2>6, Zenon
  <2> QED  BY <2>4, <2>7
<1>12. Quiet'
  <2> SUFFICES ASSUME NEW e \in 1..m, NEW f \in 1..m, e < f, SameIssue(e, f)',
                      NEW k \in KeysOf(e), NEW l \in KeysOf(f)
               PROVE  QuietAfter(k, l)
    BY <1>1, <1>3 DEF Quiet, QuietAfter
  <2>1. CASE row[l].status = None
    <3>1. l \in Key
      BY <1>2, <1>4
    <3> QED  BY <2>1, <3>1 DEF QuietInv, RowsStand, QuietAfter, None
  <2>2. CASE row[l].status # None
    <3>1. f \in 1..n
      BY <1>5, <2>2 DEF HasRow
    <3>2. e \in 1..n
      BY <3>1
    <3> QED  BY <1>3, <1>6, <3>1, <3>2 DEF QuietInv, Quiet
  <2> QED  BY <2>1, <2>2
<1> QED  BY <1>8, <1>9, <1>10, <1>11, <1>12 DEF QuietInv

(* Every step keeps the invariant.                                         *)
LEMMA QuietNext == DispatchInv /\ IssuesApart /\ QuietInv /\ [Next]_vars => QuietInv'
<1> SUFFICES ASSUME DispatchInv, IssuesApart, QuietInv, [Next]_vars PROVE QuietInv'
  OBVIOUS
<1>1. ASSUME NEW p \in Plan, DispatchStep(p) PROVE QuietInv'
  BY <1>1, RowsStandStep, RowsPrecedeStep, RowsFitStep, RowsAfterStep, QuietStep DEF QuietInv
<1>2. CASE ~ \E p \in Plan : DispatchStep(p)
  BY <1>2, OthersQuiet
<1> QED  BY <1>1, <1>2

(* It holds at the start.                                                  *)
LEMMA QuietInit == Init => QuietInv
<1> SUFFICES ASSUME Init PROVE QuietInv
  OBVIOUS
<1>1. /\ \A k \in Key : row[k].status = None /\ row[k].kind = None
      /\ \A p \in Plan : dispatch[p].pc = "idle"
      /\ Len(events) = 0
  BY IdleFits DEF Init, NoRow
<1>2. RowsStand
  BY <1>1, KeysApart DEF RowsStand, HasRow, Delivers
<1>3. \A x \in 1..Len(events) : FALSE
  BY <1>1
<1>4. RowsPrecede /\ Quiet
  BY <1>3 DEF RowsPrecede, Quiet
<1>5. RowsFit /\ RowsAfter
  BY <1>1 DEF RowsFit, RowsAfter, Notifies, OnChange, InHand
<1> QED  BY <1>2, <1>4, <1>5 DEF QuietInv

(* After a flapping message about an issue, no message of its opening,     *)
(* recovery or flapping is sent within the cooldown: each of               *)
(* _dispatch_change's messages reads the earlier flapping rows of the      *)
(* issue. That takes the changes of one issue to be dispatched by one      *)
(* dispatch at a time: two that overlap may both look before either has    *)
(* created its row.                                                        *)
THEOREM CooldownIsQuiet == Spec /\ []IssuesApart => []QuietInCooldown
<1>1. DispatchInv /\ IssuesApart /\ QuietInv /\ [Next]_vars => QuietInv'
  BY QuietNext
<1>2. DispatchInv /\ QuietInv => QuietInCooldown
  BY QuietIsQuiet DEF DispatchInv, QuietInv
<1> QED  BY <1>1, <1>2, QuietInit, DispatchSafety, PTL DEF Spec

=============================================================================
