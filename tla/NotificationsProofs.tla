------------------------ MODULE NotificationsProofs ------------------------
(***************************************************************************)
(* Proofs about Notifications, for any plans, issues, channels, windows    *)
(* and times: the types, and what a dispatch holds in every state.  What a *)
(* step of a dispatch does to the dispatch is brought down to moves        *)
(* (StepMoves); the invariants are proved of the moves, and only the       *)
(* lemmas named after the actions look into the actions.                   *)
(***************************************************************************)
EXTENDS Notifications, FiniteSetTheorems, SequenceTheorems, WellFoundedInduction, TLAPS

(* The kinds of message that are about a change of an issue.               *)
ChangeKind == {"issue_opened", "issue_recovered", "severity_escalated", "flapping"}

(* A message is in hand: it has channels left, and from the claim of one on*)
(* a delivery.                                                             *)
InHand(d) == d.pc \in {"create", "handle", "acked", "unacked"}
Delivers(d) == d.pc \in {"handle", "acked", "unacked"}
HasChanges(d) == d.failure = 0 /\ d.changes # <<>>
OnChange(d) == InHand(d) /\ d.kind \in ChangeKind
(* The event e has still to be dispatched, or is the change in hand.       *)
IsLeft(e, d) ==
  HasChanges(d) /\ d.changes[1] <= e /\ e < d.changes[1] + Len(d.changes)

-----------------------------------------------------------------------------

(* The moves.                                                              *)
Shares(d, e) == e.changes = d.changes /\ e.failure = d.failure
Holds(d, e) == Shares(d, e) /\ e.kind = d.kind /\ e.send = d.send /\ e.window = d.window
Fresh(e) == e.pc = "create" /\ e.channels # {} /\ e.attempt = 0
StampFits(e) == e.stamp = Again => e.window \in Window

(* The delivery in hand is that of the message in hand to the channel c.   *)
KeyMatches(d, c) ==
  \/ d.kind = "maintenance_summary" /\ \E t \in Stamp : d.key = SummaryKey(d.window, t, c)
  \/ d.kind = "inspection_failed" /\ d.key = FailureKey(d.failure, c)
  \/ d.kind = "flapping" /\ d.send /\ d.key = FlappingKey(d.changes[1], c)
  \/ d.kind \in ChangeKind /\ ~(d.kind = "flapping" /\ d.send)
     /\ d.key = EventKey(d.changes[1], c)

AtSummaries(d) == d.pc \in {"due", "window"}

Ends(d, e) == e = Idle
Returns(d, e) == e.pc = "due" /\ e.changes = <<>> /\ e.failure = d.failure
Sums(d, e) ==
  /\ AtSummaries(d) /\ Shares(d, e)
  /\ e.window \in Window
  /\ e.pc = "clear" \/ (Fresh(e) /\ e.kind = "maintenance_summary" /\ e.send)
Reports(d, e) ==
  /\ AtSummaries(d) /\ Shares(d, e)
  /\ d.failure > 0 /\ Fresh(e) /\ e.kind = "inspection_failed" /\ e.send
Starts(d, e) == AtSummaries(d) /\ Shares(d, e) /\ HasChanges(d) /\ e.pc = "change"
Turns(d, e) ==
  /\ d.pc \in {"change", "mark"} \/ OnChange(d)
  /\ Len(d.changes) > 1
  /\ e.changes = Tail(d.changes) /\ e.failure = d.failure /\ e.pc = "change"
Clears(d, e) == d.pc = "clear" /\ Shares(d, e) /\ e.pc = "window"
Announces(d, e) == d.pc = "change" /\ Shares(d, e) /\ Fresh(e) /\ e.kind \in ChangeKind
Silences(d, e) ==
  /\ d.pc = "change" /\ Shares(d, e)
  /\ e.pc = "mark" /\ e.window \in Window /\ e.stamp \in Stamp /\ e.kind \in ChangeKind
Marks(d, e) == d.pc = "mark" /\ Shares(d, e) /\ Fresh(e) /\ e.kind = d.kind /\ ~e.send
Takes(d, e) ==
  d.pc = "create" /\ Holds(d, e) /\ e.pc = "handle" /\ e.attempt = 0
  /\ \E c \in Channel : KeyMatches(e, c)
GoesOn(d, e) == Delivers(d) /\ Holds(d, e) /\ Fresh(e)
Concludes(d, e) ==
  /\ InHand(d) /\ d.kind = "maintenance_summary" /\ Shares(d, e)
  /\ e.window = d.window /\ e.pc = "clear"
Sends(d, e) ==
  /\ d.pc \in {"handle", "unacked"} /\ d.send /\ Holds(d, e)
  /\ e.key = d.key /\ e.pc \in {"acked", "unacked"}

(* A dispatch that has ended.                                              *)
LEMMA IdleFits ==
  /\ Idle \in Dispatch
  /\ Idle.pc = "idle" /\ Idle.changes = <<>> /\ Idle.failure = 0 /\ Idle.stamp = NoStamp
  /\ Idle.window = None /\ Idle.kind = None
<1>1. <<>> \in Seq(0..MaxEvents)
  OBVIOUS
<1> QED  BY <1>1, NotificationAssumption DEF Idle, Dispatch, Stamp

(* A dispatch remains one when a field of it is set.                       *)
LEMMA FieldsFit ==
  ASSUME NEW d \in Dispatch
  PROVE  /\ \A x \in {"idle", "due", "window", "clear", "change", "mark", "create", "handle",
                "acked", "unacked"} : [d EXCEPT !.pc = x] \in Dispatch
         /\ \A x \in Seq(0..MaxEvents) : [d EXCEPT !.changes = x] \in Dispatch
         /\ \A x \in 0..MaxFaults : [d EXCEPT !.failure = x] \in Dispatch
         /\ \A x \in SUBSET Window : [d EXCEPT !.expired = x] \in Dispatch
         /\ \A x \in Window \cup {None} : [d EXCEPT !.window = x] \in Dispatch
         /\ \A x \in Stamp \cup {NoStamp, Again} : [d EXCEPT !.stamp = x] \in Dispatch
         /\ \A x \in Kind \cup {None} : [d EXCEPT !.kind = x] \in Dispatch
         /\ \A x \in BOOLEAN : [d EXCEPT !.send = x] \in Dispatch
         /\ \A x \in SUBSET Channel : [d EXCEPT !.listed = x] \in Dispatch
         /\ \A x \in SUBSET Channel : [d EXCEPT !.channels = x] \in Dispatch
         /\ \A x \in Key \cup {NoKey} : [d EXCEPT !.key = x] \in Dispatch
         /\ \A x \in 0..MaxAttempts : [d EXCEPT !.attempt = x] \in Dispatch
<1>1. \A x \in {"idle", "due", "window", "clear", "change", "mark", "create", "handle",
                "acked", "unacked"} : [d EXCEPT !.pc = x] \in Dispatch
  BY DEF Dispatch
<1>2. \A x \in Seq(0..MaxEvents) : [d EXCEPT !.changes = x] \in Dispatch
  BY DEF Dispatch
<1>3. \A x \in 0..MaxFaults : [d EXCEPT !.failure = x] \in Dispatch
  BY DEF Dispatch
<1>4. \A x \in SUBSET Window : [d EXCEPT !.expired = x] \in Dispatch
  BY DEF Dispatch
<1>5. \A x \in Window \cup {None} : [d EXCEPT !.window = x] \in Dispatch
  BY DEF Dispatch
<1>6. \A x \in Stamp \cup {NoStamp, Again} : [d EXCEPT !.stamp = x] \in Dispatch
  BY DEF Dispatch
<1>7. \A x \in Kind \cup {None} : [d EXCEPT !.kind = x] \in Dispatch
  BY DEF Dispatch
<1>8. \A x \in BOOLEAN : [d EXCEPT !.send = x] \in Dispatch
  BY DEF Dispatch
<1>9. \A x \in SUBSET Channel : [d EXCEPT !.listed = x] \in Dispatch
  BY DEF Dispatch
<1>10. \A x \in SUBSET Channel : [d EXCEPT !.channels = x] \in Dispatch
  BY DEF Dispatch
<1>11. \A x \in Key \cup {NoKey} : [d EXCEPT !.key = x] \in Dispatch
  BY DEF Dispatch
<1>12. \A x \in 0..MaxAttempts : [d EXCEPT !.attempt = x] \in Dispatch
  BY DEF Dispatch
<1> QED  BY <1>1, <1>2, <1>3, <1>4, <1>5, <1>6, <1>7, <1>8, <1>9, <1>10, <1>11, <1>12

(* The messages are about changes, summaries and failed runs.              *)
LEMMA KindsOf == ChangeKind \subseteq Kind /\ Kind = ChangeKind \cup {"maintenance_summary", "inspection_failed"}
BY DEF ChangeKind, Kind

(* What is left after the last channel, or the next channel.               *)
AfterChannels(d, e) ==
  \/ d.kind # "maintenance_summary" /\ e = Idle
  \/ Holds(d, e) /\ Fresh(e) /\ e.stamp = d.stamp
  \/ /\ d.kind = "maintenance_summary" /\ Shares(d, e) /\ e.window = d.window
     /\ e.stamp = d.stamp /\ e.pc = "clear"
  \/ /\ d.kind \notin {"maintenance_summary", "inspection_failed"} /\ Len(d.changes) > 1
     /\ e.changes = Tail(d.changes) /\ e.failure = d.failure
     /\ e.pc = "change" /\ e.stamp = NoStamp

(* Going on to the next change, or ending.                                 *)
LEMMA NextChangeFits ==
  ASSUME NEW d \in Dispatch
  PROVE  /\ NextChange(d) \in Dispatch
         /\ \/ NextChange(d) = Idle
            \/ /\ Len(d.changes) > 1 /\ NextChange(d).changes = Tail(d.changes)
               /\ NextChange(d).failure = d.failure
               /\ NextChange(d).pc = "change" /\ NextChange(d).stamp = NoStamp
<1>1. CASE Len(d.changes) > 1
  <2>1. d.changes \in Seq(0..MaxEvents) /\ d.changes # <<>>
    BY <1>1 DEF Dispatch
  <2>2. Tail(d.changes) \in Seq(0..MaxEvents)
    BY <2>1, <1>1, HeadTailProperties
  <2>3. NextChange(d) = [d EXCEPT !.pc = "change", !.changes = Tail(@), !.window = None,
                                  !.stamp = NoStamp]
    BY <1>1 DEF NextChange
  <2>4. [d EXCEPT !.pc = "change", !.changes = Tail(@)] \in Dispatch
    <3>1. [d EXCEPT !.pc = "change"] \in Dispatch
      BY FieldsFit
    <3> QED  BY <3>1, <2>2, FieldsFit
  <2>5. NextChange(d) \in Dispatch
    <3>1. [d EXCEPT !.pc = "change", !.changes = Tail(@), !.window = None] \in Dispatch
      BY <2>4, FieldsFit
    <3>2. [d EXCEPT !.pc = "change", !.changes = Tail(@), !.window = None, !.stamp = NoStamp]
            \in Dispatch
      BY <3>1, FieldsFit
    <3> QED  BY <2>3, <3>2, Zenon
  <2> QED  BY <2>3, <2>4, <1>1 DEF Dispatch
<1>2. CASE ~(Len(d.changes) > 1)
  BY <1>2, IdleFits DEF NextChange
<1> QED  BY <1>1, <1>2

(* After a channel, the next one, or what follows the last one.            *)
LEMMA ChannelsLeft ==
  ASSUME NEW d \in Dispatch, NEW channels \in SUBSET Channel
  PROVE  OnChannels(d, channels) \in Dispatch /\ AfterChannels(d, OnChannels(d, channels))
<1> DEFINE e == [d EXCEPT !.channels = channels, !.key = NoKey, !.attempt = 0]
<1>1. /\ e \in Dispatch /\ Holds(d, e) /\ e.stamp = d.stamp
      /\ e.channels = channels /\ e.attempt = 0
  <2>2. NoKey \in Key \cup {NoKey} /\ 0 \in 0..MaxAttempts
    BY NotificationAssumption
  <2>4. e \in Dispatch
    BY <2>2, FieldsFit
  <2> QED  BY <2>4 DEF Dispatch, Holds, Shares
<1>2. OnChannels(d, channels) = IF channels = {} THEN Done(e) ELSE [e EXCEPT !.pc = "create"]
  BY DEF OnChannels
<1>3. CASE channels # {}
  <2>1. OnChannels(d, channels) = [e EXCEPT !.pc = "create"]
    BY <1>2, <1>3
  <2> HIDE DEF e
  <2>2. /\ [e EXCEPT !.pc = "create"] \in Dispatch
        /\ Holds(d, [e EXCEPT !.pc = "create"]) /\ [e EXCEPT !.pc = "create"].stamp = d.stamp
        /\ Fresh([e EXCEPT !.pc = "create"])
    BY <1>1, <1>3 DEF Dispatch, Holds, Shares, Fresh
  <2> QED  BY <2>1, <2>2 DEF AfterChannels
<1>4. CASE channels = {}
  <2>1. OnChannels(d, channels) = Done(e)
    BY <1>2, <1>4
  <2> HIDE DEF e
  <2>2. CASE e.kind = "maintenance_summary"
    <3>1. Done(e) = [e EXCEPT !.pc = "clear"]
      BY <2>2 DEF Done
    <3> QED  BY <2>1, <2>2, <3>1, <1>1 DEF AfterChannels, Dispatch, Holds, Shares
  <2>3. CASE e.kind = "inspection_failed"
    <3>1. Done(e) = Idle
      BY <2>3 DEF Done
    <3>2. d.kind # "maintenance_summary"
      BY <2>3, <1>1 DEF Holds
    <3> QED  BY <2>1, <3>1, <3>2, IdleFits DEF AfterChannels
  <2>4. CASE e.kind \notin {"maintenance_summary", "inspection_failed"}
    <3>1. Done(e) = NextChange(e)
      BY <2>4 DEF Done
    <3> QED  BY <2>1, <2>4, <3>1, <1>1, NextChangeFits DEF AfterChannels, Holds, Shares
  <2> QED  BY <2>2, <2>3, <2>4
<1> QED  BY <1>3, <1>4

(* A message is put in hand if there is a channel for it.                  *)
LEMMA MessageSent ==
  ASSUME NEW d \in Dispatch, NEW kind \in Kind, NEW send \in BOOLEAN
  PROVE  /\ Message(d, kind, send) \in Dispatch
         /\ \E f \in Dispatch :
              /\ Shares(d, f) /\ f.window = d.window /\ f.stamp = d.stamp
              /\ f.kind = kind /\ f.send = send
              /\ AfterChannels(f, Message(d, kind, send))
<1> DEFINE f == [d EXCEPT !.kind = kind, !.send = send]
<1>1. /\ f \in Dispatch /\ Shares(d, f) /\ f.window = d.window /\ f.stamp = d.stamp
      /\ f.kind = kind /\ f.send = send
  BY DEF Dispatch, Shares
<1>2. Message(d, kind, send) = OnChannels(f, d.listed) /\ d.listed \in SUBSET Channel
  BY DEF Message, Dispatch
<1> HIDE DEF f
<1>3. OnChannels(f, d.listed) \in Dispatch /\ AfterChannels(f, OnChannels(f, d.listed))
  BY <1>1, <1>2, ChannelsLeft
<1> QED  BY <1>1, <1>2, <1>3

-----------------------------------------------------------------------------
(* What a dispatch is like when n events have been recorded and m runs have*)
(* failed.                                                                 *)
ChangesOK(d, n) ==
  /\ d.failure > 0 => d.changes \in {<<>>, LifecycleFirst}
  /\ HasChanges(d) =>
       /\ \A j \in 1..Len(d.changes) : d.changes[j] = d.changes[1] + j - 1
       /\ d.changes[1] >= 1
       /\ d.changes[1] + Len(d.changes) <= n + 1

(* The message in hand has a subject.                                      *)
SubjectOK(d) ==
  \/ d.kind = "maintenance_summary" /\ d.window \in Window /\ d.send
  \/ d.kind = "inspection_failed" /\ d.failure > 0 /\ d.send
  \/ d.kind \in ChangeKind /\ HasChanges(d)

(* What the steps of a dispatch may rely on.                               *)
DispatchOK(d, n, m) ==
  /\ ChangesOK(d, n)
  /\ d.failure <= m
  /\ d.pc \in {"change", "mark"} => HasChanges(d)
  /\ d.pc = "clear" => d.window \in Window
  /\ d.pc = "mark" => d.window \in Window /\ d.stamp \in Stamp /\ d.kind \in ChangeKind
  /\ InHand(d) => SubjectOK(d)
  /\ d.pc = "create" => d.channels # {}
  /\ d.pc \in {"create", "handle"} => d.attempt = 0
  /\ Delivers(d) => \E c \in Channel : KeyMatches(d, c)
  /\ d.pc \in {"acked", "unacked"} => d.send
  /\ StampFits(d)

DispatchesOK == \A p \in Plan : DispatchOK(dispatch[p], Len(events), used.failures)

(* A set of numbers has a least one.                                       *)
LEMMA LeastExists ==
  ASSUME NEW S \in SUBSET Nat, S # {}
  PROVE  \E m \in S : \A n \in S : m <= n
<1>1. \E m \in S : \A n \in S : <<n, m>> \notin OpToRel(<, Nat)
  BY WFMin, NatLessThanWellFounded, Zenon
<1>2. PICK m \in S : \A n \in S : <<n, m>> \notin OpToRel(<, Nat)
  BY <1>1, Zenon
<1>3. \A n \in S : ~(n < m)
  BY <1>2, Zenon DEF OpToRel
<1> QED  BY <1>3

(* The window that ends first is one of them.                              *)
LEMMA FirstOf ==
  ASSUME window \in [Window -> [saved : BOOLEAN, enabled : BOOLEAN, start : Stamp, end : Stamp,
                                pending : Stamp \cup {NoStamp}]],
         NEW W \in SUBSET Window, W # {}
  PROVE  First(W) \in W
<1> DEFINE T == {window[w].end : w \in W}
<1>1. T \in SUBSET Nat /\ T # {}
  BY NotificationAssumption DEF Stamp
<1>2. PICK m \in T : \A n \in T : m <= n
  BY <1>1, LeastExists
<1>3. PICK w \in W : window[w].end = m
  BY <1>2
<1>4. \A v \in W : window[v].end \in T
  OBVIOUS
<1>5. EndsFirst(w, W)
  BY <1>2, <1>3, <1>4 DEF EndsFirst
<1> QED  BY <1>5 DEF First

(* After the summaries: the failure, the changes or the end.               *)
LEMMA ProceedMoves ==
  ASSUME NEW p \in Plan, NEW d \in Dispatch, AtSummaries(d), StampFits(d)
  PROVE  /\ Proceed(p, d) \in Dispatch /\ StampFits(Proceed(p, d))
         /\ \/ Ends(d, Proceed(p, d)) \/ Returns(d, Proceed(p, d))
            \/ Reports(d, Proceed(p, d)) \/ Starts(d, Proceed(p, d))
<1>1. CASE d.changes = LifecycleFirst
  <2>1. Proceed(p, d) = [Idle EXCEPT !.pc = "due", !.failure = d.failure]
    BY <1>1 DEF Proceed
  <2>2. [Idle EXCEPT !.pc = "due"] \in Dispatch /\ d.failure \in 0..MaxFaults
    <3>1. d.failure \in 0..MaxFaults
      BY DEF Dispatch
    <3> QED  BY <3>1, IdleFits, FieldsFit
  <2>3. [Idle EXCEPT !.pc = "due", !.failure = d.failure] \in Dispatch
    BY <2>2, FieldsFit
  <2>4. ASSUME NEW i \in Dispatch
        PROVE  LET e == [i EXCEPT !.pc = "due", !.failure = d.failure] IN
               e.pc = "due" /\ e.changes = i.changes /\ e.failure = d.failure /\ e.stamp = i.stamp
    BY DEF Dispatch
  <2>5. /\ Proceed(p, d).pc = "due" /\ Proceed(p, d).changes = <<>>
        /\ Proceed(p, d).failure = d.failure /\ Proceed(p, d).stamp = NoStamp
    BY <2>1, <2>4, IdleFits
  <2>6. NoStamp # Again
    BY NotificationAssumption DEF NoStamp, Again
  <2> QED  BY <2>1, <2>3, <2>5, <2>6 DEF Returns, StampFits
<1>2. CASE d.changes # LifecycleFirst /\ d.failure > 0
  <2> DEFINE f == [d EXCEPT !.listed = ChannelsOf(p)]
  <2>1. Proceed(p, d) = Message(f, "inspection_failed", TRUE)
    BY <1>2 DEF Proceed
  <2>2. ChannelsOf(p) \in SUBSET Channel
    BY DEF ChannelsOf, EnabledChannels
  <2>3. /\ f \in Dispatch /\ Shares(d, f) /\ f.window = d.window /\ f.stamp = d.stamp
    <3>1. f \in Dispatch
      BY <2>2, FieldsFit
    <3> QED  BY <3>1 DEF Shares, Dispatch
  <2>4. "inspection_failed" \in Kind
    BY DEF Kind
  <2> HIDE DEF f
  <2>5. /\ Message(f, "inspection_failed", TRUE) \in Dispatch
        /\ \E g \in Dispatch :
             /\ Shares(f, g) /\ g.window = f.window /\ g.stamp = f.stamp
             /\ g.kind = "inspection_failed" /\ g.send = TRUE
             /\ AfterChannels(g, Message(f, "inspection_failed", TRUE))
    BY <2>3, <2>4, MessageSent
  <2>6. Ends(d, Proceed(p, d)) \/ (Reports(d, Proceed(p, d)) /\ StampFits(Proceed(p, d)))
    BY <1>2, <2>1, <2>3, <2>5
       DEF AfterChannels, Ends, Reports, StampFits, Shares, Holds, AtSummaries
  <2>7. Ends(d, Proceed(p, d)) => StampFits(Proceed(p, d))
    BY IdleFits, NotificationAssumption DEF Ends, StampFits, NoStamp, Again
  <2> QED  BY <2>1, <2>5, <2>6, <2>7
<1>3. CASE d.changes # LifecycleFirst /\ ~(d.failure > 0) /\ d.changes = <<>>
  <2>1. Proceed(p, d) = Idle
    BY <1>3 DEF Proceed
  <2> QED  BY <2>1, IdleFits, NotificationAssumption DEF Ends, StampFits, NoStamp, Again
<1>4. CASE d.changes # LifecycleFirst /\ ~(d.failure > 0) /\ d.changes # <<>>
  <2>1. Proceed(p, d) = [d EXCEPT !.pc = "change", !.listed = ChannelsOf(p)]
    BY <1>4 DEF Proceed
  <2>2. ChannelsOf(p) \in SUBSET Channel
    BY DEF ChannelsOf, EnabledChannels
  <2>3. [d EXCEPT !.pc = "change"] \in Dispatch
    BY FieldsFit
  <2>4. [d EXCEPT !.pc = "change", !.listed = ChannelsOf(p)] \in Dispatch
    BY <2>2, <2>3, FieldsFit
  <2>5. /\ [d EXCEPT !.pc = "change", !.listed = ChannelsOf(p)].pc = "change"
        /\ [d EXCEPT !.pc = "change", !.listed = ChannelsOf(p)].changes = d.changes
        /\ [d EXCEPT !.pc = "change", !.listed = ChannelsOf(p)].failure = d.failure
        /\ [d EXCEPT !.pc = "change", !.listed = ChannelsOf(p)].window = d.window
        /\ [d EXCEPT !.pc = "change", !.listed = ChannelsOf(p)].stamp = d.stamp
    BY DEF Dispatch
  <2>6. d.failure = 0
    BY <1>4, NotificationAssumption DEF Dispatch
  <2> QED  BY <1>4, <2>1, <2>4, <2>5, <2>6 DEF Starts, StampFits, Shares, HasChanges
<1> QED  BY <1>1, <1>2, <1>3, <1>4

(* A summary is put in hand, or its window is cleared without one.         *)
LEMMA SumUpMoves ==
  ASSUME TypeOK, NEW d \in Dispatch, AtSummaries(d), d.expired # {}
  PROVE  /\ First(d.expired) \in d.expired /\ First(d.expired) \in Window
         /\ SumUp(d) \in Dispatch /\ StampFits(SumUp(d))
         /\ Sums(d, SumUp(d)) /\ SumUp(d).window = First(d.expired)
<1>1. d.expired \in SUBSET Window
  BY DEF Dispatch
<1>2. First(d.expired) \in d.expired
  BY <1>1, FirstOf DEF TypeOK
<1> DEFINE w == First(d.expired)
           e == [d EXCEPT !.window = w, !.stamp = window[w].pending, !.expired = @ \ {w}]
<1>3. w \in Window /\ window[w].pending \in Stamp \cup {NoStamp}
  BY <1>1, <1>2 DEF TypeOK
<1>4. e \in Dispatch
  <2>1. [d EXCEPT !.window = w] \in Dispatch
    BY <1>3, FieldsFit
  <2>2. window[w].pending \in Stamp \cup {NoStamp, Again}
    BY <1>3
  <2>3. [d EXCEPT !.window = w, !.stamp = window[w].pending] \in Dispatch
    BY <2>1, <2>2, FieldsFit
  <2>4. d.expired \ {w} \in SUBSET Window
    BY <1>1
  <2>5. [d EXCEPT !.window = w, !.stamp = window[w].pending].expired = d.expired
    BY DEF Dispatch
  <2> QED  BY <2>3, <2>4, <2>5, FieldsFit
<1>5. Shares(d, e) /\ e.window = w /\ e.stamp = window[w].pending
  BY DEF Dispatch, Shares
<1>6. window[w].pending # Again
  BY <1>3, NotificationAssumption DEF Stamp, NoStamp, Again
<1>7. SumUp(d) = IF \E i \in Covers[w] : issue[i].status = "open"
                   THEN Message(e, "maintenance_summary", TRUE) ELSE [e EXCEPT !.pc = "clear"]
  BY DEF SumUp
<1>8. "maintenance_summary" \in Kind
  BY DEF Kind
<1> HIDE DEF e, w
<1>9. CASE SumUp(d) = [e EXCEPT !.pc = "clear"]
  <2>1. [e EXCEPT !.pc = "clear"] \in Dispatch
    BY <1>4, FieldsFit
  <2>2. /\ [e EXCEPT !.pc = "clear"].window = e.window /\ [e EXCEPT !.pc = "clear"].stamp = e.stamp
        /\ Shares(e, [e EXCEPT !.pc = "clear"]) /\ [e EXCEPT !.pc = "clear"].pc = "clear"
    BY <1>4 DEF Dispatch, Shares
  <2> QED  BY <1>2, <1>3, <1>5, <1>6, <1>9, <2>1, <2>2 DEF Sums, Shares, StampFits, w
<1>10. CASE SumUp(d) = Message(e, "maintenance_summary", TRUE)
  <2>1. /\ SumUp(d) \in Dispatch
        /\ \E f \in Dispatch :
             /\ Shares(e, f) /\ f.window = e.window /\ f.stamp = e.stamp
             /\ f.kind = "maintenance_summary" /\ f.send = TRUE
             /\ AfterChannels(f, SumUp(d))
    <3>1. /\ Message(e, "maintenance_summary", TRUE) \in Dispatch
          /\ \E f \in Dispatch :
               /\ Shares(e, f) /\ f.window = e.window /\ f.stamp = e.stamp
               /\ f.kind = "maintenance_summary" /\ f.send = TRUE
               /\ AfterChannels(f, Message(e, "maintenance_summary", TRUE))
      BY <1>4, <1>8, MessageSent
    <3> QED  BY <1>10, <3>1
  <2> QED  BY <1>2, <1>3, <1>5, <1>6, <2>1
           DEF AfterChannels, Sums, Shares, Holds, StampFits, w
<1> QED  BY <1>7, <1>9, <1>10

-----------------------------------------------------------------------------
(* What each step of a dispatch does to it.                                *)
Moves(p) ==
  /\ dispatch' \in [Plan -> Dispatch]
  /\ \A q \in Plan : q # p => dispatch'[q] = dispatch[q]
  /\ StampFits(dispatch'[p])

(* Only the dispatch of p is updated.                                      *)
LEMMA Updated ==
  ASSUME dispatch \in [Plan -> Dispatch], NEW p \in Plan, NEW e \in Dispatch,
         StampFits(e), Update(p, e)
  PROVE  Moves(p) /\ dispatch'[p] = e
BY DEF Update, Moves

(* A time is no mark for a missing one.                                    *)
LEMMA NoStampDiffers == NoStamp # Again /\ NoStamp \notin Stamp /\ Again \notin Stamp
BY NotificationAssumption DEF Stamp, NoStamp, Again

(* A dispatch that has ended has no time to read again.                    *)
LEMMA IdleStampFits == StampFits(Idle)
BY IdleFits, NoStampDiffers DEF StampFits

(* The dispatch of a plan, with its types.                                 *)
LEMMA OfPlan ==
  ASSUME TypeOK, DispatchesOK, NEW p \in Plan
  PROVE  /\ dispatch[p] \in Dispatch /\ StampFits(dispatch[p])
         /\ DispatchOK(dispatch[p], Len(events), used.failures)
BY DEF TypeOK, DispatchesOK, DispatchOK

(* The windows that are due are looked up.                                 *)
LEMMA DueMoves ==
  ASSUME TypeOK, DispatchesOK, NEW p \in Plan, Due(p)
  PROVE  /\ Moves(p)
         /\ \/ Ends(dispatch[p], dispatch'[p]) \/ Returns(dispatch[p], dispatch'[p])
            \/ Reports(dispatch[p], dispatch'[p]) \/ Starts(dispatch[p], dispatch'[p])
            \/ /\ Sums(dispatch[p], dispatch'[p])
               /\ owed' = {s \in owed : s[2] # dispatch'[p].window}
<1>1. /\ ExpiredWindows \in SUBSET Window /\ EnabledChannels \in SUBSET Channel
      /\ dispatch[p] \in Dispatch
  BY OfPlan DEF ExpiredWindows, EnabledChannels
<1> DEFINE d == [dispatch[p] EXCEPT !.expired = ExpiredWindows, !.listed = EnabledChannels]
<1>2. /\ d \in Dispatch /\ d.pc = dispatch[p].pc /\ Shares(dispatch[p], d)
      /\ d.window = dispatch[p].window /\ d.stamp = dispatch[p].stamp
  <2>1. [dispatch[p] EXCEPT !.expired = ExpiredWindows] \in Dispatch
    BY <1>1, FieldsFit
  <2>2. d \in Dispatch
    BY <1>1, <2>1, FieldsFit
  <2> QED  BY <1>1, <2>2 DEF Dispatch, Shares
<1>3. /\ d.pc = "due"
      /\ Update(p, IF d.expired = {} THEN Proceed(p, d) ELSE SumUp(d))
      /\ owed' = {s \in owed : d.expired = {} \/ s[2] # First(d.expired)}
  BY <1>2 DEF Due
<1>4. dispatch \in [Plan -> Dispatch] /\ StampFits(dispatch[p])
  BY OfPlan DEF TypeOK
<1> HIDE DEF d
<1>5. AtSummaries(d) /\ StampFits(d)
  BY <1>2, <1>3, <1>4 DEF AtSummaries, StampFits
<1>6. CASE d.expired = {}
  <2>1. Moves(p) /\ dispatch'[p] = Proceed(p, d)
    BY <1>2, <1>3, <1>4, <1>5, <1>6, ProceedMoves, Updated
  <2>2. \/ Ends(d, dispatch'[p]) \/ Returns(d, dispatch'[p])
        \/ Reports(d, dispatch'[p]) \/ Starts(d, dispatch'[p])
    BY <1>2, <1>5, <2>1, ProceedMoves
  <2> QED  BY <1>2, <1>3, <2>1, <2>2
           DEF Ends, Returns, Reports, Starts, Shares, AtSummaries, HasChanges
<1>7. CASE d.expired # {}
  <2>1. /\ SumUp(d) \in Dispatch /\ StampFits(SumUp(d))
        /\ Sums(d, SumUp(d)) /\ SumUp(d).window = First(d.expired)
    BY <1>2, <1>5, <1>7, SumUpMoves
  <2>2. Moves(p) /\ dispatch'[p] = SumUp(d)
    BY <1>3, <1>4, <1>7, <2>1, Updated
  <2> QED  BY <1>2, <1>3, <1>7, <2>1, <2>2 DEF Sums, Shares, AtSummaries
<1> QED  BY <1>6, <1>7

(* The next window is taken up.                                            *)
LEMMA NextWindowMoves ==
  ASSUME TypeOK, DispatchesOK, NEW p \in Plan, NextWindow(p)
  PROVE  /\ Moves(p)
         /\ \/ Ends(dispatch[p], dispatch'[p]) \/ Returns(dispatch[p], dispatch'[p])
            \/ Reports(dispatch[p], dispatch'[p]) \/ Starts(dispatch[p], dispatch'[p])
            \/ /\ Sums(dispatch[p], dispatch'[p])
               /\ owed' = {s \in owed : s[2] # dispatch'[p].window}
<1> DEFINE d == dispatch[p]
           gone == \E w \in d.expired : ~window[w].saved
<1>1. /\ d.pc = "window"
      /\ Update(p, IF d.expired = {} THEN Proceed(p, d) ELSE IF gone THEN Idle ELSE SumUp(d))
      /\ owed' = {s \in owed : d.expired = {} \/ gone \/ s[2] # First(d.expired)}
  BY DEF NextWindow
<1>2. dispatch \in [Plan -> Dispatch] /\ d \in Dispatch /\ StampFits(d)
  BY OfPlan DEF TypeOK
<1> HIDE DEF d, gone
<1>3. AtSummaries(d)
  BY <1>1 DEF AtSummaries
<1>4. CASE d.expired = {}
  <2>1. Moves(p) /\ dispatch'[p] = Proceed(p, d)
    BY <1>1, <1>2, <1>3, <1>4, ProceedMoves, Updated
  <2> QED  BY <1>2, <1>3, <2>1, ProceedMoves DEF d
<1>5. CASE d.expired # {} /\ gone
  <2>1. Moves(p) /\ dispatch'[p] = Idle
    BY <1>1, <1>2, <1>5, IdleFits, IdleStampFits, Updated
  <2> QED  BY <2>1 DEF Ends
<1>6. CASE d.expired # {} /\ ~gone
  <2>1. /\ SumUp(d) \in Dispatch /\ StampFits(SumUp(d))
        /\ Sums(d, SumUp(d)) /\ SumUp(d).window = First(d.expired)
    BY <1>2, <1>3, <1>6, SumUpMoves
  <2>2. Moves(p) /\ dispatch'[p] = SumUp(d)
    BY <1>1, <1>2, <1>6, <2>1, Updated
  <2>3. owed' = {s \in owed : s[2] # dispatch'[p].window}
    BY <1>1, <1>6, <2>1, <2>2
  <2> QED  BY <2>1, <2>2, <2>3 DEF d
<1> QED  BY <1>4, <1>5, <1>6

(* A summary is concluded.                                                 *)
LEMMA ClearMoves ==
  ASSUME TypeOK, DispatchesOK, NEW p \in Plan, Clear(p)
  PROVE  /\ Moves(p)
         /\ Ends(dispatch[p], dispatch'[p]) \/ Clears(dispatch[p], dispatch'[p])
         /\ dispatch[p].window \in Window
         /\ \/ window' = [window EXCEPT ![dispatch[p].window].pending = NoStamp]
            \/ window' = window
<1> DEFINE d == dispatch[p]
           e == [d EXCEPT !.pc = "window", !.window = None, !.stamp = NoStamp, !.kind = None]
<1>1. /\ d.pc = "clear"
      /\ \/ /\ window' = [window EXCEPT ![d.window].pending = NoStamp]
            /\ Update(p, e)
         \/ Update(p, Idle) /\ window' = window
  BY DEF Clear
<1>2. /\ dispatch \in [Plan -> Dispatch] /\ d \in Dispatch
      /\ DispatchOK(d, Len(events), used.failures)
  BY OfPlan DEF TypeOK
<1> HIDE DEF d
<1>3. e \in Dispatch
  <2>1. [d EXCEPT !.pc = "window"] \in Dispatch
    BY <1>2, FieldsFit
  <2>2. [d EXCEPT !.pc = "window", !.window = None] \in Dispatch
    BY <2>1, FieldsFit
  <2>3. [d EXCEPT !.pc = "window", !.window = None, !.stamp = NoStamp] \in Dispatch
    BY <2>2, FieldsFit
  <2> QED  BY <2>3, FieldsFit
<1>4. Shares(d, e) /\ e.pc = "window" /\ e.stamp = NoStamp
  BY <1>2 DEF Dispatch, Shares
<1>5. StampFits(e) /\ d.window \in Window
  BY <1>1, <1>2, <1>4, NoStampDiffers DEF StampFits, DispatchOK
<1> HIDE DEF e
<1>6. CASE Update(p, e)
  <2>1. Moves(p) /\ dispatch'[p] = e
    BY <1>2, <1>3, <1>5, <1>6, Updated
  <2>2. Clears(d, dispatch'[p])
    BY <1>1, <1>4, <2>1 DEF Clears
  <2> QED  BY <1>1, <1>5, <2>1, <2>2 DEF d
<1>7. CASE Update(p, Idle)
  <2>1. Moves(p) /\ dispatch'[p] = Idle
    BY <1>2, <1>7, IdleFits, IdleStampFits, Updated
  <2> QED  BY <1>1, <1>5, <2>1 DEF d, Ends
<1> QED  BY <1>1, <1>6, <1>7

(* The first of a sequence that is not empty.                              *)
LEMMA HeadOf ==
  ASSUME NEW S, NEW s \in Seq(S), s # <<>>
  PROVE  Len(s) \in Nat \ {0} /\ Head(s) = s[1] /\ s[1] \in S
<1>1. Len(s) \in Nat \ {0}
  BY EmptySeq
<1>2. Head(s) = s[1]
  OBVIOUS
<1>3. s[1] \in S
  OBVIOUS
<1> QED  BY <1>1, <1>2, <1>3

(* The change in hand is that of an event.                                 *)
LEMMA HeadIsEvent ==
  ASSUME TypeOK, NEW d \in Dispatch, HasChanges(d), ChangesOK(d, Len(events))
  PROVE  /\ Head(d.changes) = d.changes[1] /\ d.changes[1] \in 1..Len(events)
         /\ d.changes[1] \in 1..MaxEvents
         /\ Len(d.changes) \in Nat \ {0} /\ IsLeft(d.changes[1], d)
<1>1. d.changes \in Seq(0..MaxEvents) /\ d.changes # <<>> /\ d.failure = 0
  BY DEF Dispatch, HasChanges
<1>2. /\ Len(d.changes) \in Nat \ {0}
      /\ Head(d.changes) = d.changes[1] /\ d.changes[1] \in 0..MaxEvents
  BY <1>1, HeadOf
<1>3. Len(events) \in Nat /\ Len(events) <= MaxEvents
  BY DEF TypeOK
<1> QED  BY <1>2, <1>3, NotificationAssumption DEF ChangesOK, IsLeft, HasChanges

(* A change is announced as a kind of change.                              *)
LEMMA EffectiveKind ==
  ASSUME TypeOK, NEW e \in 1..Len(events)
  PROVE  /\ NotificationEvent[events[e].type]
              \in {"issue_opened", "issue_recovered", "severity_escalated"}
         /\ Effective(e) \in ChangeKind
         /\ NotificationEvent[events[e].type] \in ChangeKind
<1>1. events[e].type \in EventType
  <2>1. events \in Seq([issue : Issue, type : EventType, at : Stamp])
    BY DEF TypeOK
  <2>2. events[e] \in [issue : Issue, type : EventType, at : Stamp]
    BY <2>1, ElementOfSeq
  <2> QED  BY <2>2
<1>2. NotificationEvent[events[e].type]
        \in {"issue_opened", "issue_recovered", "severity_escalated"}
  BY <1>1 DEF NotificationEvent, EventType, Opening
<1> QED  BY <1>2 DEF Effective, ChangeKind

(* A change sends nothing.                                                 *)
LEMMA SkipMoves ==
  ASSUME TypeOK, DispatchesOK, NEW p \in Plan, Skip(p)
  PROVE  /\ Moves(p)
         /\ Ends(dispatch[p], dispatch'[p]) \/ Turns(dispatch[p], dispatch'[p])
<1>1. dispatch[p].pc = "change" /\ Update(p, NextChange(dispatch[p]))
  BY DEF Skip
<1>2. dispatch \in [Plan -> Dispatch] /\ dispatch[p] \in Dispatch
  BY OfPlan DEF TypeOK
<1>3. NextChange(dispatch[p]) \in Dispatch /\ StampFits(NextChange(dispatch[p]))
  BY <1>2, NextChangeFits, IdleStampFits, NoStampDiffers DEF StampFits
<1>4. Moves(p) /\ dispatch'[p] = NextChange(dispatch[p])
  BY <1>1, <1>2, <1>3, Updated
<1> QED  BY <1>1, <1>2, <1>4, NextChangeFits DEF Ends, Turns

(* A message about the change in hand.                                     *)
LEMMA AnnounceMoves ==
  ASSUME TypeOK, DispatchesOK, NEW p \in Plan, Announce(p)
  PROVE  /\ Moves(p)
         /\ \/ Ends(dispatch[p], dispatch'[p]) \/ Turns(dispatch[p], dispatch'[p])
            \/ /\ Announces(dispatch[p], dispatch'[p])
               /\ dispatch'[p].send => /\ ~IsCooledDown(dispatch[p].changes[1])
                                       /\ dispatch'[p].kind = Effective(dispatch[p].changes[1])
<1> DEFINE d == dispatch[p]
           e == d.changes[1]
           kind == IF IsCooledDown(e) THEN NotificationEvent[events[e].type] ELSE Effective(e)
           send == ~IsCooledDown(e)
<1>1. dispatch \in [Plan -> Dispatch] /\ d \in Dispatch /\ StampFits(d) /\ d.pc = "change"
      /\ HasChanges(d) /\ ChangesOK(d, Len(events))
  BY OfPlan DEF TypeOK, Announce, DispatchOK
<1>2. e \in 1..Len(events) /\ Head(d.changes) = e
  BY <1>1, HeadIsEvent
<1>3. Update(p, Message(d, kind, send))
  <2>1. Update(p, IF IsCooledDown(e)
                    THEN Message(d, NotificationEvent[events[e].type], FALSE)
                    ELSE Message(d, Effective(e), TRUE))
    BY <1>2 DEF Announce
  <2>2. CASE IsCooledDown(e)
    <3>1. send = FALSE /\ kind = NotificationEvent[events[e].type]
      BY <2>2
    <3> QED  BY <2>1, <2>2, <3>1
  <2>3. CASE ~IsCooledDown(e)
    <3>1. send = TRUE /\ kind = Effective(e)
      BY <2>3
    <3> QED  BY <2>1, <2>3, <3>1
  <2> QED  BY <2>2, <2>3
<1>4. kind \in ChangeKind /\ kind \in Kind /\ send \in BOOLEAN
  BY <1>2, EffectiveKind, KindsOf
<1>5. ~send \/ kind = Effective(e)
  OBVIOUS
<1>6. send <=> ~IsCooledDown(e)
  OBVIOUS
<1> HIDE DEF kind, send
<1>7. /\ Message(d, kind, send) \in Dispatch
      /\ \E f \in Dispatch :
           /\ Shares(d, f) /\ f.window = d.window /\ f.stamp = d.stamp
           /\ f.kind = kind /\ f.send = send
           /\ AfterChannels(f, Message(d, kind, send))
  BY <1>1, <1>4, MessageSent
<1> DEFINE m == Message(d, kind, send)
<1> HIDE DEF m
<1>8. /\ m \in Dispatch /\ StampFits(m)
      /\ \/ m = Idle
         \/ Shares(d, m) /\ Fresh(m) /\ m.kind = kind /\ m.send = send
         \/ /\ Len(d.changes) > 1 /\ m.changes = Tail(d.changes) /\ m.failure = d.failure
            /\ m.pc = "change"
  BY <1>1, <1>4, <1>7, IdleStampFits, NoStampDiffers
     DEF AfterChannels, Shares, Holds, StampFits, ChangeKind, m
<1>9. Moves(p) /\ dispatch'[p] = m
  BY <1>1, <1>3, <1>8, Updated DEF m
<1> QED  BY <1>1, <1>4, <1>5, <1>6, <1>8, <1>9 DEF Ends, Turns, Announces

(* A change is recorded as silenced.                                       *)
LEMMA SilenceMoves ==
  ASSUME TypeOK, DispatchesOK, NEW p \in Plan, Silence(p)
  PROVE  /\ Moves(p) /\ Silences(dispatch[p], dispatch'[p])
         /\ dispatch[p].changes[1] \in 1..Len(events)
         /\ window[dispatch'[p].window].saved
         /\ silenced' = silenced \cup {<<dispatch[p].changes[1], dispatch'[p].window>>}
         /\ owed' = IF \E q \in Plan : Summing(dispatch[q], dispatch'[p].window) THEN owed
                    ELSE owed \cup {<<dispatch[p].changes[1], dispatch'[p].window>>}
<1> DEFINE d == dispatch[p]
           e == d.changes[1]
           w == First(Matching(e))
           f == [d EXCEPT !.pc = "mark", !.window = w, !.stamp = now, !.kind = Effective(e)]
<1>1. dispatch \in [Plan -> Dispatch] /\ d \in Dispatch /\ d.pc = "change"
      /\ HasChanges(d) /\ ChangesOK(d, Len(events))
  BY OfPlan DEF TypeOK, Silence, DispatchOK
<1>2. e \in 1..Len(events) /\ Head(d.changes) = e
  BY <1>1, HeadIsEvent
<1>3. /\ Matching(e) # {}
      /\ silenced' = silenced \cup {<<e, w>>}
      /\ owed' = IF \E q \in Plan : Summing(dispatch[q], w) THEN owed ELSE owed \cup {<<e, w>>}
      /\ Update(p, f)
  BY <1>2 DEF Silence, IsSilent
<1>4. w \in Matching(e)
  <2>1. Matching(e) \in SUBSET Window
    BY DEF Matching
  <2> QED  BY <1>3, <2>1, FirstOf DEF TypeOK
<1> HIDE DEF w
<1>5. w \in Window /\ window[w].saved
  BY <1>4 DEF Matching
<1>6. Effective(e) \in ChangeKind /\ Effective(e) \in Kind /\ now \in Stamp
  BY <1>2, EffectiveKind, KindsOf DEF TypeOK
<1>7. f \in Dispatch
  <2>1. [d EXCEPT !.pc = "mark"] \in Dispatch
    BY <1>1, FieldsFit
  <2>2. [d EXCEPT !.pc = "mark", !.window = w] \in Dispatch
    BY <1>5, <2>1, FieldsFit
  <2>3. [d EXCEPT !.pc = "mark", !.window = w, !.stamp = now] \in Dispatch
    BY <1>6, <2>2, FieldsFit
  <2> QED  BY <1>6, <2>3, FieldsFit
<1>8. /\ f.pc = "mark" /\ f.window = w /\ f.stamp = now /\ f.kind = Effective(e)
      /\ Shares(d, f)
  BY <1>1 DEF Dispatch, Shares
<1> HIDE DEF f
<1>9. StampFits(f)
  BY <1>5, <1>8 DEF StampFits
<1>10. Moves(p) /\ dispatch'[p] = f
  BY <1>1, <1>3, <1>7, <1>9, Updated
<1> QED  BY <1>1, <1>2, <1>3, <1>5, <1>6, <1>8, <1>10 DEF Silences

(* The window of a silenced change is marked.                              *)
LEMMA MarkMoves ==
  ASSUME TypeOK, DispatchesOK, NEW p \in Plan, Mark(p)
  PROVE  /\ Moves(p) /\ dispatch[p].pc = "mark" /\ dispatch[p].window \in Window
         /\ \/ Ends(dispatch[p], dispatch'[p]) \/ Turns(dispatch[p], dispatch'[p])
            \/ Marks(dispatch[p], dispatch'[p])
         /\ IF window[dispatch[p].window].saved
              THEN window' = [window EXCEPT ![dispatch[p].window].pending =
                                IF @ = NoStamp THEN dispatch[p].stamp ELSE @]
              ELSE window' = window
<1> DEFINE d == dispatch[p]
           w == d.window
           stamp == IF window[w].pending = NoStamp THEN Again ELSE d.stamp
           e == [d EXCEPT !.stamp = stamp]
<1>1. /\ d.pc = "mark"
      /\ IF window[w].saved
           THEN /\ window' = [window EXCEPT ![w].pending = IF @ = NoStamp THEN d.stamp ELSE @]
                /\ Update(p, Message([d EXCEPT !.stamp = IF window[w].pending = NoStamp
                                                           THEN Again ELSE @],
                                     d.kind, FALSE))
           ELSE Update(p, Idle) /\ window' = window
  BY DEF Mark
<1>2. /\ dispatch \in [Plan -> Dispatch] /\ d \in Dispatch /\ w \in Window
      /\ d.kind \in ChangeKind /\ d.kind \in Kind
  BY <1>1, OfPlan, KindsOf DEF TypeOK, DispatchOK
<1>3. window[w].saved => Update(p, Message(e, d.kind, FALSE))
  BY <1>1
<1>4. e \in Dispatch
  <2>1. stamp \in Stamp \cup {NoStamp, Again}
    BY <1>2 DEF Dispatch
  <2> QED  BY <1>2, <2>1, FieldsFit
<1>5. Shares(d, e) /\ e.window = w
  BY <1>2 DEF Dispatch, Shares
<1> HIDE DEF e
<1>6. CASE window[w].saved
  <2> DEFINE m == Message(e, d.kind, FALSE)
  <2>1. /\ m \in Dispatch
        /\ \E f \in Dispatch :
             /\ Shares(e, f) /\ f.window = e.window /\ f.stamp = e.stamp
             /\ f.kind = d.kind /\ f.send = FALSE
             /\ AfterChannels(f, m)
    BY <1>2, <1>4, MessageSent
  <2> HIDE DEF m
  <2>2. /\ StampFits(m)
        /\ \/ m = Idle
           \/ Shares(d, m) /\ Fresh(m) /\ m.kind = d.kind /\ ~m.send
           \/ /\ Len(d.changes) > 1 /\ m.changes = Tail(d.changes) /\ m.failure = d.failure
              /\ m.pc = "change"
    BY <1>2, <1>5, <2>1, IdleStampFits, NoStampDiffers
       DEF AfterChannels, Shares, Holds, StampFits, ChangeKind
  <2>3. Moves(p) /\ dispatch'[p] = m
    BY <1>2, <1>3, <1>6, <2>1, <2>2, Updated DEF m
  <2> QED  BY <1>1, <1>2, <1>6, <2>2, <2>3 DEF Ends, Turns, Marks
<1>7. CASE ~window[w].saved
  <2>1. Moves(p) /\ dispatch'[p] = Idle
    BY <1>1, <1>2, <1>7, IdleFits, IdleStampFits, Updated
  <2> QED  BY <1>1, <1>2, <1>7, <2>1 DEF Ends
<1> QED  BY <1>6, <1>7

-----------------------------------------------------------------------------
(* Deliveries.                                                             *)

(* The keys of messages are keys.                                          *)
LEMMA KeysFit ==
  /\ \A e \in 1..MaxEvents, c \in Channel : EventKey(e, c) \in Key /\ FlappingKey(e, c) \in Key
  /\ \A n \in 1..MaxFaults, c \in Channel : FailureKey(n, c) \in Key
  /\ \A w \in Window, t \in Stamp, c \in Channel : SummaryKey(w, t, c) \in Key
BY DEF Key

(* The key of the message in hand to a channel.                            *)
LEMMA KeyOfMatches ==
  ASSUME TypeOK, NEW d \in Dispatch, NEW c \in Channel, NEW t \in Stamp \cup {NoStamp, Again},
         SubjectOK(d), ChangesOK(d, Len(events)),
         d.kind = "maintenance_summary" => t \in Stamp
  PROVE  /\ KeyOf(d, c, t) \in Key
         /\ \A f \in Dispatch : Holds(d, f) /\ f.key = KeyOf(d, c, t) => KeyMatches(f, c)
<1>1. CASE d.kind = "maintenance_summary"
  <2>1. KeyOf(d, c, t) = SummaryKey(d.window, t, c)
    BY <1>1 DEF KeyOf
  <2>2. d.window \in Window /\ t \in Stamp
    BY <1>1 DEF SubjectOK, ChangeKind
  <2> QED  BY <1>1, <2>1, <2>2, KeysFit DEF KeyMatches, Holds
<1>2. CASE d.kind = "inspection_failed"
  <2>1. KeyOf(d, c, t) = FailureKey(d.failure, c)
    BY <1>2 DEF KeyOf
  <2>2. d.failure \in 1..MaxFaults
    BY <1>2, NotificationAssumption DEF SubjectOK, ChangeKind, Dispatch
  <2> QED  BY <1>2, <2>1, <2>2, KeysFit DEF KeyMatches, Holds, Shares
<1>3. CASE d.kind \in ChangeKind
  <2>1. HasChanges(d)
    BY <1>3 DEF SubjectOK, ChangeKind
  <2>2. d.changes[1] \in 1..MaxEvents /\ Head(d.changes) = d.changes[1]
    BY <2>1, HeadIsEvent
  <2>3. CASE d.kind = "flapping" /\ d.send
    <3>1. KeyOf(d, c, t) = FlappingKey(d.changes[1], c)
      BY <2>2, <2>3 DEF KeyOf
    <3> QED  BY <2>2, <2>3, <3>1, KeysFit DEF KeyMatches, Holds, Shares
  <2>4. CASE ~(d.kind = "flapping" /\ d.send)
    <3>1. KeyOf(d, c, t) = EventKey(d.changes[1], c)
      BY <1>3, <2>2, <2>4 DEF KeyOf, ChangeKind
    <3> QED  BY <1>3, <2>2, <2>4, <3>1, KeysFit DEF KeyMatches, Holds, Shares
  <2> QED  BY <2>3, <2>4
<1> QED  BY <1>1, <1>2, <1>3 DEF SubjectOK

(* A delivery is created or found.                                         *)
LEMMA CreateMoves ==
  ASSUME TypeOK, DispatchesOK, NEW p \in Plan, Create(p)
  PROVE  /\ Moves(p) /\ dispatch[p].pc = "create"
         /\ \/ Ends(dispatch[p], dispatch'[p]) /\ row' = row
            \/ /\ Takes(dispatch[p], dispatch'[p]) /\ dispatch'[p].key \in Key
               /\ row' = [row EXCEPT ![dispatch'[p].key] =
                    IF @.status = None
                      THEN [status |-> "pending", kind |-> dispatch[p].kind, at |-> now] ELSE @]
<1> DEFINE d == dispatch[p]
           c == CHOOSE c \in d.channels : \A b \in d.channels : c <= b
           t == StampNow(d)
           k == KeyOf(d, c, t)
           s == IF d.window = None THEN NoStamp ELSE IF row[k].status = None THEN Again ELSE t
           e == [d EXCEPT !.pc = "handle", !.channels = @ \ {c}, !.key = k, !.stamp = s]
<1>1. /\ dispatch \in [Plan -> Dispatch] /\ d \in Dispatch /\ d.pc = "create"
      /\ DispatchOK(d, Len(events), used.failures)
  BY OfPlan DEF TypeOK, Create
<1>2. /\ SubjectOK(d) /\ ChangesOK(d, Len(events)) /\ d.channels # {} /\ d.attempt = 0
      /\ StampFits(d)
  BY <1>1 DEF DispatchOK, InHand
<1>3. d.channels \in SUBSET Channel /\ d.window \in Window \cup {None}
  BY <1>1 DEF Dispatch
<1>4. c \in d.channels
  <2>1. \E m \in d.channels : \A b \in d.channels : m <= b
    BY <1>2, <1>3, LeastExists, NotificationAssumption
  <2> QED  BY <2>1
<1>5. t \in Stamp \cup {NoStamp, Again} /\ t # Again
  <2>1. CASE d.stamp = Again
    <3>1. d.window \in Window /\ t = window[d.window].pending
      BY <1>2, <2>1 DEF StampFits, StampNow
    <3>2. t \in Stamp \cup {NoStamp}
      BY <3>1 DEF TypeOK
    <3> QED  BY <3>2, NoStampDiffers
  <2>2. CASE d.stamp # Again
    <3>1. t = d.stamp
      BY <2>2 DEF StampNow
    <3> QED  BY <1>1, <2>2, <3>1 DEF Dispatch
  <2> QED  BY <2>1, <2>2
<1>6. \/ Update(p, Idle) /\ row' = row
      \/ /\ ~ReloadFails(d)
         /\ row' = [row EXCEPT ![k] =
               IF @.status = None THEN [status |-> "pending", kind |-> d.kind, at |-> now] ELSE @]
         /\ Update(p, e)
  BY DEF Create
<1>7. CASE Update(p, Idle) /\ row' = row
  <2>1. Moves(p) /\ dispatch'[p] = Idle
    BY <1>1, <1>7, IdleFits, IdleStampFits, Updated
  <2> QED  BY <1>1, <1>7, <2>1 DEF Ends
<1>8. CASE ~ReloadFails(d) /\ Update(p, e)
           /\ row' = [row EXCEPT ![k] =
                 IF @.status = None
                   THEN [status |-> "pending", kind |-> d.kind, at |-> now] ELSE @]
  <2>1. d.kind = "maintenance_summary" => t \in Stamp
    BY <1>5, <1>8 DEF ReloadFails
  <2>2. c \in Channel
    BY <1>3, <1>4
  <2> HIDE DEF c, t
  <2>3. /\ k \in Key
        /\ \A f \in Dispatch : Holds(d, f) /\ f.key = k => KeyMatches(f, c)
    BY <1>1, <1>2, <1>5, <2>1, <2>2, KeyOfMatches
  <2>4. s \in Stamp \cup {NoStamp, Again}
    BY <1>5
  <2>5. s = Again => d.window \in Window
    BY <1>3, <1>5, NoStampDiffers
  <2> HIDE DEF k, s
  <2>6. e \in Dispatch
    <3>1. [d EXCEPT !.pc = "handle"] \in Dispatch
      BY <1>1, FieldsFit
    <3>2. d.channels \ {c} \in SUBSET Channel
      BY <1>3
    <3>3. [d EXCEPT !.pc = "handle"].channels = d.channels
      BY <1>1 DEF Dispatch
    <3>4. [d EXCEPT !.pc = "handle", !.channels = @ \ {c}] \in Dispatch
      BY <3>1, <3>2, <3>3, FieldsFit
    <3>5. [d EXCEPT !.pc = "handle", !.channels = @ \ {c}, !.key = k] \in Dispatch
      BY <2>3, <3>4, FieldsFit
    <3> QED  BY <2>4, <3>5, FieldsFit
  <2>7. Holds(d, e) /\ e.pc = "handle" /\ e.key = k /\ e.stamp = s /\ e.attempt = d.attempt
    BY <1>1 DEF Dispatch, Holds, Shares
  <2>8. Update(p, e)
    BY <1>8
  <2> HIDE DEF e
  <2>9. StampFits(e) /\ KeyMatches(e, c)
    BY <2>3, <2>5, <2>6, <2>7 DEF StampFits, Holds
  <2>10. Moves(p) /\ dispatch'[p] = e
    BY <1>1, <2>6, <2>8, <2>9, Updated
  <2> QED  BY <1>1, <1>2, <1>8, <2>2, <2>3, <2>7, <2>9, <2>10 DEF Takes, k
<1> QED  BY <1>6, <1>7, <1>8

(* The next channel, or the end of the message in hand.                    *)
NextOne(d, e) == Ends(d, e) \/ GoesOn(d, e) \/ Concludes(d, e) \/ Turns(d, e)

(* The next channel, or what follows the last.                             *)
LEMMA NextChannelMoves ==
  ASSUME TypeOK, DispatchesOK, NEW p \in Plan, Delivers(dispatch[p]),
         NEW f \in Dispatch, Holds(dispatch[p], f), StampFits(f), NextChannel(p, f)
  PROVE  Moves(p) /\ NextOne(dispatch[p], dispatch'[p])
<1> DEFINE d == dispatch[p]
           m == OnChannels(f, f.channels)
<1>1. /\ dispatch \in [Plan -> Dispatch] /\ d \in Dispatch /\ SubjectOK(d)
  BY OfPlan DEF TypeOK, DispatchOK, Delivers, InHand
<1>2. f.channels \in SUBSET Channel
  BY DEF Dispatch
<1>3. m \in Dispatch /\ AfterChannels(f, m)
  BY <1>2, ChannelsLeft
<1>4. Update(p, m)
  BY DEF NextChannel
<1> HIDE DEF m
<1>5. StampFits(m)
  BY <1>3, IdleStampFits, NoStampDiffers DEF AfterChannels, Holds, StampFits
<1>6. Moves(p) /\ dispatch'[p] = m
  BY <1>1, <1>3, <1>4, <1>5, Updated
<1>7. Ends(d, m) \/ GoesOn(d, m) \/ Concludes(d, m) \/ Turns(d, m)
  BY <1>1, <1>3 DEF AfterChannels, Holds, Shares, SubjectOK, Ends, GoesOn, Concludes, Turns,
                    InHand, Delivers, OnChange
<1> QED  BY <1>6, <1>7 DEF NextOne

(* What is read again of a delivery leaves the dispatch as it was.         *)
LEMMA Reloaded ==
  ASSUME NEW d \in Dispatch
  PROVE  Reload(d) \in Dispatch /\ Holds(d, Reload(d)) /\ StampFits(Reload(d))
         /\ Reload(d).key = d.key
<1>1. Reload(d) \in Dispatch
  BY FieldsFit DEF Reload
<1>2. /\ Holds(d, Reload(d)) /\ Reload(d).key = d.key
      /\ Reload(d).stamp = IF d.window = None THEN NoStamp ELSE Again
  BY DEF Reload, Dispatch, Holds, Shares
<1>3. StampFits(Reload(d))
  BY <1>2, NoStampDiffers DEF StampFits, Holds, Dispatch
<1> QED  BY <1>1, <1>2, <1>3

(* The delivery in hand has a key.                                         *)
LEMMA KeyInHand ==
  ASSUME TypeOK, NEW d \in Dispatch, DispatchOK(d, Len(events), used.failures), Delivers(d)
  PROVE  d.key \in Key /\ SubjectOK(d) /\ \E c \in Channel : KeyMatches(d, c)
<1>1. SubjectOK(d) /\ ChangesOK(d, Len(events))
  BY DEF DispatchOK, Delivers, InHand
<1>2. PICK c \in Channel : KeyMatches(d, c)
  BY DEF DispatchOK
<1>3. CASE d.kind = "maintenance_summary"
  BY <1>1, <1>2, <1>3, KeysFit DEF KeyMatches, SubjectOK, ChangeKind
<1>4. CASE d.kind = "inspection_failed"
  <2>1. d.failure \in 1..MaxFaults
    BY <1>1, <1>4, NotificationAssumption DEF SubjectOK, ChangeKind, Dispatch
  <2>2. d.key = FailureKey(d.failure, c)
    BY <1>2, <1>4 DEF KeyMatches, ChangeKind
  <2> QED  BY <1>1, <1>2, <2>1, <2>2, KeysFit
<1>5. CASE d.kind \in ChangeKind
  <2>1. d.changes[1] \in 1..MaxEvents
    BY <1>1, <1>5, HeadIsEvent DEF SubjectOK, ChangeKind
  <2>2. d.key = FlappingKey(d.changes[1], c) \/ d.key = EventKey(d.changes[1], c)
    BY <1>2, <1>5 DEF KeyMatches, ChangeKind
  <2> QED  BY <1>1, <1>2, <2>1, <2>2, KeysFit
<1> QED  BY <1>1, <1>3, <1>4, <1>5 DEF SubjectOK

(* A delivery is suppressed.                                               *)
LEMMA SuppressMoves ==
  ASSUME TypeOK, DispatchesOK, NEW p \in Plan, Suppress(p)
  PROVE  /\ Moves(p) /\ NextOne(dispatch[p], dispatch'[p])
         /\ dispatch[p].pc = "handle" /\ ~dispatch[p].send
         /\ \/ row' = row
            \/ /\ row[dispatch[p].key].status = "pending"
               /\ row' = [row EXCEPT ![dispatch[p].key].status = "suppressed"]
<1> DEFINE d == dispatch[p]
<1>1. /\ d \in Dispatch /\ StampFits(d) /\ d.pc = "handle" /\ ~d.send /\ Delivers(d)
      /\ Holds(d, d)
  BY OfPlan DEF Suppress, Delivers, Holds, Shares
<1>2. \/ NextChannel(p, d) /\ row' = row
      \/ /\ NextChannel(p, Reload(d)) /\ row[d.key].status = "pending"
         /\ row' = [row EXCEPT ![d.key].status = "suppressed"]
  BY DEF Suppress, SetStatus
<1>3. CASE NextChannel(p, d) /\ row' = row
  BY <1>1, <1>3, NextChannelMoves
<1>4. CASE /\ NextChannel(p, Reload(d)) /\ row[d.key].status = "pending"
           /\ row' = [row EXCEPT ![d.key].status = "suppressed"]
  <2>1. Moves(p) /\ NextOne(dispatch[p], dispatch'[p])
    BY <1>1, <1>4, Reloaded, NextChannelMoves
  <2> QED  BY <1>1, <1>4, <2>1
<1> QED  BY <1>2, <1>3, <1>4

(* A delivery has nothing to send.                                         *)
LEMMA DeliversNothingMoves ==
  ASSUME TypeOK, DispatchesOK, NEW p \in Plan, DeliversNothing(p)
  PROVE  Moves(p) /\ NextOne(dispatch[p], dispatch'[p]) /\ row' = row
<1>1. /\ dispatch[p] \in Dispatch /\ StampFits(dispatch[p]) /\ Delivers(dispatch[p])
      /\ Holds(dispatch[p], dispatch[p]) /\ NextChannel(p, dispatch[p]) /\ row' = row
  BY OfPlan DEF DeliversNothing, Delivers, Holds, Shares, tables
<1> QED  BY <1>1, NextChannelMoves

(* The channel's secret cannot be decrypted.                               *)
LEMMA DecryptFailsMoves ==
  ASSUME TypeOK, DispatchesOK, NEW p \in Plan, DecryptFails(p)
  PROVE  /\ Moves(p) /\ NextOne(dispatch[p], dispatch'[p])
         /\ dispatch[p].pc = "handle" /\ dispatch[p].send
         /\ row[dispatch[p].key].status \notin Terminal
         /\ row' = [row EXCEPT ![dispatch[p].key].status = "failed"]
<1>1. /\ dispatch[p] \in Dispatch /\ Delivers(dispatch[p]) /\ NextChannel(p, Reload(dispatch[p]))
  BY OfPlan DEF DecryptFails, Delivers
<1>2. Moves(p) /\ NextOne(dispatch[p], dispatch'[p])
  BY <1>1, Reloaded, NextChannelMoves
<1> QED  BY <1>2 DEF DecryptFails, SetStatus

(* A delivery is recorded as sent.                                         *)
LEMMA SucceedMoves ==
  ASSUME TypeOK, DispatchesOK, NEW p \in Plan, Succeed(p)
  PROVE  /\ Moves(p) /\ NextOne(dispatch[p], dispatch'[p]) /\ dispatch[p].pc = "acked"
         /\ row' = [row EXCEPT ![dispatch[p].key].status = "succeeded"]
<1>1. /\ dispatch[p] \in Dispatch /\ StampFits(dispatch[p]) /\ Delivers(dispatch[p])
      /\ Holds(dispatch[p], dispatch[p]) /\ NextChannel(p, dispatch[p])
  BY OfPlan DEF Succeed, Delivers, Holds, Shares
<1>2. Moves(p) /\ NextOne(dispatch[p], dispatch'[p])
  BY <1>1, NextChannelMoves
<1> QED  BY <1>2 DEF Succeed, SetStatus

(* A delivery is recorded as failed.                                       *)
LEMMA GiveUpMoves ==
  ASSUME TypeOK, DispatchesOK, NEW p \in Plan, GiveUp(p)
  PROVE  /\ Moves(p) /\ NextOne(dispatch[p], dispatch'[p]) /\ dispatch[p].pc = "unacked"
         /\ row' = [row EXCEPT ![dispatch[p].key].status = "failed"]
<1>1. /\ dispatch[p] \in Dispatch /\ StampFits(dispatch[p]) /\ Delivers(dispatch[p])
      /\ Holds(dispatch[p], dispatch[p]) /\ NextChannel(p, dispatch[p])
  BY OfPlan DEF GiveUp, Delivers, Holds, Shares
<1>2. Moves(p) /\ NextOne(dispatch[p], dispatch'[p])
  BY <1>1, NextChannelMoves
<1> QED  BY <1>2 DEF GiveUp, SetStatus

(* A message is sent.                                                      *)
LEMMA AttemptMoves ==
  ASSUME TypeOK, DispatchesOK, NEW p \in Plan, Attempt(p)
  PROVE  /\ Moves(p) /\ Sends(dispatch[p], dispatch'[p])
         /\ dispatch[p].pc = "handle" => row[dispatch[p].key].status \notin Terminal
         /\ row' = [row EXCEPT ![dispatch[p].key].status = "delivering"]
         /\ \/ acks' = acks
            \/ acks' = [acks EXCEPT ![dispatch[p].key] = IF @ < 2 THEN @ + 1 ELSE @]
<1> DEFINE d == dispatch[p]
<1>1. /\ dispatch \in [Plan -> Dispatch] /\ d \in Dispatch
      /\ DispatchOK(d, Len(events), used.failures) /\ MayAttempt(d)
  BY OfPlan DEF TypeOK, Attempt
<1>2. /\ d.pc \in {"handle", "unacked"} /\ d.send
      /\ d.pc = "handle" => row[d.key].status \notin Terminal
      /\ d.attempt + 1 \in 0..MaxAttempts
  BY <1>1, NotificationAssumption DEF MayAttempt, DispatchOK, Dispatch
<1>3. PICK pc \in {"acked", "unacked"} :
        Update(p, [Reload(d) EXCEPT !.pc = pc, !.attempt = @ + 1])
  BY DEF Attempt
<1>4. /\ \/ acks' = acks
         \/ acks' = [acks EXCEPT ![d.key] = IF @ < 2 THEN @ + 1 ELSE @]
      /\ row' = [row EXCEPT ![d.key].status = "delivering"]
  BY DEF Attempt, SetStatus
<1>5. PICK r \in Dispatch : r = Reload(d)
  BY <1>1, Reloaded
<1>6. /\ Holds(d, r) /\ StampFits(r) /\ r.key = d.key
      /\ r.attempt = d.attempt
  <2>1. Holds(d, r) /\ StampFits(r) /\ r.key = d.key
    BY <1>1, <1>5, Reloaded
  <2>2. r.attempt = d.attempt
    BY <1>1, <1>5 DEF Reload, Dispatch
  <2> QED  BY <2>1, <2>2
<1> DEFINE e == [r EXCEPT !.pc = pc, !.attempt = @ + 1]
<1>7. e \in Dispatch
  <2>1. [r EXCEPT !.pc = pc] \in Dispatch
    BY FieldsFit
  <2>2. r.attempt + 1 \in 0..MaxAttempts
    BY <1>2, <1>6
  <2>3. [r EXCEPT !.pc = pc].attempt = r.attempt
    BY DEF Dispatch
  <2> QED  BY <2>1, <2>2, <2>3, FieldsFit
<1>8. Holds(r, e) /\ e.key = r.key /\ e.stamp = r.stamp /\ e.pc = pc
  BY DEF Dispatch, Holds, Shares
<1>9. Update(p, e)
  BY <1>3, <1>5
<1> HIDE DEF e
<1>10. StampFits(e)
  BY <1>6, <1>8 DEF StampFits, Holds
<1>11. Moves(p) /\ dispatch'[p] = e
  BY <1>1, <1>7, <1>9, <1>10, Updated
<1>12. Sends(d, e)
  BY <1>2, <1>6, <1>8 DEF Sends, Holds, Shares
<1> QED  BY <1>2, <1>4, <1>11, <1>12

-----------------------------------------------------------------------------
(* Every step of a dispatch is one of the moves.                           *)
AnyMove(d, e) ==
  \/ Ends(d, e) \/ Returns(d, e) \/ Sums(d, e) \/ Reports(d, e) \/ Starts(d, e)
  \/ Turns(d, e) \/ Clears(d, e) \/ Announces(d, e) \/ Silences(d, e) \/ Marks(d, e)
  \/ Takes(d, e) \/ GoesOn(d, e) \/ Concludes(d, e) \/ Sends(d, e)

(* A step of a dispatch makes one of the moves.                            *)
LEMMA StepMoves ==
  ASSUME TypeOK, DispatchesOK, NEW p \in Plan, DispatchStep(p)
  PROVE  Moves(p) /\ AnyMove(dispatch[p], dispatch'[p])
<1>1. CASE Due(p)
  BY <1>1, DueMoves DEF AnyMove
<1>2. CASE NextWindow(p)
  BY <1>2, NextWindowMoves DEF AnyMove
<1>3. CASE Clear(p)
  BY <1>3, ClearMoves DEF AnyMove
<1>4. CASE Skip(p)
  BY <1>4, SkipMoves DEF AnyMove
<1>5. CASE Announce(p)
  BY <1>5, AnnounceMoves DEF AnyMove
<1>6. CASE Silence(p)
  BY <1>6, SilenceMoves DEF AnyMove
<1>7. CASE Mark(p)
  BY <1>7, MarkMoves DEF AnyMove
<1>8. CASE Create(p)
  BY <1>8, CreateMoves DEF AnyMove
<1>9. CASE Suppress(p)
  BY <1>9, SuppressMoves DEF AnyMove, NextOne
<1>10. CASE DeliversNothing(p)
  BY <1>10, DeliversNothingMoves DEF AnyMove, NextOne
<1>11. CASE DecryptFails(p)
  BY <1>11, DecryptFailsMoves DEF AnyMove, NextOne
<1>12. CASE Attempt(p)
  BY <1>12, AttemptMoves DEF AnyMove
<1>13. CASE Succeed(p)
  BY <1>13, SucceedMoves DEF AnyMove, NextOne
<1>14. CASE GiveUp(p)
  BY <1>14, GiveUpMoves DEF AnyMove, NextOne
<1> QED  BY <1>1, <1>2, <1>3, <1>4, <1>5, <1>6, <1>7, <1>8, <1>9, <1>10, <1>11, <1>12, <1>13,
            <1>14 DEF DispatchStep

(* The changes that are left become fewer; the change in hand stays in hand*)
(* until the next one is taken up.                                         *)
TakesUp(d, e) ==
  /\ HasChanges(d) /\ HasChanges(e) /\ e.pc = "change"
  /\ e.changes[1] = d.changes[1] + 1 /\ Len(e.changes) = Len(d.changes) - 1
Stays(d, e) ==
  /\ Shares(d, e)
  /\ OnChange(d) => OnChange(e) /\ e.kind = d.kind /\ e.send = d.send
  /\ d.pc = "mark" => OnChange(e) /\ e.kind = d.kind /\ ~e.send

(* What is left of a sequence after its first.                             *)
LEMMA TailOf ==
  ASSUME NEW S \in SUBSET Nat, NEW s \in Seq(S), Len(s) > 1,
         \A j \in 1..Len(s) : s[j] = s[1] + j - 1
  PROVE  /\ Tail(s) # <<>> /\ Len(Tail(s)) = Len(s) - 1 /\ s # <<>> /\ Len(s) \in Nat
         /\ s[1] \in Nat /\ Tail(s)[1] = s[1] + 1
         /\ \A j \in 1..Len(Tail(s)) : Tail(s)[j] = Tail(s)[1] + j - 1
<1>1. s # <<>> /\ Len(s) \in Nat
  BY EmptySeq, LenProperties
<1>2. /\ Tail(s) \in Seq(S) /\ Len(Tail(s)) = Len(s) - 1
      /\ \A i \in 1 .. Len(Tail(s)) : Tail(s)[i] = s[i + 1]
  BY <1>1, HeadTailProperties
<1>3. Tail(s) # <<>>
  <2>1. Len(<<>>) = 0
    OBVIOUS
  <2>2. Len(Tail(s)) # 0
    BY <1>1, <1>2
  <2> QED  BY <2>1, <2>2, Zenon
<1>4. s[1] \in Nat
  BY <1>1, HeadOf
<1>5. Tail(s)[1] = s[1] + 1
  BY <1>1, <1>2, <1>4
<1>6. \A j \in 1..Len(Tail(s)) : Tail(s)[j] = Tail(s)[1] + j - 1
  <2> TAKE j \in 1..Len(Tail(s))
  <2>1. j \in Nat /\ j + 1 \in 1..Len(s) /\ Tail(s)[j] = s[j + 1]
    BY <1>1, <1>2
  <2>2. s[j + 1] = s[1] + (j + 1) - 1
    BY <2>1
  <2> QED  BY <1>4, <1>5, <2>1, <2>2
<1> QED  BY <1>1, <1>2, <1>3, <1>4, <1>5, <1>6

(* Going on to the next change keeps the changes left those of events.     *)
LEMMA TurnsOK ==
  ASSUME NEW d \in Dispatch, NEW e \in Dispatch, NEW n \in Nat, NEW m \in Nat,
         DispatchOK(d, n, m), StampFits(e), Turns(d, e)
  PROVE  DispatchOK(e, n, m) /\ TakesUp(d, e)
<1>1. HasChanges(d) /\ ChangesOK(d, n) /\ d.failure = 0
  BY DEF Turns, DispatchOK, OnChange, SubjectOK, InHand, ChangeKind, HasChanges
<1>2. /\ d.changes \in Seq(0..MaxEvents) /\ Len(d.changes) > 1 /\ e.changes = Tail(d.changes)
      /\ e.failure = 0 /\ e.pc = "change" /\ 0..MaxEvents \in SUBSET Nat
  BY <1>1 DEF Turns, Dispatch
<1>3. /\ \A j \in 1..Len(d.changes) : d.changes[j] = d.changes[1] + j - 1
      /\ d.changes[1] >= 1
      /\ d.changes[1] + Len(d.changes) <= n + 1
  BY <1>1 DEF ChangesOK
<1>4. /\ e.changes # <<>> /\ Len(e.changes) = Len(d.changes) - 1 /\ Len(d.changes) \in Nat
      /\ d.changes[1] \in Nat /\ e.changes[1] = d.changes[1] + 1
      /\ \A j \in 1..Len(e.changes) : e.changes[j] = e.changes[1] + j - 1
  <2>1. PICK s \in Seq(0..MaxEvents) : s = d.changes
    BY <1>2
  <2>2. Len(s) > 1 /\ \A j \in 1..Len(s) : s[j] = s[1] + j - 1
    BY <1>2, <1>3, <2>1
  <2>3. /\ Tail(s) # <<>> /\ Len(Tail(s)) = Len(s) - 1 /\ s # <<>> /\ Len(s) \in Nat
        /\ s[1] \in Nat /\ Tail(s)[1] = s[1] + 1
        /\ \A j \in 1..Len(Tail(s)) : Tail(s)[j] = Tail(s)[1] + j - 1
    BY <1>2, <2>2, TailOf
  <2>4. e.changes = Tail(s)
    BY <1>2, <2>1
  <2> QED  BY <2>1, <2>3, <2>4
<1>5. ChangesOK(e, n) /\ HasChanges(e)
  <2>1. e.changes[1] >= 1 /\ e.changes[1] + Len(e.changes) <= n + 1
    BY <1>3, <1>4
  <2>2. ~(e.failure > 0) /\ e.failure = 0
    BY <1>2
  <2> QED  BY <1>4, <2>1, <2>2, Zenon DEF ChangesOK, HasChanges
<1>6. DispatchOK(e, n, m)
  BY <1>2, <1>5 DEF DispatchOK, InHand, Delivers
<1> QED  BY <1>1, <1>2, <1>4, <1>5, <1>6 DEF TakesUp

(* Every move keeps what the steps rely on.                                *)
LEMMA MovesOK ==
  ASSUME NEW d \in Dispatch, NEW e \in Dispatch, NEW n \in Nat, NEW m \in Nat,
         DispatchOK(d, n, m), StampFits(e), AnyMove(d, e)
  PROVE  /\ DispatchOK(e, n, m)
         /\ ~HasChanges(e) \/ TakesUp(d, e) \/ Stays(d, e)
         /\ e.failure \in {0, d.failure}
<1>1. CASE Ends(d, e)
  <2>1. e = Idle /\ e.pc = "idle" /\ e.changes = <<>> /\ e.failure = 0
    BY <1>1, IdleFits DEF Ends
  <2> QED  BY <2>1 DEF DispatchOK, ChangesOK, HasChanges, InHand, Delivers
<1>2. CASE Returns(d, e)
  <2>1. ~HasChanges(e)
    BY <1>2 DEF Returns, HasChanges
  <2> QED  BY <1>2, <2>1 DEF Returns, DispatchOK, ChangesOK, InHand, Delivers
<1>3. CASE Turns(d, e)
  BY <1>3, TurnsOK DEF TakesUp, Turns
<1>4. CASE ~Turns(d, e) /\ ~Ends(d, e) /\ ~Returns(d, e)
  <2>1. Shares(d, e)
    BY <1>4 DEF AnyMove, Sums, Reports, Starts, Clears, Announces, Silences, Marks, Takes,
                GoesOn, Concludes, Sends, Holds
  <2>2. ChangesOK(e, n) /\ e.failure <= m /\ (HasChanges(e) <=> HasChanges(d))
    BY <2>1 DEF Shares, DispatchOK, ChangesOK, HasChanges
  <2>3. CASE Sums(d, e)
    BY <2>1, <2>2, <2>3 DEF Sums, Fresh, DispatchOK, InHand, Delivers, SubjectOK, AtSummaries,
                            Stays, OnChange, Shares
  <2>4. CASE Reports(d, e)
    BY <2>1, <2>2, <2>4 DEF Reports, Fresh, DispatchOK, InHand, Delivers, SubjectOK, AtSummaries,
                            Stays, OnChange, Shares
  <2>5. CASE Starts(d, e)
    BY <2>1, <2>2, <2>5 DEF Starts, DispatchOK, InHand, Delivers, AtSummaries, Stays, OnChange,
                            Shares
  <2>6. CASE Clears(d, e)
    BY <2>1, <2>2, <2>6 DEF Clears, DispatchOK, InHand, Delivers, Stays, OnChange, Shares
  <2>7. CASE Announces(d, e)
    BY <2>1, <2>2, <2>7 DEF Announces, Fresh, DispatchOK, InHand, Delivers, SubjectOK, Stays,
                            OnChange, Shares
  <2>8. CASE Silences(d, e)
    BY <2>1, <2>2, <2>8 DEF Silences, DispatchOK, InHand, Delivers, Stays, OnChange, Shares
  <2>9. CASE Marks(d, e)
    BY <2>1, <2>2, <2>9 DEF Marks, Fresh, DispatchOK, InHand, Delivers, SubjectOK, Stays,
                            OnChange, Shares
  <2>10. CASE Takes(d, e)
    BY <2>1, <2>2, <2>10 DEF Takes, Holds, DispatchOK, InHand, Delivers, SubjectOK, Stays,
                             OnChange, Shares
  <2>11. CASE GoesOn(d, e)
    BY <2>1, <2>2, <2>11 DEF GoesOn, Fresh, Holds, DispatchOK, InHand, Delivers, SubjectOK, Stays,
                             OnChange, Shares
  <2>12. CASE Concludes(d, e)
    BY <2>1, <2>2, <2>12 DEF Concludes, DispatchOK, InHand, Delivers, SubjectOK, Stays,
                             OnChange, Shares, ChangeKind
  <2>13. CASE Sends(d, e)
    <3>1. \A c \in Channel : KeyMatches(d, c) => KeyMatches(e, c)
      BY <2>13 DEF Sends, Holds, Shares, KeyMatches
    <3> QED  BY <2>1, <2>2, <2>13, <3>1
             DEF Sends, Holds, DispatchOK, InHand, Delivers, SubjectOK, Stays, OnChange, Shares
  <2> QED  BY <1>4, <2>3, <2>4, <2>5, <2>6, <2>7, <2>8, <2>9, <2>10, <2>11, <2>12, <2>13
           DEF AnyMove
<1> QED  BY <1>1, <1>2, <1>3, <1>4

-----------------------------------------------------------------------------
(* Types, and what holds of the dispatches in every state.                 *)

(* No two dispatches have a change or a failure in common.                 *)
ChangesApart ==
  \A p, q \in Plan : p # q =>
    /\ \A e \in 1..MaxEvents : ~(IsLeft(e, dispatch[p]) /\ IsLeft(e, dispatch[q]))
    /\ dispatch[p].failure = dispatch[q].failure => dispatch[p].failure = 0

(* Types, and what holds of the dispatches: the invariant all others rest  *)
(* on.                                                                     *)
DispatchInv == TypeOK /\ DispatchesOK /\ ChangesApart

(* The row of a delivery.                                                  *)
Row == [status : Terminal \cup {None, "pending", "delivering"}, kind : Kind \cup {None}, at : Stamp]

(* A row's status is set.                                                  *)
LEMMA StatusSet ==
  ASSUME row \in [Key -> Row], NEW k \in Key,
         NEW s \in Terminal \cup {None, "pending", "delivering"},
         row' = [row EXCEPT ![k].status = s]
  PROVE  /\ row' \in [Key -> Row]
         /\ \A l \in Key : l # k => row'[l] = row[l]
         /\ row'[k].status = s /\ row'[k].kind = row[k].kind /\ row'[k].at = row[k].at
BY DEF Row

(* The rows have their types.                                              *)
LEMMA TypesOfRow == TypeOK => row \in [Key -> Row]
BY DEF TypeOK, Row

(* A row is inserted unless there is one with its key.                     *)
LEMMA RowCreated ==
  ASSUME row \in [Key -> Row], NEW k \in Key, NEW kind \in Kind, now \in Stamp,
         row' = [row EXCEPT ![k] = IF @.status = None
                   THEN [status |-> "pending", kind |-> kind, at |-> now] ELSE @]
  PROVE  /\ row' \in [Key -> Row]
         /\ \A l \in Key : l # k => row'[l] = row[l]
         /\ row[k].status = None => /\ row'[k].status = "pending" /\ row'[k].kind = kind
                                    /\ row'[k].at = now
         /\ row[k].status # None => row'[k] = row[k]
<1> DEFINE r == [status |-> "pending", kind |-> kind, at |-> now]
<1>1. r \in Row /\ r.status = "pending" /\ r.kind = kind /\ r.at = now
  BY DEF Row
<1> HIDE DEF r
<1>2. row' = [row EXCEPT ![k] = IF row[k].status = None THEN r ELSE row[k]]
  BY DEF r
<1>3. row'[k] = (IF row[k].status = None THEN r ELSE row[k]) /\ \A l \in Key : l # k => row'[l] = row[l]
  BY <1>2
<1>4. row' \in [Key -> Row]
  BY <1>1, <1>2
<1> QED  BY <1>1, <1>3, <1>4

(* More events and more failures do a dispatch no harm.                    *)
LEMMA DispatchGrows ==
  ASSUME NEW d \in Dispatch, NEW n \in Nat, NEW m \in Nat, NEW n2 \in Nat, NEW m2 \in Nat,
         n <= n2, m <= m2, DispatchOK(d, n, m)
  PROVE  DispatchOK(d, n2, m2)
<1>1. ChangesOK(d, n2)
  <2>1. HasChanges(d) => d.changes[1] \in Nat /\ Len(d.changes) \in Nat
    <3> HAVE HasChanges(d)
    <3>1. d.changes \in Seq(0..MaxEvents) /\ d.changes # <<>>
      BY DEF Dispatch, HasChanges
    <3>2. Len(d.changes) \in Nat \ {0} /\ d.changes[1] \in 0..MaxEvents
      BY <3>1, HeadOf
    <3> QED  BY <3>2
  <2> QED  BY <2>1 DEF DispatchOK, ChangesOK
<1>2. d.failure \in Nat
  BY NotificationAssumption DEF Dispatch
<1> QED  BY <1>1, <1>2 DEF DispatchOK

(* Which steps of a dispatch change which table.                           *)
StepFrame(p) ==
  /\ UNCHANGED <<now, issue, events, channel>>
  /\ used' = used \/ Use("others")
  /\ \/ row' = row
     \/ Create(p) \/ Suppress(p) \/ DecryptFails(p) \/ Attempt(p) \/ Succeed(p) \/ GiveUp(p)
  /\ window' = window \/ Clear(p) \/ Mark(p)
  /\ acks' = acks \/ Attempt(p)
  /\ (silenced' = silenced /\ owed' \subseteq owed) \/ Silence(p)
  /\ owed' = owed \/ Due(p) \/ NextWindow(p) \/ Silence(p)

(* Each step leaves the other tables alone.                                *)
LEMMA StepsFrame ==
  ASSUME NEW p \in Plan, DispatchStep(p)
  PROVE  StepFrame(p)
<1>1. CASE Due(p)
  BY <1>1 DEF StepFrame, Due, tables
<1>2. CASE NextWindow(p)
  BY <1>2 DEF StepFrame, NextWindow, tables
<1>3. CASE Clear(p)
  BY <1>3 DEF StepFrame, Clear, tables
<1>4. CASE Skip(p)
  BY <1>4 DEF StepFrame, Skip, tables
<1>5. CASE Announce(p)
  BY <1>5 DEF StepFrame, Announce, tables
<1>6. CASE Silence(p)
  BY <1>6 DEF StepFrame, Silence, tables
<1>7. CASE Mark(p)
  BY <1>7 DEF StepFrame, Mark, tables
<1>8. CASE Create(p)
  BY <1>8 DEF StepFrame, Create, tables
<1>9. CASE Suppress(p)
  BY <1>9 DEF StepFrame, Suppress, tables
<1>10. CASE DeliversNothing(p)
  BY <1>10 DEF StepFrame, DeliversNothing, tables
<1>11. CASE DecryptFails(p)
  BY <1>11 DEF StepFrame, DecryptFails, tables
<1>12. CASE Attempt(p)
  BY <1>12 DEF StepFrame, Attempt, tables
<1>13. CASE Succeed(p)
  BY <1>13 DEF StepFrame, Succeed, tables
<1>14. CASE GiveUp(p)
  BY <1>14 DEF StepFrame, GiveUp, tables
<1> QED  BY <1>1, <1>2, <1>3, <1>4, <1>5, <1>6, <1>7, <1>8, <1>9, <1>10, <1>11, <1>12, <1>13,
            <1>14 DEF DispatchStep

(* What a step of a dispatch does to the other tables.                     *)
LEMMA StepTables ==
  ASSUME TypeOK, DispatchesOK, NEW p \in Plan, DispatchStep(p)
  PROVE  /\ events' = events /\ issue' = issue /\ now' = now /\ channel' = channel
         /\ used' \in [failures : 0..MaxFaults, others : 0..MaxFaults, crashes : 0..MaxFaults]
         /\ used'.failures = used.failures /\ used'.crashes = used.crashes
         /\ row' \in [Key -> Row]
         /\ window' \in [Window -> [saved : BOOLEAN, enabled : BOOLEAN, start : Stamp, end : Stamp,
                                    pending : Stamp \cup {NoStamp}]]
         /\ acks' \in [Key -> 0..2]
         /\ silenced' \subseteq (1..Len(events)) \X Window /\ owed' \subseteq silenced'
<1>1. /\ row \in [Key -> Row] /\ now \in Stamp /\ acks \in [Key -> 0..2]
      /\ used \in [failures : 0..MaxFaults, others : 0..MaxFaults, crashes : 0..MaxFaults]
      /\ window \in [Window -> [saved : BOOLEAN, enabled : BOOLEAN, start : Stamp, end : Stamp,
                                pending : Stamp \cup {NoStamp}]]
      /\ silenced \subseteq (1..Len(events)) \X Window /\ owed \subseteq silenced
  BY TypesOfRow DEF TypeOK
<1>2. /\ dispatch[p] \in Dispatch /\ DispatchOK(dispatch[p], Len(events), used.failures)
      /\ Delivers(dispatch[p]) => dispatch[p].key \in Key
  BY OfPlan, KeyInHand
<1>3. StepFrame(p)
  BY StepsFrame
<1>4. /\ used' \in [failures : 0..MaxFaults, others : 0..MaxFaults, crashes : 0..MaxFaults]
      /\ used'.failures = used.failures /\ used'.crashes = used.crashes
  <2>1. CASE used' = used
    BY <1>1, <2>1
  <2>2. CASE Use("others")
    <3>1. /\ used.failures + used.others + used.crashes < MaxFaults
          /\ used' = [used EXCEPT !.others = @ + 1]
      BY <2>2 DEF Use
    <3> QED  BY <1>1, <3>1, NotificationAssumption
  <2> QED  BY <2>1, <2>2, <1>3 DEF StepFrame
<1>5. row' \in [Key -> Row]
  <2>1. CASE row' = row
    BY <1>1, <2>1
  <2>2. CASE Create(p)
    <3>1. dispatch[p].kind \in Kind
      BY <1>2, <2>2, KindsOf DEF Create, DispatchOK, InHand, SubjectOK
    <3> QED  BY <1>1, <2>1, <2>2, <3>1, CreateMoves, RowCreated
  <2>3. CASE Suppress(p)
    BY <1>1, <1>2, <2>1, <2>3, SuppressMoves, StatusSet DEF Delivers, Terminal
  <2>4. CASE DecryptFails(p)
    BY <1>1, <1>2, <2>4, DecryptFailsMoves, StatusSet DEF Delivers, Terminal
  <2>5. CASE Attempt(p)
    BY <1>1, <1>2, <2>5, AttemptMoves, StatusSet DEF Delivers, Terminal, Sends
  <2>6. CASE Succeed(p)
    BY <1>1, <1>2, <2>6, SucceedMoves, StatusSet DEF Delivers, Terminal
  <2>7. CASE GiveUp(p)
    BY <1>1, <1>2, <2>7, GiveUpMoves, StatusSet DEF Delivers, Terminal
  <2> QED  BY <2>1, <2>2, <2>3, <2>4, <2>5, <2>6, <2>7, <1>3 DEF StepFrame
<1>6. window' \in [Window -> [saved : BOOLEAN, enabled : BOOLEAN, start : Stamp, end : Stamp,
                             pending : Stamp \cup {NoStamp}]]
  <2>1. CASE window' = window
    BY <1>1, <2>1
  <2>2. CASE Clear(p)
    <3>1. dispatch[p].window \in Window
      BY <2>2, ClearMoves
    <3>2. CASE window' = [window EXCEPT ![dispatch[p].window].pending = NoStamp]
      BY <1>1, <3>1, <3>2
    <3> QED  BY <2>1, <2>2, <3>2, ClearMoves
  <2>3. CASE Mark(p)
    <3>1. dispatch[p].window \in Window /\ dispatch[p].stamp \in Stamp
      BY <1>2, <2>3 DEF Mark, DispatchOK
    <3>2. CASE window' = [window EXCEPT ![dispatch[p].window].pending =
                            IF @ = NoStamp THEN dispatch[p].stamp ELSE @]
      BY <1>1, <3>1, <3>2
    <3> QED  BY <2>1, <2>3, <3>2, MarkMoves
  <2> QED  BY <2>1, <2>2, <2>3, <1>3 DEF StepFrame
<1>7. acks' \in [Key -> 0..2]
  <2>1. CASE acks' = acks
    BY <1>1, <2>1
  <2>2. CASE Attempt(p)
    <3>1. dispatch[p].key \in Key
      BY <1>2, <2>2, AttemptMoves DEF Sends, Delivers
    <3>2. CASE acks' = [acks EXCEPT ![dispatch[p].key] = IF @ < 2 THEN @ + 1 ELSE @]
      BY <1>1, <3>1, <3>2
    <3> QED  BY <2>1, <2>2, <3>2, AttemptMoves
  <2> QED  BY <2>1, <2>2, <1>3 DEF StepFrame
<1>8. silenced' \subseteq (1..Len(events)) \X Window /\ owed' \subseteq silenced'
  <2>1. CASE silenced' = silenced /\ owed' \subseteq owed
    BY <1>1, <2>1
  <2>2. CASE Silence(p)
    <3>1. dispatch'[p].window \in Window
      BY <2>2, SilenceMoves DEF Silences
    <3> QED  BY <1>1, <2>2, <3>1, SilenceMoves
  <2> QED  BY <2>1, <2>2, <1>3 DEF StepFrame
<1> QED  BY <1>3, <1>4, <1>5, <1>6, <1>7, <1>8 DEF StepFrame

(* There is a finite number of events.                                     *)
LEMMA EventsFinite == TypeOK => /\ Len(events) \in Nat /\ Len(events) <= MaxEvents
                                /\ used.failures \in Nat /\ MaxEvents \in Nat
BY NotificationAssumption DEF TypeOK

(* A dispatch that has ended relies on nothing.                            *)
LEMMA IdleOK ==
  ASSUME NEW n \in Nat, NEW m \in Nat
  PROVE  DispatchOK(Idle, n, m)
BY IdleFits, IdleStampFits DEF DispatchOK, ChangesOK, HasChanges, InHand, Delivers

(* The invariant holds at the start.                                       *)
LEMMA DispatchInit == Init => DispatchInv
<1> SUFFICES ASSUME Init PROVE DispatchInv
  OBVIOUS
<1>1. TypeOK
  <2>1. /\ now \in Stamp /\ NoWindow.saved = FALSE
        /\ events \in Seq([issue : Issue, type : EventType, at : Stamp]) /\ Len(events) = 0
    BY NotificationAssumption DEF Init, Stamp, NoWindow
  <2>2. issue \in [Issue -> [status : {None, "open", "recovered"}, severity : Severity \cup {0}]]
    BY DEF Init
  <2>3. row \in [Key -> [status : Terminal \cup {None, "pending", "delivering"},
                        kind : Kind \cup {None}, at : Stamp]]
    BY NotificationAssumption DEF Init, NoRow, Stamp
  <2>4. channel \in [Channel -> {"enabled", "disabled", "deleted"}]
    BY DEF Init
  <2>5. window \in [Window -> [saved : BOOLEAN, enabled : BOOLEAN, start : Stamp, end : Stamp,
                              pending : Stamp \cup {NoStamp}]]
    <3>1. NoWindow \in [saved : BOOLEAN, enabled : BOOLEAN, start : Stamp, end : Stamp,
                        pending : Stamp \cup {NoStamp}]
      BY NotificationAssumption DEF NoWindow, Stamp
    <3>2. Windows(NoStamp) \subseteq [saved : BOOLEAN, enabled : BOOLEAN, start : Stamp, end : Stamp,
                                      pending : Stamp \cup {NoStamp}]
      BY DEF Windows
    <3> QED  BY <3>1, <3>2 DEF Init
  <2>6. dispatch \in [Plan -> Dispatch]
    BY IdleFits DEF Init
  <2>7. acks \in [Key -> 0..2] /\ silenced = {} /\ owed = {}
    BY DEF Init
  <2>8. used \in [failures : 0..MaxFaults, others : 0..MaxFaults, crashes : 0..MaxFaults]
    BY NotificationAssumption DEF Init
  <2> QED  BY <2>1, <2>2, <2>3, <2>4, <2>5, <2>6, <2>7, <2>8, NotificationAssumption DEF TypeOK
<1>2. \A p \in Plan : dispatch[p] = Idle
  BY DEF Init
<1>3. DispatchesOK
  BY <1>1, <1>2, IdleOK, EventsFinite DEF DispatchesOK
<1>4. ChangesApart
  BY <1>2, IdleFits DEF ChangesApart, IsLeft, HasChanges
<1> QED  BY <1>1, <1>3, <1>4 DEF DispatchInv

(* What is left after a step of a dispatch was left before it.             *)
LEMMA FewerLeft ==
  ASSUME NEW d \in Dispatch, NEW e \in Dispatch, NEW x,
         ~HasChanges(e) \/ TakesUp(d, e) \/ Stays(d, e), IsLeft(x, e), x \in Nat
  PROVE  IsLeft(x, d) /\ (TakesUp(d, e) => x # d.changes[1])
<1>1. HasChanges(e)
  BY DEF IsLeft
<1>2. CASE TakesUp(d, e)
  <2>1. d.changes \in Seq(0..MaxEvents) /\ d.changes # <<>>
    BY <1>2 DEF Dispatch, TakesUp, HasChanges
  <2>2. Len(d.changes) \in Nat \ {0} /\ d.changes[1] \in 0..MaxEvents
    BY <2>1, HeadOf
  <2>3. PICK h \in 0..MaxEvents, n \in Nat \ {0} : h = d.changes[1] /\ n = Len(d.changes)
    BY <2>2
  <2>4. h + 1 <= x /\ x < (h + 1) + (n - 1) /\ HasChanges(d)
    BY <1>2, <2>3 DEF TakesUp, IsLeft
  <2>5. h <= x /\ x < h + n /\ x # h
    BY <2>4
  <2> QED  BY <2>3, <2>4, <2>5 DEF IsLeft
<1>3. CASE Stays(d, e)
  <2>1. IsLeft(x, d)
    BY <1>3 DEF Stays, Shares, IsLeft, HasChanges
  <2>2. ~TakesUp(d, e)
    <3>1. e.changes = d.changes
      BY <1>3 DEF Stays, Shares
    <3>2. e.changes \in Seq(0..MaxEvents) /\ e.changes # <<>>
      BY <1>1 DEF Dispatch, HasChanges
    <3>3. Len(e.changes) \in Nat
      BY <3>2, HeadOf
    <3> QED  BY <3>1, <3>3 DEF TakesUp
  <2> QED  BY <2>1, <2>2
<1> QED  BY <1>1, <1>2, <1>3

(* Every step of a dispatch keeps the invariant.                           *)
LEMMA DispatchStepKeeps ==
  ASSUME DispatchInv, NEW p \in Plan, DispatchStep(p)
  PROVE  DispatchInv' /\ Moves(p)
         /\ \/ ~HasChanges(dispatch'[p]) \/ TakesUp(dispatch[p], dispatch'[p])
            \/ Stays(dispatch[p], dispatch'[p])
<1>1. TypeOK /\ DispatchesOK /\ ChangesApart
  BY DEF DispatchInv
<1>2. Moves(p) /\ AnyMove(dispatch[p], dispatch'[p])
  BY <1>1, StepMoves
<1>3. /\ dispatch' \in [Plan -> Dispatch] /\ StampFits(dispatch'[p])
      /\ dispatch \in [Plan -> Dispatch] /\ DispatchOK(dispatch[p], Len(events), used.failures)
      /\ Len(events) \in Nat /\ used.failures \in Nat
  BY <1>1, <1>2, OfPlan, EventsFinite DEF Moves, TypeOK
<1>4. /\ DispatchOK(dispatch'[p], Len(events), used.failures)
      /\ \/ ~HasChanges(dispatch'[p]) \/ TakesUp(dispatch[p], dispatch'[p])
         \/ Stays(dispatch[p], dispatch'[p])
      /\ dispatch'[p].failure \in {0, dispatch[p].failure}
  BY <1>2, <1>3, MovesOK
<1>5. TypeOK'
  <2>1. row' \in [Key -> [status : Terminal \cup {None, "pending", "delivering"},
                         kind : Kind \cup {None}, at : Stamp]]
    BY <1>1, StepTables DEF Row
  <2> QED  BY <1>1, <1>3, <2>1, StepTables DEF TypeOK
<1>6. DispatchesOK'
  <2>1. events' = events /\ used'.failures = used.failures
    BY <1>1, StepTables
  <2>2. \A q \in Plan : DispatchOK(dispatch'[q], Len(events), used.failures)
    BY <1>1, <1>2, <1>4 DEF Moves, DispatchesOK
  <2> QED  BY <2>1, <2>2 DEF DispatchesOK
<1>7. ChangesApart'
  <2>1. \A e \in 1..MaxEvents : IsLeft(e, dispatch'[p]) => IsLeft(e, dispatch[p])
    BY <1>3, <1>4, FewerLeft
  <2>2. \A q \in Plan : q # p => dispatch'[q] = dispatch[q]
    BY <1>2 DEF Moves
  <2>3. ASSUME NEW q \in Plan, NEW r \in Plan, q # r
        PROVE  /\ \A e \in 1..MaxEvents : ~(IsLeft(e, dispatch'[q]) /\ IsLeft(e, dispatch'[r]))
               /\ dispatch'[q].failure = dispatch'[r].failure => dispatch'[q].failure = 0
    BY <1>1, <1>4, <2>1, <2>2, <2>3 DEF ChangesApart
  <2> QED  BY <2>3 DEF ChangesApart
<1> QED  BY <1>2, <1>4, <1>5, <1>6, <1>7 DEF DispatchInv

(* The changed issues of a run have an order, in which each comes once.    *)
LEMMA OrderOf ==
  ASSUME NEW S \in SUBSET Issue
  PROVE  /\ Cardinality(S) \in Nat
         /\ SetToSeq(S) \in [1..Cardinality(S) -> S]
         /\ \A i, j \in 1..Cardinality(S) : SetToSeq(S)[i] = SetToSeq(S)[j] => i = j
<1>1. IsFiniteSet(S)
  BY NotificationAssumption, FS_Subset
<1>2. PICK f : f \in Bijection(1..Cardinality(S), S)
  BY <1>1, FS_CardinalityType, Zenon DEF ExistsBijection
<1>3. f \in [1..Cardinality(S) -> S] /\ IsInjective(f)
  BY <1>2 DEF Bijection, Injection, IsInjective
<1>4. SetToSeq(S) \in [1..Cardinality(S) -> S] /\ IsInjective(SetToSeq(S))
  BY <1>3, Zenon DEF SetToSeq
<1> QED  BY <1>1, <1>4, FS_CardinalityType DEF IsInjective

(* An event of an issue.                                                   *)
Event == [issue : Issue, type : EventType, at : Stamp]

(* A run adds events of different issues, and its plan's dispatch has them *)
(* as its changes.                                                         *)
RunAdds(p) ==
  \E e \in Dispatch :
    /\ dispatch[p].pc = "idle"
    /\ dispatch' = [dispatch EXCEPT ![p] = e]
    /\ e.pc = "due" /\ e.failure = 0 /\ e.stamp = NoStamp
    /\ Len(e.changes) \in Nat
    /\ \A k \in 1..Len(e.changes) : e.changes[k] = Len(events) + k
    /\ events' \in Seq(Event)
    /\ Len(events') = Len(events) + Len(e.changes) /\ Len(events') <= MaxEvents
    /\ \A k \in 1..Len(events) : events'[k] = events[k]
    /\ \A j, k \in (Len(events) + 1)..Len(events') : events'[j].issue = events'[k].issue => j = k

(* A function on 1..n is a sequence.                                       *)
LEMMA FunctionIsSeq ==
  ASSUME NEW T, NEW n \in Nat, NEW s \in [1..n -> T]
  PROVE  s \in Seq(T) /\ Len(s) = n
OBVIOUS

(* The run that commits does so.                                           *)
LEMMA RunCommitsAdds ==
  ASSUME TypeOK, NEW p \in Plan, RunCommits(p)
  PROVE  /\ RunAdds(p)
         /\ issue' \in [Issue -> [status : {None, "open", "recovered"}, severity : Severity \cup {0}]]
<1>0. PICK S \in SUBSET Issue : \E type \in [S -> EventType], severity \in [S -> Severity] :
        /\ Len(events) + Len(SetToSeq(S)) <= MaxEvents
        /\ \A i \in S : Becomes(i, type[i], severity[i])
        /\ events' = events \o [k \in DOMAIN SetToSeq(S) |->
                         [issue |-> SetToSeq(S)[k], type |-> type[SetToSeq(S)[k]], at |-> now]]
        /\ issue' = [i \in Issue |->
             IF i \in S
               THEN [status |-> IF type[i] = "recovered" THEN "recovered" ELSE "open",
                     severity |-> severity[i]]
               ELSE issue[i]]
        /\ Update(p, [Idle EXCEPT !.pc = "due",
                        !.changes = [k \in DOMAIN SetToSeq(S) |-> Len(events) + k]])
  BY ZenonT(30) DEF RunCommits
<1>1. PICK type \in [S -> EventType], severity \in [S -> Severity] :
        /\ Len(events) + Len(SetToSeq(S)) <= MaxEvents
        /\ \A i \in S : Becomes(i, type[i], severity[i])
        /\ events' = events \o [k \in DOMAIN SetToSeq(S) |->
                         [issue |-> SetToSeq(S)[k], type |-> type[SetToSeq(S)[k]], at |-> now]]
        /\ issue' = [i \in Issue |->
             IF i \in S
               THEN [status |-> IF type[i] = "recovered" THEN "recovered" ELSE "open",
                     severity |-> severity[i]]
               ELSE issue[i]]
        /\ Update(p, [Idle EXCEPT !.pc = "due",
                        !.changes = [k \in DOMAIN SetToSeq(S) |-> Len(events) + k]])
  BY <1>0, Zenon
<1>2. PICK n, order :
        /\ n \in Nat /\ order \in [1..n -> S] /\ order = SetToSeq(S)
        /\ \A i, j \in 1..n : order[i] = order[j] => i = j
  BY OrderOf
<1>3. /\ order \in Seq(S) /\ Len(order) = n /\ DOMAIN order = 1..n
  BY <1>2
<1> DEFINE new == [k \in 1..n |-> [issue |-> order[k], type |-> type[order[k]], at |-> now]]
           changes == [k \in 1..n |-> Len(events) + k]
<1>4. /\ Len(events) + n <= MaxEvents /\ events' = events \o new
      /\ Update(p, [Idle EXCEPT !.pc = "due", !.changes = changes])
  BY <1>1, <1>2, <1>3
<1>5. events \in Seq(Event) /\ Len(events) \in Nat /\ now \in Stamp /\ MaxEvents \in Nat
  BY NotificationAssumption DEF TypeOK, Event
<1>6. new \in [1..n -> Event] /\ \A k \in 1..n : new[k].issue = order[k]
  BY <1>1, <1>2, <1>5 DEF Event
<1>7. changes \in [1..n -> 0..MaxEvents] /\ \A k \in 1..n : changes[k] = Len(events) + k
  <2>1. PICK l \in Nat : l = Len(events) /\ l + n <= MaxEvents
    BY <1>4, <1>5
  <2>2. \A k \in 1..n : l + k \in 0..MaxEvents
    BY <1>2, <1>5, <2>1
  <2> QED  BY <2>1, <2>2
<1> HIDE DEF new, changes
<1>8. new \in Seq(Event) /\ Len(new) = n /\ changes \in Seq(0..MaxEvents) /\ Len(changes) = n
  <2>1. new \in [1..n -> Event] /\ changes \in [1..n -> 0..MaxEvents] /\ n \in Nat
    BY <1>2, <1>6, <1>7
  <2>2. new \in Seq(Event) /\ Len(new) = n
    BY <2>1, FunctionIsSeq, Zenon
  <2>3. changes \in Seq(0..MaxEvents) /\ Len(changes) = n
    BY <2>1, FunctionIsSeq, Zenon
  <2> QED  BY <2>2, <2>3
<1>9. /\ events' \in Seq(Event) /\ Len(events') = Len(events) + n
      /\ \A k \in 1..Len(events) : events'[k] = events[k]
      /\ \A k \in (Len(events) + 1)..Len(events') : events'[k] = new[k - Len(events)]
  BY <1>4, <1>5, <1>8, ConcatProperties
<1>10. \A j, k \in (Len(events) + 1)..Len(events') : events'[j].issue = events'[k].issue => j = k
  <2> TAKE j, k \in (Len(events) + 1)..Len(events')
  <2> HAVE events'[j].issue = events'[k].issue
  <2>1. j - Len(events) \in 1..n /\ k - Len(events) \in 1..n /\ j \in Int /\ k \in Int
    <3>1. PICK l \in Nat : l = Len(events) /\ Len(events') = l + n
      BY <1>5, <1>9
    <3> QED  BY <1>2, <3>1
  <2>2. order[j - Len(events)] = order[k - Len(events)]
    BY <1>6, <1>9, <2>1
  <2>3. j - Len(events) = k - Len(events)
    BY <1>2, <2>1, <2>2
  <2> QED  BY <1>5, <2>1, <2>3
<1>11. \E e \in Dispatch :
         /\ dispatch' = [dispatch EXCEPT ![p] = e]
         /\ e.pc = "due" /\ e.failure = 0 /\ e.stamp = NoStamp /\ e.changes = changes
  <2>1. ASSUME NEW i \in Dispatch
        PROVE  LET e == [i EXCEPT !.pc = "due", !.changes = changes] IN
               e.pc = "due" /\ e.changes = changes /\ e.failure = i.failure /\ e.stamp = i.stamp
    BY DEF Dispatch
  <2>2. [Idle EXCEPT !.pc = "due"] \in Dispatch
    BY IdleFits, FieldsFit
  <2>3. [Idle EXCEPT !.pc = "due", !.changes = changes] \in Dispatch
    BY <2>2, <1>8, FieldsFit
  <2> QED  BY <2>1, <2>3, <1>4, IdleFits DEF Update
<1>12. RunAdds(p)
  <2>1. dispatch[p].pc = "idle"
    BY ZenonT(30) DEF RunCommits
  <2>2. Len(events') <= MaxEvents
    BY <1>4, <1>9
  <2>3. PICK e \in Dispatch :
          /\ dispatch' = [dispatch EXCEPT ![p] = e]
          /\ e.pc = "due" /\ e.failure = 0 /\ e.stamp = NoStamp /\ e.changes = changes
    BY <1>11
  <2>4. Len(e.changes) = n /\ n \in Nat
    BY <1>2, <1>8, <2>3
  <2>5. \A k \in 1..Len(e.changes) : e.changes[k] = Len(events) + k
    BY <1>7, <2>3, <2>4
  <2>6. Len(events') = Len(events) + Len(e.changes)
    BY <1>9, <2>4
  <2> QED  BY <1>9, <1>10, <2>1, <2>2, <2>3, <2>4, <2>5, <2>6 DEF RunAdds
<1>13. issue' \in [Issue -> [status : {None, "open", "recovered"}, severity : Severity \cup {0}]]
  <2>1. issue \in [Issue -> [status : {None, "open", "recovered"}, severity : Severity \cup {0}]]
    BY DEF TypeOK
  <2> QED  BY <1>1, <2>1
<1> QED  BY <1>12, <1>13

(* A run that fails is the only one with its number.                       *)
RunReports(p) ==
  \E e \in Dispatch :
    /\ dispatch[p].pc = "idle"
    /\ dispatch' = [dispatch EXCEPT ![p] = e]
    /\ e.pc = "due" /\ e.changes = LifecycleFirst /\ e.stamp = NoStamp
    /\ e.failure = used.failures + 1 /\ used'.failures = used.failures + 1
    /\ used'.crashes = used.crashes
    /\ used' \in [failures : 0..MaxFaults, others : 0..MaxFaults, crashes : 0..MaxFaults]

(* A fault is used up.                                                     *)
LEMMA FaultUsed ==
  ASSUME used \in [failures : 0..MaxFaults, others : 0..MaxFaults, crashes : 0..MaxFaults],
         NEW fault \in {"failures", "others", "crashes"}, Use(fault)
  PROVE  /\ used' \in [failures : 0..MaxFaults, others : 0..MaxFaults, crashes : 0..MaxFaults]
         /\ used'.failures = IF fault = "failures" THEN used.failures + 1 ELSE used.failures
         /\ used'.crashes = IF fault = "crashes" THEN used.crashes + 1 ELSE used.crashes
<1>1. /\ used.failures + used.others + used.crashes < MaxFaults
      /\ used' = [used EXCEPT ![fault] = @ + 1]
  BY DEF Use
<1>2. used.failures \in Nat /\ used.others \in Nat /\ used.crashes \in Nat /\ MaxFaults \in Nat
  BY NotificationAssumption
<1>3. used.failures < MaxFaults /\ used.others < MaxFaults /\ used.crashes < MaxFaults
  BY <1>1, <1>2
<1>4. CASE fault = "failures"
  BY <1>1, <1>2, <1>3, <1>4
<1>5. CASE fault = "others"
  BY <1>1, <1>2, <1>3, <1>5
<1>6. CASE fault = "crashes"
  BY <1>1, <1>2, <1>3, <1>6
<1> QED  BY <1>4, <1>5, <1>6

(* The run that fails does so.                                             *)
LEMMA RunFailsReports ==
  ASSUME TypeOK, NEW p \in Plan, RunFails(p)
  PROVE  RunReports(p)
<1>1. used \in [failures : 0..MaxFaults, others : 0..MaxFaults, crashes : 0..MaxFaults]
  BY DEF TypeOK
<1>2. Use("failures") /\ dispatch[p].pc = "idle"
      /\ Update(p, [Idle EXCEPT !.pc = "due", !.changes = LifecycleFirst,
                               !.failure = used.failures + 1])
  BY DEF RunFails
<1>3. /\ used' \in [failures : 0..MaxFaults, others : 0..MaxFaults, crashes : 0..MaxFaults]
      /\ used'.failures = used.failures + 1 /\ used'.crashes = used.crashes
  BY <1>1, <1>2, FaultUsed
<1>4. LifecycleFirst \in Seq(0..MaxEvents) /\ used.failures + 1 \in 0..MaxFaults
  <2>1. 0 \in 0..MaxEvents
    BY NotificationAssumption
  <2>2. LifecycleFirst \in Seq(0..MaxEvents)
    BY <2>1 DEF LifecycleFirst
  <2>3. used'.failures \in 0..MaxFaults
    BY <1>3
  <2> QED  BY <1>3, <2>2, <2>3
<1>5. [Idle EXCEPT !.pc = "due"] \in Dispatch
  BY IdleFits, FieldsFit
<1>6. [Idle EXCEPT !.pc = "due", !.changes = LifecycleFirst] \in Dispatch
  BY <1>4, <1>5, FieldsFit
<1>7. [Idle EXCEPT !.pc = "due", !.changes = LifecycleFirst, !.failure = used.failures + 1]
        \in Dispatch
  BY <1>4, <1>6, FieldsFit
<1>8. ASSUME NEW i \in Dispatch
      PROVE  LET e == [i EXCEPT !.pc = "due", !.changes = LifecycleFirst,
                               !.failure = used.failures + 1] IN
             e.pc = "due" /\ e.changes = LifecycleFirst /\ e.failure = used.failures + 1
             /\ e.stamp = i.stamp
  BY DEF Dispatch
<1>9. \E e \in Dispatch :
        /\ dispatch' = [dispatch EXCEPT ![p] = e]
        /\ e.pc = "due" /\ e.changes = LifecycleFirst /\ e.stamp = NoStamp
        /\ e.failure = used.failures + 1
  BY <1>2, <1>7, <1>8, IdleFits DEF Update
<1> QED  BY <1>2, <1>3, <1>9 DEF RunReports

(* The requests of users.                                                  *)
Request ==
  \/ \E w \in Window : SaveWindow(w) \/ DeleteWindow(w)
  \/ \E c \in Channel : EditChannel(c) \/ DeleteChannel(c)

(* They keep the types, and change windows, channels and what is owed only.*)
LEMMA RequestTables ==
  ASSUME TypeOK, Request
  PROVE  /\ UNCHANGED <<now, issue, events, silenced, row, dispatch, acks>>
         /\ used' \in [failures : 0..MaxFaults, others : 0..MaxFaults, crashes : 0..MaxFaults]
         /\ used'.failures = used.failures /\ used'.crashes = used.crashes
         /\ channel' \in [Channel -> {"enabled", "disabled", "deleted"}]
         /\ window' \in [Window -> [saved : BOOLEAN, enabled : BOOLEAN, start : Stamp, end : Stamp,
                                    pending : Stamp \cup {NoStamp}]]
         /\ owed' \subseteq owed
         /\ \A w \in Window : (window'[w].saved /\ window'[w].pending = window[w].pending)
                              \/ window'[w] = window[w] \/ \A s \in owed' : s[2] # w
<1>1. /\ used \in [failures : 0..MaxFaults, others : 0..MaxFaults, crashes : 0..MaxFaults]
      /\ channel \in [Channel -> {"enabled", "disabled", "deleted"}]
      /\ window \in [Window -> [saved : BOOLEAN, enabled : BOOLEAN, start : Stamp, end : Stamp,
                                pending : Stamp \cup {NoStamp}]]
  BY DEF TypeOK
<1>2. Use("others") /\ UNCHANGED <<now, issue, events, silenced, row, dispatch, acks>>
  BY DEF Request, SaveWindow, DeleteWindow, EditChannel, DeleteChannel
<1>3. /\ used' \in [failures : 0..MaxFaults, others : 0..MaxFaults, crashes : 0..MaxFaults]
      /\ used'.failures = used.failures /\ used'.crashes = used.crashes
  BY <1>1, <1>2, FaultUsed
<1>4. CASE \E c \in Channel : EditChannel(c) \/ DeleteChannel(c)
  <2>1. PICK c \in Channel : EditChannel(c) \/ DeleteChannel(c)
    BY <1>4
  <2>2. window' = window /\ owed' = owed
    BY <2>1 DEF EditChannel, DeleteChannel
  <2>3. \/ channel' = [channel EXCEPT ![c] = IF @ = "enabled" THEN "disabled" ELSE "enabled"]
        \/ channel' = [channel EXCEPT ![c] = "deleted"]
    BY <2>1 DEF EditChannel, DeleteChannel
  <2>4. channel' \in [Channel -> {"enabled", "disabled", "deleted"}]
    BY <1>1, <2>3
  <2> QED  BY <1>1, <1>2, <1>3, <2>2, <2>4
<1>5. CASE \E w \in Window : SaveWindow(w)
  <2>1. PICK w \in Window : SaveWindow(w)
    BY <1>5
  <2>2. PICK v \in Windows(window[w].pending) : window' = [window EXCEPT ![w] = v]
    BY <2>1 DEF SaveWindow
  <2>3. channel' = channel /\ owed' = owed
    BY <2>1 DEF SaveWindow
  <2>4. v \in [saved : BOOLEAN, enabled : BOOLEAN, start : Stamp, end : Stamp,
               pending : Stamp \cup {NoStamp}] /\ v.saved /\ v.pending = window[w].pending
    BY <1>1 DEF Windows
  <2> QED  BY <1>1, <1>2, <1>3, <2>2, <2>3, <2>4
<1>6. CASE \E w \in Window : DeleteWindow(w)
  <2>1. PICK w \in Window : DeleteWindow(w)
    BY <1>6
  <2>2. channel' = channel /\ owed' = {s \in owed : s[2] # w}
        /\ window' = [window EXCEPT ![w] = NoWindow]
    BY <2>1 DEF DeleteWindow
  <2>3. NoWindow \in [saved : BOOLEAN, enabled : BOOLEAN, start : Stamp, end : Stamp,
                      pending : Stamp \cup {NoStamp}]
    BY NotificationAssumption DEF NoWindow, Stamp
  <2> QED  BY <1>1, <1>2, <1>3, <2>2, <2>3
<1> QED  BY <1>4, <1>5, <1>6 DEF Request

(* A run adds changes whose events come after all there were.              *)
LEMMA RunAddsKeeps ==
  ASSUME DispatchInv, NEW p \in Plan, RunCommits(p)
  PROVE  DispatchInv' /\ \A e \in 1..MaxEvents : IsLeft(e, dispatch'[p]) => e > Len(events)
<1>1. TypeOK /\ DispatchesOK /\ ChangesApart
  BY DEF DispatchInv
<1>2. PICK e \in Dispatch :
        /\ dispatch[p].pc = "idle"
        /\ dispatch' = [dispatch EXCEPT ![p] = e]
        /\ e.pc = "due" /\ e.failure = 0 /\ e.stamp = NoStamp
        /\ Len(e.changes) \in Nat
        /\ \A k \in 1..Len(e.changes) : e.changes[k] = Len(events) + k
        /\ events' \in Seq(Event)
        /\ Len(events') = Len(events) + Len(e.changes) /\ Len(events') <= MaxEvents
        /\ \A k \in 1..Len(events) : events'[k] = events[k]
  BY <1>1, RunCommitsAdds DEF RunAdds
<1>3. dispatch' \in [Plan -> Dispatch] /\ dispatch'[p] = e
      /\ \A q \in Plan : q # p => dispatch'[q] = dispatch[q]
  BY <1>1, <1>2 DEF TypeOK
<1>4. UNCHANGED <<now, silenced, row, channel, window, acks, owed, used>>
  BY DEF RunCommits
<1>5. PICK l \in Nat, n \in Nat : l = Len(events) /\ n = Len(e.changes)
                  /\ Len(events') = l + n
  BY <1>1, <1>2, EventsFinite
<1>6. HasChanges(e) => n > 0 /\ e.changes[1] = l + 1
  <2> HAVE HasChanges(e)
  <2>1. e.changes \in Seq(0..MaxEvents) /\ e.changes # <<>>
    BY DEF Dispatch, HasChanges
  <2>2. n \in Nat \ {0}
    BY <2>1, <1>5, HeadOf
  <2> QED  BY <1>2, <1>5, <2>2
<1>7. TypeOK'
  <2>1. /\ events' \in Seq([issue : Issue, type : EventType, at : Stamp])
        /\ Len(events') <= MaxEvents
    BY <1>2 DEF Event
  <2>2. issue' \in [Issue -> [status : {None, "open", "recovered"}, severity : Severity \cup {0}]]
    BY <1>1, RunCommitsAdds
  <2>3. silenced' \subseteq (1..Len(events')) \X Window
    <3>1. silenced \subseteq (1..Len(events)) \X Window
      BY <1>1 DEF TypeOK
    <3>2. 1..Len(events) \subseteq 1..Len(events')
      BY <1>5
    <3> QED  BY <3>1, <3>2, <1>4
  <2> QED  BY <1>1, <1>3, <1>4, <2>1, <2>2, <2>3 DEF TypeOK
<1>8. DispatchesOK'
  <2>1. used'.failures = used.failures /\ used.failures \in Nat
    BY <1>1, <1>4, EventsFinite
  <2>2. DispatchOK(e, Len(events'), used.failures)
    <3>1. ChangesOK(e, Len(events'))
      <4> SUFFICES ASSUME HasChanges(e)
                   PROVE  /\ \A j \in 1..Len(e.changes) : e.changes[j] = e.changes[1] + j - 1
                          /\ e.changes[1] >= 1
                          /\ e.changes[1] + Len(e.changes) <= Len(events') + 1
        BY <1>2 DEF ChangesOK
      <4>1. n > 0 /\ e.changes[1] = l + 1 /\ \A j \in 1..n : e.changes[j] = l + j
        BY <1>2, <1>5, <1>6
      <4>2. \A j \in 1..n : e.changes[j] = e.changes[1] + j - 1
        BY <1>5, <4>1
      <4>3. l + 1 >= 1 /\ (l + 1) + n <= (l + n) + 1
        OBVIOUS
      <4>4. Len(e.changes) = n /\ Len(events') = l + n
        BY <1>5
      <4> QED  BY <4>1, <4>2, <4>3, <4>4, Zenon
    <3> QED  BY <1>2, <2>1, <3>1, NoStampDiffers DEF DispatchOK, InHand, Delivers, StampFits
  <2>3. \A q \in Plan : DispatchOK(dispatch[q], Len(events'), used.failures)
    <3> TAKE q \in Plan
    <3>1. dispatch[q] \in Dispatch /\ DispatchOK(dispatch[q], l, used.failures)
      BY <1>1, <1>5, OfPlan
    <3>2. l <= l + n /\ l + n \in Nat /\ used.failures <= used.failures
      BY <1>5, <2>1
    <3> QED  BY <1>5, <2>1, <3>1, <3>2, DispatchGrows
  <2> QED  BY <1>3, <2>1, <2>2, <2>3 DEF DispatchesOK
<1>9. \A x \in 1..MaxEvents : IsLeft(x, dispatch'[p]) => x > Len(events)
  BY <1>1, <1>3, <1>5, <1>6, EventsFinite DEF IsLeft
<1>10. ChangesApart'
  <2>1. ASSUME NEW q \in Plan, NEW x \in 1..MaxEvents, IsLeft(x, dispatch[q])
        PROVE  x <= Len(events)
    <3>1. HasChanges(dispatch[q]) /\ ChangesOK(dispatch[q], Len(events))
          /\ x < dispatch[q].changes[1] + Len(dispatch[q].changes)
      BY <2>1, <1>1, OfPlan DEF IsLeft, DispatchOK
    <3>2. /\ dispatch[q].changes[1] \in 1..Len(events) /\ Len(dispatch[q].changes) \in Nat \ {0}
      BY <3>1, <1>1, OfPlan, HeadIsEvent
    <3>3. dispatch[q].changes[1] + Len(dispatch[q].changes) <= Len(events) + 1
      BY <3>1 DEF ChangesOK
    <3>4. PICK h \in 1..l, m \in Nat : h = dispatch[q].changes[1] /\ m = Len(dispatch[q].changes)
      <4>1. dispatch[q].changes[1] \in 1..l
        BY <1>5, <3>2, Zenon
      <4>2. Len(dispatch[q].changes) \in Nat
        BY <3>2
      <4> QED  BY <4>1, <4>2, Zenon
    <3>5. x < h + m /\ h + m <= l + 1
      BY <1>5, <3>1, <3>3, <3>4, Zenon
    <3>6. x \in Int
      OBVIOUS
    <3>7. x <= l
      BY <3>5, <3>6
    <3> QED  BY <1>5, <3>7, Zenon
  <2>2. ASSUME NEW q \in Plan, NEW r \in Plan, q # r
        PROVE  /\ \A x \in 1..MaxEvents : ~(IsLeft(x, dispatch'[q]) /\ IsLeft(x, dispatch'[r]))
               /\ dispatch'[q].failure = dispatch'[r].failure => dispatch'[q].failure = 0
    <3>1. CASE q # p /\ r # p
      BY <1>1, <1>3, <2>2, <3>1 DEF ChangesApart
    <3>2. CASE q = p
      <4>1. dispatch'[q].failure = 0 /\ dispatch'[r] = dispatch[r]
        BY <1>2, <1>3, <2>2, <3>2
      <4>2. ASSUME NEW x \in 1..MaxEvents
            PROVE  ~(IsLeft(x, dispatch'[q]) /\ IsLeft(x, dispatch'[r]))
        BY <1>9, <2>1, <3>2, <4>1, <1>5
      <4> QED  BY <4>1, <4>2
    <3>3. CASE r = p
      <4>1. dispatch'[r].failure = 0 /\ dispatch'[q] = dispatch[q]
        BY <1>2, <1>3, <2>2, <3>3
      <4>2. ASSUME NEW x \in 1..MaxEvents
            PROVE  ~(IsLeft(x, dispatch'[q]) /\ IsLeft(x, dispatch'[r]))
        BY <1>9, <2>1, <3>3, <4>1, <1>5
      <4> QED  BY <4>1, <4>2
    <3> QED  BY <3>1, <3>2, <3>3
  <2> QED  BY <2>2 DEF ChangesApart
<1> QED  BY <1>7, <1>8, <1>9, <1>10 DEF DispatchInv

(* A failed run has a number of its own.                                   *)
LEMMA RunReportsKeeps ==
  ASSUME DispatchInv, NEW p \in Plan, RunFails(p)
  PROVE  DispatchInv'
<1>1. TypeOK /\ DispatchesOK /\ ChangesApart
  BY DEF DispatchInv
<1>2. PICK e \in Dispatch :
        /\ dispatch' = [dispatch EXCEPT ![p] = e]
        /\ e.pc = "due" /\ e.changes = LifecycleFirst /\ e.stamp = NoStamp
        /\ e.failure = used.failures + 1 /\ used'.failures = used.failures + 1
        /\ used' \in [failures : 0..MaxFaults, others : 0..MaxFaults, crashes : 0..MaxFaults]
  BY <1>1, RunFailsReports DEF RunReports
<1>3. dispatch' \in [Plan -> Dispatch] /\ dispatch'[p] = e
      /\ \A q \in Plan : q # p => dispatch'[q] = dispatch[q]
  BY <1>1, <1>2 DEF TypeOK
<1>4. UNCHANGED <<now, issue, events, silenced, row, channel, window, acks, owed>>
  BY DEF RunFails, tables
<1>5. used.failures \in Nat /\ Len(events) \in Nat
  BY <1>1, EventsFinite
<1>6. TypeOK'
  BY <1>1, <1>2, <1>3, <1>4 DEF TypeOK
<1>7. ~HasChanges(e) /\ e.failure > 0
  BY <1>2, <1>5 DEF HasChanges
<1>8. DispatchesOK'
  <2>1. DispatchOK(e, Len(events), used.failures + 1)
    <3>1. ChangesOK(e, Len(events))
      BY <1>2, <1>7 DEF ChangesOK
    <3>2. e.failure <= used.failures + 1
      BY <1>2, <1>5
    <3> QED  BY <1>2, <3>1, <3>2, NoStampDiffers DEF DispatchOK, InHand, Delivers, StampFits
  <2>2. \A q \in Plan : DispatchOK(dispatch[q], Len(events), used.failures + 1)
    <3> TAKE q \in Plan
    <3>1. dispatch[q] \in Dispatch /\ DispatchOK(dispatch[q], Len(events), used.failures)
      BY <1>1, OfPlan
    <3>2. /\ used.failures <= used.failures + 1 /\ used.failures + 1 \in Nat
          /\ Len(events) <= Len(events)
      BY <1>5
    <3> QED  BY <1>5, <3>1, <3>2, DispatchGrows
  <2> QED  BY <1>2, <1>3, <1>4, <2>1, <2>2 DEF DispatchesOK
<1>9. ChangesApart'
  <2>1. ASSUME NEW q \in Plan
        PROVE  dispatch[q].failure <= used.failures /\ dispatch[q].failure \in Nat
    BY <1>1, OfPlan, NotificationAssumption DEF DispatchOK, Dispatch
  <2>2. ASSUME NEW q \in Plan, NEW r \in Plan, q # r
        PROVE  /\ \A x \in 1..MaxEvents : ~(IsLeft(x, dispatch'[q]) /\ IsLeft(x, dispatch'[r]))
               /\ dispatch'[q].failure = dispatch'[r].failure => dispatch'[q].failure = 0
    <3>1. CASE q # p /\ r # p
      BY <1>1, <1>3, <2>2, <3>1 DEF ChangesApart
    <3>2. CASE q = p
      <4>1. dispatch'[q] = e /\ dispatch'[r] = dispatch[r]
        BY <1>3, <2>2, <3>2
      <4> QED  BY <1>2, <1>5, <1>7, <2>1, <4>1 DEF IsLeft
    <3>3. CASE r = p
      <4>1. dispatch'[r] = e /\ dispatch'[q] = dispatch[q]
        BY <1>3, <2>2, <3>3
      <4> QED  BY <1>2, <1>5, <1>7, <2>1, <4>1 DEF IsLeft
    <3> QED  BY <3>1, <3>2, <3>3
  <2> QED  BY <2>2 DEF ChangesApart
<1> QED  BY <1>6, <1>8, <1>9 DEF DispatchInv

(* Nothing but the dispatches and the events matters to what is said of    *)
(* dispatches.                                                             *)
LEMMA SameDispatches ==
  ASSUME DispatchInv, TypeOK', UNCHANGED <<events, dispatch>>, used'.failures = used.failures
  PROVE  DispatchInv'
BY DEF DispatchInv, DispatchesOK, ChangesApart

(* Time passes.                                                            *)
LEMMA TickKeeps ==
  ASSUME DispatchInv, Tick
  PROVE  DispatchInv'
<1>1. TypeOK /\ now' \in Stamp
  <2>1. TypeOK /\ now < MaxTime /\ now' = now + 1
    BY DEF DispatchInv, Tick
  <2>2. now \in Stamp
    BY <2>1 DEF TypeOK
  <2> QED  BY <2>1, <2>2, NotificationAssumption DEF Stamp
<1>2. UNCHANGED <<issue, events, silenced, row, channel, window, dispatch, acks, owed, used>>
  BY DEF Tick, tables
<1>3. TypeOK'
  BY <1>1, <1>2 DEF TypeOK
<1> QED  BY <1>2, <1>3, SameDispatches

(* A user changes a window or a channel.                                   *)
LEMMA RequestKeeps ==
  ASSUME DispatchInv, Request
  PROVE  DispatchInv'
<1>1. TypeOK
  BY DEF DispatchInv
<1>2. TypeOK'
  BY <1>1, RequestTables DEF TypeOK
<1> QED  BY <1>1, <1>2, RequestTables, SameDispatches

(* A crash ends all dispatches.                                            *)
LEMMA CrashKeeps ==
  ASSUME DispatchInv, Crash
  PROVE  DispatchInv' /\ used'.crashes > 0
<1>1. TypeOK /\ used \in [failures : 0..MaxFaults, others : 0..MaxFaults, crashes : 0..MaxFaults]
  BY DEF DispatchInv, TypeOK
<1>2. /\ dispatch' = [p \in Plan |-> Idle] /\ Use("crashes")
      /\ UNCHANGED <<now, issue, events, silenced, row, channel, window, acks>> /\ owed' \subseteq owed
  BY DEF Crash, tables
<1>3. /\ used' \in [failures : 0..MaxFaults, others : 0..MaxFaults, crashes : 0..MaxFaults]
      /\ used'.failures = used.failures /\ used'.crashes = used.crashes + 1
  BY <1>1, <1>2, FaultUsed
<1>4. dispatch' \in [Plan -> Dispatch] /\ \A p \in Plan : dispatch'[p] = Idle
  BY <1>2, IdleFits
<1>5. TypeOK'
  BY <1>1, <1>2, <1>3, <1>4 DEF TypeOK
<1>6. DispatchesOK'
  BY <1>1, <1>2, <1>3, <1>4, IdleOK, EventsFinite DEF DispatchesOK
<1>7. ChangesApart'
  BY <1>4, IdleFits DEF ChangesApart, IsLeft, HasChanges
<1> QED  BY <1>1, <1>3, <1>5, <1>6, <1>7 DEF DispatchInv

(* Every step keeps the invariant.                                         *)
LEMMA DispatchNext == DispatchInv /\ [Next]_vars => DispatchInv'
<1> SUFFICES ASSUME DispatchInv, [Next]_vars PROVE DispatchInv'
  OBVIOUS
<1>1. CASE Tick
  BY <1>1, TickKeeps
<1>2. ASSUME NEW p \in Plan, RunCommits(p) PROVE DispatchInv'
  BY <1>2, RunAddsKeeps
<1>3. ASSUME NEW p \in Plan, RunFails(p) PROVE DispatchInv'
  BY <1>3, RunReportsKeeps
<1>4. ASSUME NEW p \in Plan, DispatchStep(p) PROVE DispatchInv'
  BY <1>4, DispatchStepKeeps
<1>5. CASE Request
  BY <1>5, RequestKeeps
<1>6. CASE Crash
  BY <1>6, CrashKeeps
<1>7. CASE UNCHANGED vars
  BY <1>7 DEF vars, tables, DispatchInv, TypeOK, DispatchesOK, ChangesApart
<1> QED  BY <1>1, <1>2, <1>3, <1>4, <1>5, <1>6, <1>7 DEF Next, Request

(* In every state the types hold, each dispatch has as changes left a run  *)
(* of consecutive recorded events, its message in hand has a subject, and  *)
(* no two dispatches share a change or a failure:                          *)
(* dispatch_inspection_lifecycle gives every change of a run to one        *)
(* dispatch, in the order in which the run recorded them.                  *)
THEOREM DispatchSafety == Spec => []DispatchInv
BY DispatchInit, DispatchNext, PTL DEF Spec

(* The types of rows, channels, windows and dispatches, for every number of*)
(* plans, issues, channels and windows.                                    *)
THEOREM NotificationTypes == Spec => []TypeOK
<1>1. DispatchInv => TypeOK
  BY DEF DispatchInv
<1> QED  BY <1>1, DispatchSafety, PTL

=============================================================================
