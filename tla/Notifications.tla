--------------------------- MODULE Notifications ---------------------------
(***************************************************************************)
(* Notifications and maintenance silence.  After a run of a plan has been  *)
(* committed, its thread dispatches the changes of issues the run made:    *)
(* first the summaries of silence windows that are over, then, change by   *)
(* change, it decides - skip, flapping, cooldown, silence, send - and      *)
(* handles one channel after the other.  A delivery is a row that is found *)
(* again by its deduplication key; it is sent in at most MaxAttempts       *)
(* attempts, each of which commits 'delivering' first.                     *)
(*                                                                         *)
(* Every commit is a step; what a session reads without a commit in        *)
(* between is one step with the commit that follows.  Sessions expire      *)
(* their rows at each commit, so the row of a window is read anew after it *)
(* (`Again`).  Several plans dispatch at the same time.                   *)
(***************************************************************************)
EXTENDS FiniteSets, Functions, Naturals, Sequences, SequencesExt

CONSTANTS
  Plan,          \* plans whose runs dispatch
  Issue,
  Severity,      \* ordered severities, of which 0 is info
  Channel,       \* ids of channels, in whose order a message is sent
  PlanChannels,  \* inspection_plan_channels: the channels of each plan
  Window,        \* silence windows
  Covers,        \* the issues in the scope of each window
  MaxTime,       \* bound on the clock
  Span,          \* the 30 minutes of threshold and cooldown
  Threshold,     \* the 3 openings and 3 recoveries of a flapping issue
  MaxAttempts,   \* the 3 attempts of a delivery
  Breaks,        \* notification_escalation_breaks_silence
  MaxEvents,     \* bound on the rows of issue_events
  MaxFaults      \* bound on failed runs, requests, lost keys and crashes together

ASSUME NotificationAssumption ==
  /\ IsFiniteSet(Issue)
  /\ Channel \subseteq Nat
  /\ Severity \subseteq Nat
  /\ PlanChannels \in [Plan -> SUBSET Channel]
  /\ Covers \in [Window -> SUBSET Issue]
  /\ {MaxTime, Span, Threshold, MaxEvents, MaxFaults} \subseteq Nat
  /\ MaxAttempts \in 1..3
  /\ Breaks \in BOOLEAN

VARIABLES
  now,       \* the time
  issue,     \* status and severity of each issue
  events,    \* issue_events: opened, reopened, severity_escalated, recovered
  silenced,  \* issue_events of type notification_silenced: (event, window)
  row,       \* notification_deliveries by deduplication key
  channel,   \* state of each channel
  window,    \* maintenance_silence_windows
  dispatch,  \* what the thread of each plan's run does
  acks,      \* history: acknowledgements each delivery got, counted to 2
  owed,      \* history: silenced events a summary has yet to account for
  used       \* history: how many faults of each kind there were

tables == <<issue, events, silenced, row, channel, window>>
vars == <<now, tables, dispatch, acks, owed, used>>

None == "none"
Stamp == 0..MaxTime
NoStamp == MaxTime + 1
Again == MaxTime + 2
NoKey == <<None, 0, 0, 0>>
Terminal == {"succeeded", "failed", "suppressed"}
Opening == {"opened", "reopened"}
EventType == Opening \cup {"recovered", "severity_escalated"}
Kind == {"issue_opened", "issue_recovered", "severity_escalated", "flapping",
         "maintenance_summary", "inspection_failed"}

EventKey(e, c) == <<"issue-event", e, 0, c>>
FlappingKey(e, c) == <<"flapping", e, 0, c>>
FailureKey(n, c) == <<"inspection-failed", n, 0, c>>
SummaryKey(w, t, c) == <<"maintenance-summary", w, t, c>>
Key == {EventKey(e, c) : e \in 1..MaxEvents, c \in Channel}
       \cup {FlappingKey(e, c) : e \in 1..MaxEvents, c \in Channel}
       \cup {FailureKey(n, c) : n \in 1..MaxFaults, c \in Channel}
       \cup {SummaryKey(w, t, c) : w \in Window, t \in Stamp, c \in Channel}

NoRow == [status |-> None, kind |-> None, at |-> 0]
NoWindow == [saved |-> FALSE, enabled |-> FALSE, start |-> 0, end |-> 0, pending |-> NoStamp]

(* A dispatch: the changes left, the windows left to sum up and the one in *)
(* hand with its pending stamp, the message in hand (kind, subject, whether*)
(* to send it), the channels listed for it and those left, the key of the  *)
(* delivery in hand and the attempts made.                                 *)
Idle == [pc |-> "idle", changes |-> <<>>, failure |-> 0, expired |-> {}, window |-> None,
         stamp |-> NoStamp, kind |-> None, send |-> FALSE, listed |-> {}, channels |-> {},
         key |-> NoKey, attempt |-> 0]

Dispatch ==
  [pc : {"idle", "due", "window", "clear", "change", "mark", "create", "handle",
         "acked", "unacked"},
   changes : Seq(0..MaxEvents), failure : 0..MaxFaults, expired : SUBSET Window,
   window : Window \cup {None}, stamp : Stamp \cup {NoStamp, Again},
   kind : Kind \cup {None}, send : BOOLEAN, listed : SUBSET Channel,
   channels : SUBSET Channel, key : Key \cup {NoKey}, attempt : 0..MaxAttempts]

TypeOK ==
  /\ now \in Stamp
  /\ issue \in [Issue -> [status : {None, "open", "recovered"}, severity : Severity \cup {0}]]
  /\ events \in Seq([issue : Issue, type : EventType, at : Stamp])
  /\ Len(events) <= MaxEvents
  /\ silenced \subseteq (1..Len(events)) \X Window
  /\ row \in [Key -> [status : Terminal \cup {None, "pending", "delivering"},
                      kind : Kind \cup {None}, at : Stamp]]
  /\ channel \in [Channel -> {"enabled", "disabled", "deleted"}]
  /\ window \in [Window -> [saved : BOOLEAN, enabled : BOOLEAN, start : Stamp, end : Stamp,
                            pending : Stamp \cup {NoStamp}]]
  /\ dispatch \in [Plan -> Dispatch]
  /\ acks \in [Key -> 0..2]
  /\ owed \subseteq silenced
  /\ used \in [failures : 0..MaxFaults, others : 0..MaxFaults, crashes : 0..MaxFaults]

Windows(pending) ==
  {v \in [saved : {TRUE}, enabled : BOOLEAN, start : Stamp, end : Stamp, pending : {pending}] :
     v.start < v.end}

Init ==
  /\ now = 0
  /\ issue = [i \in Issue |-> [status |-> None, severity |-> 0]]
  /\ events = <<>>
  /\ silenced = {}
  /\ row = [k \in Key |-> NoRow]
  /\ channel = [c \in Channel |-> "enabled"]
  /\ window \in [Window -> {NoWindow} \cup Windows(NoStamp)]
  /\ dispatch = [p \in Plan |-> Idle]
  /\ acks = [k \in Key |-> 0]
  /\ owed = {}
  /\ used = [failures |-> 0, others |-> 0, crashes |-> 0]

Use(fault) ==
  /\ used.failures + used.others + used.crashes < MaxFaults
  /\ used' = [used EXCEPT ![fault] = @ + 1]

Update(p, d) == dispatch' = [dispatch EXCEPT ![p] = d]

Tick ==
  /\ now < MaxTime
  /\ now' = now + 1
  /\ UNCHANGED <<tables, dispatch, acks, owed, used>>

-----------------------------------------------------------------------------
(* Runs.  A run of a plan commits the changes it made to issues, or fails. *)

Becomes(i, type, severity) ==
  \/ type = "opened" /\ issue[i].status = None
  \/ type = "reopened" /\ issue[i].status = "recovered"
  \/ type = "recovered" /\ issue[i].status = "open" /\ severity = issue[i].severity
  \/ type = "severity_escalated" /\ issue[i].status = "open" /\ severity > issue[i].severity

RunCommits(p) ==
  /\ dispatch[p].pc = "idle"
  /\ \E S \in SUBSET Issue : \E type \in [S -> EventType], severity \in [S -> Severity] :
       LET order == SetToSeq(S) IN
       /\ Len(events) + Len(order) <= MaxEvents
       /\ \A i \in S : Becomes(i, type[i], severity[i])
       /\ events' = events \o [k \in DOMAIN order |->
                                [issue |-> order[k], type |-> type[order[k]], at |-> now]]
       /\ issue' = [i \in Issue |->
            IF i \in S
              THEN [status |-> IF type[i] = "recovered" THEN "recovered" ELSE "open",
                    severity |-> severity[i]]
              ELSE issue[i]]
       /\ Update(p, [Idle EXCEPT !.pc = "due",
                       !.changes = [k \in DOMAIN order |-> Len(events) + k]])
  /\ UNCHANGED <<now, silenced, row, channel, window, acks, owed, used>>

(* The run as a whole fails: dispatch_lifecycle_changes sends the summaries *)
(* and finds no change (a single 0), then dispatch_inspection_failure runs. *)
LifecycleFirst == <<0>>

RunFails(p) ==
  /\ dispatch[p].pc = "idle"
  /\ Use("failures")
  /\ Update(p, [Idle EXCEPT !.pc = "due", !.changes = LifecycleFirst,
                            !.failure = used.failures + 1])
  /\ UNCHANGED <<now, tables, acks, owed>>

-----------------------------------------------------------------------------
(* Messages, channel by channel.                                           *)

EnabledChannels == {c \in Channel : channel[c] = "enabled"}
ChannelsOf(p) == PlanChannels[p] \cap EnabledChannels

NextChange(d) ==
  IF Len(d.changes) > 1
    THEN [d EXCEPT !.pc = "change", !.changes = Tail(@), !.window = None, !.stamp = NoStamp]
    ELSE Idle

Done(d) ==
  CASE d.kind = "maintenance_summary" -> [d EXCEPT !.pc = "clear"]
    [] d.kind = "inspection_failed" -> Idle
    [] OTHER -> NextChange(d)

OnChannels(d, channels) ==
  LET e == [d EXCEPT !.channels = channels, !.key = NoKey, !.attempt = 0]
  IN IF channels = {} THEN Done(e) ELSE [e EXCEPT !.pc = "create"]

Message(d, kind, send) == OnChannels([d EXCEPT !.kind = kind, !.send = send], d.listed)

(* What becomes of a dispatch when all expired windows are summed up.      *)
Proceed(p, d) ==
  IF d.changes = LifecycleFirst
    THEN [Idle EXCEPT !.pc = "due", !.failure = d.failure]
  ELSE IF d.failure > 0
    THEN Message([d EXCEPT !.listed = ChannelsOf(p)], "inspection_failed", TRUE)
  ELSE IF d.changes = <<>>
    THEN Idle
    ELSE [d EXCEPT !.pc = "change", !.listed = ChannelsOf(p)]

-----------------------------------------------------------------------------
(* Summaries of silence windows that are over.                             *)

(* Mutant of ExpiredWindows: a window that was disabled is forgotten.      *)
ExpiredAndEnabled ==
  {w \in Window : /\ window[w].saved /\ window[w].enabled
                  /\ window[w].pending # NoStamp /\ window[w].end <= now}

ExpiredWindows ==
  {w \in Window : window[w].saved /\ window[w].pending # NoStamp /\ window[w].end <= now}

EndsFirst(w, W) == \A v \in W : window[w].end <= window[v].end
First(W) == CHOOSE w \in W : EndsFirst(w, W)

(* The open issues of the first window are read; a summary goes to the     *)
(* channels listed, unless there is nothing to sum up.                     *)
SumUp(d) ==
  LET w == First(d.expired)
      e == [d EXCEPT !.window = w, !.stamp = window[w].pending, !.expired = @ \ {w}]
  IN IF \E i \in Covers[w] : issue[i].status = "open"
       THEN Message(e, "maintenance_summary", TRUE)
       ELSE [e EXCEPT !.pc = "clear"]

Due(p) ==
  LET d == [dispatch[p] EXCEPT !.expired = ExpiredWindows, !.listed = EnabledChannels] IN
  /\ d.pc = "due"
  /\ Update(p, IF d.expired = {} THEN Proceed(p, d) ELSE SumUp(d))
  /\ owed' = {s \in owed : d.expired = {} \/ s[2] # First(d.expired)}
  /\ UNCHANGED <<now, tables, acks, used>>

(* The rows of the other windows have been expired by a commit and are     *)
(* read again; if one is gone, the dispatch dies of it.                    *)
NextWindow(p) ==
  LET d == dispatch[p]
      gone == \E w \in d.expired : ~window[w].saved
  IN
  /\ d.pc = "window"
  /\ Update(p, IF d.expired = {} THEN Proceed(p, d) ELSE IF gone THEN Idle ELSE SumUp(d))
  /\ owed' = {s \in owed : d.expired = {} \/ gone \/ s[2] # First(d.expired)}
  /\ UNCHANGED <<now, tables, acks, used>>

Clear(p) ==
  LET d == dispatch[p] IN
  /\ d.pc = "clear"
  /\ IF window[d.window].saved
       THEN /\ window' = [window EXCEPT ![d.window].pending = NoStamp]
            /\ Update(p, [d EXCEPT !.pc = "window", !.window = None, !.stamp = NoStamp,
                                   !.kind = None])
       ELSE Update(p, Idle) /\ UNCHANGED window
  /\ UNCHANGED <<now, issue, events, silenced, row, channel, acks, owed, used>>

-----------------------------------------------------------------------------
(* What to do with a change.                                               *)

NotificationEvent == [opened |-> "issue_opened", reopened |-> "issue_opened",
                      recovered |-> "issue_recovered",
                      severity_escalated |-> "severity_escalated"]

Recent(at) == at + Span >= now

(* Mutant of FlappingInCooldown: only a flapping that arrived counts.      *)
FlappingArrived(i) ==
  \E e \in DOMAIN events, c \in Channel :
    /\ events[e].issue = i
    /\ row[FlappingKey(e, c)].status = "succeeded" /\ Recent(row[FlappingKey(e, c)].at)

FlappingInCooldown(i) ==
  \E e \in DOMAIN events, c \in Channel :
    /\ events[e].issue = i
    /\ \E k \in {EventKey(e, c), FlappingKey(e, c)} :
         row[k].kind = "flapping" /\ Recent(row[k].at)

RecentEvents(i, types) ==
  {e \in DOMAIN events : /\ events[e].issue = i
                         /\ events[e].type \in types
                         /\ Recent(events[e].at)}

FlappingThresholdMet(e) ==
  LET i == events[e].issue IN
  /\ events[e].type \in {"reopened", "recovered"}
  /\ Cardinality(RecentEvents(i, Opening)) >= Threshold
  /\ Cardinality(RecentEvents(i, {"recovered"})) >= Threshold
  /\ ~FlappingInCooldown(i)

TurnsOnOff(e) == NotificationEvent[events[e].type] \in {"issue_opened", "issue_recovered"}

Effective(e) ==
  IF FlappingThresholdMet(e) THEN "flapping" ELSE NotificationEvent[events[e].type]

Matching(e) ==
  {w \in Window : /\ window[w].saved
                  /\ window[w].enabled
                  /\ window[w].start <= now
                  /\ now < window[w].end
                  /\ events[e].issue \in Covers[w]}

IsInfo(e) == issue[events[e].issue].severity = 0 /\ TurnsOnOff(e)
IsCooledDown(e) ==
  ~FlappingThresholdMet(e) /\ FlappingInCooldown(events[e].issue) /\ TurnsOnOff(e)
IsSilent(e) == Matching(e) # {} /\ ~(Breaks /\ Effective(e) = "severity_escalated")

Skip(p) ==
  LET d == dispatch[p] IN
  /\ d.pc = "change"
  /\ IsInfo(Head(d.changes))
  /\ Update(p, NextChange(d))
  /\ UNCHANGED <<now, tables, acks, owed, used>>

Announce(p) ==
  LET d == dispatch[p] e == Head(d.changes) IN
  /\ d.pc = "change"
  /\ ~IsInfo(e)
  /\ IsCooledDown(e) \/ ~IsSilent(e)
  /\ Update(p, IF IsCooledDown(e)
                 THEN Message(d, NotificationEvent[events[e].type], FALSE)
                 ELSE Message(d, Effective(e), TRUE))
  /\ UNCHANGED <<now, tables, acks, owed, used>>

(* A dispatch is summing up the window, and will take its mark off.        *)
Summing(d, w) ==
  /\ d.window = w
  /\ \/ d.pc = "clear"
     \/ d.pc \in {"create", "handle", "acked", "unacked"} /\ d.kind = "maintenance_summary"

(* The event 'notification_silenced' is committed first, the mark of the   *)
(* window, which asks for its summary, after it.  A window that is just    *)
(* being summed up owes the event nothing: the mark will be taken off.     *)
Silence(p) ==
  LET d == dispatch[p] e == Head(d.changes) IN
  /\ d.pc = "change"
  /\ ~IsInfo(e)
  /\ ~IsCooledDown(e)
  /\ IsSilent(e)
  /\ LET w == First(Matching(e)) IN
       /\ silenced' = silenced \cup {<<e, w>>}
       /\ owed' = IF \E q \in Plan : Summing(dispatch[q], w) THEN owed
                  ELSE owed \cup {<<e, w>>}
       /\ Update(p, [d EXCEPT !.pc = "mark", !.window = w, !.stamp = now,
                              !.kind = Effective(e)])
  /\ UNCHANGED <<now, issue, events, row, channel, window, acks, used>>

(* Mutant of Mark: the `continue` after the suppression is missing.        *)
MarkAndSend(p) ==
  LET d == dispatch[p] w == d.window IN
  /\ d.pc = "mark"
  /\ window' = [window EXCEPT ![w].pending = IF @ = NoStamp THEN d.stamp ELSE @]
  /\ Update(p, Message([d EXCEPT !.stamp = Again], d.kind, TRUE))
  /\ UNCHANGED <<now, issue, events, silenced, row, channel, acks, owed, used>>

Mark(p) ==
  LET d == dispatch[p] w == d.window IN
  /\ d.pc = "mark"
  /\ IF window[w].saved
       THEN /\ window' = [window EXCEPT ![w].pending = IF @ = NoStamp THEN d.stamp ELSE @]
            /\ Update(p, Message([d EXCEPT !.stamp = IF window[w].pending = NoStamp
                                                       THEN Again ELSE @],
                                 d.kind, FALSE))
       ELSE Update(p, Idle) /\ UNCHANGED window
  /\ UNCHANGED <<now, issue, events, silenced, row, channel, acks, owed, used>>

-----------------------------------------------------------------------------
(* Deliveries.  create_delivery finds the row of the key or inserts it.    *)

KeyOf(d, c, stamp) ==
  CASE d.kind = "maintenance_summary" -> SummaryKey(d.window, stamp, c)
    [] d.kind = "inspection_failed" -> FailureKey(d.failure, c)
    [] d.kind = "flapping" /\ d.send -> FlappingKey(Head(d.changes), c)
    [] OTHER -> EventKey(Head(d.changes), c)

StampNow(d) == IF d.stamp = Again THEN window[d.window].pending ELSE d.stamp

(* The name of the window, or its pending stamp, is read again after a     *)
(* commit: the window may be gone, its stamp cleared by another dispatch.  *)
ReloadFails(d) ==
  \/ d.stamp = Again /\ ~window[d.window].saved
  \/ d.kind = "maintenance_summary" /\ StampNow(d) = NoStamp

Create(p) ==
  LET d == dispatch[p]
      c == CHOOSE c \in d.channels : \A b \in d.channels : c <= b
      stamp == StampNow(d)
      k == KeyOf(d, c, stamp)
  IN
  /\ d.pc = "create"
  /\ IF ReloadFails(d)
       THEN Update(p, Idle) /\ UNCHANGED row
       ELSE /\ row' = [row EXCEPT ![k] =
                 IF @.status = None THEN [status |-> "pending", kind |-> d.kind, at |-> now]
                 ELSE @]
            /\ Update(p, [d EXCEPT !.pc = "handle", !.channels = @ \ {c}, !.key = k,
                 !.stamp = IF d.window = None THEN NoStamp
                           ELSE IF row[k].status = None THEN Again ELSE stamp])
  /\ UNCHANGED <<now, issue, events, silenced, channel, window, acks, owed, used>>

SetStatus(k, status) == row' = [row EXCEPT ![k].status = status]
NextChannel(p, d) == Update(p, OnChannels(d, d.channels))
Reload(d) == [d EXCEPT !.stamp = IF d.window = None THEN NoStamp ELSE Again]

Suppress(p) ==
  LET d == dispatch[p] IN
  /\ d.pc = "handle"
  /\ ~d.send
  /\ IF row[d.key].status = "pending"
       THEN SetStatus(d.key, "suppressed") /\ NextChannel(p, Reload(d))
       ELSE UNCHANGED row /\ NextChannel(p, d)
  /\ UNCHANGED <<now, issue, events, silenced, channel, window, acks, owed, used>>

DeliversNothing(p) ==
  LET d == dispatch[p] IN
  /\ d.pc = "handle"
  /\ d.send
  /\ row[d.key].status \in Terminal
  /\ NextChannel(p, d)
  /\ UNCHANGED <<now, tables, acks, owed, used>>

(* The credentials of the channel cannot be decrypted: they were saved with*)
(* another key.                                                            *)
DecryptFails(p) ==
  LET d == dispatch[p] IN
  /\ d.pc = "handle"
  /\ d.send
  /\ row[d.key].status \notin Terminal
  /\ Use("others")
  /\ SetStatus(d.key, "failed")
  /\ NextChannel(p, Reload(d))
  /\ UNCHANGED <<now, issue, events, silenced, channel, window, acks, owed>>

(* Mutants of MayAttempt: finished deliveries are not left out; one        *)
(* attempt too many.                                                       *)
MayAlwaysAttempt(d) ==
  \/ d.pc = "handle" /\ d.send
  \/ d.pc = "unacked" /\ d.attempt < MaxAttempts
MayAttemptOnceMore(d) ==
  \/ d.pc = "handle" /\ d.send /\ row[d.key].status \notin Terminal
  \/ d.pc = "unacked" /\ d.attempt <= MaxAttempts

MayAttempt(d) ==
  \/ d.pc = "handle" /\ d.send /\ row[d.key].status \notin Terminal
  \/ d.pc = "unacked" /\ d.attempt < MaxAttempts

(* An attempt: 'delivering' is committed, the message sent.  The receiver  *)
(* acknowledges it, or not: it refuses, or it never answers.               *)
Attempt(p) ==
  LET d == dispatch[p] IN
  /\ MayAttempt(d)
  /\ SetStatus(d.key, "delivering")
  /\ \/ /\ acks' = [acks EXCEPT ![d.key] = IF @ < 2 THEN @ + 1 ELSE @]
        /\ Update(p, [Reload(d) EXCEPT !.pc = "acked", !.attempt = @ + 1])
     \/ /\ UNCHANGED acks
        /\ Update(p, [Reload(d) EXCEPT !.pc = "unacked", !.attempt = @ + 1])
  /\ UNCHANGED <<now, issue, events, silenced, channel, window, owed, used>>

Succeed(p) ==
  LET d == dispatch[p] IN
  /\ d.pc = "acked"
  /\ SetStatus(d.key, "succeeded")
  /\ NextChannel(p, d)
  /\ UNCHANGED <<now, issue, events, silenced, channel, window, acks, owed, used>>

GiveUp(p) ==
  LET d == dispatch[p] IN
  /\ d.pc = "unacked"
  /\ d.attempt = MaxAttempts
  /\ SetStatus(d.key, "failed")
  /\ NextChannel(p, d)
  /\ UNCHANGED <<now, issue, events, silenced, channel, window, acks, owed, used>>

-----------------------------------------------------------------------------
(* Requests and death of the process.                                      *)

(* Mutant of SaveWindow: saving resets the pending summary.                *)
SaveWindowAnew(w) ==
  /\ Use("others")
  /\ \E v \in Windows(NoStamp) : window' = [window EXCEPT ![w] = v]
  /\ UNCHANGED <<now, issue, events, silenced, row, channel, dispatch, acks, owed>>

SaveWindow(w) ==
  /\ Use("others")
  /\ \E v \in Windows(window[w].pending) : window' = [window EXCEPT ![w] = v]
  /\ UNCHANGED <<now, issue, events, silenced, row, channel, dispatch, acks, owed>>

DeleteWindow(w) ==
  /\ window[w].saved
  /\ Use("others")
  /\ window' = [window EXCEPT ![w] = NoWindow]
  /\ owed' = {s \in owed : s[2] # w}
  /\ UNCHANGED <<now, issue, events, silenced, row, channel, dispatch, acks>>

EditChannel(c) ==
  /\ channel[c] # "deleted"
  /\ Use("others")
  /\ channel' = [channel EXCEPT ![c] = IF @ = "enabled" THEN "disabled" ELSE "enabled"]
  /\ UNCHANGED <<now, issue, events, silenced, row, window, dispatch, acks, owed>>

DeleteChannel(c) ==
  /\ channel[c] # "deleted"
  /\ Use("others")
  /\ channel' = [channel EXCEPT ![c] = "deleted"]
  /\ UNCHANGED <<now, issue, events, silenced, row, window, dispatch, acks, owed>>

(* What was silenced and not yet marked is forgotten.                      *)
Crash ==
  /\ Use("crashes")
  /\ dispatch' = [p \in Plan |-> Idle]
  /\ owed' = {s \in owed : window[s[2]].pending # NoStamp}
  /\ UNCHANGED <<now, tables, acks>>

DispatchStep(p) ==
  \/ Due(p) \/ NextWindow(p) \/ Clear(p) \/ Skip(p) \/ Announce(p) \/ Silence(p) \/ Mark(p)
  \/ Create(p) \/ Suppress(p) \/ DeliversNothing(p) \/ DecryptFails(p) \/ Attempt(p)
  \/ Succeed(p) \/ GiveUp(p)

Next ==
  \/ Tick
  \/ \E p \in Plan : RunCommits(p) \/ RunFails(p) \/ DispatchStep(p)
  \/ \E w \in Window : SaveWindow(w) \/ DeleteWindow(w)
  \/ \E c \in Channel : EditChannel(c) \/ DeleteChannel(c)
  \/ Crash

Spec == Init /\ [][Next]_vars

(* Time passes, plans go on having runs, and a dispatch goes on.           *)
Fairness ==
  /\ WF_vars(Tick)
  /\ \A p \in Plan : WF_vars(RunCommits(p)) /\ WF_vars(DispatchStep(p))

FairSpec == Spec /\ Fairness

-----------------------------------------------------------------------------
(* A delivery that has succeeded, failed or been suppressed stays so:      *)
(* dispatching again, after a crash or in a later run, does not revive it. *)
FinalIsFinal ==
  [][\A k \in Key : row[k].status \in Terminal => row'[k] = row[k]]_vars

(* After a flapping notification, or a silenced one, openings, recoveries  *)
(* and further flapping of the issue are suppressed for Span: whatever     *)
(* attempts, failures, silence windows and crashes there were.             *)
QuietInCooldown ==
  \A e, f \in DOMAIN events, b, c \in Channel :
    \A k \in {EventKey(e, b), FlappingKey(e, b)}, l \in {EventKey(f, c), FlappingKey(f, c)} :
      (/\ e < f
       /\ events[e].issue = events[f].issue
       /\ row[k].kind = "flapping"
       /\ row[l].kind \in {"issue_opened", "issue_recovered", "flapping"}
       /\ row[l].at <= row[k].at + Span)
      => row[l].status \in {"pending", "suppressed"}

(* What was recorded as silenced has not been sent, under no key.          *)
SilencedSendsNothing ==
  \A s \in silenced, c \in Channel :
    acks[EventKey(s[1], c)] = 0 /\ acks[FlappingKey(s[1], c)] = 0

(* A silenced event keeps its window marked, or the mark is being set,     *)
(* until a summary of the window begins or the window is deleted: edits of *)
(* the window, failures, other dispatches and crashes do not lose it.  Two *)
(* events only are left out of `owed` and lose their summary: one silenced *)
(* while its window is being summed up, and one whose process dies between *)
(* the two commits.                                                        *)
SilenceIsRemembered ==
  \A s \in owed : \/ window[s[2]].pending # NoStamp
                  \/ \E p \in Plan : dispatch[p].pc = "mark" /\ dispatch[p].window = s[2]

(* A pending mark is taken off in the end, after the summary or when there *)
(* is nothing to sum up, also if the dispatch that began it has died.      *)
SummaryFollows == \A w \in Window : window[w].pending # NoStamp ~> window[w].pending = NoStamp

(* "After the silence only one summary of what is still open is sent":     *)
(* without a crash, no channel acknowledges a summary twice.               *)
SummarySentOnce ==
  \A w \in Window, t \in Stamp, c \in Channel : acks[SummaryKey(w, t, c)] <= 1
=============================================================================
