--------------------------- MODULE PlatformProofs ---------------------------
(***************************************************************************)
(* Proofs about Platform, for any hooks, clients, sessions and times.      *)
(***************************************************************************)
EXTENDS Platform, FiniteSetTheorems, TLAPS

LEMMA Numbers ==
  /\ IdleTime \in Nat /\ AbsoluteTime \in Nat /\ Limit \in Nat /\ Limit > 0
  /\ Window \in Nat /\ MaxTime \in Nat /\ MaxFaults \in Nat /\ MaxDenied \in Nat
  /\ Hooks \in Seq(STRING) /\ AutoMigrate \in BOOLEAN /\ IsFiniteSet(Client)
BY PlatformAssumption

LEMMA MinOfTwo ==
  ASSUME NEW a \in Nat, NEW b \in Nat
  PROVE  Min({a, b}) = IF a <= b THEN a ELSE b
BY DEF Min

-----------------------------------------------------------------------------
(* Sessions.                                                               *)

SessionRow == [state : {"none", "live", "revoked"}, idle : Stamp, absolute : Stamp]

SessionsOK ==
  /\ now \in 0..MaxTime
  /\ session \in [Session -> SessionRow]
  /\ \A s \in Session : session[s].idle <= session[s].absolute
  /\ request \in [Client -> [at : {"idle", "counted"} \cup InSession, id : Session \cup {"none"},
                             time : 0..MaxTime, others : SUBSET Session]]
  /\ \A c \in Client : request[c].at \in InSession => request[c].id \in Session

(* The rest of what TypeOK says.                                           *)
ProcessOK ==
  /\ faults \in 0..MaxFaults
  /\ schema \in Schema
  /\ settings \in BOOLEAN
  /\ app \in [at : {"down", "migrated", "starting", "unwinding", "serving", "stopping"},
              initError : BOOLEAN, provider : BOOLEAN, hookError : BOOLEAN,
              started : Seq(Hook), heartbeat : BOOLEAN]
  /\ engine \subseteq Hook

AuditOK == audit \subseteq [time : 0..MaxTime, nth : Nat, verified : BOOLEAN]

LEMMA TypeParts == TypeOK <=> SessionsOK /\ ProcessOK /\ AuditOK
BY DEF TypeOK, SessionsOK, ProcessOK, AuditOK, SessionRow

LEMMA RequestChanges ==
  ASSUME SessionsOK, NEW c \in Client, NEW step,
         step \in [at : {"idle", "counted"} \cup InSession, id : Session \cup {"none"},
                   time : 0..MaxTime, others : SUBSET Session],
         step.at \in InSession => step.id \in Session,
         Becomes(c, step), UNCHANGED <<now, session>>
  PROVE  SessionsOK'
BY DEF SessionsOK, Becomes


LEMMA IdleInTime ==
  ASSUME NEW row \in SessionRow, NEW t \in 0..MaxTime
  PROVE  /\ Idle(row, t) \in Stamp
         /\ Idle(row, t) <= row.absolute
<1>1. /\ row.absolute \in Nat /\ row.absolute \in Stamp
      /\ t \in Nat /\ t + IdleTime \in Nat
  BY Numbers DEF SessionRow, Stamp
<1>2. Idle(row, t) = IF t + IdleTime <= row.absolute THEN t + IdleTime ELSE row.absolute
  BY <1>1, MinOfTwo DEF Idle
<1> QED
  BY <1>1, <1>2, Numbers DEF Stamp

(* What the requests do to one session.                                    *)
LEMMA RevokeKeepsTypes ==
  ASSUME SessionsOK, NEW c \in Client, NEW ids, RevokeAll(c, ids)
  PROVE  SessionsOK'
<1>1. now' = now /\ request' = [request EXCEPT ![c] = NoRequest]
  BY DEF RevokeAll, Becomes
<1>2. session' \in [Session -> SessionRow]
  <2>1. \A s \in Session : [session[s] EXCEPT !.state = "revoked"] \in SessionRow
    BY DEF SessionsOK, SessionRow
  <2> QED
    BY <2>1 DEF RevokeAll, SessionsOK
<1>3. \A s \in Session : session'[s].idle <= session'[s].absolute
  BY DEF RevokeAll, SessionsOK, SessionRow
<1>4. NoRequest \in [at : {"idle", "counted"} \cup InSession, id : Session \cup {"none"},
                     time : 0..MaxTime, others : SUBSET Session]
  BY Numbers DEF NoRequest, Asks
<1>5. NoRequest.at \notin InSession
  BY DEF NoRequest, Asks, InSession
<1> QED
  BY <1>1, <1>2, <1>3, <1>4, <1>5 DEF SessionsOK

LEMMA LoginKeepsTypes ==
  ASSUME SessionsOK, NEW c \in Client, LoginSucceeds(c)
  PROVE  SessionsOK'
<1>1. PICK s \in Session : session' = [session EXCEPT ![s] =
            [state |-> "live", absolute |-> now + AbsoluteTime,
             idle |-> IF IdleTime <= AbsoluteTime THEN now + IdleTime ELSE now + AbsoluteTime]]
  BY DEF LoginSucceeds
<1>2. now' = now /\ request' = [request EXCEPT ![c] = NoRequest]
  BY DEF LoginSucceeds, Becomes
<1>3. /\ session' \in [Session -> SessionRow]
      /\ \A o \in Session : session'[o].idle <= session'[o].absolute
  BY <1>1, Numbers DEF SessionsOK, SessionRow, Stamp
<1>4. /\ NoRequest \in [at : {"idle", "counted"} \cup InSession, id : Session \cup {"none"},
                        time : 0..MaxTime, others : SUBSET Session]
      /\ NoRequest.at \notin InSession
  BY Numbers DEF NoRequest, Asks, InSession
<1> QED
  BY <1>2, <1>3, <1>4 DEF SessionsOK

LEMMA TouchKeepsTypes ==
  ASSUME SessionsOK, NEW c \in Client, Touch(c)
  PROVE  SessionsOK'
<1>1. /\ request[c].at = "read"
      /\ now' = now
      /\ session' = [session EXCEPT ![request[c].id] = Touched(@, request[c].time)]
      /\ request' = [request EXCEPT ![c] = Asks("inside", request[c].id, 0, {})]
  BY DEF Touch, Serving, Becomes
<1>2. PICK s \in Session : request[c].id = s
  BY <1>1 DEF SessionsOK, InSession
<1>3. PICK t \in 0..MaxTime : request[c].time = t
  BY DEF SessionsOK
<1>4. \A row \in SessionRow : /\ Touched(row, t) \in SessionRow
                              /\ Touched(row, t).idle <= Touched(row, t).absolute
  <2> SUFFICES ASSUME NEW row \in SessionRow
               PROVE  /\ Touched(row, t) \in SessionRow
                      /\ Touched(row, t).idle <= Touched(row, t).absolute
    OBVIOUS
  <2>1. Idle(row, t) \in Stamp /\ Idle(row, t) <= row.absolute
    BY IdleInTime
  <2> QED
    BY <2>1 DEF Touched, SessionRow
<1>5. /\ session' \in [Session -> SessionRow]
      /\ \A o \in Session : session'[o].idle <= session'[o].absolute
  BY <1>1, <1>2, <1>3, <1>4 DEF SessionsOK
<1>6. Asks("inside", s, 0, {})
        \in [at : {"idle", "counted"} \cup InSession, id : Session \cup {"none"},
             time : 0..MaxTime, others : SUBSET Session]
  BY Numbers DEF Asks, InSession
<1>7. request' \in [Client -> [at : {"idle", "counted"} \cup InSession, id : Session \cup {"none"},
                               time : 0..MaxTime, others : SUBSET Session]]
  BY <1>1, <1>2, <1>6 DEF SessionsOK
<1>8. \A o \in Client : request'[o].at \in InSession => request'[o].id \in Session
  BY <1>1, <1>2 DEF SessionsOK, Asks
<1> QED
  BY <1>1, <1>5, <1>7, <1>8 DEF SessionsOK

(* Requests that only go on.                                               *)
LEMMA GoingKeepsTypes ==
  ASSUME SessionsOK, NEW c \in Client,
         \/ LoginDenied(c) \/ LoginCounted(c) \/ LoginFails(c)
         \/ \E s \in Session : ReadSession(c, s)
         \/ ExpiresInside(c) \/ FinishRequest(c) \/ RequestFails(c)
         \/ Logout(c) \/ ChangePassword(c) \/ SelectOthers(c)
  PROVE  SessionsOK'
<1> DEFINE Requests == [at : {"idle", "counted"} \cup InSession, id : Session \cup {"none"},
                        time : 0..MaxTime, others : SUBSET Session]
<1>1. UNCHANGED <<now, session>>
  BY DEF LoginDenied, LoginCounted, LoginFails, ReadSession, ExpiresInside, FinishRequest,
         RequestFails, Logout, ChangePassword, SelectOthers
<1>2. request[c] \in Requests
  BY DEF SessionsOK
<1>3. CASE LoginDenied(c)
  BY <1>1, <1>3 DEF LoginDenied, SessionsOK
<1>4. CASE LoginCounted(c)
  <2>1. /\ Asks("counted", "none", 0, {}) \in Requests
        /\ Asks("counted", "none", 0, {}).at \notin InSession
    BY Numbers DEF Asks, InSession
  <2> QED
    BY <1>1, <1>4, <2>1, RequestChanges DEF LoginCounted
<1>5. CASE LoginFails(c) \/ FinishRequest(c) \/ RequestFails(c)
  <2>1. NoRequest \in Requests /\ NoRequest.at \notin InSession
    BY Numbers DEF NoRequest, Asks, InSession
  <2> QED
    BY <1>1, <1>5, <2>1, RequestChanges DEF LoginFails, FinishRequest, RequestFails
<1>6. ASSUME NEW s \in Session, ReadSession(c, s)
      PROVE  SessionsOK'
  <2>1. PICK at \in {"expired", "read"} : Becomes(c, Asks(at, s, now, {}))
    BY <1>6 DEF ReadSession
  <2>2. Asks(at, s, now, {}) \in Requests /\ Asks(at, s, now, {}).id \in Session
    BY DEF Asks, InSession, SessionsOK
  <2> QED
    BY <1>1, <2>1, <2>2, RequestChanges
<1>7. CASE ExpiresInside(c) \/ Logout(c) \/ ChangePassword(c)
  <2>1. PICK at \in {"expired", "leaving", "changed"} : Becomes(c, [request[c] EXCEPT !.at = at])
    BY <1>7 DEF ExpiresInside, Logout, ChangePassword
  <2>2. request[c].at = "inside"
    BY <1>7 DEF ExpiresInside, Logout, ChangePassword, Serving
  <2>3. request[c].id \in Session
    BY <2>2 DEF SessionsOK, InSession
  <2>4. /\ [request[c] EXCEPT !.at = at] \in Requests
        /\ [request[c] EXCEPT !.at = at].id \in Session
    BY <1>2, <2>3 DEF InSession
  <2> QED
    BY <1>1, <2>1, <2>4, RequestChanges
<1>8. CASE SelectOthers(c)
  <2> DEFINE S == {s \in Session \ {request[c].id} : session[s].state = "live"}
  <2>1. Becomes(c, Asks("revoking", request[c].id, 0, S))
    BY <1>8, Zenon DEF SelectOthers
  <2>2. request[c].id \in Session
    BY <1>8 DEF SelectOthers, Serving, SessionsOK, InSession
  <2>3. /\ Asks("revoking", request[c].id, 0, S) \in Requests
        /\ Asks("revoking", request[c].id, 0, S).id \in Session
    BY <2>2, Numbers DEF Asks, InSession
  <2> QED
    BY <1>1, <2>1, <2>3, RequestChanges
<1> QED
  BY <1>3, <1>4, <1>5, <1>6, <1>7, <1>8

LEMMA ProcessLeavesSessions ==
  ASSUME ProcessStep
  PROVE  UNCHANGED <<now, session, audit, request>>
<1>1. CASE Migrate \/ Initialize
  BY <1>1, Zenon DEF Migrate, Initialize, session_vars
<1>5. CASE MigrateFails
  BY <1>5, Zenon DEF MigrateFails, session_vars
<1>2. CASE StartHook \/ StartHookFails
  BY <1>2 DEF StartHook, StartHookFails, session_vars
<1>3. CASE StopHook("unwinding") \/ StopHook("stopping")
  BY <1>3 DEF StopHook, session_vars
<1>4. CASE Serve \/ Stop \/ Exit \/ Downgrade
  BY <1>4 DEF Serve, Stop, Exit, Downgrade, session_vars
<1> QED
  BY <1>1, <1>2, <1>3, <1>4, <1>5 DEF ProcessStep

LEMMA SessionsStayOK ==
  ASSUME SessionsOK, [Next]_vars
  PROVE  SessionsOK'
<1>1. CASE ProcessStep \/ UNCHANGED vars
  <2>1. UNCHANGED <<now, session, request>>
    BY <1>1, ProcessLeavesSessions DEF vars, session_vars
  <2> QED
    BY <2>1 DEF SessionsOK
<1>2. CASE Crash
  BY <1>2, Numbers DEF Crash, SessionsOK, NoRequest, Asks, InSession
<1>3. CASE Tick
  BY <1>3, Numbers DEF Tick, SessionsOK
<1>4. ASSUME NEW c \in Client, ClientStep(c)
      PROVE  SessionsOK'
  <2>1. CASE ExpiredIsRevoked(c) \/ Revoke(c) \/ RevokeOthers(c)
    BY <2>1, RevokeKeepsTypes DEF ExpiredIsRevoked, Revoke, RevokeOthers
  <2> QED
    BY <1>4, <2>1, LoginKeepsTypes, TouchKeepsTypes, GoingKeepsTypes DEF ClientStep
<1> QED
  BY <1>1, <1>2, <1>3, <1>4 DEF Next

(* Only LoginSucceeds, Touch and RevokeAll write to a session, and none of *)
(* them takes a revocation back.                                           *)
LEMMA RevokedStays ==
  ASSUME SessionsOK, [Next]_vars, NEW s \in Session, session[s].state = "revoked"
  PROVE  session'[s].state = "revoked"
<1>1. CASE UNCHANGED session
  BY <1>1
<1>2. ASSUME NEW c \in Client, LoginSucceeds(c)
      PROVE  session'[s].state = "revoked"
  BY <1>2 DEF LoginSucceeds, SessionsOK
<1>3. ASSUME NEW c \in Client, Touch(c)
      PROVE  session'[s].state = "revoked"
  BY <1>3 DEF Touch, Touched, SessionsOK, SessionRow
<1>4. ASSUME NEW c \in Client, NEW ids, RevokeAll(c, ids)
      PROVE  session'[s].state = "revoked"
  BY <1>4 DEF RevokeAll, SessionsOK, SessionRow
<1>5. ASSUME NEW c \in Client, ClientStep(c)
      PROVE  session'[s].state = "revoked"
  <2>1. CASE ExpiredIsRevoked(c) \/ Revoke(c) \/ RevokeOthers(c)
    BY <1>4, <2>1 DEF ExpiredIsRevoked, Revoke, RevokeOthers
  <2>2. CASE LoginSucceeds(c) \/ Touch(c)
    BY <1>2, <1>3, <2>2
  <2> QED
    BY <1>1, <1>5, <2>1, <2>2
    DEF ClientStep, LoginDenied, LoginCounted, LoginFails, ReadSession, ExpiresInside,
        FinishRequest, RequestFails, Logout, ChangePassword, SelectOthers
<1> QED
  BY <1>1, <1>5, ProcessLeavesSessions DEF Next, Crash, Tick, vars, session_vars

-----------------------------------------------------------------------------
(* Failed logins: each of them had been counted when the limit was not     *)
(* reached, so that all those still counted come on top of the verified    *)
(* ones at most.                                                           *)

Verified == {a \in audit : a.verified}
Counted == {c \in Client : request[c].at = "counted"}

AuditInv ==
  /\ AuditOK
  /\ IsFiniteSet(audit)
  /\ Cardinality(Verified) + Cardinality(Counted) <= Limit + Cardinality(Client) - 1

LEMMA Sizes ==
  ASSUME SessionsOK, AuditInv
  PROVE  /\ IsFiniteSet(Verified) /\ IsFiniteSet(Counted)
         /\ Cardinality(Verified) \in Nat /\ Cardinality(Counted) \in Nat
         /\ Cardinality(Verified) <= Cardinality(audit)
         /\ Cardinality(audit) \in Nat /\ Cardinality(Client) \in Nat
<1>1. Verified \subseteq audit /\ Counted \subseteq Client
  BY DEF Verified, Counted
<1> QED
  BY <1>1, Numbers, FS_Subset, FS_CardinalityType DEF AuditInv

LEMMA Sums ==
  ASSUME NEW a \in Nat, NEW b \in Nat, NEW m \in Nat, NEW n \in Nat, NEW c \in Nat,
         \/ a <= m /\ b <= n /\ m + n <= Limit + c - 1
         \/ a <= m + 1 /\ b = n - 1 /\ m + n <= Limit + c - 1
         \/ a < Limit /\ b <= c
  PROVE  a + b <= Limit + c - 1
<1>1. Limit \in Nat
  BY Numbers
<1> QED
  BY <1>1

LEMMA FewerStayBounded ==
  ASSUME SessionsOK, AuditInv, AuditOK', IsFiniteSet(audit'),
         Verified' \subseteq Verified, Counted' \subseteq Counted
  PROVE  AuditInv'
<1>1. /\ Cardinality(Verified') <= Cardinality(Verified)
      /\ Cardinality(Counted') <= Cardinality(Counted)
      /\ Cardinality(Verified') \in Nat /\ Cardinality(Counted') \in Nat
  BY Sizes, FS_Subset, FS_CardinalityType
<1>2. /\ Cardinality(Verified) \in Nat /\ Cardinality(Counted) \in Nat
      /\ Cardinality(Client) \in Nat
  BY Sizes
<1>3. Cardinality(Verified') + Cardinality(Counted') <= Limit + Cardinality(Client) - 1
  BY <1>1, <1>2, Sums DEF AuditInv
<1> QED
  BY <1>3 DEF AuditInv

LEMMA AuditStaysBounded ==
  ASSUME SessionsOK, AuditInv, [Next]_vars
  PROVE  AuditInv'
<1>1. CASE UNCHANGED <<audit, request>>
  <2>1. Verified' = Verified /\ Counted' = Counted
    BY <1>1 DEF Verified, Counted
  <2> QED
    BY <1>1, <2>1 DEF AuditInv, AuditOK
<1>2. CASE Crash
  <2>1. Verified' \subseteq Verified /\ Counted' \subseteq Counted /\ audit' = audit
    BY <1>2 DEF Crash, Verified, Counted, NoRequest, Asks
  <2> QED
    BY <2>1, FewerStayBounded DEF AuditInv, AuditOK
<1>3. CASE Tick
  <2>1. audit' \subseteq audit /\ request' = request
    BY <1>3 DEF Tick
  <2>2. Verified' \subseteq Verified /\ Counted' \subseteq Counted
    BY <2>1 DEF Verified, Counted
  <2>3. IsFiniteSet(audit')
    BY <2>1, FS_Subset DEF AuditInv
  <2> QED
    BY <2>1, <2>2, <2>3, FewerStayBounded DEF AuditInv, AuditOK
<1>4. ASSUME NEW c \in Client, ClientStep(c)
      PROVE  AuditInv'
  <2>1. CASE UNCHANGED audit /\ \E step : Becomes(c, step) /\ step.at # "counted"
    <3>1. Verified' \subseteq Verified
      BY <2>1 DEF Verified
    <3>2. Counted' \subseteq Counted
      BY <2>1 DEF Counted, Becomes, SessionsOK
    <3> QED
      BY <2>1, <3>1, <3>2, FewerStayBounded DEF AuditInv, AuditOK
  <2>2. CASE LoginDenied(c)
    <3> DEFINE a == [time |-> now, nth |-> Cardinality(audit), verified |-> FALSE]
    <3>1. audit' = audit \cup {a} /\ request' = request
      BY <2>2 DEF LoginDenied, Audited
    <3>2. a \in [time : 0..MaxTime, nth : Nat, verified : BOOLEAN] /\ ~a.verified
      BY Sizes DEF SessionsOK
    <3>3. Verified' \subseteq Verified /\ Counted' \subseteq Counted
      BY <3>1, <3>2 DEF Verified, Counted
    <3>4. IsFiniteSet(audit') /\ AuditOK'
      BY <3>1, <3>2, FS_AddElement DEF AuditInv, AuditOK
    <3> QED
      BY <3>3, <3>4, FewerStayBounded
  <2>3. CASE LoginCounted(c)
    <3>1. audit' = audit /\ Verified' = Verified
      BY <2>3 DEF LoginCounted, Verified
    <3>2. Cardinality(audit) < Limit
      BY <2>3, Sizes, Numbers DEF LoginCounted, IsLimited
    <3>3. Counted' \subseteq Client
      BY DEF Counted
    <3>4. Cardinality(Counted') <= Cardinality(Client) /\ Cardinality(Counted') \in Nat
      BY <3>3, Numbers, FS_Subset, FS_CardinalityType
    <3>5. Cardinality(Verified) \in Nat /\ Cardinality(Verified) <= Cardinality(audit)
          /\ Cardinality(audit) \in Nat /\ Cardinality(Client) \in Nat
      BY Sizes
    <3>6. Cardinality(Verified') + Cardinality(Counted') <= Limit + Cardinality(Client) - 1
      <4>1. Cardinality(Verified') \in Nat /\ Cardinality(Verified') < Limit
        BY <3>1, <3>2, <3>5, Numbers
      <4> QED
        BY <3>4, <3>5, <4>1, Sums
    <3> QED
      BY <3>1, <3>6 DEF AuditInv, AuditOK
  <2>4. CASE LoginFails(c)
    <3> DEFINE a == [time |-> now, nth |-> Cardinality(audit), verified |-> TRUE]
    <3>1. /\ request[c].at = "counted"
          /\ audit' = audit \cup {a}
          /\ request' = [request EXCEPT ![c] = NoRequest]
      BY <2>4 DEF LoginFails, Serving, Audited, Becomes
    <3>2. a \in [time : 0..MaxTime, nth : Nat, verified : BOOLEAN] /\ a.verified
      BY Sizes DEF SessionsOK
    <3>3. Verified' = Verified \cup {a}
      BY <3>1, <3>2 DEF Verified
    <3>4. Counted' = Counted \ {c} /\ c \in Counted
      BY <3>1 DEF Counted, SessionsOK, NoRequest, Asks
    <3>5. IsFiniteSet(audit') /\ AuditOK'
      BY <3>1, <3>2, FS_AddElement DEF AuditInv, AuditOK
    <3>6. Cardinality(Verified') <= Cardinality(Verified) + 1 /\ Cardinality(Verified') \in Nat
      <4>1. /\ IsFiniteSet(Verified \cup {a})
            /\ Cardinality(Verified \cup {a}) = Cardinality(Verified)
               \/ Cardinality(Verified \cup {a}) = Cardinality(Verified) + 1
        BY Sizes, FS_AddElement
      <4> QED
        BY <3>3, <4>1, Sizes
    <3>7. Cardinality(Counted') = Cardinality(Counted) - 1
      BY <3>4, Sizes, FS_RemoveElement
    <3>8. Cardinality(Verified) \in Nat /\ Cardinality(Counted) \in Nat
          /\ Cardinality(Client) \in Nat
      BY Sizes
    <3>9. Cardinality(Verified') + Cardinality(Counted') <= Limit + Cardinality(Client) - 1
      <4>1. Cardinality(Counted') \in Nat
        BY <3>7, <3>8, <3>4, Sizes, FS_RemoveElement, FS_CardinalityType
      <4> QED
        BY <3>6, <3>7, <3>8, <4>1, Sums DEF AuditInv
    <3> QED
      BY <3>5, <3>9 DEF AuditInv
  <2>5. CASE LoginSucceeds(c)
    BY <2>1, <2>5 DEF LoginSucceeds, NoRequest, Asks
  <2>6. ASSUME NEW s \in Session, ReadSession(c, s)
        PROVE  AuditInv'
    BY <2>1, <2>6 DEF ReadSession, Asks
  <2>7. CASE Touch(c)
    BY <2>1, <2>7 DEF Touch, Asks
  <2>8. CASE ExpiredIsRevoked(c) \/ Revoke(c) \/ RevokeOthers(c)
    BY <2>1, <2>8 DEF ExpiredIsRevoked, Revoke, RevokeOthers, RevokeAll, NoRequest, Asks
  <2>9. CASE FinishRequest(c) \/ RequestFails(c)
    BY <2>1, <2>9 DEF FinishRequest, RequestFails, NoRequest, Asks
  <2>10. CASE ExpiresInside(c) \/ Logout(c) \/ ChangePassword(c) \/ SelectOthers(c)
    <3>1. UNCHANGED audit
      BY <2>10 DEF ExpiresInside, Logout, ChangePassword, SelectOthers
    <3>2. PICK step : Becomes(c, step) /\ step.at # "counted"
      <4>1. CASE SelectOthers(c)
        BY <4>1 DEF SelectOthers, Asks
      <4>2. CASE ExpiresInside(c) \/ Logout(c) \/ ChangePassword(c)
        <5>1. PICK at \in {"expired", "leaving", "changed"} :
                Becomes(c, [request[c] EXCEPT !.at = at])
          BY <4>2 DEF ExpiresInside, Logout, ChangePassword
        <5>2. [request[c] EXCEPT !.at = at].at = at
          BY DEF SessionsOK
        <5> QED
          BY <5>1, <5>2
      <4> QED
        BY <2>10, <4>1, <4>2
    <3> QED
      BY <2>1, <3>1, <3>2
  <2> QED
    BY <1>4, <2>2, <2>3, <2>4, <2>5, <2>6, <2>7, <2>8, <2>9, <2>10 DEF ClientStep
<1> QED
  BY <1>1, <1>2, <1>3, <1>4, ProcessLeavesSessions DEF Next, vars, session_vars

-----------------------------------------------------------------------------
(* The process.                                                            *)

(* The hooks started are the first ones, in their order, and theirs are    *)
(* the schedulers that run.                                                *)
Started ==
  /\ Len(app.started) <= Len(Hooks)
  /\ engine = {Hooks[k] : k \in 1..Len(app.started)}
  /\ app.heartbeat => "scheduler" \in engine

(* How far the process is tells what it has done.                          *)
Progress ==
  /\ app.at \in {"down", "migrated"} =>
       /\ ~app.initError /\ ~app.hookError /\ ~app.heartbeat
       /\ app.started = <<>> /\ engine = {}
  /\ app.at \notin {"down", "migrated"} => app.initError \/ settings
  /\ app.at = "starting" => Started /\ ~app.hookError
  /\ app.at = "unwinding" => app.hookError
  /\ app.at = "serving" /\ ~app.hookError =>
       Started /\ (app.initError \/ Len(app.started) = Len(Hooks))

LEMMA HookTypes ==
  /\ \A k \in 1..Len(Hooks) : Hooks[k] \in Hook
  /\ Len(Hooks) \in Nat
BY Numbers DEF Hook

LEMMA BootKeeps ==
  ASSUME ProcessOK, Progress, Migrate \/ MigrateFails \/ Initialize
  PROVE  ProcessOK' /\ Progress'
<1>1. CASE Migrate
  BY <1>1 DEF Migrate, ProcessOK, Progress, Schema
<1>2. CASE MigrateFails
  <2>1. faults' \in 0..MaxFaults /\ schema' \in Schema
    BY <1>2, Numbers DEF MigrateFails, ProcessOK, Schema
  <2>2. PICK p \in BOOLEAN : Starting(TRUE, p)
    BY <1>2 DEF MigrateFails
  <2>3. app.at = "down" /\ UNCHANGED <<settings, engine>>
    BY <1>2 DEF MigrateFails
  <2>4. ProcessOK'
    BY <2>1, <2>2, <2>3 DEF ProcessOK, Starting
  <2>5. Started'
    BY <2>2, <2>3, HookTypes DEF ProcessOK, Progress, Started, Starting
  <2> QED
    BY <2>2, <2>3, <2>4, <2>5 DEF ProcessOK, Progress, Starting
<1>3. CASE Initialize
  <2>1. PICK failed \in BOOLEAN, p \in BOOLEAN :
          /\ (failed \/ ~p) => faults < MaxFaults
          /\ faults' = IF failed \/ ~p THEN faults + 1 ELSE faults
          /\ settings' = (settings \/ ~failed)
          /\ Starting(failed, p)
    BY <1>3 DEF Initialize
  <2>2. app.at = "migrated" /\ UNCHANGED <<schema, engine>>
    BY <1>3 DEF Initialize
  <2>3. faults' \in 0..MaxFaults
    BY <2>1, Numbers DEF ProcessOK
  <2>4. ProcessOK'
    BY <2>1, <2>2, <2>3 DEF ProcessOK, Starting
  <2>5. Started'
    BY <2>1, <2>2, HookTypes DEF ProcessOK, Progress, Started, Starting
  <2> QED
    BY <2>1, <2>2, <2>4, <2>5 DEF ProcessOK, Progress, Starting
<1> QED
  BY <1>1, <1>2, <1>3

LEMMA StartKeeps ==
  ASSUME ProcessOK, Progress, StartHook \/ StartHookFails
  PROVE  ProcessOK' /\ Progress'
<1>1. /\ app.at = "starting" /\ ~app.initError /\ Len(app.started) < Len(Hooks)
      /\ Started /\ ~app.hookError /\ settings /\ UNCHANGED <<schema, settings>>
  BY DEF StartHook, StartHookFails, Progress
<1>2. Len(app.started) \in Nat /\ app.started \in Seq(Hook)
  BY DEF ProcessOK
<1>3. NextHook \in Hook
  BY <1>1, <1>2, HookTypes DEF NextHook
<1>4. CASE StartHook
  <2>1. /\ app' = [app EXCEPT !.started = Append(app.started, NextHook),
                              !.heartbeat = app.heartbeat \/ NextHook = "scheduler"]
        /\ engine' = engine \cup {NextHook}
        /\ faults' = faults
    BY <1>4 DEF StartHook
  <2>2. /\ Append(app.started, NextHook) \in Seq(Hook)
        /\ Len(Append(app.started, NextHook)) = Len(app.started) + 1
    BY <1>2, <1>3
  <2>3. ProcessOK'
    BY <1>1, <1>3, <2>1, <2>2 DEF ProcessOK
  <2>4. engine' = {Hooks[k] : k \in 1..(Len(app.started) + 1)}
    BY <1>1, <1>2, <2>1 DEF Started, NextHook
  <2>5. /\ app'.at = "starting" /\ ~app'.hookError /\ ~app'.initError
        /\ Len(app'.started) = Len(app.started) + 1
        /\ app'.heartbeat => "scheduler" \in engine'
    BY <1>1, <2>1, <2>2 DEF ProcessOK, Started
  <2>6. Started'
    BY <1>1, <1>2, <2>4, <2>5, HookTypes DEF Started
  <2> QED
    BY <1>1, <2>3, <2>5, <2>6 DEF Progress
<1>5. CASE StartHookFails
  <2>1. /\ app' = [app EXCEPT !.at = "unwinding", !.hookError = TRUE]
        /\ engine' \subseteq engine \cup {NextHook}
        /\ faults < MaxFaults /\ faults' = faults + 1
    BY <1>5 DEF StartHookFails, Fail
  <2>2. app'.at = "unwinding" /\ app'.hookError /\ app'.initError = app.initError
    BY <2>1 DEF ProcessOK
  <2>3. app' \in [at : {"down", "migrated", "starting", "unwinding", "serving", "stopping"},
                  initError : BOOLEAN, provider : BOOLEAN, hookError : BOOLEAN,
                  started : Seq(Hook), heartbeat : BOOLEAN]
    BY <2>1 DEF ProcessOK
  <2>4. faults' \in 0..MaxFaults /\ engine' \subseteq Hook
    BY <1>3, <2>1, Numbers DEF ProcessOK
  <2> QED
    BY <1>1, <2>2, <2>3, <2>4 DEF ProcessOK, Progress
<1> QED
  BY <1>4, <1>5

LEMMA StopKeeps ==
  ASSUME ProcessOK, Progress, NEW at \in {"unwinding", "stopping"}, StopHook(at)
  PROVE  ProcessOK' /\ Progress'
<1>1. /\ app.at = at /\ app.started # <<>>
      /\ app' = [app EXCEPT !.started = Front(app.started)]
      /\ engine' \subseteq engine
      /\ UNCHANGED <<schema, settings>>
  BY DEF StopHook
<1>2. faults' \in 0..MaxFaults
  BY Numbers DEF StopHook, ProcessOK
<1>3. Front(app.started) \in Seq(Hook)
  BY <1>1 DEF Front, ProcessOK
<1> QED
  BY <1>1, <1>2, <1>3 DEF ProcessOK, Progress

LEMMA OthersKeep ==
  ASSUME ProcessOK, Progress, Serve \/ Stop \/ Exit \/ Crash \/ Downgrade
  PROVE  ProcessOK' /\ Progress'
<1>1. CASE Serve
  <2>1. /\ app' = [app EXCEPT !.at = "serving"]
        /\ UNCHANGED <<faults, schema, settings, engine>>
        /\ \/ app.at = "starting" /\ (app.initError \/ Len(app.started) = Len(Hooks))
           \/ app.at = "unwinding"
    BY <1>1 DEF Serve
  <2> QED
    BY <2>1 DEF ProcessOK, Progress, Started
<1>2. CASE Stop
  BY <1>2 DEF Stop, ProcessOK, Progress
<1>3. CASE Exit
  BY <1>3 DEF Exit, ProcessOK, Progress, NoApp
<1>4. CASE Crash
  BY <1>4, Numbers DEF Crash, ProcessOK, Progress, NoApp
<1>5. CASE Downgrade
  BY <1>5, Numbers DEF Downgrade, ProcessOK, Progress, Schema, Started
<1> QED
  BY <1>1, <1>2, <1>3, <1>4, <1>5

LEMMA ProcessKeeps ==
  ASSUME ProcessOK, Progress, [Next]_vars
  PROVE  ProcessOK' /\ Progress'
<1>1. CASE ProcessStep \/ Crash
  BY <1>1, BootKeeps, StartKeeps, StopKeeps, OthersKeep DEF ProcessStep
<1>2. CASE UNCHANGED <<faults, schema, settings, app, engine>>
  BY <1>2 DEF ProcessOK, Progress, Started
<1>3. ASSUME NEW c \in Client, ClientStep(c)
      PROVE  UNCHANGED <<faults, schema, settings, app, engine>>
  <2>1. CASE LoginDenied(c) \/ LoginCounted(c) \/ LoginFails(c) \/ LoginSucceeds(c)
    BY <2>1, Zenon DEF LoginDenied, LoginCounted, LoginFails, LoginSucceeds, platform_vars
  <2>2. CASE (\E s \in Session : ReadSession(c, s)) \/ Touch(c) \/ ExpiresInside(c)
    BY <2>2, Zenon DEF ReadSession, Touch, ExpiresInside, platform_vars
  <2>3. CASE FinishRequest(c) \/ RequestFails(c) \/ Logout(c) \/ ChangePassword(c)
             \/ SelectOthers(c)
    BY <2>3, Zenon
    DEF FinishRequest, RequestFails, Logout, ChangePassword, SelectOthers, platform_vars
  <2>4. CASE ExpiredIsRevoked(c) \/ Revoke(c) \/ RevokeOthers(c)
    BY <2>4, Zenon DEF ExpiredIsRevoked, Revoke, RevokeOthers, RevokeAll, platform_vars
  <2> QED
    BY <1>3, <2>1, <2>2, <2>3, <2>4 DEF ClientStep
<1>4. CASE Tick \/ UNCHANGED vars
  BY <1>2, <1>4 DEF Tick, vars, platform_vars
<1> QED
  BY <1>1, <1>2, <1>3, <1>4 DEF Next

-----------------------------------------------------------------------------
(* The theorems.                                                           *)

Inv == SessionsOK /\ ProcessOK /\ Progress /\ AuditInv

LEMMA InitInv == Init => Inv
<1> SUFFICES ASSUME Init
             PROVE  Inv
  OBVIOUS
<1>1. SessionsOK
  BY Numbers DEF Init, SessionsOK, SessionRow, NoSession, NoRequest, Asks, InSession, Stamp
<1>2. ProcessOK
  BY Numbers DEF Init, ProcessOK, NoApp
<1>3. Progress
  BY DEF Init, Progress, NoApp
<1>4. audit = {} /\ Verified = {} /\ Counted = {}
  BY DEF Init, Verified, Counted, NoRequest, Asks
<1>5. Cardinality(Verified) = 0 /\ Cardinality(Counted) = 0 /\ IsFiniteSet(audit)
  BY <1>4, FS_EmptySet
<1>6. Cardinality(Client) \in Nat /\ Limit \in Nat /\ Limit > 0
  BY Numbers, FS_CardinalityType
<1>7. 0 + 0 <= Limit + Cardinality(Client) - 1
  BY <1>6
<1>8. AuditInv
  BY <1>4, <1>5, <1>7 DEF AuditInv, AuditOK
<1> QED
  BY <1>1, <1>2, <1>3, <1>8 DEF Inv

THEOREM PlatformInvariant == Spec => []Inv
<1>1. Inv /\ [Next]_vars => Inv'
  BY SessionsStayOK, ProcessKeeps, AuditStaysBounded DEF Inv
<1> QED
  BY <1>1, InitInv, PTL DEF Spec

(* Every reachable state has its types.                                    *)
THEOREM PlatformTypes == Spec => []TypeOK
<1>1. Inv => TypeOK
  BY TypeParts DEF Inv, AuditInv
<1> QED
  BY <1>1, PlatformInvariant, PTL

(* Whatever hooks, faults and crashes there are, a process that says it is *)
(* ready is complete.                                                      *)
THEOREM ReadyIsRunning == Spec => []ReadyMeansRunning
<1>1. Inv => ReadyMeansRunning
  <2> SUFFICES ASSUME Inv, app.at = "serving"
               PROVE  /\ Ready => settings /\ engine = Hook
                      /\ SchedulerOk => "scheduler" \in engine
    BY DEF ReadyMeansRunning
  <2>1. CASE Ready
    <3>1. Started /\ Len(app.started) = Len(Hooks) /\ settings
      BY <2>1 DEF Inv, Progress, Ready
    <3>2. engine = Hook
      BY <3>1, Numbers DEF Started, Hook
    <3> QED
      BY <2>1, <3>1, <3>2 DEF SchedulerOk, Started, Ready
  <2>2. CASE ~Ready
    BY <2>2 DEF Inv, Progress, Started, SchedulerOk
  <2> QED
    BY <2>1, <2>2
<1> QED
  BY <1>1, PlatformInvariant, PTL

(* Revocation is for good, for any number of clients and sessions.         *)
THEOREM RevocationIsFinal == Spec => RevokedIsFinal
<1>1. Inv /\ [Next]_vars =>
        [\A s \in Session : session[s].state = "revoked" => session'[s].state = "revoked"]_vars
  BY RevokedStays DEF Inv
<1> QED
  BY <1>1, PlatformInvariant, PTL DEF Spec, RevokedIsFinal

(* The limit of failed logins is exceeded by the concurrent ones at most.  *)
THEOREM LoginsBounded == Spec => []AttemptsBounded
<1>1. Inv => AttemptsBounded
  <2> SUFFICES ASSUME Inv
               PROVE  AttemptsBounded
    OBVIOUS
  <2>1. /\ Cardinality(Verified) \in Nat /\ Cardinality(Counted) \in Nat
        /\ Cardinality(Client) \in Nat
    BY Sizes DEF Inv
  <2>2. Cardinality(Verified) <= Limit + Cardinality(Client) - 1
    BY <2>1, Numbers DEF Inv, AuditInv
  <2> QED
    BY <2>2 DEF Verified, AttemptsBounded
<1> QED
  BY <1>1, PlatformInvariant, PTL
=============================================================================
