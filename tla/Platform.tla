------------------------------ MODULE Platform ------------------------------
(***************************************************************************)
(* The process: create_app migrates and initialises the database and       *)
(* builds the provider; the lifespan starts the hooks one after another    *)
(* (the inspection scheduler, the log-recording engine), serves, and stops *)
(* them in reverse.  Whatever fails in a start leaves a process that       *)
(* serves and reports that it is not ready.                                *)
(*                                                                         *)
(* While it serves, the middleware resolves and extends sessions, and the  *)
(* requests to log in, to log out and to change the password write to the  *)
(* same rows, each in transactions of its own.  Sessions and audit rows    *)
(* outlive the process.                                                    *)
(***************************************************************************)
EXTENDS Naturals, FiniteSets, SequencesExt

CONSTANTS
  Hooks,         \* the hooks in the order of their registration
  AutoMigrate,   \* AUTO_MIGRATE
  Client,        \* requests handled at the same time
  Session,       \* rows of admin_sessions
  IdleTime,      \* session_idle_minutes
  AbsoluteTime,  \* session_absolute_hours
  Limit,         \* login_failure_limit
  Window,        \* login_failure_window_minutes
  MaxTime,       \* bound on the clock
  MaxDenied,     \* bound on denied logins within a window
  MaxFaults      \* bound on crashes, failing starts and downgrades together

ASSUME PlatformAssumption ==
  /\ Hooks \in Seq(STRING)
  /\ AutoMigrate \in BOOLEAN
  /\ {IdleTime, AbsoluteTime, Limit} \subseteq Nat \ {0}
  /\ {Window, MaxTime, MaxDenied, MaxFaults} \subseteq Nat
  /\ IsFiniteSet(Client)

VARIABLES
  now,      \* the time
  faults,   \* faults so far
  schema,   \* revision of the database
  settings, \* whether the row of the system settings exists
  app,      \* the process
  engine,   \* hooks whose background scheduler runs
  session,  \* admin_sessions
  audit,    \* failed logins of the window
  request   \* what each client is about

platform_vars == <<schema, settings, app, engine>>
session_vars == <<session, audit, request>>
vars == <<now, faults, platform_vars, session_vars>>

Stamp == 0..(MaxTime + AbsoluteTime)
Schema == {"empty", "v100", "unknown", "older", "head"}
Hook == {Hooks[k] : k \in DOMAIN Hooks}

(* app.state, and how far the process is.                                  *)
NoApp == [at |-> "down", initError |-> FALSE, provider |-> FALSE, hookError |-> FALSE,
          started |-> <<>>, heartbeat |-> FALSE]
NoSession == [state |-> "none", idle |-> 0, absolute |-> 0]
Asks(at, id, time, others) == [at |-> at, id |-> id, time |-> time, others |-> others]
NoRequest == Asks("idle", "none", 0, {})

InSession == {"read", "expired", "inside", "leaving", "changed", "revoking"}

TypeOK ==
  /\ now \in 0..MaxTime
  /\ faults \in 0..MaxFaults
  /\ schema \in Schema
  /\ settings \in BOOLEAN
  /\ app \in [at : {"down", "migrated", "starting", "unwinding", "serving", "stopping"},
              initError : BOOLEAN, provider : BOOLEAN, hookError : BOOLEAN,
              started : Seq(Hook), heartbeat : BOOLEAN]
  /\ engine \subseteq Hook
  /\ session \in [Session -> [state : {"none", "live", "revoked"}, idle : Stamp, absolute : Stamp]]
  /\ \A s \in Session : session[s].idle <= session[s].absolute
  /\ audit \subseteq [time : 0..MaxTime, nth : Nat, verified : BOOLEAN]
  /\ request \in [Client -> [at : {"idle", "counted"} \cup InSession, id : Session \cup {"none"},
                             time : 0..MaxTime, others : SUBSET Session]]
  /\ \A c \in Client : request[c].at \in InSession => request[c].id \in Session

Init ==
  /\ now = 0
  /\ faults = 0
  /\ schema \in Schema
  /\ settings = (schema \notin {"empty", "unknown"})
  /\ app = NoApp
  /\ engine = {}
  /\ session = [s \in Session |-> NoSession]
  /\ audit = {}
  /\ request = [c \in Client |-> NoRequest]

-----------------------------------------------------------------------------
(* The start of the process.                                               *)

(* upgrade_database: a database without a revision must be empty or of     *)
(* v1.0.0, which is stamped first.  Without AUTO_MIGRATE it must be at the *)
(* head already.                                                           *)
Upgradable == IF AutoMigrate THEN schema # "unknown" ELSE schema = "head"

Migrate ==
  /\ app.at = "down"
  /\ Upgradable
  /\ schema' = "head"
  /\ app' = [app EXCEPT !.at = "migrated"]
  /\ UNCHANGED <<now, faults, settings, engine, session_vars>>

Starting(failed, provider) ==
  app' = [app EXCEPT !.at = "starting", !.initError = failed, !.provider = provider]

(* An error here, of the migration or of reading the revision, is          *)
(* remembered; initialize_database is then left out.                       *)
MigrateFails ==
  /\ app.at = "down"
  /\ \/ ~Upgradable /\ UNCHANGED <<schema, faults>>
     \/ /\ Upgradable
        /\ faults < MaxFaults
        /\ faults' = faults + 1
        /\ schema' \in {schema} \cup
                        (IF AutoMigrate /\ schema = "v100" THEN {"older"} ELSE {})
  /\ \E p \in BOOLEAN : Starting(TRUE, p)
  /\ UNCHANGED <<now, settings, engine, session_vars>>

(* initialize_database and build_provider.                                 *)
Initialize ==
  /\ app.at = "migrated"
  /\ \E failed, p \in BOOLEAN :
       /\ failed \/ ~p => faults < MaxFaults
       /\ faults' = IF failed \/ ~p THEN faults + 1 ELSE faults
       /\ settings' = (settings \/ ~failed)
       /\ Starting(failed, p)
  /\ UNCHANGED <<now, schema, engine, session_vars>>

NextHook == Hooks[Len(app.started) + 1]

StartHook ==
  /\ app.at = "starting"
  /\ ~app.initError
  /\ Len(app.started) < Len(Hooks)
  /\ engine' = engine \cup {NextHook}
  /\ app' = [app EXCEPT !.started = Append(@, NextHook),
                        !.heartbeat = @ \/ NextHook = "scheduler"]
  /\ UNCHANGED <<now, faults, schema, settings, session_vars>>

(* A hook may raise before its scheduler runs, or after: the first sweep   *)
(* of the engine runs in its start.  Mutant: the error is not remembered.  *)
FailSilently(a) == [a EXCEPT !.at = "unwinding"]
Fail(a) == [a EXCEPT !.at = "unwinding", !.hookError = TRUE]

StartHookFails ==
  /\ app.at = "starting"
  /\ ~app.initError
  /\ Len(app.started) < Len(Hooks)
  /\ faults < MaxFaults
  /\ faults' = faults + 1
  /\ engine' \in {engine, engine \cup {NextHook}}
  /\ app' = Fail(app)
  /\ UNCHANGED <<now, schema, settings, session_vars>>

(* The hooks started before are stopped; an exception of a stop is         *)
(* swallowed, so that its scheduler may go on.                             *)
StopHook(at) ==
  /\ app.at = at
  /\ app.started # <<>>
  /\ \/ engine' = engine \ {Last(app.started)} /\ UNCHANGED faults
     \/ faults < MaxFaults /\ faults' = faults + 1 /\ UNCHANGED engine
  /\ app' = [app EXCEPT !.started = Front(@)]
  /\ UNCHANGED <<now, schema, settings, session_vars>>

Serve ==
  /\ \/ app.at = "starting" /\ (app.initError \/ Len(app.started) = Len(Hooks))
     \/ app.at = "unwinding" /\ app.started = <<>>
  /\ app' = [app EXCEPT !.at = "serving"]
  /\ UNCHANGED <<now, faults, schema, settings, engine, session_vars>>

(* Requests are finished before the hooks are stopped.                     *)
Stop ==
  /\ app.at = "serving"
  /\ \A c \in Client : request[c] = NoRequest
  /\ app' = [app EXCEPT !.at = "stopping"]
  /\ UNCHANGED <<now, faults, schema, settings, engine, session_vars>>

Exit ==
  /\ app.at = "stopping"
  /\ app.started = <<>>
  /\ app' = NoApp
  /\ engine' = {}
  /\ UNCHANGED <<now, faults, schema, settings, session_vars>>

Crash ==
  /\ app.at # "down"
  /\ faults < MaxFaults
  /\ faults' = faults + 1
  /\ app' = NoApp
  /\ engine' = {}
  /\ request' = [c \in Client |-> NoRequest]
  /\ UNCHANGED <<now, schema, settings, session, audit>>

(* The command line may take the database back while the process serves.   *)
Downgrade ==
  /\ schema = "head"
  /\ faults < MaxFaults
  /\ faults' = faults + 1
  /\ schema' = "older"
  /\ UNCHANGED <<now, settings, app, engine, session_vars>>

-----------------------------------------------------------------------------
(* What the process says of itself.                                        *)

Ready == ~app.initError /\ app.provider /\ ~app.hookError /\ schema = "head"

SchedulerOk == app.heartbeat /\ ~app.hookError

-----------------------------------------------------------------------------
(* Sessions.                                                               *)

Becomes(c, step) == request' = [request EXCEPT ![c] = step]
Serving(c, at) == app.at = "serving" /\ schema = "head" /\ request[c].at = at

Tick ==
  /\ now < MaxTime
  /\ now' = now + 1
  /\ audit' = {a \in audit : a.time + Window >= now + 1}
  /\ UNCHANGED <<faults, platform_vars, session, request>>

(* Mutant of IsLimited: the limit itself is let through.                   *)
IsOverLimit == Cardinality(audit) > Limit
(* Denied attempts count as failed ones.                                   *)
IsLimited == Cardinality(audit) >= Limit

Audited(verified) ==
  audit' = audit \cup {[time |-> now, nth |-> Cardinality(audit), verified |-> verified]}

LoginDenied(c) ==
  /\ Serving(c, "idle")
  /\ IsLimited
  /\ Cardinality({a \in audit : ~a.verified}) < MaxDenied
  /\ Audited(FALSE)
  /\ UNCHANGED <<now, faults, platform_vars, session, request>>

(* The failed attempts have been counted; the password comes next.         *)
LoginCounted(c) ==
  /\ Serving(c, "idle")
  /\ ~IsLimited
  /\ Becomes(c, Asks("counted", "none", 0, {}))
  /\ UNCHANGED <<now, faults, platform_vars, session, audit>>

LoginFails(c) ==
  /\ Serving(c, "counted")
  /\ Audited(TRUE)
  /\ Becomes(c, NoRequest)
  /\ UNCHANGED <<now, faults, platform_vars, session>>

LoginSucceeds(c) ==
  /\ Serving(c, "counted")
  /\ \E s \in Session :
       /\ session[s].state = "none"
       /\ session' = [session EXCEPT ![s] =
            [state |-> "live", absolute |-> now + AbsoluteTime,
             idle |-> IF IdleTime <= AbsoluteTime THEN now + IdleTime ELSE now + AbsoluteTime]]
  /\ Becomes(c, NoRequest)
  /\ UNCHANGED <<now, faults, platform_vars, audit>>

Expired(row) == now >= row.idle \/ now >= row.absolute

(* resolve_admin_session reads the row, and then extends it or, when it    *)
(* has expired, revokes it.                                                *)
ReadSession(c, s) ==
  /\ Serving(c, "idle")
  /\ session[s].state = "live"
  /\ Becomes(c, Asks(IF Expired(session[s]) THEN "expired" ELSE "read", s, now, {}))
  /\ UNCHANGED <<now, faults, platform_vars, session, audit>>

(* Mutant of Idle: the absolute end is forgotten.                          *)
IdleOnly(row, time) == time + IdleTime
Idle(row, time) == Min({time + IdleTime, row.absolute})

(* Mutant of Touched: the whole row is written, live as it was read.       *)
TouchedRow(row, time) == [row EXCEPT !.state = "live", !.idle = Idle(row, time)]
(* Only the columns changed are written; the absolute end never changes.   *)
Touched(row, time) == [row EXCEPT !.idle = Idle(row, time)]

Touch(c) ==
  /\ Serving(c, "read")
  /\ LET r == request[c] IN
     /\ session' = [session EXCEPT ![r.id] = Touched(@, r.time)]
     /\ Becomes(c, Asks("inside", r.id, 0, {}))
  /\ UNCHANGED <<now, faults, platform_vars, audit>>

RevokeAll(c, ids) ==
  /\ session' = [s \in Session |-> IF s \in ids THEN [session[s] EXCEPT !.state = "revoked"]
                                   ELSE session[s]]
  /\ Becomes(c, NoRequest)
  /\ UNCHANGED <<now, faults, platform_vars, audit>>

ExpiredIsRevoked(c) == Serving(c, "expired") /\ RevokeAll(c, {request[c].id})

(* A database of another revision has not the tables: the request fails.   *)
RequestFails(c) ==
  /\ app.at = "serving" /\ schema # "head"
  /\ request[c] # NoRequest
  /\ Becomes(c, NoRequest)
  /\ UNCHANGED <<now, faults, platform_vars, session, audit>>

(* Any other request ends here; so does one whose session was revoked in   *)
(* the meantime.                                                           *)
FinishRequest(c) ==
  /\ Serving(c, "inside")
  /\ Becomes(c, NoRequest)
  /\ UNCHANGED <<now, faults, platform_vars, session, audit>>

(* Logout and the change of the password read the session again, without   *)
(* extending it; it may have expired since.                                *)
ExpiresInside(c) ==
  /\ Serving(c, "inside")
  /\ session[request[c].id].state = "live"
  /\ Expired(session[request[c].id])
  /\ Becomes(c, [request[c] EXCEPT !.at = "expired"])
  /\ UNCHANGED <<now, faults, platform_vars, session, audit>>

Logout(c) ==
  /\ Serving(c, "inside")
  /\ session[request[c].id].state = "live"
  /\ ~Expired(session[request[c].id])
  /\ Becomes(c, [request[c] EXCEPT !.at = "leaving"])
  /\ UNCHANGED <<now, faults, platform_vars, session, audit>>

Revoke(c) == Serving(c, "leaving") /\ RevokeAll(c, {request[c].id})

(* The new password is committed before the other sessions are looked for. *)
ChangePassword(c) ==
  /\ Serving(c, "inside")
  /\ session[request[c].id].state = "live"
  /\ ~Expired(session[request[c].id])
  /\ Becomes(c, [request[c] EXCEPT !.at = "changed"])
  /\ UNCHANGED <<now, faults, platform_vars, session, audit>>

SelectOthers(c) ==
  /\ Serving(c, "changed")
  /\ Becomes(c, Asks("revoking", request[c].id, 0,
                     {s \in Session \ {request[c].id} : session[s].state = "live"}))
  /\ UNCHANGED <<now, faults, platform_vars, session, audit>>

RevokeOthers(c) == Serving(c, "revoking") /\ RevokeAll(c, request[c].others)

ProcessStep ==
  \/ Migrate \/ MigrateFails \/ Initialize
  \/ StartHook \/ StartHookFails \/ StopHook("unwinding") \/ Serve
  \/ Stop \/ StopHook("stopping") \/ Exit \/ Downgrade

ClientStep(c) ==
  \/ LoginDenied(c) \/ LoginCounted(c) \/ LoginFails(c) \/ LoginSucceeds(c)
  \/ \E s \in Session : ReadSession(c, s)
  \/ Touch(c) \/ ExpiredIsRevoked(c) \/ ExpiresInside(c)
  \/ FinishRequest(c) \/ RequestFails(c)
  \/ Logout(c) \/ Revoke(c) \/ ChangePassword(c) \/ SelectOthers(c) \/ RevokeOthers(c)

Next == ProcessStep \/ Crash \/ Tick \/ \E c \in Client : ClientStep(c)

Spec == Init /\ [][Next]_vars

-----------------------------------------------------------------------------
(* A process that says it is ready has an initialised database and runs    *)
(* every background scheduler; one whose status shows a working scheduler  *)
(* runs it.                                                                *)
ReadyMeansRunning ==
  app.at = "serving" =>
    /\ Ready => settings /\ engine = Hook
    /\ SchedulerOk => "scheduler" \in engine

(* A session that has been revoked, by its owner, by a change of the       *)
(* password or because it expired, is never revived by a request that read *)
(* it before.                                                              *)
RevokedIsFinal ==
  [][\A s \in Session : session[s].state = "revoked" => session'[s].state = "revoked"]_vars

(* However the clients' logins interleave, no more passwords are refused   *)
(* within a window than the limit and one for each other client.           *)
AttemptsBounded ==
  Cardinality({a \in audit : a.verified}) <= Limit + Cardinality(Client) - 1
=============================================================================
