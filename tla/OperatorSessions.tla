-------------------------- MODULE OperatorSessions --------------------------
(***************************************************************************)
(* Operator sessions (OperatorSessionRegistry, src/c2lab/auth.py) and the  *)
(* way the HTTP handlers use them (do_GET and do_POST of                   *)
(* src/c2lab/server.py): a request is authorised when its headers are      *)
(* read, its body arrives later, and the session is checked again before   *)
(* the state is changed.  The registry's lock makes each of its calls one  *)
(* step; the clock is read before the lock is taken, so a call works with  *)
(* an instant that may be older than the step.                             *)
(***************************************************************************)
EXTENDS Integers, FiniteSets

CONSTANTS
    Tokens,                 \* bearer tokens, one of which may be nobody's
    Startup,                \* <<token, role>> pairs registered by run_teamserver
    Ttls,                   \* lifetimes a session may be registered with
    Clients,                \* HTTP connections being served
    Routes,                 \* routes the clients use
    MAX_OPERATOR_SESSIONS,
    MaxIssued,              \* bound: sessions registered altogether
    MaxLag,                 \* bound: how old the instant of a registration is
    MaxTime                 \* bound: the last instant of the clock

ASSUME SessionAssumption ==
    /\ {MAX_OPERATOR_SESSIONS, MaxIssued, MaxLag, MaxTime} \subseteq Nat
    /\ Ttls \subseteq Nat \ {0}
    /\ IsFiniteSet(Startup)
    /\ Cardinality(Startup) <= MAX_OPERATOR_SESSIONS
    /\ Cardinality(Startup) <= MaxIssued

VARIABLES
    now,        \* the monotonic clock
    sessions,   \* _sessions: session id -> record; ids grow in insertion order
    issued,     \* number of ids given out
    requests    \* what each client's handler is doing

vars == <<now, sessions, issued, requests>>

ROLE_PERMISSIONS ==
    [admin    |-> {"read", "task_write", "exercise_write", "containment_write",
                   "note_write", "reset", "operator_admin"},
     operator |-> {"read", "task_write", "exercise_write", "note_write"},
     viewer   |-> {"read"}]

ROLES == DOMAIN ROLE_PERMISSIONS

\* The permission each route asks for; "sync" stands for every other GET route
\* of the operator API, "unmatched" for a POST to no route at all.
PermissionFor ==
    [sync      |-> "read",
     operators |-> "operator_admin",
     tasks     |-> "task_write",
     exercises |-> "exercise_write",
     contain   |-> "containment_write",
     notes     |-> "note_write",
     reset     |-> "reset",
     revoke    |-> "operator_admin",
     unmatched |-> "read"]

\* run_teamserver ends when two of its tokens are the same.
ASSUME RoutesAssumption ==
    /\ Startup \subseteq Tokens \X ROLES
    /\ \A first, second \in Startup : first[1] = second[1] => first = second
    /\ Routes \subseteq DOMAIN PermissionFor

GetRoutes == {"sync", "operators"}

NotRevoked == -1
NoSession == 0
NoToken == "none"

-----------------------------------------------------------------------------
(***************************************************************************)
(* The registry.                                                           *)
(***************************************************************************)
Active(session, at) ==
    /\ session.revoked = NotRevoked
    /\ at < session.expires

ActiveIds(at) == {id \in DOMAIN sessions : Active(sessions[id], at)}

Session(role, token, expires) ==
    [role |-> role, token |-> token, expires |-> expires, revoked |-> NotRevoked]

Oldest(ids) == {id \in ids : \A other \in ids : id <= other}

\* Fault: a full registry forgets its oldest session, whatever its state.
EvictedByAge(at) ==
    IF Cardinality(DOMAIN sessions) >= MAX_OPERATOR_SESSIONS
      THEN Oldest(DOMAIN sessions)
      ELSE {}

\* Sessions a full registry forgets to make room: the oldest inactive one.
Evicted(at) ==
    IF Cardinality(DOMAIN sessions) >= MAX_OPERATOR_SESSIONS
      THEN Oldest(DOMAIN sessions \ ActiveIds(at))
      ELSE {}

HasRoom(at) == Cardinality(DOMAIN sessions \ Evicted(at)) < MAX_OPERATOR_SESSIONS

TokenConflict(token) == \E id \in DOMAIN sessions : sessions[id].token = token

\* register: refused (409, 429) without a change when the token is known or
\* the registry is full of active sessions.
Register(token, role, ttl, at) ==
    /\ issued < MaxIssued
    /\ ~TokenConflict(token)
    /\ HasRoom(at)
    /\ issued' = issued + 1
    /\ sessions' =
         [id \in (DOMAIN sessions \ Evicted(at)) \cup {issued + 1} |->
             IF id = issued + 1 THEN Session(role, token, at + ttl)
                                ELSE sessions[id]]
    /\ UNCHANGED <<now, requests>>

\* authenticate together with _authorize_operator: the last retained session
\* with the token, when it is active and its role has the permission.
Authorized(id, token, permission, at) ==
    LET matched == {s \in DOMAIN sessions : sessions[s].token = token}
    IN  /\ id \in matched
        /\ \A other \in matched : other <= id
        /\ Active(sessions[id], at)
        /\ permission \in ROLE_PERMISSIONS[sessions[id].role]

ActiveAdmins(at) == {id \in ActiveIds(at) : sessions[id].role = "admin"}

\* Fault: the request was authorised a moment ago, so the actor is not looked
\* up again under the lock.
ActorWasActive(actor, at) == TRUE

ActorIsActive(actor, at) == actor \in ActiveIds(at)

\* revoke, called by the session `actor`; its three outcomes.
RevokeRefused(actor, target, at) ==
    \/ target \notin DOMAIN sessions
    \/ /\ target \in DOMAIN sessions
       /\ actor = target => sessions[target].revoked = NotRevoked
       /\ \/ ~ActorIsActive(actor, at)
          \/ /\ actor \in DOMAIN sessions \ {target}
             /\ "operator_admin" \notin ROLE_PERMISSIONS[sessions[actor].role]
          \/ /\ actor = target
             /\ sessions[target].role = "admin"
             /\ Cardinality(ActiveAdmins(at)) <= 1

RevokeRepeated(actor, target, at) ==
    /\ ~RevokeRefused(actor, target, at)
    /\ sessions[target].revoked # NotRevoked

RevokeApplies(actor, target, at) ==
    /\ ~RevokeRefused(actor, target, at)
    /\ sessions[target].revoked = NotRevoked

-----------------------------------------------------------------------------
(***************************************************************************)
(* The handlers.  `since` is the earliest reading of the clock that the    *)
(* handler's next call can make.  `stale` is history: the sessions that    *)
(* could no longer be used when the request was last complete (its headers *)
(* for a GET, its body for a POST).  A refused request leaves nothing      *)
(* behind: its client is idle again.                                       *)
(***************************************************************************)
Quiet == [pc |-> "idle", token |-> NoToken, route |-> "sync",
          target |-> NoSession, since |-> 0, session |-> NoSession, stale |-> {}]

StaleNow == (1 .. issued) \ ActiveIds(now)

Init ==
    /\ now = 0
    /\ issued = Cardinality(Startup)
    /\ \E order \in [1 .. issued -> Startup], ttl \in Ttls :
         /\ {order[id] : id \in 1 .. issued} = Startup
         /\ sessions = [id \in 1 .. issued |->
                           Session(order[id][2], order[id][1], ttl)]
    /\ requests = [c \in Clients |-> Quiet]

\* Headers read: the request line, the token and, for a revocation, the target.
Send(c, token, route, target) ==
    /\ requests[c].pc \in {"idle", "done"}
    /\ (route # "revoke") => (target = NoSession)
    /\ requests' = [requests EXCEPT ![c] =
                      [pc |-> "headers", token |-> token, route |-> route,
                       target |-> target, since |-> now,
                       session |-> NoSession, stale |-> StaleNow]]
    /\ UNCHANGED <<now, sessions, issued>>

\* What an authorised handler does next: answer a GET, or wait for the body.
AfterHeaders(route) == IF route \in GetRoutes THEN "done" ELSE "body"

Authorize(c) ==
    /\ requests[c].pc = "headers"
    /\ requests[c].route # "unmatched"
    /\ \E at \in requests[c].since .. now, id \in DOMAIN sessions :
         /\ Authorized(id, requests[c].token, PermissionFor[requests[c].route], at)
         /\ requests' = [requests EXCEPT
                           ![c].pc = AfterHeaders(requests[c].route),
                           ![c].session = id,
                           ![c].since = at]
    /\ UNCHANGED <<now, sessions, issued>>

\* A POST to no route is answered 401, 403 or 404, whoever sends it.
NotFound(c) ==
    /\ requests[c].pc = "headers"
    /\ requests[c].route = "unmatched"
    /\ requests' = [requests EXCEPT ![c] = Quiet]
    /\ UNCHANGED <<now, sessions, issued>>

BodyArrives(c) ==
    /\ requests[c].pc = "body"
    /\ requests' = [requests EXCEPT ![c].pc = "received",
                                    ![c].since = now,
                                    ![c].stale = StaleNow]
    /\ UNCHANGED <<now, sessions, issued>>

\* _read_json_object raises, or the socket times out.
BodyFails(c) ==
    /\ requests[c].pc = "body"
    /\ requests' = [requests EXCEPT ![c] = Quiet]
    /\ UNCHANGED <<now, sessions, issued>>

\* Fault: the session found when the headers were read is used again.
RecheckSkipped(c) ==
    /\ requests[c].pc = "received"
    /\ requests' = [requests EXCEPT ![c].pc = "cleared"]
    /\ UNCHANGED <<now, sessions, issued>>

Recheck(c) ==
    /\ requests[c].pc = "received"
    /\ \E at \in requests[c].since .. now, id \in DOMAIN sessions :
         /\ Authorized(id, requests[c].token, PermissionFor[requests[c].route], at)
         /\ requests' = [requests EXCEPT ![c].pc = "cleared",
                                         ![c].session = id,
                                         ![c].since = at]
    /\ UNCHANGED <<now, sessions, issued>>

\* _authorize_operator answers 401 or 403, at either check.
Deny(c) ==
    /\ requests[c].pc \in {"headers", "received"}
    /\ \E at \in requests[c].since .. now :
         \A id \in DOMAIN sessions :
            ~Authorized(id, requests[c].token, PermissionFor[requests[c].route], at)
    /\ requests' = [requests EXCEPT ![c] = Quiet]
    /\ UNCHANGED <<now, sessions, issued>>

\* The state change of a POST other than a revocation (a call of LabState).
Dispatch(c) ==
    /\ requests[c].pc = "cleared"
    /\ requests[c].route # "revoke"
    /\ requests' = [requests EXCEPT ![c].pc = "done"]
    /\ UNCHANGED <<now, sessions, issued>>

Revoke(c) ==
    LET actor  == requests[c].session
        target == requests[c].target
    IN  /\ requests[c].pc = "cleared"
        /\ requests[c].route = "revoke"
        /\ \E at \in requests[c].since .. now :
             \/ /\ RevokeRefused(actor, target, at)
                /\ requests' = [requests EXCEPT ![c] = Quiet]
                /\ UNCHANGED sessions
             \/ /\ RevokeRepeated(actor, target, at)
                /\ requests' = [requests EXCEPT ![c].pc = "done"]
                /\ UNCHANGED sessions
             \/ /\ RevokeApplies(actor, target, at)
                /\ requests' = [requests EXCEPT ![c].pc = "done"]
                /\ sessions' = [sessions EXCEPT ![target].revoked = at]
        /\ UNCHANGED <<now, issued>>

Tick ==
    /\ now < MaxTime
    /\ now' = now + 1
    /\ UNCHANGED <<sessions, issued, requests>>

Next ==
    \/ Tick
    \/ \E token \in Tokens, role \in ROLES, ttl \in Ttls, at \in 0 .. now :
         /\ now - at <= MaxLag
         /\ Register(token, role, ttl, at)
    \/ \E c \in Clients :
         \/ \E token \in Tokens, route \in Routes, target \in NoSession .. issued :
              Send(c, token, route, target)
         \/ Authorize(c)
         \/ NotFound(c)
         \/ BodyArrives(c)
         \/ BodyFails(c)
         \/ Recheck(c)
         \/ Deny(c)
         \/ Dispatch(c)
         \/ Revoke(c)

Spec == Init /\ [][Next]_vars

-----------------------------------------------------------------------------
SessionRecords ==
    [role : ROLES, token : Tokens, expires : Nat, revoked : Nat \cup {NotRevoked}]

\* The registry holds well-formed sessions, at most MAX_OPERATOR_SESSIONS of
\* them, under ids it has given out (_sessions of OperatorSessionRegistry).
RegistryTypeOK ==
    /\ now \in 0 .. MaxTime
    /\ issued \in 0 .. MaxIssued
    /\ DOMAIN sessions \subseteq 1 .. issued
    /\ \A id \in DOMAIN sessions : sessions[id] \in SessionRecords
    /\ Cardinality(DOMAIN sessions) <= MAX_OPERATOR_SESSIONS
    /\ \A c \in Clients :
         /\ requests[c].pc \in {"idle", "headers", "body", "received",
                                "cleared", "done"}
         /\ requests[c].route \in DOMAIN PermissionFor
         /\ requests[c].since \in 0 .. now
         /\ requests[c].session \in 0 .. issued

\* A token names at most one retained session, however sessions expire, are
\* revoked, evicted and registered again: authenticate takes the last match,
\* so a second one would hide the first from revocation.
OneSessionPerToken ==
    \A id, other \in DOMAIN sessions :
        sessions[id].token = sessions[other].token => id = other

\* No request takes effect for a session that was already revoked or expired
\* when the request was complete: revoking or outliving a session while a body
\* is on its way stops that body (the second _authorize_operator of do_POST).
OnlyLiveSessionsAct ==
    \A c \in Clients :
        requests[c].pc \in {"cleared", "done"}
            => requests[c].session \notin requests[c].stale

\* The registry is well formed and a token leads to one session, and requests
\* take effect only for sessions that are live (OperatorSessionRegistry together
\* with the two checks of do_POST).
RegistryInv == RegistryTypeOK /\ OneSessionPerToken /\ OnlyLiveSessionsAct

\* Whenever a session is revoked, some admin session is still active at the
\* instant of the revocation, however the requests of several admins against
\* each other and against themselves interleave (revoke under _lock).
AdminRemains ==
    [][\A id \in DOMAIN sessions \cap DOMAIN sessions' :
          sessions'[id].revoked # sessions[id].revoked
            => \E admin \in DOMAIN sessions' :
                   /\ sessions'[admin].role = "admin"
                   /\ Active(sessions'[admin], sessions'[id].revoked)]_vars

\* A revocation is final and an active session is never dropped: a session
\* leaves the registry only when it can no longer be used, and while it is
\* retained its token, role and expiry stay and its revocation is not undone.
SessionsEndOnce ==
    [][\A id \in DOMAIN sessions :
          IF id \in DOMAIN sessions'
            THEN /\ [sessions'[id] EXCEPT !.revoked = NotRevoked]
                      = [sessions[id] EXCEPT !.revoked = NotRevoked]
                 /\ sessions[id].revoked # NotRevoked
                      => sessions'[id].revoked = sessions[id].revoked
            ELSE id \notin ActiveIds(now)]_vars
=============================================================================
