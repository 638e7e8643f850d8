----------------------- MODULE OperatorSessionsProofs -----------------------
(***************************************************************************)
(* The session registry for every number of tokens, sessions, connections  *)
(* and instants: a token leads to one session, no request takes effect for *)
(* a session that was over when the request was complete, some admin       *)
(* outlives every revocation, and a session that ends stays ended.         *)
(***************************************************************************)
EXTENDS OperatorSessions, FiniteSetTheorems, TLAPS

Stages == {"idle", "headers", "body", "received", "cleared", "done"}

RequestType ==
    [pc : Stages, token : Tokens \cup {NoToken}, route : DOMAIN PermissionFor,
     target : Nat, since : Nat, session : Nat, stale : SUBSET Nat]

RegistryOK ==
    /\ now \in 0 .. MaxTime
    /\ issued \in 0 .. MaxIssued
    /\ DOMAIN sessions \subseteq 1 .. issued
    /\ sessions \in [DOMAIN sessions -> SessionRecords]
    /\ Cardinality(DOMAIN sessions) <= MAX_OPERATOR_SESSIONS

\* What the handler of a request can rely on: the sessions it saw end are
\* still over at every instant it may read from now on, and a revocation about
\* to be made is made by an admin, if the session is retained at all.
RequestOK(r) ==
    /\ r.since <= now
    /\ r.session <= issued
    /\ r.stale \subseteq 1 .. issued
    /\ \A id \in r.stale \cap DOMAIN sessions : ~Active(sessions[id], r.since)
    /\ r.pc \in {"cleared", "done"} => r.session \notin r.stale
    /\ (r.pc = "cleared" /\ r.route = "revoke" /\ r.session \in DOMAIN sessions)
         => sessions[r.session].role = "admin"

RequestsOK ==
    /\ requests \in [Clients -> RequestType]
    /\ \A c \in Clients : RequestOK(requests[c])

\* The inductive invariant.
IInv == RegistryOK /\ OneSessionPerToken /\ RequestsOK

-----------------------------------------------------------------------------
\* Only an admin may manage operators, and only these roles exist.
LEMMA AdminsManage ==
  /\ ROLES = {"admin", "operator", "viewer"}
  /\ \A role \in ROLES : "operator_admin" \in ROLE_PERMISSIONS[role] => role = "admin"
  BY DEF ROLES, ROLE_PERMISSIONS

\* The permission asked of a revocation.
LEMMA RevokePermission == PermissionFor["revoke"] = "operator_admin"
  BY DEF PermissionFor

\* A session that is over at one instant is over at every later one.
LEMMA OverStaysOver ==
  ASSUME NEW session \in SessionRecords, NEW early \in Nat, NEW late \in Nat,
         early <= late, ~Active(session, early)
  PROVE  ~Active(session, late)
  BY DEF Active, SessionRecords

LEMMA QuietOK ==
  ASSUME RegistryOK
  PROVE  Quiet \in RequestType /\ RequestOK(Quiet)
<1>1. Quiet \in RequestType
  BY DEF Quiet, RequestType, Stages, PermissionFor, NoSession, NoToken
<1>2. /\ Quiet.since = 0 /\ Quiet.session = 0 /\ Quiet.stale = {} /\ Quiet.pc = "idle"
  BY DEF Quiet, NoSession
<1> QED BY <1>1, <1>2 DEF RequestOK, RegistryOK

LEMMA InitHolds == Init => IInv
<1> SUFFICES ASSUME Init PROVE IInv
  OBVIOUS
<1>1. issued = Cardinality(Startup) /\ issued \in Nat /\ now = 0
  BY SessionAssumption, FS_CardinalityType DEF Init
<1>2. PICK order \in [1 .. issued -> Startup], ttl \in Ttls :
        /\ {order[id] : id \in 1 .. issued} = Startup
        /\ sessions = [id \in 1 .. issued |-> Session(order[id][2], order[id][1], ttl)]
  BY DEF Init
<1>3. DOMAIN sessions = 1 .. issued /\ Cardinality(DOMAIN sessions) = issued
  BY <1>1, <1>2, FS_Interval
<1>4. ASSUME NEW id \in DOMAIN sessions
      PROVE  /\ sessions[id] \in SessionRecords
             /\ sessions[id].token = order[id][1]
  <2>1. sessions[id] = Session(order[id][2], order[id][1], ttl)
    BY <1>2
  <2>2. order[id][2] \in ROLES /\ order[id][1] \in Tokens /\ ttl \in Nat
    BY <1>2, <1>3, RoutesAssumption, SessionAssumption
  <2> QED BY <2>1, <2>2 DEF Session, SessionRecords
<1>5. RegistryOK
  BY <1>1, <1>2, <1>3, <1>4, SessionAssumption DEF RegistryOK
<1>6. OneSessionPerToken
  <2>1. order \in Surjection(1 .. issued, Startup)
    BY <1>2 DEF Surjection
  <2>2. order \in Injection(1 .. issued, Startup)
    <3>1. IsFiniteSet(1 .. issued) /\ Cardinality(1 .. issued) = Cardinality(Startup)
      BY <1>1, FS_Interval
    <3> QED BY <2>1, <3>1, FS_SurjSameCardinalityImpliesInj, Zenon
  <2>3. \A id, other \in 1 .. issued : order[id] = order[other] => id = other
    BY <2>2 DEF Injection, IsInjective
  <2> QED BY <1>2, <1>3, <1>4, <2>3, RoutesAssumption DEF OneSessionPerToken
<1>7. RequestsOK
  BY <1>5, QuietOK DEF Init, RequestsOK
<1> QED BY <1>5, <1>6, <1>7 DEF IInv

-----------------------------------------------------------------------------
\* Time passes.
LEMMA TickHolds ==
  ASSUME IInv, Tick
  PROVE  IInv'
<1>1. now' = now + 1 /\ now' <= MaxTime /\ UNCHANGED <<sessions, issued, requests>>
  BY SessionAssumption DEF Tick, IInv, RegistryOK
<1>2. RegistryOK' /\ OneSessionPerToken'
  BY <1>1, SessionAssumption DEF IInv, RegistryOK, OneSessionPerToken
<1>3. ASSUME NEW c \in Clients
      PROVE  RequestOK(requests[c])'
  <2>1. RequestOK(requests[c]) /\ requests[c].since \in Nat /\ now \in Nat
    BY DEF IInv, RequestsOK, RequestType, RegistryOK
  <2> QED BY <1>1, <2>1 DEF RequestOK, Active
<1> QED BY <1>1, <1>2, <1>3 DEF IInv, RequestsOK

\* The sessions a registration drops, if any, are over.
LEMMA EvictedAreOver ==
  ASSUME NEW at, NEW id \in Evicted(at)
  PROVE  id \in DOMAIN sessions /\ ~Active(sessions[id], at)
  BY DEF Evicted, Oldest, ActiveIds

LEMMA RegisterHolds ==
  ASSUME IInv, NEW token \in Tokens, NEW role \in ROLES, NEW ttl \in Ttls,
         NEW at \in 0 .. now, Register(token, role, ttl, at)
  PROVE  IInv'
<1> DEFINE kept == DOMAIN sessions \ Evicted(at)
           id == issued + 1
<1>1. /\ issued' = id /\ UNCHANGED <<now, requests>>
      /\ issued \in Nat /\ issued < MaxIssued /\ MaxIssued \in Nat /\ MAX_OPERATOR_SESSIONS \in Nat
  BY SessionAssumption DEF Register, IInv, RegistryOK
<1>2. /\ DOMAIN sessions' = kept \cup {id}
      /\ sessions'[id] = Session(role, token, at + ttl)
      /\ \A other \in kept : other # id => sessions'[other] = sessions[other]
      /\ sessions' = [s \in DOMAIN sessions' |-> sessions'[s]]
  BY DEF Register
<1>3. kept \subseteq 1 .. issued /\ id \notin kept /\ id \notin DOMAIN sessions
  BY <1>1 DEF IInv, RegistryOK
<1>4. sessions'[id] \in SessionRecords /\ sessions'[id].token = token
  <2>1. at + ttl \in Nat
    BY SessionAssumption DEF IInv, RegistryOK
  <2> QED BY <1>2, <2>1 DEF Session, SessionRecords
<1>5. Cardinality(DOMAIN sessions') <= MAX_OPERATOR_SESSIONS
  <2>1. IsFiniteSet(kept)
    BY <1>1, <1>3, FS_Interval, FS_Subset
  <2>2. Cardinality(kept \cup {id}) = Cardinality(kept) + 1 /\ Cardinality(kept) \in Nat
    BY <1>3, <2>1, FS_AddElement, FS_CardinalityType
  <2>3. Cardinality(kept) < MAX_OPERATOR_SESSIONS
    BY DEF Register, HasRoom
  <2> QED BY <1>1, <1>2, <2>2, <2>3
<1>6. sessions' \in [DOMAIN sessions' -> SessionRecords]
  <2>1. \A s \in DOMAIN sessions' : sessions'[s] \in SessionRecords
    BY <1>2, <1>3, <1>4 DEF IInv, RegistryOK
  <2> QED BY <1>2, <2>1
<1>7. RegistryOK'
  <2>1. DOMAIN sessions' \subseteq 1 .. issued'
    BY <1>1, <1>2, <1>3
  <2> QED BY <1>1, <1>5, <1>6, <2>1 DEF IInv, RegistryOK
<1>8. OneSessionPerToken'
  <2>1. \A other \in DOMAIN sessions : sessions[other].token # token
    BY DEF Register, TokenConflict
  <2> QED BY <1>2, <1>3, <1>4, <2>1 DEF IInv, OneSessionPerToken
<1>9. ASSUME NEW c \in Clients
      PROVE  RequestOK(requests[c])'
  <2>1. RequestOK(requests[c]) /\ requests[c].session \in Nat
    BY DEF IInv, RequestsOK, RequestType
  <2>2. \A old \in 0 .. issued : old \in DOMAIN sessions' =>
          old \in DOMAIN sessions /\ sessions'[old] = sessions[old]
    BY <1>1, <1>2, <1>3
  <2>3. requests[c].session \in 0 .. issued /\ requests[c].stale \subseteq 0 .. issued
        /\ requests[c].stale \subseteq 1 .. issued
    BY <1>1, <2>1 DEF RequestOK
  <2> QED BY <1>1, <2>1, <2>2, <2>3 DEF RequestOK
<1> QED BY <1>1, <1>7, <1>8, <1>9 DEF IInv, RequestsOK

-----------------------------------------------------------------------------
\* A step of one handler that leaves the registry alone, and leaves a good
\* record behind, keeps the invariant.
LEMMA HandlerStep ==
  ASSUME IInv, NEW c \in Clients, NEW r \in RequestType, RequestOK(r),
         requests' = [requests EXCEPT ![c] = r], UNCHANGED <<now, sessions, issued>>
  PROVE  IInv'
<1>1. RegistryOK' /\ OneSessionPerToken'
  BY DEF IInv, RegistryOK, OneSessionPerToken
<1>2. /\ requests' \in [Clients -> RequestType]
      /\ requests'[c] = r
      /\ \A d \in Clients \ {c} : requests'[d] = requests[d]
  BY DEF IInv, RequestsOK
<1>3. \A d \in Clients : RequestOK(requests'[d])
  BY <1>2 DEF IInv, RequestsOK
<1>4. \A d \in Clients : RequestOK(requests[d])'
  BY <1>3 DEF RequestOK
<1> QED BY <1>1, <1>2, <1>4 DEF IInv, RequestsOK

\* What the headers or the body of a request fix: the sessions that are over.
LEMMA StaleNowOver ==
  ASSUME IInv
  PROVE  /\ StaleNow \in SUBSET (1 .. issued)
         /\ \A id \in StaleNow \cap DOMAIN sessions : ~Active(sessions[id], now)
  BY DEF StaleNow, ActiveIds

LEMMA SendHolds ==
  ASSUME IInv, NEW c \in Clients, NEW token \in Tokens, NEW route \in Routes,
         NEW target \in NoSession .. issued, Send(c, token, route, target)
  PROVE  IInv'
<1> DEFINE r == [pc |-> "headers", token |-> token, route |-> route,
                 target |-> target, since |-> now,
                 session |-> NoSession, stale |-> StaleNow]
<1>1. now \in Nat /\ issued \in Nat
  BY DEF IInv, RegistryOK
<1>2. StaleNow \in SUBSET (1 .. issued) /\ StaleNow \in SUBSET Nat
  BY <1>1, StaleNowOver
<1>3. r \in RequestType
  BY <1>1, <1>2, RoutesAssumption DEF RequestType, Stages, NoSession
<1>4. RequestOK(r)
  BY <1>1, <1>2, StaleNowOver DEF RequestOK, NoSession
<1> QED BY <1>3, <1>4, HandlerStep DEF Send

\* A request that goes back to nothing.
LEMMA QuietHolds ==
  ASSUME IInv, NEW c \in Clients, requests' = [requests EXCEPT ![c] = Quiet],
         UNCHANGED <<now, sessions, issued>>
  PROVE  IInv'
<1>1. Quiet \in RequestType /\ RequestOK(Quiet)
  BY QuietOK DEF IInv
<1> QED BY <1>1, HandlerStep

\* A check finds a session that is alive, so none that the request saw end, and
\* for a revocation an admin's.
LEMMA CheckFindsLive ==
  ASSUME IInv, NEW c \in Clients, NEW at \in requests[c].since .. now, NEW id \in DOMAIN sessions,
         Authorized(id, requests[c].token, PermissionFor[requests[c].route], at)
  PROVE  /\ id \notin requests[c].stale
         /\ requests[c].route = "revoke" => sessions[id].role = "admin"
         /\ \A s \in requests[c].stale \cap DOMAIN sessions : ~Active(sessions[s], at)
<1>1. /\ RequestOK(requests[c]) /\ requests[c].since \in Nat /\ now \in Nat /\ at \in Nat
      /\ requests[c].since <= at
  BY DEF IInv, RequestsOK, RequestType, RegistryOK
<1>2. \A s \in DOMAIN sessions : sessions[s] \in SessionRecords
  BY DEF IInv, RegistryOK
<1>3. \A s \in requests[c].stale \cap DOMAIN sessions : ~Active(sessions[s], at)
  BY <1>1, <1>2, OverStaysOver DEF RequestOK
<1>4. Active(sessions[id], at)
  BY DEF Authorized
<1>5. ASSUME requests[c].route = "revoke"
      PROVE  sessions[id].role = "admin"
  <2>1. "operator_admin" \in ROLE_PERMISSIONS[sessions[id].role]
    BY <1>5, RevokePermission DEF Authorized
  <2>2. sessions[id].role \in ROLES
    BY <1>2 DEF SessionRecords
  <2> QED BY <2>1, <2>2, AdminsManage
<1> QED BY <1>3, <1>4, <1>5

\* Both checks of a handler end with a record like this one.
LEMMA CheckedHolds ==
  ASSUME IInv, NEW c \in Clients, NEW at \in requests[c].since .. now, NEW id \in DOMAIN sessions,
         Authorized(id, requests[c].token, PermissionFor[requests[c].route], at),
         NEW stage \in Stages,
         requests' = [requests EXCEPT ![c].pc = stage, ![c].session = id, ![c].since = at],
         UNCHANGED <<now, sessions, issued>>
  PROVE  IInv'
<1> DEFINE r == [requests[c] EXCEPT !.pc = stage, !.session = id, !.since = at]
<1>1. requests[c] \in RequestType /\ RequestOK(requests[c])
  BY DEF IInv, RequestsOK
<1>2. at \in Nat /\ at <= now /\ id \in Nat /\ id <= issued
  BY <1>1 DEF IInv, RegistryOK, RequestType
<1>3. r \in RequestType
  BY <1>1, <1>2 DEF RequestType
<1>4. /\ r.pc = stage /\ r.session = id /\ r.since = at
      /\ r.stale = requests[c].stale /\ r.route = requests[c].route
  BY <1>1 DEF RequestType
<1>5. requests' = [requests EXCEPT ![c] = r]
  BY DEF IInv, RequestsOK
<1> HIDE DEF r
<1>6. RequestOK(r)
  BY <1>1, <1>2, <1>4, CheckFindsLive DEF RequestOK
<1> QED BY <1>3, <1>5, <1>6, HandlerStep

LEMMA AuthorizeHolds ==
  ASSUME IInv, NEW c \in Clients, Authorize(c)
  PROVE  IInv'
<1>1. AfterHeaders(requests[c].route) \in Stages
  BY DEF AfterHeaders, Stages
<1> QED BY <1>1, CheckedHolds DEF Authorize

LEMMA RecheckHolds ==
  ASSUME IInv, NEW c \in Clients, Recheck(c)
  PROVE  IInv'
<1>1. "cleared" \in Stages
  BY DEF Stages
<1> QED BY <1>1, CheckedHolds DEF Recheck

LEMMA BodyArrivesHolds ==
  ASSUME IInv, NEW c \in Clients, BodyArrives(c)
  PROVE  IInv'
<1> DEFINE r == [requests[c] EXCEPT !.pc = "received", !.since = now, !.stale = StaleNow]
<1>1. requests[c] \in RequestType /\ RequestOK(requests[c])
  BY DEF IInv, RequestsOK
<1>2. now \in Nat /\ StaleNow \in SUBSET Nat /\ StaleNow \subseteq 1 .. issued
  BY StaleNowOver DEF IInv, RegistryOK
<1>3. r \in RequestType
  BY <1>1, <1>2 DEF RequestType, Stages
<1>4. r.pc = "received" /\ r.session = requests[c].session /\ r.since = now /\ r.stale = StaleNow
  BY <1>1 DEF RequestType
<1>5. requests' = [requests EXCEPT ![c] = r]
  BY DEF BodyArrives, IInv, RequestsOK
<1> HIDE DEF r
<1>6. RequestOK(r)
  <2>1. \A id \in StaleNow \cap DOMAIN sessions : ~Active(sessions[id], now)
    BY StaleNowOver
  <2>2. r.session <= issued /\ r.since <= now /\ r.stale \subseteq 1 .. issued
    BY <1>1, <1>2, <1>4 DEF RequestOK
  <2>3. \A id \in r.stale \cap DOMAIN sessions : ~Active(sessions[id], r.since)
    BY <1>4, <2>1, Zenon
  <2>4. r.pc \notin {"cleared", "done"}
    BY <1>4
  <2> QED BY <2>2, <2>3, <2>4 DEF RequestOK
<1> QED BY <1>3, <1>5, <1>6, HandlerStep DEF BodyArrives

\* A request that was cleared has taken effect.
LEMMA DoneHolds ==
  ASSUME IInv, NEW c \in Clients, requests[c].pc = "cleared",
         requests' = [requests EXCEPT ![c].pc = "done"], UNCHANGED <<now, sessions, issued>>
  PROVE  IInv'
<1> DEFINE r == [requests[c] EXCEPT !.pc = "done"]
<1>1. requests[c] \in RequestType /\ RequestOK(requests[c])
  BY DEF IInv, RequestsOK
<1>2. r \in RequestType
  BY <1>1 DEF RequestType, Stages
<1>3. /\ r.pc = "done" /\ r.session = requests[c].session /\ r.since = requests[c].since
      /\ r.stale = requests[c].stale
  BY <1>1 DEF RequestType
<1>4. requests' = [requests EXCEPT ![c] = r]
  BY DEF IInv, RequestsOK
<1> HIDE DEF r
<1>5. RequestOK(r)
  BY <1>1, <1>3 DEF RequestOK
<1> QED BY <1>2, <1>4, <1>5, HandlerStep

-----------------------------------------------------------------------------
\* The session that revokes is retained, alive, and an admin.
LEMMA ActorIsAdmin ==
  ASSUME IInv, NEW c \in Clients, requests[c].pc = "cleared", requests[c].route = "revoke",
         NEW target, NEW at, RevokeApplies(requests[c].session, target, at)
  PROVE  /\ requests[c].session \in DOMAIN sessions
         /\ Active(sessions[requests[c].session], at)
         /\ sessions[requests[c].session].role = "admin"
<1>1. requests[c].session \in ActiveIds(at)
  BY DEF RevokeApplies, RevokeRefused, ActorIsActive
<1> QED BY <1>1 DEF ActiveIds, IInv, RequestsOK, RequestOK

LEMMA RevokeHolds ==
  ASSUME IInv, NEW c \in Clients, Revoke(c)
  PROVE  IInv'
<1> DEFINE actor  == requests[c].session
           target == requests[c].target
<1>1. requests[c].pc = "cleared" /\ UNCHANGED <<now, issued>>
  BY DEF Revoke
<1>2. PICK at \in requests[c].since .. now :
        \/ /\ requests' = [requests EXCEPT ![c] = Quiet]
           /\ UNCHANGED sessions
        \/ /\ requests' = [requests EXCEPT ![c].pc = "done"]
           /\ UNCHANGED sessions
        \/ /\ RevokeApplies(actor, target, at)
           /\ requests' = [requests EXCEPT ![c].pc = "done"]
           /\ sessions' = [sessions EXCEPT ![target].revoked = at]
  BY DEF Revoke
<1>3. CASE UNCHANGED sessions
  BY <1>1, <1>2, <1>3, QuietHolds, DoneHolds
<1>4. CASE /\ RevokeApplies(actor, target, at)
           /\ requests' = [requests EXCEPT ![c].pc = "done"]
           /\ sessions' = [sessions EXCEPT ![target].revoked = at]
  <2>1. at \in Nat
    BY DEF IInv, RegistryOK, RequestsOK, RequestType
  <2>2. target \in DOMAIN sessions
    BY <1>4 DEF RevokeApplies, RevokeRefused
  <2>3. \A id \in DOMAIN sessions : sessions[id] \in SessionRecords
    BY DEF IInv, RegistryOK
  <2>4. /\ DOMAIN sessions' = DOMAIN sessions
        /\ sessions' = [id \in DOMAIN sessions' |-> sessions'[id]]
        /\ \A id \in DOMAIN sessions \ {target} : sessions'[id] = sessions[id]
        /\ sessions'[target] = [sessions[target] EXCEPT !.revoked = at]
    BY <1>4, <2>2 DEF IInv, RegistryOK
  <2>5. /\ sessions'[target] \in SessionRecords
        /\ sessions'[target].token = sessions[target].token
        /\ sessions'[target].role = sessions[target].role
        /\ sessions'[target].revoked # NotRevoked
    BY <2>1, <2>2, <2>3, <2>4 DEF SessionRecords, NotRevoked
  <2>6. RegistryOK'
    BY <1>1, <2>3, <2>4, <2>5 DEF IInv, RegistryOK
  <2>7. OneSessionPerToken'
    <3>1. \A id \in DOMAIN sessions : sessions'[id].token = sessions[id].token
      BY <2>4, <2>5
    <3> QED BY <2>4, <3>1 DEF IInv, OneSessionPerToken
  <2>8. ASSUME NEW id \in DOMAIN sessions, NEW instant, ~Active(sessions[id], instant)
        PROVE  ~Active(sessions'[id], instant)
    BY <2>4, <2>5, <2>8 DEF Active
  <2>9. requests' \in [Clients -> RequestType]
    <3>1. [requests[c] EXCEPT !.pc = "done"] \in RequestType
      BY DEF IInv, RequestsOK, RequestType, Stages
    <3> QED BY <1>4, <3>1 DEF IInv, RequestsOK
  <2>10. ASSUME NEW d \in Clients
         PROVE  /\ requests'[d].since = requests[d].since
                /\ requests'[d].session = requests[d].session
                /\ requests'[d].stale = requests[d].stale
                /\ requests'[d].route = requests[d].route
                /\ requests'[d].pc = IF d = c THEN "done" ELSE requests[d].pc
    BY <1>4 DEF IInv, RequestsOK, RequestType
  <2>11. ASSUME NEW d \in Clients
         PROVE  RequestOK(requests[d])'
    <3>1. RequestOK(requests[d])
      BY DEF IInv, RequestsOK
    <3>2. \A id \in DOMAIN sessions : sessions'[id].role = sessions[id].role
      BY <2>4, <2>5
    <3> QED BY <1>1, <2>4, <2>8, <2>10, <3>1, <3>2 DEF RequestOK
  <2> QED BY <2>6, <2>7, <2>9, <2>11 DEF IInv, RequestsOK
<1> QED BY <1>2, <1>3, <1>4

-----------------------------------------------------------------------------
LEMMA NextHolds == IInv /\ [Next]_vars => IInv'
<1> SUFFICES ASSUME IInv, [Next]_vars PROVE IInv'
  OBVIOUS
<1>1. CASE Tick
  BY <1>1, TickHolds
<1>2. CASE \E token \in Tokens, role \in ROLES, ttl \in Ttls, at \in 0 .. now :
             /\ now - at <= MaxLag
             /\ Register(token, role, ttl, at)
  BY <1>2, RegisterHolds
<1>3. ASSUME NEW c \in Clients,
             \/ \E token \in Tokens, route \in Routes, target \in NoSession .. issued :
                  Send(c, token, route, target)
             \/ Authorize(c) \/ NotFound(c) \/ BodyArrives(c) \/ BodyFails(c)
             \/ Recheck(c) \/ Deny(c) \/ Dispatch(c) \/ Revoke(c)
      PROVE  IInv'
  <2>1. CASE \E token \in Tokens, route \in Routes, target \in NoSession .. issued :
               Send(c, token, route, target)
    BY <2>1, SendHolds
  <2>2. CASE NotFound(c) \/ BodyFails(c) \/ Deny(c)
    BY <2>2, QuietHolds DEF NotFound, BodyFails, Deny
  <2>3. CASE Dispatch(c)
    BY <2>3, DoneHolds DEF Dispatch
  <2> QED BY <1>3, <2>1, <2>2, <2>3, AuthorizeHolds, BodyArrivesHolds, RecheckHolds, RevokeHolds
<1>4. CASE UNCHANGED vars
  <2>1. RegistryOK' /\ OneSessionPerToken'
    BY <1>4 DEF vars, IInv, RegistryOK, OneSessionPerToken
  <2>2. RequestsOK'
    BY <1>4 DEF vars, IInv, RequestsOK, RequestOK
  <2> QED BY <2>1, <2>2 DEF IInv
<1> QED BY <1>1, <1>2, <1>3, <1>4 DEF Next

LEMMA Invariant == Spec => []IInv
  BY InitHolds, NextHolds, PTL DEF Spec

\* The registry of OperatorSessionRegistry is well formed and a token leads to
\* one session; and no request of do_GET or do_POST takes effect for a session
\* that was over when the request was complete.
THEOREM RegistryHolds == Spec => []RegistryInv
<1>1. IInv => RegistryTypeOK
  BY DEF IInv, RegistryOK, RequestsOK, RequestOK, RequestType, Stages, RegistryTypeOK
<1>2. IInv => OnlyLiveSessionsAct
  BY DEF IInv, RequestsOK, RequestOK, OnlyLiveSessionsAct
<1>3. IInv => RegistryInv
  BY <1>1, <1>2 DEF IInv, RegistryInv
<1> QED BY <1>3, Invariant, PTL

\* The revocation of one session, and of no other, by a handler.
LEMMA WhoRevokes ==
  ASSUME IInv, [Next]_vars,
         NEW id \in DOMAIN sessions, id \in DOMAIN sessions',
         sessions'[id].revoked # sessions[id].revoked
  PROVE  \E c \in Clients, at \in 0 .. now :
           /\ requests[c].pc = "cleared" /\ requests[c].route = "revoke"
           /\ requests[c].target = id
           /\ RevokeApplies(requests[c].session, id, at)
           /\ sessions' = [sessions EXCEPT ![id].revoked = at]
<1>1. CASE \E c \in Clients : Revoke(c)
  <2>1. PICK c \in Clients : Revoke(c)
    BY <1>1
  <2>2. PICK at \in requests[c].since .. now :
          /\ RevokeApplies(requests[c].session, requests[c].target, at)
          /\ sessions' = [sessions EXCEPT ![requests[c].target].revoked = at]
    BY <2>1 DEF Revoke
  <2>3. at \in 0 .. now
    BY DEF IInv, RequestsOK, RequestType, RegistryOK
  <2>4. requests[c].target = id
    BY <2>2 DEF IInv, RegistryOK
  <2> QED BY <2>1, <2>2, <2>3, <2>4 DEF Revoke
<1>2. CASE \E token \in Tokens, role \in ROLES, ttl \in Ttls, at \in 0 .. now :
             Register(token, role, ttl, at)
  <2>1. id # issued + 1
    BY DEF IInv, RegistryOK
  <2> QED BY <1>2, <2>1 DEF Register
<1>3. CASE UNCHANGED sessions
  BY <1>3
<1> QED
  BY <1>1, <1>2, <1>3
     DEF Next, vars, Tick, Send, Authorize, NotFound, BodyArrives, BodyFails, Recheck,
         Deny, Dispatch

LEMMA RevocationLeavesAdmin ==
  ASSUME IInv, [Next]_vars,
         NEW id \in DOMAIN sessions, id \in DOMAIN sessions',
         sessions'[id].revoked # sessions[id].revoked
  PROVE  \E admin \in DOMAIN sessions' :
           /\ sessions'[admin].role = "admin"
           /\ Active(sessions'[admin], sessions'[id].revoked)
<1>1. PICK c \in Clients, at \in 0 .. now :
        /\ requests[c].pc = "cleared" /\ requests[c].route = "revoke"
        /\ RevokeApplies(requests[c].session, id, at)
        /\ sessions' = [sessions EXCEPT ![id].revoked = at]
  BY WhoRevokes
<1> DEFINE actor == requests[c].session
<1>2. /\ actor \in DOMAIN sessions /\ Active(sessions[actor], at)
      /\ sessions[actor].role = "admin"
  BY <1>1, ActorIsAdmin
<1>3. /\ DOMAIN sessions' = DOMAIN sessions /\ sessions'[id].revoked = at
      /\ \A other \in DOMAIN sessions \ {id} : sessions'[other] = sessions[other]
  BY <1>1 DEF IInv, RegistryOK, SessionRecords
<1>4. CASE actor # id
  BY <1>2, <1>3, <1>4
<1>5. CASE actor = id
  <2>1. Cardinality(ActiveAdmins(at)) > 1
    <3>1. IsFiniteSet(DOMAIN sessions)
      <4>1. issued \in Int /\ DOMAIN sessions \in SUBSET (1 .. issued)
        BY DEF IInv, RegistryOK
      <4>2. IsFiniteSet(1 .. issued)
        BY <4>1, FS_Interval
      <4> QED BY <4>1, <4>2, FS_Subset
    <3>2. ActiveAdmins(at) \in SUBSET DOMAIN sessions
      BY DEF ActiveAdmins, ActiveIds
    <3>3. Cardinality(ActiveAdmins(at)) \in Nat
      BY <3>1, <3>2, FS_Subset, FS_CardinalityType
    <3> QED BY <1>1, <1>2, <1>5, <3>3 DEF RevokeApplies, RevokeRefused
  <2>2. PICK admin \in ActiveAdmins(at) : admin # id
    <3>1. ASSUME ActiveAdmins(at) \subseteq {id}
          PROVE  FALSE
      <4>1. IsFiniteSet({id}) /\ Cardinality({id}) = 1
        BY FS_Singleton
      <4>2. Cardinality(ActiveAdmins(at)) <= 1 /\ Cardinality(ActiveAdmins(at)) \in Nat
        BY <3>1, <4>1, FS_Subset, FS_CardinalityType
      <4> QED BY <2>1, <4>2
    <3> QED BY <3>1
  <2> QED BY <1>3, <2>2 DEF ActiveAdmins, ActiveIds
<1> QED BY <1>4, <1>5

\* However the requests of admins against each other and against themselves
\* interleave, revoke leaves an admin that is active at that instant.
THEOREM AdminRemainsHolds == Spec => AdminRemains
<1>1. IInv /\ [Next]_vars =>
        [\A id \in DOMAIN sessions \cap DOMAIN sessions' :
           sessions'[id].revoked # sessions[id].revoked
             => \E admin \in DOMAIN sessions' :
                    /\ sessions'[admin].role = "admin"
                    /\ Active(sessions'[admin], sessions'[id].revoked)]_vars
  BY RevocationLeavesAdmin
<1> QED BY <1>1, Invariant, PTL DEF Spec, AdminRemains

\* A session that is over stays over, and one that is active is never dropped:
\* register forgets inactive sessions only, and revoke is never undone.
THEOREM SessionsEndOnceHolds == Spec => SessionsEndOnce
<1>1. ASSUME IInv, [Next]_vars, NEW id \in DOMAIN sessions
      PROVE  IF id \in DOMAIN sessions'
               THEN /\ [sessions'[id] EXCEPT !.revoked = NotRevoked]
                         = [sessions[id] EXCEPT !.revoked = NotRevoked]
                    /\ sessions[id].revoked # NotRevoked
                         => sessions'[id].revoked = sessions[id].revoked
               ELSE id \notin ActiveIds(now)
  <2>1. sessions[id] \in SessionRecords
    BY <1>1 DEF IInv, RegistryOK
  <2>2. CASE \E c \in Clients : Revoke(c)
    <3>1. PICK c \in Clients : Revoke(c)
      BY <2>2
    <3>2. CASE UNCHANGED sessions
      BY <3>2
    <3>3. CASE \E at \in requests[c].since .. now :
                 /\ RevokeApplies(requests[c].session, requests[c].target, at)
                 /\ sessions' = [sessions EXCEPT ![requests[c].target].revoked = at]
      <4>1. PICK at \in requests[c].since .. now :
              /\ RevokeApplies(requests[c].session, requests[c].target, at)
              /\ sessions' = [sessions EXCEPT ![requests[c].target].revoked = at]
        BY <3>3
      <4>2. sessions[requests[c].target].revoked = NotRevoked
        BY <4>1 DEF RevokeApplies
      <4>3. id \in DOMAIN sessions'
        BY <4>1
      <4>4. CASE id # requests[c].target
        BY <1>1, <4>1, <4>3, <4>4
      <4>5. CASE id = requests[c].target
        <5>1. sessions'[id] = [sessions[id] EXCEPT !.revoked = at]
          BY <1>1, <4>1, <4>5
        <5>2. [sessions'[id] EXCEPT !.revoked = NotRevoked]
                = [sessions[id] EXCEPT !.revoked = NotRevoked]
          BY <2>1, <5>1 DEF SessionRecords
        <5> QED BY <4>2, <4>3, <4>5, <5>2
      <4> QED BY <4>4, <4>5
    <3> QED BY <3>1, <3>2, <3>3 DEF Revoke
  <2>3. ASSUME NEW token \in Tokens, NEW role \in ROLES, NEW ttl \in Ttls,
               NEW at \in 0 .. now, Register(token, role, ttl, at)
        PROVE  IF id \in DOMAIN sessions' THEN sessions'[id] = sessions[id]
                                          ELSE id \notin ActiveIds(now)
    <3>1. id # issued + 1
      BY <1>1 DEF IInv, RegistryOK
    <3>2. id \in DOMAIN sessions' => sessions'[id] = sessions[id]
      BY <2>3, <3>1 DEF Register
    <3>3. id \notin DOMAIN sessions' => ~Active(sessions[id], at)
      BY <2>3, EvictedAreOver DEF Register
    <3>4. at \in Nat /\ now \in Nat /\ at <= now
      BY <1>1 DEF IInv, RegistryOK
    <3> QED BY <2>1, <3>2, <3>3, <3>4, OverStaysOver DEF ActiveIds
  <2>4. CASE UNCHANGED sessions
    BY <2>4
  <2> QED
    BY <1>1, <2>2, <2>3, <2>4
       DEF Next, vars, Tick, Send, Authorize, NotFound, BodyArrives, BodyFails, Recheck,
           Deny, Dispatch
<1>2. IInv /\ [Next]_vars =>
        [\A id \in DOMAIN sessions :
          IF id \in DOMAIN sessions'
            THEN /\ [sessions'[id] EXCEPT !.revoked = NotRevoked]
                      = [sessions[id] EXCEPT !.revoked = NotRevoked]
                 /\ sessions[id].revoked # NotRevoked
                      => sessions'[id].revoked = sessions[id].revoked
            ELSE id \notin ActiveIds(now)]_vars
  BY <1>1, Zenon
<1> QED BY <1>2, Invariant, PTL DEF Spec, SessionsEndOnce
=============================================================================
