---------------------------- MODULE AccountAdmin ----------------------------
(***************************************************************************)
(* Administration of users, roles and permissions, and impersonation       *)
(* (internal/features/users, roles and impersonation, internal/access).    *)
(*                                                                         *)
(* A request is resolved to a principal when it arrives, checked by its    *)
(* service against rows read without locks, and carried out later by one   *)
(* transaction that locks every row it reads, so a transaction is one      *)
(* step.  Names, passwords and the audit log are left out, and so is the   *)
(* profile update, which changes nothing else.                             *)
(***************************************************************************)
EXTENDS Integers, FiniteSets

CONSTANTS
    Users,       \* ids of users; the least is the first administrator
    Roles,       \* slugs of roles, among them the system roles "admin" and "user"
    Keys,        \* permission keys: "users" and "roles" stand for those groups
    KeySets,     \* selections of keys that are saved for a role
    Sessions,    \* browser sessions
    Requests,    \* requests under way
    MaxTokens    \* bound: tokens a session is given

ASSUME AccountAssumption ==
    /\ {"admin", "user"} \subseteq Roles /\ "none" \notin Roles
    /\ Keys = {"users", "roles"} /\ KeySets \subseteq SUBSET Keys
    /\ Users \subseteq Nat \ {0} /\ Users # {}
    /\ MaxTokens \in Nat

VARIABLES
    users,       \* users[u]: role and is_active; role "none" before there is a row
    roles,       \* slugs of the rows of roles
    grants,      \* role_permissions
    sessions,    \* sessions[s]: user, impersonated user, token
    reqs         \* reqs[r]: principal and operation of a request

accountVars == <<users, roles, grants, sessions, reqs>>

Nobody == 0
System == {"admin", "user"}
NoUser == [role |-> "none", active |-> FALSE]
NoSession == [user |-> Nobody, imp |-> Nobody, token |-> 0]
NoOp == [kind |-> "none", user |-> Nobody, role |-> "none", keys |-> {}]
NoRequest == [pc |-> "none", session |-> Nobody, token |-> 0, actor |-> Nobody,
              effective |-> Nobody, role |-> "none", can |-> {}, op |-> NoOp]

First == CHOOSE u \in Users : \A v \in Users : u <= v

\* access.Bootstrap and "app admin create".
AccountInit ==
    /\ users = [u \in Users |-> IF u = First THEN [role |-> "admin", active |-> TRUE] ELSE NoUser]
    /\ roles = System
    /\ grants = [g \in Roles |-> {}]
    /\ sessions = [s \in Sessions |-> NoSession]
    /\ reqs = [r \in Requests |-> NoRequest]

Exists(u) == users[u].role # "none"
IsAdminRole(role) == role = "admin"

-----------------------------------------------------------------------------
(* Requests: browserauth.ResolveSession, the routes and the services *)

\* BrowserAuth has the login; here a session appears for an active user.
CreateSession(s, u) ==
    /\ sessions[s] = NoSession
    /\ users[u].active
    /\ sessions' = [sessions EXCEPT ![s] = [NoSession EXCEPT !.user = u]]
    /\ UNCHANGED <<users, roles, grants, reqs>>

\* The session ends: logout, or its expiry.
EndSession(s) ==
    /\ sessions[s] # NoSession
    /\ sessions' = [sessions EXCEPT ![s] = NoSession]
    /\ UNCHANGED <<users, roles, grants, reqs>>

\* Actor and target of an impersonation are examined anew at every request.
usable(s) ==
    /\ users[sessions[s].user].active
    /\ sessions[s].imp # Nobody =>
           /\ IsAdminRole(users[sessions[s].user].role)
           /\ users[sessions[s].imp].active
           /\ ~IsAdminRole(users[sessions[s].imp].role)

Principal(s) ==
    LET effective == IF sessions[s].imp = Nobody THEN sessions[s].user ELSE sessions[s].imp
        role == users[effective].role
    IN  [NoRequest EXCEPT !.pc = "resolved", !.session = s, !.token = sessions[s].token,
            !.actor = sessions[s].user, !.effective = effective, !.role = role,
            !.can = IF IsAdminRole(role) THEN Keys ELSE grants[role]]

ResolveSession(r, s) ==
    /\ reqs[r] = NoRequest
    /\ sessions[s] # NoSession
    /\ \/ /\ usable(s)
          /\ reqs' = [reqs EXCEPT ![r] = Principal(s)]
          /\ UNCHANGED sessions
       \/ /\ ~usable(s)
          /\ sessions' = [sessions EXCEPT ![s] = NoSession]
          /\ UNCHANGED reqs
    /\ UNCHANGED <<users, roles, grants>>

IsEffectiveAdmin(r) == IsAdminRole(reqs[r].role)
impersonating(r) == reqs[r].effective # reqs[r].actor

UserOps ==
    [kind : {"create", "assign"}, user : Users, role : Roles, keys : {{}}]
        \cup [kind : {"activate", "deactivate", "password", "start"}, user : Users,
              role : {"none"}, keys : {{}}]
RoleOps ==
    [kind : {"newrole", "delrole"}, user : {Nobody}, role : Roles, keys : {{}}]
        \cup [kind : {"grant"}, user : {Nobody}, role : Roles, keys : KeySets]
StopOp == [NoOp EXCEPT !.kind = "stop"]

\* The route's permission.  Impersonation has none and asks for the role of
\* the actor instead.
routed(r, op) ==
    CASE op.kind = "start" -> IsAdminRole(reqs[r].role) /\ ~impersonating(r)
      [] op.kind = "stop" -> impersonating(r)
      [] op \in RoleOps -> "roles" \in reqs[r].can
      [] OTHER -> "users" \in reqs[r].can

\* An administrator is touched, or made, by administrators only.
adminMutation(op) ==
    (op.user \in Users /\ IsAdminRole(users[op.user].role)) \/ IsAdminRole(op.role)

\* The checks that the user service makes before the transaction and the
\* repository makes again in it.
userAllowed(r, op) ==
    /\ op.kind = "create" \/ Exists(op.user)
    /\ op.kind \in {"create", "assign"} => op.role \in roles
    /\ adminMutation(op) => IsEffectiveAdmin(r)
    /\ op.kind = "assign" => IsEffectiveAdmin(r) \/ reqs[r].effective # op.user
    /\ op.kind = "deactivate" => reqs[r].effective # op.user

\* The role service; selfRole is the role the requester is taken to have.
roleAllowed(r, op, selfRole) ==
    CASE op.kind = "newrole" -> op.role \notin roles
      [] op.kind = "delrole" ->
             /\ op.role \in roles \ System
             /\ ~\E u \in Users : users[u].role = op.role
      [] op.kind = "grant" ->
             /\ op.role \in roles /\ ~IsAdminRole(op.role)
             /\ IsEffectiveAdmin(r) \/ selfRole # op.role

startAllowed(target, actor) ==
    /\ target # actor
    /\ users[target].active
    /\ ~IsAdminRole(users[target].role)

serviceAllows(r, op) ==
    CASE op \in RoleOps -> roleAllowed(r, op, reqs[r].role)
      [] op.kind = "start" -> startAllowed(op.user, reqs[r].actor)
      [] op.kind = "stop" -> TRUE
      [] OTHER -> userAllowed(r, op)

\* What the transaction is given: the securityctx.Requester, or for an
\* impersonation the token of the session.
Handed(r, op) ==
    LET given == [reqs[r] EXCEPT !.pc = "checked", !.op = op, !.can = {}, !.actor = Nobody]
    IN  IF op.kind \in {"start", "stop"} THEN given
        ELSE [given EXCEPT !.session = Nobody, !.token = 0]

Serve(r, op) ==
    /\ reqs[r].pc = "resolved"
    /\ routed(r, op)
    /\ serviceAllows(r, op)
    /\ reqs' = [reqs EXCEPT ![r] = Handed(r, op)]
    /\ UNCHANGED <<users, roles, grants, sessions>>

\* The request is refused, or the browser goes away.
Drop(r) ==
    /\ reqs[r].pc # "none"
    /\ reqs' = [reqs EXCEPT ![r] = NoRequest]
    /\ UNCHANGED <<users, roles, grants, sessions>>

-----------------------------------------------------------------------------
(* Transactions *)

Commit(r, kind) == reqs[r].pc = "checked" /\ reqs[r].op.kind = kind
Answer(r) == reqs' = [reqs EXCEPT ![r] = NoRequest]

\* Mutant: every administrator is counted, also the inactive ones.
lockAdministrators == {u \in Users : users[u].role = "admin"}

lockActiveAdministrators == {u \in Users : users[u].role = "admin" /\ users[u].active}

\* A change that takes an active administrator away needs another one.
keepsAdministrator(u) ==
    u \in lockActiveAdministrators => Cardinality(lockActiveAdministrators) > 1

Revoke(gone) == [s \in Sessions |-> IF s \in gone THEN NoSession ELSE sessions[s]]

CreateUser(r) ==
    LET op == reqs[r].op
    IN  /\ Commit(r, "create")
        /\ \/ /\ ~Exists(op.user) /\ op.role \in roles
              /\ users' = [users EXCEPT ![op.user] = [role |-> op.role, active |-> TRUE]]
           \/ (Exists(op.user) \/ op.role \notin roles) /\ UNCHANGED users
        /\ Answer(r)
        /\ UNCHANGED <<roles, grants, sessions>>

\* The registration page; "app admin create" makes an administrator.
Register(u, role) ==
    /\ ~Exists(u)
    /\ role \in System
    /\ users' = [users EXCEPT ![u] = [role |-> role, active |-> TRUE]]
    /\ UNCHANGED <<roles, grants, sessions, reqs>>

\* A promotion ends the sessions that impersonate the new administrator.
AssignUserRole(r) ==
    LET op == reqs[r].op
        allowed == /\ userAllowed(r, op)
                   /\ ~IsAdminRole(op.role) => keepsAdministrator(op.user)
        impersonated == {s \in Sessions : IsAdminRole(op.role) /\ sessions[s].imp = op.user}
    IN  /\ Commit(r, "assign")
        /\ \/ /\ allowed
              /\ users' = [users EXCEPT ![op.user].role = op.role]
              /\ sessions' = Revoke(impersonated)
           \/ ~allowed /\ UNCHANGED <<users, sessions>>
        /\ Answer(r)
        /\ UNCHANGED <<roles, grants>>

SetUserActive(r) ==
    LET op == reqs[r].op
        active == op.kind = "activate"
        allowed == userAllowed(r, op) /\ (~active => keepsAdministrator(op.user))
        theirs == {s \in Sessions : ~active /\ op.user \in {sessions[s].user, sessions[s].imp}}
    IN  /\ Commit(r, "activate") \/ Commit(r, "deactivate")
        /\ \/ /\ allowed
              /\ users' = [users EXCEPT ![op.user].active = active]
              /\ sessions' = Revoke(theirs)
           \/ ~allowed /\ UNCHANGED <<users, sessions>>
        /\ Answer(r)
        /\ UNCHANGED <<roles, grants>>

\* Sessions that impersonate the user are not the user's and stay.
ResetUserPassword(r) ==
    LET op == reqs[r].op
        own == {s \in Sessions : sessions[s].user = op.user}
    IN  /\ Commit(r, "password")
        /\ sessions' = IF userAllowed(r, op) THEN Revoke(own) ELSE sessions
        /\ Answer(r)
        /\ UNCHANGED <<users, roles, grants>>

CreateRole(r) ==
    /\ Commit(r, "newrole")
    /\ roles' = roles \cup {reqs[r].op.role}
    /\ Answer(r)
    /\ UNCHANGED <<users, grants, sessions>>

\* The foreign keys refuse what the count did not see, and drop the grants.
DeleteRole(r) ==
    LET op == reqs[r].op
        allowed == roleAllowed(r, op, "none")
    IN  /\ Commit(r, "delrole")
        /\ roles' = IF allowed THEN roles \ {op.role} ELSE roles
        /\ grants' = IF allowed THEN [grants EXCEPT ![op.role] = {}] ELSE grants
        /\ Answer(r)
        /\ UNCHANGED <<users, sessions>>

\* Mutant: the role the requester had on arrival is believed.
currentRoleOnArrival(r) == reqs[r].role

\* SELECT role_id FROM users ... FOR UPDATE: the role the requester has now.
currentRole(r) == users[reqs[r].effective].role

ReplacePermissions(r) ==
    LET op == reqs[r].op
    IN  /\ Commit(r, "grant")
        /\ grants' = IF roleAllowed(r, op, currentRole(r))
                     THEN [grants EXCEPT ![op.role] = op.keys] ELSE grants
        /\ Answer(r)
        /\ UNCHANGED <<users, roles, sessions>>

\* The session is found by the token of the request, and its token changed.
holds(r) ==
    LET s == reqs[r].session
    IN  sessions[s] # NoSession /\ sessions[s].token = reqs[r].token

Rotated(s, imp) ==
    [sessions EXCEPT ![s].imp = imp, ![s].token = @ + 1]

targetAllowed(target, actor) == startAllowed(target, actor)

\* An actor that is no active administrator any more loses the session.
Start(r) ==
    LET s == reqs[r].session
        op == reqs[r].op
        actor == sessions[s].user
    IN  /\ Commit(r, "start")
        /\ sessions[s].token < MaxTokens
        /\ sessions' =
               IF ~holds(r) \/ sessions[s].imp # Nobody THEN sessions
               ELSE IF ~users[actor].active \/ ~IsAdminRole(users[actor].role)
               THEN [sessions EXCEPT ![s] = NoSession]
               ELSE IF targetAllowed(op.user, actor) THEN Rotated(s, op.user) ELSE sessions
        /\ Answer(r)
        /\ UNCHANGED <<users, roles, grants>>

Stop(r) ==
    LET s == reqs[r].session
    IN  /\ Commit(r, "stop")
        /\ sessions[s].token < MaxTokens
        /\ sessions' = IF ~holds(r) \/ sessions[s].imp = Nobody THEN sessions
                       ELSE IF usable(s) THEN Rotated(s, Nobody)
                       ELSE [sessions EXCEPT ![s] = NoSession]
        /\ Answer(r)
        /\ UNCHANGED <<users, roles, grants>>

-----------------------------------------------------------------------------
AccountNext ==
    \/ \E s \in Sessions, u \in Users : CreateSession(s, u)
    \/ \E s \in Sessions : EndSession(s)
    \/ \E u \in Users, role \in System : Register(u, role)
    \/ \E r \in Requests, s \in Sessions : ResolveSession(r, s)
    \/ \E r \in Requests :
           \/ \E op \in UserOps \cup RoleOps \cup {StopOp} : Serve(r, op)
           \/ Drop(r)
           \/ CreateUser(r) \/ AssignUserRole(r) \/ SetUserActive(r) \/ ResetUserPassword(r)
           \/ CreateRole(r) \/ DeleteRole(r) \/ ReplacePermissions(r)
           \/ Start(r) \/ Stop(r)

AccountSpec == AccountInit /\ [][AccountNext]_accountVars

-----------------------------------------------------------------------------
(* Properties *)

AccountTypeOK ==
    /\ users \in [Users -> [role : Roles \cup {"none"}, active : BOOLEAN]]
    /\ roles \subseteq Roles
    /\ grants \in [Roles -> SUBSET Keys]
    /\ sessions \in [Sessions -> [user : Users \cup {Nobody}, imp : Users \cup {Nobody},
                                  token : 0 .. MaxTokens]]
    /\ \A r \in Requests : reqs[r].pc \in {"none", "resolved", "checked"}

\* However requests of several administrators interleave, also of ones that
\* lost the role meanwhile, an active administrator remains.
ActiveAdministratorRemains == \E u \in Users : users[u].active /\ users[u].role = "admin"

\* Nobody impersonates an administrator, or a user who was deactivated.
NoAdminImpersonated ==
    \A s \in Sessions : sessions[s].imp # Nobody =>
        /\ users[sessions[s].imp].active
        /\ ~IsAdminRole(users[sessions[s].imp].role)
        /\ sessions[s].imp # sessions[s].user

\* Every user has a role that exists, and the system roles always do.
RolesExist ==
    /\ System \subseteq roles
    /\ \A u \in Users : Exists(u) => users[u].role \in roles

\* users, roles and impersonation repositories: what holds of accounts in every
\* state, whichever administrators act at once.
AccountSafety ==
    AccountTypeOK /\ ActiveAdministratorRemains /\ NoAdminImpersonated /\ RolesExist

\* The request of a user who was no administrator when it arrived never
\* changes the role that user has at the time, nor the permissions of that
\* role.
NoSelfEscalation ==
    [][\A r \in Requests :
           LET me == reqs[r].effective
           IN  reqs[r].pc = "checked" /\ ~IsEffectiveAdmin(r) /\ reqs'[r] = NoRequest =>
                   /\ users'[me].role = users[me].role
                   /\ grants'[users[me].role] = grants[users[me].role]]_accountVars
=============================================================================
