------------------------ MODULE AdministrationProofs ------------------------
(***************************************************************************)
(* Who may do what: AccountSafety and NoSelfEscalation for any users,      *)
(* roles, sessions and requests, ProfileSafety for any profiles, secrets,  *)
(* sources, runs and requests, LoginSafety and CodesUsedOnce for any       *)
(* users, sessions, challenges, secrets and requests.                      *)
(***************************************************************************)
EXTENDS AccountAdmin, AuthProfiles, BrowserAuth, FiniteSetTheorems, TLAPS

(***************************************************************************)
(* Accounts.  A request acts on what it read when it arrived, so the       *)
(* invariant says what of that is still true when it commits: its user     *)
(* still exists, and the operation is one the routes know.  The rest is    *)
(* what the transactions read again under their locks.                     *)
(***************************************************************************)
Ops == UserOps \cup RoleOps \cup {StopOp, NoOp}

RequestRecords ==
    [pc : {"none", "resolved", "checked"}, session : Sessions \cup {Nobody},
     token : 0 .. MaxTokens, actor : Users \cup {Nobody}, effective : Users \cup {Nobody},
     role : Roles \cup {"none"}, can : SUBSET Keys, op : Ops]

RequestType == reqs \in [Requests -> RequestRecords]

\* Only users with a row are active; a session has a user.
UsersOK == \A u \in Users : users[u].active => Exists(u)
SessionsOK == \A s \in Sessions : sessions[s] # NoSession => sessions[s].user \in Users

\* The user a request acts for has a row, and an impersonation its session.
RequestsOK ==
    \A r \in Requests :
        /\ reqs[r].pc # "none" => reqs[r].effective \in Users /\ Exists(reqs[r].effective)
        /\ reqs[r].pc = "resolved" => reqs[r].session \in Sessions
        /\ reqs[r].pc = "checked" /\ reqs[r].op.kind \in {"start", "stop"} =>
               reqs[r].session \in Sessions
        /\ reqs[r].pc = "checked" => reqs[r].op # NoOp

AccountInv ==
    /\ AccountSafety
    /\ RequestType /\ UsersOK /\ SessionsOK /\ RequestsOK

-----------------------------------------------------------------------------
(* Operations *)

LEMMA OpType ==
    ASSUME NEW op \in Ops
    PROVE  /\ op.kind \in {"create", "assign", "activate", "deactivate", "password", "start"}
                  => op.user \in Users
           /\ op.kind \in {"create", "assign", "newrole", "delrole", "grant"}
                  => op.role \in Roles
           /\ op.kind = "grant" => op.keys \in SUBSET Keys
           /\ op.kind = "none" => op = NoOp
<1>1. CASE op \in UserOps
    BY <1>1 DEF UserOps
<1>2. CASE op \in RoleOps
    BY <1>2, AccountAssumption DEF RoleOps
<1>3. CASE op \in {StopOp, NoOp}
    BY <1>3 DEF StopOp, NoOp
<1> QED BY <1>1, <1>2, <1>3 DEF Ops

\* If an active administrator is taken away, another one is left.
LEMMA AnotherAdministrator ==
    ASSUME NEW u, u \in lockActiveAdministrators, keepsAdministrator(u)
    PROVE  \E v \in Users : v # u /\ users[v].active /\ users[v].role = "admin"
<1>1. Cardinality({u}) = 1
    BY FS_Singleton
<1>2. lockActiveAdministrators # {u}
    BY <1>1 DEF keepsAdministrator
<1> QED BY <1>2 DEF lockActiveAdministrators

LEMMA FirstUser == First \in Users
<1>1. Users \subseteq Nat /\ Users # {}
    BY AccountAssumption
<1>2. PICK m \in Users : \A n \in Users : ~(n < m)
    <2>1. PICK m \in Users : \A n \in Users : ~(<<n, m>> \in OpToRel(<, Nat))
        BY <1>1, NatLessThanWellFounded, WFMin
    <2> QED BY <1>1, <2>1 DEF OpToRel
<1>3. \A n \in Users : m <= n
    BY <1>2, AccountAssumption
<1> QED BY <1>3 DEF First

-----------------------------------------------------------------------------
(* What a step preserves that leaves a table alone, or changes it in one way *)

RowsOK ==
    /\ users \in [Users -> [role : Roles \cup {"none"}, active : BOOLEAN]]
    /\ roles \subseteq Roles
    /\ grants \in [Roles -> SUBSET Keys]
    /\ ActiveAdministratorRemains /\ RolesExist /\ UsersOK

SessionRecords == [user : Users \cup {Nobody}, imp : Users \cup {Nobody}, token : 0 .. MaxTokens]

SessionRowsOK ==
    sessions \in [Sessions -> SessionRecords] /\ SessionsOK /\ NoAdminImpersonated

LEMMA Parts ==
    /\ AccountInv <=> RowsOK /\ SessionRowsOK /\ RequestType /\ RequestsOK
    /\ AccountInv' <=> RowsOK' /\ SessionRowsOK' /\ RequestType' /\ RequestsOK'
<1>1. RequestType => \A r \in Requests : reqs[r].pc \in {"none", "resolved", "checked"}
    BY DEF RequestType, RequestRecords
<1>2. RequestType' => \A r \in Requests : reqs'[r].pc \in {"none", "resolved", "checked"}
    BY DEF RequestType, RequestRecords
<1> QED BY <1>1, <1>2 DEF AccountInv, AccountSafety, AccountTypeOK, RowsOK, SessionRowsOK, SessionRecords

LEMMA RowsStay ==
    ASSUME RowsOK, UNCHANGED <<users, roles, grants>> PROVE RowsOK'
BY DEF RowsOK, ActiveAdministratorRemains, RolesExist, UsersOK, Exists

LEMMA SessionsStay ==
    ASSUME SessionRowsOK, UNCHANGED <<users, sessions>> PROVE SessionRowsOK'
BY DEF SessionRowsOK, SessionsOK, NoAdminImpersonated, IsAdminRole

\* Users keep their rows; a request is answered, or goes on as it was.
UsersKept == \A u \in Users : Exists(u) => Exists(u)'

LEMMA AnsweredRequests ==
    ASSUME RequestType, RequestsOK, UsersKept, NEW r \in Requests, Answer(r)
    PROVE  RequestType' /\ RequestsOK'
<1>1. NoRequest \in RequestRecords /\ NoRequest.pc = "none"
    BY AccountAssumption DEF NoRequest, RequestRecords, Ops, Nobody
<1>2. RequestType'
    BY <1>1 DEF RequestType, Answer
<1>3. \A q \in Requests : reqs'[q] \in {reqs[q], NoRequest}
    BY DEF RequestType, Answer
<1>4. RequestsOK'
    BY <1>1, <1>3 DEF RequestsOK, UsersKept
<1> QED BY <1>2, <1>4

LEMMA RequestsStay ==
    ASSUME RequestType, RequestsOK, UsersKept, UNCHANGED reqs
    PROVE  RequestType' /\ RequestsOK'
BY DEF RequestType, RequestsOK, UsersKept

\* The sessions in "gone" end.
LEMMA Revoked ==
    ASSUME SessionRowsOK, NEW gone, sessions' = Revoke(gone),
           \A s \in Sessions \ gone : sessions[s].imp # Nobody =>
               /\ users'[sessions[s].imp].active
               /\ users'[sessions[s].imp].role # "admin"
    PROVE  SessionRowsOK'
<1>1. NoSession \in SessionRecords
    BY AccountAssumption DEF NoSession, SessionRecords
<1>2. \A s \in Sessions : sessions'[s] = IF s \in gone THEN NoSession ELSE sessions[s]
    BY DEF Revoke
<1>3. sessions' \in [Sessions -> SessionRecords]
    BY <1>1 DEF Revoke, SessionRowsOK
<1>4. SessionsOK'
    BY <1>2 DEF SessionRowsOK, SessionsOK, NoSession
<1>5. NoAdminImpersonated'
    BY <1>2 DEF SessionRowsOK, NoAdminImpersonated, IsAdminRole, NoSession
<1> QED BY <1>3, <1>4, <1>5 DEF SessionRowsOK

\* The row of one user changes; the active administrators are still some.
LEMMA UserRow ==
    ASSUME RowsOK, NEW u \in Users, NEW role \in roles, NEW active \in BOOLEAN,
           users' = [users EXCEPT ![u] = [role |-> role, active |-> active]],
           UNCHANGED <<roles, grants>>,
           u \in lockActiveAdministrators /\ ~(role = "admin" /\ active) => keepsAdministrator(u)
    PROVE  RowsOK' /\ UsersKept
<1>1. role \in Roles /\ role # "none"
    BY AccountAssumption DEF RowsOK
<1>2. \A v \in Users : users'[v] = IF v = u THEN [role |-> role, active |-> active] ELSE users[v]
    BY DEF RowsOK
<1>3. users' \in [Users -> [role : Roles \cup {"none"}, active : BOOLEAN]]
    BY <1>1 DEF RowsOK
<1>4. ActiveAdministratorRemains'
    <2>1. PICK v \in Users : users[v].active /\ users[v].role = "admin"
        BY DEF RowsOK, ActiveAdministratorRemains
    <2>2. CASE v # u
        BY <1>2, <2>1, <2>2 DEF ActiveAdministratorRemains
    <2>3. CASE v = u /\ role = "admin" /\ active
        BY <1>2, <2>3 DEF ActiveAdministratorRemains
    <2>4. CASE v = u /\ ~(role = "admin" /\ active)
        <3>1. u \in lockActiveAdministrators
            BY <2>1, <2>4 DEF lockActiveAdministrators
        <3> QED BY <1>2, <2>4, <3>1, AnotherAdministrator DEF ActiveAdministratorRemains
    <2> QED BY <2>2, <2>3, <2>4
<1>5. RolesExist' /\ UsersOK' /\ UsersKept
    BY <1>1, <1>2 DEF RowsOK, RolesExist, UsersOK, UsersKept, Exists
<1> QED BY <1>3, <1>4, <1>5 DEF RowsOK

-----------------------------------------------------------------------------
(* Sessions and requests *)

LEMMA CreateSessionStep ==
    ASSUME AccountInv, NEW s \in Sessions, NEW u \in Users, CreateSession(s, u) PROVE AccountInv'
<1>1. RowsOK /\ SessionRowsOK /\ RequestType /\ RequestsOK
    BY Parts
<1> DEFINE new == [NoSession EXCEPT !.user = u]
<1>2. new \in SessionRecords /\ new.user = u /\ new.imp = Nobody
    BY AccountAssumption DEF NoSession, SessionRecords
<1>3. \A t \in Sessions : sessions'[t] = IF t = s THEN new ELSE sessions[t]
    BY <1>1 DEF CreateSession, SessionRowsOK
<1>4. SessionRowsOK'
    <2>1. sessions' \in [Sessions -> SessionRecords]
        BY <1>1, <1>2 DEF CreateSession, SessionRowsOK
    <2> HIDE DEF new
    <2> QED BY <1>1, <1>2, <1>3, <2>1 DEF SessionRowsOK, SessionsOK, NoAdminImpersonated,
               CreateSession, IsAdminRole
<1>5. RowsOK' /\ UsersKept
    BY <1>1, RowsStay DEF CreateSession, UsersKept, Exists
<1> QED BY <1>1, <1>4, <1>5, RequestsStay, Parts DEF CreateSession

\* A session ends, which nobody minds.
LEMMA SessionEnds ==
    ASSUME SessionRowsOK, NEW s \in Sessions, sessions' = [sessions EXCEPT ![s] = NoSession],
           UNCHANGED users
    PROVE  SessionRowsOK'
<1>1. sessions' = Revoke({s})
    BY DEF SessionRowsOK, Revoke
<1> QED BY <1>1, Revoked DEF SessionRowsOK, NoAdminImpersonated, IsAdminRole

LEMMA EndSessionStep ==
    ASSUME AccountInv, NEW s \in Sessions, EndSession(s) PROVE AccountInv'
<1>1. RowsOK /\ SessionRowsOK /\ RequestType /\ RequestsOK
    BY Parts
<1>2. SessionRowsOK'
    BY <1>1, SessionEnds DEF EndSession
<1>3. RowsOK' /\ UsersKept
    BY <1>1, RowsStay DEF EndSession, UsersKept, Exists
<1> QED BY <1>1, <1>2, <1>3, RequestsStay, Parts DEF EndSession

\* The principal of a usable session has a row.
LEMMA PrincipalOK ==
    ASSUME RowsOK, SessionRowsOK, NEW s \in Sessions, sessions[s] # NoSession, usable(s)
    PROVE  /\ Principal(s) \in RequestRecords
           /\ Principal(s).pc = "resolved" /\ Principal(s).session = s
           /\ Principal(s).effective \in Users /\ Exists(Principal(s).effective)
<1> DEFINE e == IF sessions[s].imp = Nobody THEN sessions[s].user ELSE sessions[s].imp
           can == IF IsAdminRole(users[e].role) THEN Keys ELSE grants[users[e].role]
<1>1. sessions[s] \in SessionRecords /\ sessions[s].user \in Users
    BY DEF SessionRowsOK, SessionsOK
<1>2. e \in Users /\ users[e].active
    BY <1>1 DEF usable, SessionRecords
<1>3. Exists(e) /\ users[e].role \in Roles
    BY <1>2 DEF RowsOK, UsersOK, RolesExist
<1>4. can \in SUBSET Keys
    BY <1>3 DEF RowsOK
<1>5. Principal(s) = [NoRequest EXCEPT !.pc = "resolved", !.session = s,
            !.token = sessions[s].token, !.actor = sessions[s].user, !.effective = e,
            !.role = users[e].role, !.can = can]
    BY DEF Principal
<1> HIDE DEF e, can
<1>6. NoOp \in Ops
    BY DEF Ops
<1> QED BY <1>1, <1>2, <1>3, <1>4, <1>5, <1>6 DEF NoRequest, RequestRecords, SessionRecords

LEMMA ResolveSessionStep ==
    ASSUME AccountInv, NEW r \in Requests, NEW s \in Sessions, ResolveSession(r, s) PROVE AccountInv'
<1>1. RowsOK /\ SessionRowsOK /\ RequestType /\ RequestsOK
    BY Parts
<1>2. RowsOK' /\ UsersKept
    BY <1>1, RowsStay DEF ResolveSession, UsersKept, Exists
<1>3. CASE usable(s)
    <2>1. /\ reqs' = [reqs EXCEPT ![r] = Principal(s)]
          /\ UNCHANGED <<users, sessions>> /\ sessions[s] # NoSession
        BY <1>3 DEF ResolveSession
    <2>2. /\ Principal(s) \in RequestRecords
          /\ Principal(s).pc = "resolved" /\ Principal(s).session = s
          /\ Principal(s).effective \in Users /\ Exists(Principal(s).effective)
        BY <1>1, <1>3, <2>1, PrincipalOK
    <2>3. RequestType'
        BY <1>1, <2>1, <2>2 DEF RequestType
    <2>4. \A q \in Requests : reqs'[q] = IF q = r THEN Principal(s) ELSE reqs[q]
        BY <1>1, <2>1 DEF RequestType
    <2>5. RequestsOK'
        BY <1>1, <1>2, <2>2, <2>4 DEF RequestsOK, UsersKept
    <2> QED BY <1>1, <1>2, <2>1, <2>3, <2>5, SessionsStay, Parts
<1>4. CASE ~usable(s)
    <2>1. SessionRowsOK'
        BY <1>1, <1>4, SessionEnds DEF ResolveSession
    <2> QED BY <1>1, <1>2, <1>4, <2>1, RequestsStay, Parts DEF ResolveSession
<1> QED BY <1>3, <1>4

LEMMA ServeStep ==
    ASSUME AccountInv, NEW r \in Requests, NEW op \in UserOps \cup RoleOps \cup {StopOp}, Serve(r, op)
    PROVE  AccountInv'
<1>1. RowsOK /\ SessionRowsOK /\ RequestType /\ RequestsOK
    BY Parts
<1>2. RowsOK' /\ UsersKept
    BY <1>1, RowsStay DEF Serve, UsersKept, Exists
<1> DEFINE given == Handed(r, op)
<1>3. reqs[r] \in RequestRecords /\ reqs[r].pc = "resolved"
    BY <1>1 DEF RequestType, Serve
<1>4. op \in Ops /\ op # NoOp
    BY DEF Ops, NoOp, UserOps, RoleOps, StopOp
<1>5. 0 \in 0 .. MaxTokens
    BY AccountAssumption
<1>6. /\ given \in RequestRecords /\ given.pc = "checked" /\ given.op = op
      /\ given.effective = reqs[r].effective
      /\ op.kind \in {"start", "stop"} => given.session = reqs[r].session
    BY <1>3, <1>4, <1>5 DEF Handed, RequestRecords
<1>7. reqs' = [reqs EXCEPT ![r] = given] /\ UNCHANGED <<users, sessions>>
    BY DEF Serve
<1> HIDE DEF given
<1>8. RequestType'
    BY <1>1, <1>6, <1>7 DEF RequestType
<1>9. \A q \in Requests : reqs'[q] = IF q = r THEN given ELSE reqs[q]
    BY <1>1, <1>7 DEF RequestType
<1>10. RequestsOK'
    BY <1>1, <1>2, <1>3, <1>4, <1>6, <1>9 DEF RequestsOK, UsersKept
<1> QED BY <1>1, <1>2, <1>7, <1>8, <1>10, SessionsStay, Parts

LEMMA DropStep ==
    ASSUME AccountInv, NEW r \in Requests, Drop(r) PROVE AccountInv'
<1>1. RowsOK /\ SessionRowsOK /\ RequestType /\ RequestsOK
    BY Parts
<1>2. RowsOK' /\ UsersKept
    BY <1>1, RowsStay DEF Drop, UsersKept, Exists
<1> QED BY <1>1, <1>2, AnsweredRequests, SessionsStay, Parts DEF Drop, Answer

-----------------------------------------------------------------------------
(* Transactions on users *)

\* A request that commits has an operation of the routes.
LEMMA Committing ==
    ASSUME RequestType, RequestsOK, NEW r \in Requests, reqs[r].pc = "checked"
    PROVE  /\ reqs[r] \in RequestRecords /\ reqs[r].op \in Ops /\ reqs[r].op # NoOp
           /\ reqs[r].effective \in Users /\ Exists(reqs[r].effective)
BY DEF RequestType, RequestRecords, RequestsOK

\* A user appears who was not there: no session is concerned.
LEMMA UserAppears ==
    ASSUME RowsOK, SessionRowsOK, NEW u \in Users, NEW role \in roles, ~Exists(u),
           users' = [users EXCEPT ![u] = [role |-> role, active |-> TRUE]],
           UNCHANGED <<roles, grants, sessions>>
    PROVE  RowsOK' /\ SessionRowsOK' /\ UsersKept
<1>1. u \notin lockActiveAdministrators
    BY DEF lockActiveAdministrators, Exists
<1>2. RowsOK' /\ UsersKept
    BY <1>1, UserRow
<1>3. \A v \in Users : v # u => users'[v] = users[v]
    BY DEF RowsOK
<1>4. sessions' = Revoke({})
    BY DEF SessionRowsOK, Revoke
<1>5. \A s \in Sessions : sessions[s].imp # Nobody =>
          sessions[s].imp \in Users /\ users[sessions[s].imp].active
    BY DEF SessionRowsOK, SessionRecords, NoAdminImpersonated
<1>6. \A s \in Sessions : sessions[s].imp # Nobody => sessions[s].imp # u
    BY <1>5 DEF RowsOK, UsersOK
<1>7. SessionRowsOK'
    BY <1>3, <1>4, <1>5, <1>6, Revoked DEF SessionRowsOK, NoAdminImpersonated, IsAdminRole
<1> QED BY <1>2, <1>7

LEMMA CreateUserStep ==
    ASSUME AccountInv, NEW r \in Requests, CreateUser(r) PROVE AccountInv'
<1>1. RowsOK /\ SessionRowsOK /\ RequestType /\ RequestsOK
    BY Parts
<1> DEFINE op == reqs[r].op
<1>2. op \in Ops /\ op.kind = "create"
    BY <1>1, Committing DEF CreateUser, Commit
<1>3. op.user \in Users
    BY <1>2, OpType
<1>4. CASE ~Exists(op.user) /\ op.role \in roles
    <2>1. /\ users' = [users EXCEPT ![op.user] = [role |-> op.role, active |-> TRUE]]
          /\ UNCHANGED <<roles, grants, sessions>>
        BY <1>4 DEF CreateUser
    <2>2. RowsOK' /\ SessionRowsOK' /\ UsersKept
        BY <1>1, <1>3, <1>4, <2>1, UserAppears
    <2> QED BY <1>1, <2>2, AnsweredRequests, Parts DEF CreateUser
<1>5. CASE ~(~Exists(op.user) /\ op.role \in roles)
    <2>1. UNCHANGED <<users, roles, grants, sessions>>
        BY <1>5 DEF CreateUser
    <2>2. UsersKept
        BY <2>1 DEF UsersKept, Exists
    <2> QED BY <1>1, <2>1, <2>2, RowsStay, SessionsStay, AnsweredRequests, Parts DEF CreateUser
<1> QED BY <1>4, <1>5

LEMMA RegisterStep ==
    ASSUME AccountInv, NEW u \in Users, NEW role \in System, Register(u, role) PROVE AccountInv'
<1>1. RowsOK /\ SessionRowsOK /\ RequestType /\ RequestsOK
    BY Parts
<1>2. role \in roles
    BY <1>1 DEF RowsOK, RolesExist
<1>3. RowsOK' /\ SessionRowsOK' /\ UsersKept
    BY <1>1, <1>2, UserAppears DEF Register
<1> QED BY <1>1, <1>3, RequestsStay, Parts DEF Register

LEMMA AssignUserRoleStep ==
    ASSUME AccountInv, NEW r \in Requests, AssignUserRole(r) PROVE AccountInv'
<1>1. RowsOK /\ SessionRowsOK /\ RequestType /\ RequestsOK
    BY Parts
<1> DEFINE op == reqs[r].op
           allowed == /\ userAllowed(r, op)
                      /\ ~IsAdminRole(op.role) => keepsAdministrator(op.user)
           gone == {s \in Sessions : IsAdminRole(op.role) /\ sessions[s].imp = op.user}
<1>2. op \in Ops /\ op.kind = "assign"
    BY <1>1, Committing DEF AssignUserRole, Commit
<1>3. op.user \in Users
    BY <1>2, OpType
<1>4. CASE allowed
    <2>1. Exists(op.user) /\ op.role \in roles
        BY <1>2, <1>4 DEF userAllowed
    <2>2. /\ users' = [users EXCEPT ![op.user].role = op.role]
          /\ sessions' = Revoke(gone) /\ UNCHANGED <<roles, grants>>
        BY <1>4 DEF AssignUserRole
    <2>3. users[op.user].active \in BOOLEAN
        BY <1>1, <1>3 DEF RowsOK
    <2>4. users' = [users EXCEPT ![op.user] =
                        [role |-> op.role, active |-> users[op.user].active]]
        <3>1. users[op.user] \in [role : Roles \cup {"none"}, active : BOOLEAN]
            BY <1>1, <1>3 DEF RowsOK
        <3>2. [users[op.user] EXCEPT !.role = op.role] =
                  [role |-> op.role, active |-> users[op.user].active]
            BY <3>1
        <3> QED BY <2>2, <3>2
    <2>5. op.user \in lockActiveAdministrators => users[op.user].active
        BY DEF lockActiveAdministrators
    <2>6. RowsOK' /\ UsersKept
        BY <1>1, <1>3, <1>4, <2>1, <2>2, <2>3, <2>4, <2>5, UserRow DEF IsAdminRole
    <2>7. \A v \in Users : /\ users'[v].active = users[v].active
                           /\ users'[v].role = IF v = op.user THEN op.role ELSE users[v].role
        BY <1>1, <2>4 DEF RowsOK
    <2>8. \A s \in Sessions : sessions[s].imp # Nobody =>
              /\ sessions[s].imp \in Users
              /\ users[sessions[s].imp].active /\ users[sessions[s].imp].role # "admin"
        BY <1>1 DEF SessionRowsOK, SessionRecords, NoAdminImpersonated, IsAdminRole
    <2>9. \A s \in Sessions \ gone : sessions[s].imp # Nobody =>
              /\ users'[sessions[s].imp].active
              /\ users'[sessions[s].imp].role # "admin"
        BY <2>7, <2>8 DEF IsAdminRole
    <2> HIDE DEF gone
    <2>10. SessionRowsOK'
        BY <1>1, <2>2, <2>9, Revoked
    <2> QED BY <1>1, <2>6, <2>10, AnsweredRequests, Parts DEF AssignUserRole
<1>5. CASE ~allowed
    <2>1. UNCHANGED <<users, roles, grants, sessions>>
        BY <1>5 DEF AssignUserRole
    <2>2. UsersKept
        BY <2>1 DEF UsersKept, Exists
    <2> QED BY <1>1, <2>1, <2>2, RowsStay, SessionsStay, AnsweredRequests, Parts DEF AssignUserRole
<1> QED BY <1>4, <1>5

LEMMA SetUserActiveStep ==
    ASSUME AccountInv, NEW r \in Requests, SetUserActive(r) PROVE AccountInv'
<1>1. RowsOK /\ SessionRowsOK /\ RequestType /\ RequestsOK
    BY Parts
<1> DEFINE op == reqs[r].op
           active == op.kind = "activate"
           allowed == userAllowed(r, op) /\ (~active => keepsAdministrator(op.user))
           gone == {s \in Sessions : ~active /\ op.user \in {sessions[s].user, sessions[s].imp}}
<1>2. op \in Ops /\ op.kind \in {"activate", "deactivate"}
    BY <1>1, Committing DEF SetUserActive, Commit
<1>3. op.user \in Users
    BY <1>2, OpType
<1>4. CASE allowed
    <2>1. Exists(op.user) /\ users[op.user].role \in roles
        BY <1>1, <1>2, <1>3, <1>4 DEF userAllowed, RowsOK, RolesExist
    <2>2. /\ users' = [users EXCEPT ![op.user].active = active]
          /\ sessions' = Revoke(gone) /\ UNCHANGED <<roles, grants>>
        BY <1>4 DEF SetUserActive
    <2>3. active \in BOOLEAN
        OBVIOUS
    <2>4. users' = [users EXCEPT ![op.user] =
                        [role |-> users[op.user].role, active |-> active]]
        <3>1. users[op.user] \in [role : Roles \cup {"none"}, active : BOOLEAN]
            BY <1>1, <1>3 DEF RowsOK
        <3>2. [users[op.user] EXCEPT !.active = active] =
                  [role |-> users[op.user].role, active |-> active]
            BY <3>1
        <3> QED BY <2>2, <3>2
    <2>5. op.user \in lockActiveAdministrators => users[op.user].role = "admin"
        BY DEF lockActiveAdministrators
    <2>6. RowsOK' /\ UsersKept
        BY <1>1, <1>3, <1>4, <2>1, <2>2, <2>3, <2>4, <2>5, UserRow
    <2>7. \A v \in Users : /\ users'[v].role = users[v].role
                           /\ users'[v].active = IF v = op.user THEN active ELSE users[v].active
        BY <1>1, <2>4 DEF RowsOK
    <2>8. \A s \in Sessions : sessions[s].imp # Nobody =>
              /\ sessions[s].imp \in Users
              /\ users[sessions[s].imp].active /\ users[sessions[s].imp].role # "admin"
        BY <1>1 DEF SessionRowsOK, SessionRecords, NoAdminImpersonated, IsAdminRole
    <2>9. \A s \in Sessions \ gone : sessions[s].imp # Nobody =>
              /\ users'[sessions[s].imp].active
              /\ users'[sessions[s].imp].role # "admin"
        BY <2>7, <2>8
    <2> HIDE DEF gone
    <2>10. SessionRowsOK'
        BY <1>1, <2>2, <2>9, Revoked
    <2> QED BY <1>1, <2>6, <2>10, AnsweredRequests, Parts DEF SetUserActive
<1>5. CASE ~allowed
    <2>1. UNCHANGED <<users, roles, grants, sessions>>
        BY <1>5 DEF SetUserActive
    <2>2. UsersKept
        BY <2>1 DEF UsersKept, Exists
    <2> QED BY <1>1, <2>1, <2>2, RowsStay, SessionsStay, AnsweredRequests, Parts DEF SetUserActive
<1> QED BY <1>4, <1>5

LEMMA ResetUserPasswordStep ==
    ASSUME AccountInv, NEW r \in Requests, ResetUserPassword(r) PROVE AccountInv'
<1>1. RowsOK /\ SessionRowsOK /\ RequestType /\ RequestsOK
    BY Parts
<1>2. RowsOK' /\ UsersKept
    BY <1>1, RowsStay DEF ResetUserPassword, UsersKept, Exists
<1> DEFINE own == {s \in Sessions : sessions[s].user = reqs[r].op.user}
<1>3. (sessions' = Revoke(own) \/ UNCHANGED sessions) /\ UNCHANGED users
    BY DEF ResetUserPassword
<1>4. \A s \in Sessions : sessions[s].imp # Nobody =>
          /\ users'[sessions[s].imp].active
          /\ users'[sessions[s].imp].role # "admin"
    BY <1>1, <1>3 DEF SessionRowsOK, NoAdminImpersonated, IsAdminRole
<1> HIDE DEF own
<1>5. SessionRowsOK'
    BY <1>1, <1>3, <1>4, Revoked, SessionsStay
<1> QED BY <1>1, <1>2, <1>5, AnsweredRequests, Parts DEF ResetUserPassword

-----------------------------------------------------------------------------
(* Transactions on roles *)

LEMMA CreateRoleStep ==
    ASSUME AccountInv, NEW r \in Requests, CreateRole(r) PROVE AccountInv'
<1>1. RowsOK /\ SessionRowsOK /\ RequestType /\ RequestsOK
    BY Parts
<1>2. reqs[r].op \in Ops /\ reqs[r].op.kind = "newrole"
    BY <1>1, Committing DEF CreateRole, Commit
<1>3. reqs[r].op.role \in Roles
    BY <1>2, OpType
<1>4. UsersKept /\ RowsOK'
    BY <1>1, <1>3 DEF CreateRole, RowsOK, ActiveAdministratorRemains, RolesExist, UsersOK,
                      UsersKept, Exists
<1> QED BY <1>1, <1>4, SessionsStay, AnsweredRequests, Parts DEF CreateRole

LEMMA DeleteRoleStep ==
    ASSUME AccountInv, NEW r \in Requests, DeleteRole(r) PROVE AccountInv'
<1>1. RowsOK /\ SessionRowsOK /\ RequestType /\ RequestsOK
    BY Parts
<1> DEFINE op == reqs[r].op
<1>2. op \in Ops /\ op.kind = "delrole"
    BY <1>1, Committing DEF DeleteRole, Commit
<1>3. roleAllowed(r, op, "none") =>
          op.role \in roles \ System /\ ~\E u \in Users : users[u].role = op.role
    BY <1>2 DEF roleAllowed
<1>4. /\ roles' = roles \/ (roleAllowed(r, op, "none") /\ roles' = roles \ {op.role})
      /\ grants' = grants \/ grants' = [grants EXCEPT ![op.role] = {}]
      /\ UNCHANGED <<users, sessions>>
    BY DEF DeleteRole
<1>5. roles' \subseteq Roles /\ grants' \in [Roles -> SUBSET Keys]
    BY <1>1, <1>4 DEF RowsOK
<1>6. RolesExist'
    BY <1>1, <1>3, <1>4 DEF RowsOK, RolesExist, Exists
<1>7. UsersKept /\ RowsOK'
    BY <1>1, <1>4, <1>5, <1>6 DEF RowsOK, ActiveAdministratorRemains, UsersOK, UsersKept, Exists
<1> QED BY <1>1, <1>4, <1>7, SessionsStay, AnsweredRequests, Parts DEF DeleteRole

LEMMA ReplacePermissionsStep ==
    ASSUME AccountInv, NEW r \in Requests, ReplacePermissions(r) PROVE AccountInv'
<1>1. RowsOK /\ SessionRowsOK /\ RequestType /\ RequestsOK
    BY Parts
<1> DEFINE op == reqs[r].op
<1>2. op \in Ops /\ op.kind = "grant"
    BY <1>1, Committing DEF ReplacePermissions, Commit
<1>3. op.keys \in SUBSET Keys
    BY <1>2, OpType
<1>4. /\ grants' = grants \/ grants' = [grants EXCEPT ![op.role] = op.keys]
      /\ UNCHANGED <<users, roles, sessions>>
    BY DEF ReplacePermissions
<1>5. grants' \in [Roles -> SUBSET Keys]
    BY <1>1, <1>3, <1>4 DEF RowsOK
<1>6. UsersKept /\ RowsOK'
    BY <1>1, <1>4, <1>5 DEF RowsOK, ActiveAdministratorRemains, RolesExist, UsersOK,
                            UsersKept, Exists
<1> QED BY <1>1, <1>4, <1>6, SessionsStay, AnsweredRequests, Parts DEF ReplacePermissions

-----------------------------------------------------------------------------
(* Impersonation *)

\* A session takes a new token; nobody, or a user who may be, is impersonated.
LEMMA TokenRotates ==
    ASSUME SessionRowsOK, NEW s \in Sessions, NEW imp \in Users \cup {Nobody},
           sessions[s] # NoSession, sessions[s].token < MaxTokens,
           sessions' = Rotated(s, imp), UNCHANGED users,
           imp # Nobody => startAllowed(imp, sessions[s].user)
    PROVE  SessionRowsOK'
<1> DEFINE new == [user |-> sessions[s].user, imp |-> imp, token |-> sessions[s].token + 1]
<1>1. sessions[s] \in SessionRecords /\ sessions[s].user \in Users
    BY DEF SessionRowsOK, SessionsOK
<1>2. new \in SessionRecords
    BY <1>1, AccountAssumption DEF SessionRecords
<1>3. sessions' = [sessions EXCEPT ![s] = new]
    <2>1. \A x \in SessionRecords : [[x EXCEPT !.imp = imp] EXCEPT !.token = @ + 1] =
              [user |-> x.user, imp |-> imp, token |-> x.token + 1]
        <3> SUFFICES ASSUME NEW x \in SessionRecords
                     PROVE  [[x EXCEPT !.imp = imp] EXCEPT !.token = @ + 1] =
                                [user |-> x.user, imp |-> imp, token |-> x.token + 1]
            OBVIOUS
        <3>1. [x EXCEPT !.imp = imp] = [user |-> x.user, imp |-> imp, token |-> x.token]
            BY DEF SessionRecords
        <3>2. [[user |-> x.user, imp |-> imp, token |-> x.token] EXCEPT !.token = @ + 1] =
                  [user |-> x.user, imp |-> imp, token |-> x.token + 1]
            OBVIOUS
        <3> QED BY <3>1, <3>2
    <2>2. \A t \in Sessions : Rotated(s, imp)[t] = IF t = s THEN new ELSE sessions[t]
        BY <1>1, <2>1 DEF Rotated, SessionRowsOK
    <2>3. Rotated(s, imp) = [t \in Sessions |-> Rotated(s, imp)[t]]
        BY DEF Rotated, SessionRowsOK
    <2> HIDE DEF new
    <2> QED BY <2>2, <2>3 DEF SessionRowsOK
<1>4. \A t \in Sessions : sessions'[t] = IF t = s THEN new ELSE sessions[t]
    BY <1>3 DEF SessionRowsOK
<1>5. sessions' \in [Sessions -> SessionRecords]
    BY <1>2, <1>3 DEF SessionRowsOK
<1>6. SessionsOK' /\ NoAdminImpersonated'
    BY <1>1, <1>4 DEF SessionRowsOK, SessionsOK, NoAdminImpersonated, IsAdminRole, startAllowed
<1> QED BY <1>5, <1>6 DEF SessionRowsOK

LEMMA StartStep ==
    ASSUME AccountInv, NEW r \in Requests, Start(r) PROVE AccountInv'
<1>1. RowsOK /\ SessionRowsOK /\ RequestType /\ RequestsOK
    BY Parts
<1>2. RowsOK' /\ UsersKept
    BY <1>1, RowsStay DEF Start, UsersKept, Exists
<1> DEFINE s == reqs[r].session
           op == reqs[r].op
           actor == sessions[s].user
<1>3. op \in Ops /\ op.kind = "start" /\ s \in Sessions
    BY <1>1, Committing DEF Start, Commit, RequestsOK
<1>4. op.user \in Users
    BY <1>3, OpType
<1>5. \/ UNCHANGED sessions
      \/ sessions' = [sessions EXCEPT ![s] = NoSession]
      \/ /\ sessions[s] # NoSession /\ startAllowed(op.user, actor)
         /\ sessions' = Rotated(s, op.user)
    BY DEF Start, holds, targetAllowed
<1>6. sessions[s].token < MaxTokens /\ UNCHANGED users
    BY DEF Start
<1>7. SessionRowsOK'
    BY <1>1, <1>3, <1>4, <1>5, <1>6, SessionsStay, SessionEnds, TokenRotates
<1> QED BY <1>1, <1>2, <1>7, AnsweredRequests, Parts DEF Start

LEMMA StopStep ==
    ASSUME AccountInv, NEW r \in Requests, Stop(r) PROVE AccountInv'
<1>1. RowsOK /\ SessionRowsOK /\ RequestType /\ RequestsOK
    BY Parts
<1>2. RowsOK' /\ UsersKept
    BY <1>1, RowsStay DEF Stop, UsersKept, Exists
<1> DEFINE s == reqs[r].session
<1>3. s \in Sessions
    BY <1>1 DEF Stop, Commit, RequestsOK
<1>4. \/ UNCHANGED sessions
      \/ sessions' = [sessions EXCEPT ![s] = NoSession]
      \/ sessions[s] # NoSession /\ sessions' = Rotated(s, Nobody)
    BY DEF Stop, holds
<1>5. sessions[s].token < MaxTokens /\ UNCHANGED users
    BY DEF Stop
<1>6. SessionRowsOK'
    BY <1>1, <1>3, <1>4, <1>5, SessionsStay, SessionEnds, TokenRotates
<1> QED BY <1>1, <1>2, <1>6, AnsweredRequests, Parts DEF Stop

-----------------------------------------------------------------------------
(* The specification *)

LEMMA AccountInitHolds == AccountInit => AccountInv
<1> SUFFICES ASSUME AccountInit PROVE AccountInv
    OBVIOUS
<1>1. First \in Users
    BY FirstUser
<1>2. RowsOK
    BY <1>1, AccountAssumption DEF AccountInit, RowsOK, ActiveAdministratorRemains, RolesExist,
        UsersOK, Exists, NoUser, System
<1>3. SessionRowsOK
    BY AccountAssumption DEF AccountInit, SessionRowsOK, SessionRecords, SessionsOK,
        NoAdminImpersonated, NoSession
<1>4. NoRequest \in RequestRecords /\ NoRequest.pc = "none"
    BY AccountAssumption DEF NoRequest, RequestRecords, Ops, Nobody
<1>5. RequestType /\ RequestsOK
    BY <1>4 DEF AccountInit, RequestType, RequestsOK
<1> QED BY <1>2, <1>3, <1>5, Parts

LEMMA AccountNextPreserves == AccountInv /\ [AccountNext]_accountVars => AccountInv'
<1> SUFFICES ASSUME AccountInv, [AccountNext]_accountVars PROVE AccountInv'
    OBVIOUS
<1>1. CASE UNCHANGED accountVars
    <2>1. RowsOK /\ SessionRowsOK /\ RequestType /\ RequestsOK
        BY Parts
    <2>2. UsersKept
        BY <1>1 DEF accountVars, UsersKept, Exists
    <2> QED BY <1>1, <2>1, <2>2, RowsStay, SessionsStay, RequestsStay, Parts DEF accountVars
<1>2. CASE \E s \in Sessions, u \in Users : CreateSession(s, u)
    BY <1>2, CreateSessionStep
<1>3. CASE \E s \in Sessions : EndSession(s)
    BY <1>3, EndSessionStep
<1>4. CASE \E u \in Users, role \in System : Register(u, role)
    BY <1>4, RegisterStep
<1>5. CASE \E r \in Requests, s \in Sessions : ResolveSession(r, s)
    BY <1>5, ResolveSessionStep
<1>6. CASE \E r \in Requests : \E op \in UserOps \cup RoleOps \cup {StopOp} : Serve(r, op)
    BY <1>6, ServeStep
<1>7. CASE \E r \in Requests : Drop(r)
    BY <1>7, DropStep
<1>8. CASE \E r \in Requests : CreateUser(r) \/ AssignUserRole(r)
    BY <1>8, CreateUserStep, AssignUserRoleStep
<1>9. CASE \E r \in Requests : SetUserActive(r) \/ ResetUserPassword(r)
    BY <1>9, SetUserActiveStep, ResetUserPasswordStep
<1>10. CASE \E r \in Requests : CreateRole(r) \/ DeleteRole(r) \/ ReplacePermissions(r)
    BY <1>10, CreateRoleStep, DeleteRoleStep, ReplacePermissionsStep
<1>11. CASE \E r \in Requests : Start(r) \/ Stop(r)
    BY <1>11, StartStep, StopStep
<1> QED BY <1>1, <1>2, <1>3, <1>4, <1>5, <1>6, <1>7, <1>8, <1>9, <1>10, <1>11 DEF AccountNext

LEMMA Invariance == AccountSpec => []AccountInv
<1>1. AccountInit => AccountInv
    BY AccountInitHolds
<1>2. AccountInv /\ [AccountNext]_accountVars => AccountInv'
    BY AccountNextPreserves
<1> QED BY <1>1, <1>2, PTL DEF AccountSpec

\* users.Repository, roles.Repository and impersonation.Repository: for any
\* number of users, sessions and requests under way, an active administrator
\* remains, nobody impersonates an administrator or a deactivated user, and
\* every user has a role that exists.
THEOREM AccountSafetyHolds == AccountSpec => []AccountSafety
<1>1. AccountInv => AccountSafety
    BY DEF AccountInv
<1> QED BY <1>1, Invariance, PTL

-----------------------------------------------------------------------------
(* No self-escalation *)

\* What the request of r leaves alone: its user's role and the keys of that role.
LeavesAlone(r) ==
    LET me == reqs[r].effective
    IN  /\ users'[me].role = users[me].role
        /\ grants'[users[me].role] = grants[users[me].role]

LEMMA OnlyOneAnswered ==
    ASSUME RequestType, NEW r \in Requests, Answer(r),
           NEW q \in Requests, reqs[q].pc = "checked", reqs'[q] = NoRequest
    PROVE  q = r
<1>1. q # r => reqs'[q] = reqs[q]
    BY DEF RequestType, Answer
<1> QED BY <1>1 DEF NoRequest

LEMMA UserTransactionsLeave ==
    ASSUME AccountInv, NEW r \in Requests, reqs[r].pc = "checked", ~IsEffectiveAdmin(r),
           CreateUser(r) \/ AssignUserRole(r) \/ SetUserActive(r)
    PROVE  LeavesAlone(r)
<1>1. RowsOK /\ SessionRowsOK /\ RequestType /\ RequestsOK
    BY Parts
<1> DEFINE op == reqs[r].op
           me == reqs[r].effective
<1>2. op \in Ops /\ me \in Users /\ Exists(me)
    BY <1>1, Committing
<1>3. UNCHANGED grants
    BY DEF CreateUser, AssignUserRole, SetUserActive
<1>4. users'[me].role = users[me].role
    <2>1. CASE CreateUser(r)
        BY <1>1, <1>2, <2>1 DEF CreateUser, RowsOK
    <2>2. CASE AssignUserRole(r)
        <3>1. userAllowed(r, op) => me # op.user
            BY <2>2 DEF AssignUserRole, Commit, userAllowed
        <3> QED BY <1>1, <1>2, <2>2, <3>1 DEF AssignUserRole, RowsOK
    <2>3. CASE SetUserActive(r)
        <3>1. PICK b : users' = [users EXCEPT ![op.user].active = b] \/ users' = users
            BY <2>3 DEF SetUserActive
        <3>2. op.user \in Users
            BY <1>2, <2>3, OpType DEF SetUserActive, Commit
        <3>3. users[op.user] \in [role : Roles \cup {"none"}, active : BOOLEAN]
            BY <1>1, <3>2 DEF RowsOK
        <3>4. [users[op.user] EXCEPT !.active = b].role = users[op.user].role
            BY <3>3
        <3> QED BY <1>1, <1>2, <3>1, <3>2, <3>4 DEF RowsOK
    <2> QED BY <2>1, <2>2, <2>3
<1> QED BY <1>3, <1>4 DEF LeavesAlone

LEMMA RoleTransactionsLeave ==
    ASSUME AccountInv, NEW r \in Requests, reqs[r].pc = "checked", ~IsEffectiveAdmin(r),
           DeleteRole(r) \/ ReplacePermissions(r)
    PROVE  LeavesAlone(r)
<1>1. RowsOK /\ SessionRowsOK /\ RequestType /\ RequestsOK
    BY Parts
<1> DEFINE op == reqs[r].op
           me == reqs[r].effective
<1>2. me \in Users /\ Exists(me) /\ UNCHANGED users
    BY <1>1, Committing DEF DeleteRole, ReplacePermissions
<1>3. users[me].role \in Roles
    BY <1>1, <1>2 DEF RowsOK, RolesExist
<1>4. CASE DeleteRole(r)
    <2>1. roleAllowed(r, op, "none") => users[me].role # op.role
        BY <1>2, <1>4 DEF DeleteRole, Commit, roleAllowed
    <2> QED BY <1>1, <1>2, <1>3, <1>4, <2>1 DEF DeleteRole, RowsOK, LeavesAlone
<1>5. CASE ReplacePermissions(r)
    <2>1. roleAllowed(r, op, currentRole(r)) => users[me].role # op.role
        BY <1>5 DEF ReplacePermissions, Commit, roleAllowed, currentRole
    <2> QED BY <1>1, <1>2, <1>3, <1>5, <2>1 DEF ReplacePermissions, RowsOK, LeavesAlone
<1> QED BY <1>4, <1>5

LEMMA StepLeavesAlone ==
    ASSUME AccountInv, [AccountNext]_accountVars, NEW q \in Requests,
           reqs[q].pc = "checked", ~IsEffectiveAdmin(q), reqs'[q] = NoRequest
    PROVE  LeavesAlone(q)
<1>1. RequestType
    BY Parts
<1>2. reqs'[q] # reqs[q]
    BY DEF NoRequest
<1>3. CASE UNCHANGED reqs
    BY <1>2, <1>3
<1>4. CASE \E r \in Requests, s \in Sessions : ResolveSession(r, s)
    <2>1. PICK r \in Requests, s \in Sessions : ResolveSession(r, s)
        BY <1>4
    <2>2. reqs' = [reqs EXCEPT ![r] = Principal(s)] /\ reqs[r] = NoRequest
        BY <1>2, <2>1 DEF ResolveSession
    <2>3. r # q
        BY <1>2, <2>2
    <2> QED BY <1>1, <1>2, <2>2, <2>3 DEF RequestType
<1>5. CASE \E r \in Requests : \E op \in UserOps \cup RoleOps \cup {StopOp} : Serve(r, op)
    <2>1. PICK r \in Requests, op \in UserOps \cup RoleOps \cup {StopOp} : Serve(r, op)
        BY <1>5
    <2>2. reqs[r].pc = "resolved" /\ reqs' = [reqs EXCEPT ![r] = Handed(r, op)]
        BY <2>1 DEF Serve
    <2> QED BY <1>1, <1>2, <2>2 DEF RequestType
<1>6. ASSUME NEW r \in Requests,
             \/ Drop(r) \/ ResetUserPassword(r) \/ CreateRole(r) \/ Start(r) \/ Stop(r)
      PROVE  LeavesAlone(q)
    BY <1>6 DEF Drop, ResetUserPassword, CreateRole, Start, Stop, LeavesAlone
<1>7. ASSUME NEW r \in Requests,
             \/ CreateUser(r) \/ AssignUserRole(r) \/ SetUserActive(r)
             \/ DeleteRole(r) \/ ReplacePermissions(r)
      PROVE  LeavesAlone(q)
    <2>1. Answer(r)
        BY <1>7 DEF CreateUser, AssignUserRole, SetUserActive, DeleteRole, ReplacePermissions
    <2>2. q = r
        BY <1>1, <2>1, OnlyOneAnswered
    <2> QED BY <1>7, <2>2, UserTransactionsLeave, RoleTransactionsLeave
<1>8. CASE UNCHANGED accountVars
    BY <1>3, <1>8 DEF accountVars
<1>9. CASE \/ \E s \in Sessions, u \in Users : CreateSession(s, u)
           \/ \E s \in Sessions : EndSession(s)
           \/ \E u \in Users, role \in System : Register(u, role)
    BY <1>3, <1>9 DEF CreateSession, EndSession, Register
<1> QED BY <1>4, <1>5, <1>6, <1>7, <1>8, <1>9 DEF AccountNext

\* roles.Repository.ReplacePermissions reads the requester's role again under a
\* lock and users.Repository.AssignUserRole refuses the requester itself: a
\* request that arrived without the administrator role never changes the role
\* its user has by then, nor the permissions of that role.
THEOREM NoSelfEscalationHolds == AccountSpec => NoSelfEscalation
<1>1. AccountInv /\ [AccountNext]_accountVars =>
          [\A r \in Requests :
              LET me == reqs[r].effective
              IN  reqs[r].pc = "checked" /\ ~IsEffectiveAdmin(r) /\ reqs'[r] = NoRequest =>
                      /\ users'[me].role = users[me].role
                      /\ grants'[users[me].role] = grants[users[me].role]]_accountVars
    BY StepLeavesAlone DEF LeavesAlone
<1> QED BY <1>1, Invariance, PTL DEF AccountSpec, NoSelfEscalation

-----------------------------------------------------------------------------
(***************************************************************************)
(* Fincloud auth profiles.  Everything rests on a revision being written   *)
(* once: a form or a run that names a revision names a secret that never   *)
(* changes.                                                                *)
(***************************************************************************)
Revisions == 0 .. MaxVersions
SomeSecret == Secrets \cup {Unset}
SomeProfile == Profiles \cup {Unset}
SomeStatus == States \cup {Unset}

ProfileRows ==
    [status : SomeStatus, revision : Revisions, secret : SomeSecret, checked : BOOLEAN]
AuthRecords == [profile : SomeProfile, revision : Revisions, secret : SomeSecret]
RunRows ==
    [status : {"queued", "running", "ended"}, job : JobKeys \cup {Unset}, auth : AuthRecords]
ManagerRecords ==
    [op : {Unset, "update", "state", "test"},
     step : {Unset, "form", "find", "auth", "login", "write"},
     id : SomeProfile, revision : Revisions, to : SomeStatus, secret : SomeSecret,
     seen : Revisions, tried : SomeSecret]

RowType ==
    /\ profiles \in [Profiles -> ProfileRows]
    /\ versions \in [Profiles -> [1 .. MaxVersions -> SomeSecret]]
    /\ settings \in [JobKeys -> [enabled : BOOLEAN, profile : SomeProfile]]

RunType == bound \in [Executions -> RunRows] /\ held \in [Executions -> AuthRecords]

ManagerType == managers \in [Managers -> ManagerRecords]

\* A row that exists has a revision, and the history knows its secret.
Current ==
    \A p \in Profiles : profiles[p] # NoProfile =>
        /\ profiles[p].revision >= 1
        /\ versions[p][profiles[p].revision] = profiles[p].secret

\* The profile has had this revision, with this secret.
Past(p, n, s) ==
    /\ p \in Profiles
    /\ n >= 1 /\ n <= profiles[p].revision
    /\ versions[p][n] = s

\* What a run is bound to, and what its worker holds, is a past revision.
RunsArePast ==
    \A x \in Executions :
        LET auth == bound[x].auth
        IN  /\ auth # NoAuth => Past(auth.profile, auth.revision, auth.secret)
            /\ held[x] # NoAuth => held[x] = auth

\* A request under way: its form is of a past revision, a test has read the
\* secret of the revision it found, which for an activation is the form's, and
\* an activation that is about to be written has been tested.
ManagerOK(g) ==
    /\ (g.step \in {"form", "write"} \/ (g.step # Unset /\ g.op = "state")) =>
           Past(g.id, g.revision, versions[g.id][g.revision])
    /\ g.step # Unset => g.id \in Profiles /\ profiles[g.id].revision >= 1
    /\ g.step \in {"find", "auth", "login"} => g.op \in {"state", "test"}
    /\ g.step \in {"auth", "login"} =>
           /\ Past(g.id, g.seen, versions[g.id][g.seen])
           /\ g.op = "state" => g.seen = g.revision
    /\ g.step = "login" => g.tried = versions[g.id][g.seen]
    /\ g.step = "write" => g.op \in {"update", "state"}
    /\ g.step = "write" /\ g.op = "state" /\ g.to = "active" =>
           g.tried = versions[g.id][g.revision]

ManagersOK == \A m \in Managers : ManagerOK(managers[m])

ProfileInv ==
    /\ RowType /\ RunType /\ ManagerType
    /\ Current /\ RunsArePast /\ ManagersOK /\ ProfileActivatedAsTested

-----------------------------------------------------------------------------
\* The tables stay, and one request goes on.
LEMMA ManagerStep ==
    ASSUME ProfileInv, UNCHANGED tables, NEW m \in Managers, NEW g \in ManagerRecords,
           managers' = [managers EXCEPT ![m] = g], ManagerOK(g)
    PROVE  ProfileInv'
<1>1. RowType' /\ RunType' /\ Current' /\ RunsArePast' /\ ProfileActivatedAsTested'
    BY DEF ProfileInv, tables, RowType, RunType, Current, RunsArePast, Past, ProfileActivatedAsTested
<1>2. ManagerType'
    BY DEF ProfileInv, ManagerType
<1>3. ASSUME NEW n \in Managers PROVE ManagerOK(managers[n])'
    <2>1. ManagerOK(managers'[n])
        BY DEF ProfileInv, ManagerType, ManagersOK
    <2> QED BY <2>1 DEF tables, ManagerOK, Past
<1> QED BY <1>1, <1>2, <1>3 DEF ProfileInv, ManagersOK

\* The rows of profiles and their history only grow.
Grows ==
    \A p \in Profiles :
        /\ profiles'[p].revision >= profiles[p].revision
        /\ \A n \in 1 .. profiles[p].revision : versions'[p][n] = versions[p][n]

LEMMA PastStays ==
    ASSUME RowType, RowType', Grows,
           NEW p, NEW n \in Revisions, NEW s, Past(p, n, s)
    PROVE  Past(p, n, s)'
BY ProfileAssumption DEF RowType, Grows, Past, ProfileRows, Revisions

LEMMA ManagerStays ==
    ASSUME RowType, RowType', Grows, NEW g \in ManagerRecords, ManagerOK(g)
    PROVE  ManagerOK(g)'
<1>1. g.step # Unset => profiles'[g.id].revision >= 1
    BY ProfileAssumption DEF ManagerOK, Grows, RowType, ProfileRows, Revisions
<1>2. ASSUME NEW n \in Revisions, Past(g.id, n, versions[g.id][n])
      PROVE  Past(g.id, n, versions[g.id][n])' /\ versions'[g.id][n] = versions[g.id][n]
    BY <1>2, ProfileAssumption DEF RowType, Grows, Past, ProfileRows, Revisions
<1>3. g.revision \in Revisions /\ g.seen \in Revisions
    BY DEF ManagerRecords
<1> QED BY <1>1, <1>2, <1>3 DEF ManagerOK

\* A profile's row is replaced by the next revision.
LEMMA RowStep ==
    ASSUME ProfileInv, NEW p \in Profiles, NEW row \in ProfileRows,
           row.revision = profiles[p].revision + 1, row # NoProfile,
           profiles' = [profiles EXCEPT ![p] = row],
           versions' = [versions EXCEPT ![p][row.revision] = row.secret],
           UNCHANGED <<settings, bound, held>>,
           row.status = "active" => row.checked
    PROVE  /\ RowType' /\ RunType' /\ Current' /\ RunsArePast' /\ ProfileActivatedAsTested'
           /\ Grows
<1> USE ProfileAssumption
<1>1. row.revision \in 1 .. MaxVersions /\ row.secret \in SomeSecret
    BY DEF ProfileInv, RowType, ProfileRows, Revisions
<1>2. RowType'
    BY <1>1 DEF ProfileInv, RowType
<1>3. RunType'
    BY DEF ProfileInv, RunType
<1>4. Grows
    BY <1>1 DEF ProfileInv, RowType, Grows, ProfileRows, Revisions
<1>5. Current'
    BY <1>1 DEF ProfileInv, RowType, Current, ProfileRows, Revisions
<1>6. RunsArePast'
    <2> SUFFICES ASSUME NEW x \in Executions, bound[x].auth # NoAuth
                 PROVE  Past(bound[x].auth.profile, bound[x].auth.revision, bound[x].auth.secret)'
        BY DEF ProfileInv, RunsArePast
    <2>1. Past(bound[x].auth.profile, bound[x].auth.revision, bound[x].auth.secret)
        BY DEF ProfileInv, RunsArePast
    <2>2. bound[x].auth.revision \in Revisions
        BY DEF ProfileInv, RunType, RunRows, AuthRecords
    <2>3. RowType
        BY DEF ProfileInv
    <2> QED BY <1>2, <1>4, <2>1, <2>2, <2>3, PastStays
<1>7. ProfileActivatedAsTested'
    BY DEF ProfileInv, RowType, ProfileActivatedAsTested
<1> QED BY <1>2, <1>3, <1>4, <1>5, <1>6, <1>7

-----------------------------------------------------------------------------
LEMMA CreateStep ==
    ASSUME ProfileInv, NEW p \in Profiles, NEW s \in Secrets, Create(p, s)
    PROVE  ProfileInv'
<1> DEFINE row == [status |-> "disabled", revision |-> 1, secret |-> s, checked |-> FALSE]
<1>1. row \in ProfileRows /\ row # NoProfile
    BY ProfileAssumption DEF ProfileRows, Revisions, SomeStatus, SomeSecret, States, NoProfile
<1>2. row.revision = profiles[p].revision + 1
    BY DEF Create, NoProfile
<1>3. profiles' = [profiles EXCEPT ![p] = row]
      /\ versions' = [versions EXCEPT ![p][row.revision] = row.secret]
      /\ UNCHANGED <<settings, bound, held, managers>> /\ row.status # "active"
    BY DEF Create
<1> HIDE DEF row
<1>4. /\ RowType' /\ RunType' /\ Current' /\ RunsArePast' /\ ProfileActivatedAsTested'
      /\ Grows
    BY <1>1, <1>2, <1>3, RowStep
<1>5. ASSUME NEW n \in Managers PROVE ManagerOK(managers[n])'
    <2>1. ManagerOK(managers[n]) /\ managers[n] \in ManagerRecords /\ RowType
        BY DEF ProfileInv, ManagersOK, ManagerType
    <2> QED BY <2>1, <1>3, <1>4, ManagerStays
<1> QED BY <1>3, <1>4, <1>5 DEF ProfileInv, ManagersOK, ManagerType

LEMMA LeaveStep ==
    ASSUME ProfileInv, NEW m \in Managers, Leave(m), UNCHANGED tables
    PROVE  ProfileInv'
<1>1. NoManager \in ManagerRecords /\ ManagerOK(NoManager)
    BY ProfileAssumption DEF NoManager, ManagerRecords, ManagerOK, Past, Unset, Revisions,
           SomeProfile, SomeStatus, SomeSecret
<1> QED BY <1>1, ManagerStep DEF Leave

LEMMA EditStep ==
    ASSUME ProfileInv, NEW m \in Managers, NEW p \in Profiles, Edit(m, p)
    PROVE  ProfileInv'
<1> DEFINE g == [NoManager EXCEPT !.step = "form", !.id = p, !.revision = profiles[p].revision]
<1>1. managers[m] \in ManagerRecords /\ ManagerOK(managers[m])
    BY DEF ProfileInv, ManagerType, ManagersOK
<1>2. g \in ManagerRecords
    <2>1. profiles[p].revision \in Revisions /\ 0 \in Revisions
        BY ProfileAssumption DEF ProfileInv, RowType, ProfileRows, Revisions
    <2> QED BY <2>1 DEF NoManager, ManagerRecords, SomeProfile, SomeStatus, SomeSecret
<1>3. managers' = [managers EXCEPT ![m] = g] /\ UNCHANGED tables
    BY DEF Edit, ProfileInv, ManagerType
<1>4. ManagerOK(g)
    BY DEF Edit, ProfileInv, RowType, Current, ProfileRows, Revisions, NoManager, ManagerOK, Past, Unset
<1> HIDE DEF g
<1> QED BY <1>2, <1>3, <1>4, ManagerStep

LEMMA SubmitUpdateStep ==
    ASSUME ProfileInv, NEW m \in Managers, NEW s \in Secrets, SubmitUpdate(m, s)
    PROVE  ProfileInv'
<1> DEFINE g == [managers[m] EXCEPT !.op = "update", !.secret = s, !.step = "write"]
<1>1. managers[m] \in ManagerRecords /\ ManagerOK(managers[m])
    BY DEF ProfileInv, ManagerType, ManagersOK
<1>2. g \in ManagerRecords
    BY <1>1 DEF ManagerRecords, SomeSecret
<1>3. managers' = [managers EXCEPT ![m] = g] /\ UNCHANGED tables
    BY DEF SubmitUpdate, ProfileInv, ManagerType
<1>4. ManagerOK(g)
    BY <1>1 DEF SubmitUpdate, Step, ManagerRecords, ManagerOK, Unset
<1> HIDE DEF g
<1> QED BY <1>2, <1>3, <1>4, ManagerStep

LEMMA SubmitStatusStep ==
    ASSUME ProfileInv, NEW m \in Managers, NEW status \in States,
           SubmitStatus(m, status)
    PROVE  ProfileInv'
<1> DEFINE g == [managers[m] EXCEPT !.op = "state", !.to = status,
                          !.step = IF status = "active" THEN "find" ELSE "write"]
<1>1. managers[m] \in ManagerRecords /\ ManagerOK(managers[m])
    BY DEF ProfileInv, ManagerType, ManagersOK
<1>2. g \in ManagerRecords
    BY <1>1 DEF ManagerRecords, SomeStatus
<1>3. managers' = [managers EXCEPT ![m] = g] /\ UNCHANGED tables
    BY DEF SubmitStatus, ProfileInv, ManagerType
<1>4. ManagerOK(g)
    BY <1>1 DEF SubmitStatus, Step, ManagerRecords, ManagerOK, Unset
<1> HIDE DEF g
<1> QED BY <1>2, <1>3, <1>4, ManagerStep

LEMMA SubmitTestStep ==
    ASSUME ProfileInv, NEW m \in Managers, SubmitTest(m)
    PROVE  ProfileInv'
<1> DEFINE g == [managers[m] EXCEPT !.op = "test", !.revision = 0, !.step = "find"]
<1>1. managers[m] \in ManagerRecords /\ ManagerOK(managers[m])
    BY DEF ProfileInv, ManagerType, ManagersOK
<1>2. g \in ManagerRecords
    <2>1. 0 \in Revisions
        BY ProfileAssumption DEF Revisions
    <2> QED BY <1>1, <2>1 DEF ManagerRecords
<1>3. managers' = [managers EXCEPT ![m] = g] /\ UNCHANGED tables
    BY DEF SubmitTest, ProfileInv, ManagerType
<1>4. ManagerOK(g)
    BY <1>1 DEF SubmitTest, Step, ManagerRecords, ManagerOK, Unset
<1> HIDE DEF g
<1> QED BY <1>2, <1>3, <1>4, ManagerStep

LEMMA FindStep ==
    ASSUME ProfileInv, NEW m \in Managers, Find(m), ~Leave(m)
    PROVE  ProfileInv'
<1> DEFINE g == [managers[m] EXCEPT !.seen = profiles[managers[m].id].revision, !.step = "auth"]
<1>1. managers[m] \in ManagerRecords /\ ManagerOK(managers[m])
    BY DEF ProfileInv, ManagerType, ManagersOK
<1>2. g \in ManagerRecords
    BY <1>1 DEF Find, Step, ManagerOK, ProfileInv, RowType, ProfileRows, ManagerRecords, Unset
<1>3. managers' = [managers EXCEPT ![m] = g] /\ UNCHANGED tables
    BY DEF Find, ProfileInv, ManagerType
<1>4. ManagerOK(g)
    BY <1>1 DEF Find, Step, Leave, ProfileInv, RowType, ProfileRows, Revisions, ManagerRecords,
                ManagerOK, Past, Unset
<1> HIDE DEF g
<1> QED BY <1>2, <1>3, <1>4, ManagerStep

LEMMA AuthStep ==
    ASSUME ProfileInv, NEW m \in Managers, Auth(m), ~Leave(m)
    PROVE  ProfileInv'
<1> DEFINE g == [managers[m] EXCEPT !.tried = profiles[managers[m].id].secret, !.step = "login"]
<1>1. managers[m] \in ManagerRecords /\ ManagerOK(managers[m])
    BY DEF ProfileInv, ManagerType, ManagersOK
<1>2. g \in ManagerRecords
    BY <1>1 DEF Auth, Step, ManagerOK, ProfileInv, RowType, ProfileRows, ManagerRecords, Unset
<1>3. managers' = [managers EXCEPT ![m] = g] /\ UNCHANGED tables
    BY DEF Auth, ProfileInv, ManagerType
<1>4. ManagerOK(g)
    BY <1>1 DEF Auth, Step, Leave, ProfileInv, RowType, Current, ProfileRows, NoProfile, Revisions,
                ManagerRecords, ManagerOK, Past, Unset
<1> HIDE DEF g
<1> QED BY <1>2, <1>3, <1>4, ManagerStep

LEMMA LoginStep ==
    ASSUME ProfileInv, NEW m \in Managers, Login(m), ~Leave(m)
    PROVE  ProfileInv'
<1> DEFINE g == [managers[m] EXCEPT !.step = "write"]
<1>1. managers[m] \in ManagerRecords /\ ManagerOK(managers[m])
    BY DEF ProfileInv, ManagerType, ManagersOK
<1>2. g \in ManagerRecords
    BY <1>1 DEF ManagerRecords
<1>3. managers' = [managers EXCEPT ![m] = g] /\ UNCHANGED tables
    BY DEF Login, ProfileInv, ManagerType
<1>4. ManagerOK(g)
    BY <1>1 DEF Login, Step, ManagerRecords, ManagerOK, Unset
<1> HIDE DEF g
<1> QED BY <1>2, <1>3, <1>4, ManagerStep

\* The row is written if its revision is the form's, and then as it was tested.
LEMMA WriteStep ==
    ASSUME ProfileInv, NEW m \in Managers, Write(m)
    PROVE  ProfileInv'
<1> DEFINE p == managers[m].id
           old == profiles[p]
           row == IF managers[m].op = "update"
                    THEN UpdatedProfile(old, m) ELSE ProfileWithStatus(old, m)
<1>1. managers[m] \in ManagerRecords /\ ManagerOK(managers[m]) /\ managers[m].step = "write"
    BY DEF ProfileInv, ManagerType, ManagersOK, Write, Step
<1>2. CASE ~lockProfile(old, m)
    <2>1. Leave(m) /\ UNCHANGED tables
        BY <1>2 DEF Write, tables
    <2> QED BY <2>1, LeaveStep
<1>3. CASE lockProfile(old, m)
    <2>1. p \in Profiles /\ old \in ProfileRows /\ old.revision >= 1
        BY <1>1 DEF ManagerOK, ProfileInv, RowType, Unset
    <2>2. row.revision = old.revision + 1 /\ row.revision <= MaxVersions
        BY <1>3, <2>1 DEF Write, UpdatedProfile, ProfileWithStatus, ProfileRows
    <2>3. row \in ProfileRows
        <3>1. old.revision + 1 \in Revisions
            BY <2>1, <2>2, ProfileAssumption DEF ProfileRows, Revisions
        <3>2. managers[m].to \in SomeStatus /\ managers[m].secret \in SomeSecret
            BY <1>1 DEF ManagerRecords
        <3>3. UpdatedProfile(old, m) \in ProfileRows
            BY <2>1, <3>1, <3>2 DEF UpdatedProfile, ProfileRows
        <3>4. ProfileWithStatus(old, m) \in ProfileRows
            <4>1. (managers[m].tried = old.secret) \in BOOLEAN
                OBVIOUS
            <4> DEFINE ok == managers[m].tried = old.secret
            <4> HIDE DEF ok
            <4>2. [old EXCEPT !.revision = @ + 1, !.status = managers[m].to, !.checked = ok]
                      \in ProfileRows
                BY <2>1, <3>1, <3>2, <4>1 DEF ProfileRows, ok
            <4> QED BY <4>2 DEF ProfileWithStatus, ok
        <3> QED BY <3>3, <3>4
    <2>4. row.status = "active" => row.checked
        <3>1. versions[p][old.revision] = old.secret /\ (old.status = "active" => old.checked)
            BY <2>1 DEF ProfileInv, Current, ProfileActivatedAsTested, NoProfile
        <3>2. managers[m].revision = old.revision
            BY <1>3 DEF lockProfile
        <3> QED BY <1>1, <2>1, <3>1, <3>2 DEF ManagerOK, UpdatedProfile, ProfileWithStatus,
                   ProfileRows
    <2>5. /\ profiles' = [profiles EXCEPT ![p] = row]
          /\ versions' = [versions EXCEPT ![p][row.revision] = row.secret]
          /\ UNCHANGED <<settings, bound, held>> /\ Leave(m)
        BY <1>3 DEF Write
    <2>6. row # NoProfile
        BY <2>1, <2>2, ProfileAssumption DEF NoProfile, ProfileRows, Revisions
    <2> HIDE DEF row
    <2>7. /\ RowType' /\ RunType' /\ Current' /\ RunsArePast' /\ ProfileActivatedAsTested'
          /\ Grows
        BY <2>1, <2>2, <2>3, <2>4, <2>5, <2>6, RowStep
    <2>8. NoManager \in ManagerRecords /\ ManagerOK(NoManager)
        BY ProfileAssumption DEF NoManager, ManagerRecords, ManagerOK, Past, Unset, Revisions,
               SomeProfile, SomeStatus, SomeSecret
    <2>9. ASSUME NEW n \in Managers PROVE ManagerOK(managers[n])'
        <3>1. ManagerOK(managers'[n]) /\ managers'[n] \in ManagerRecords /\ RowType
            BY <2>5, <2>8 DEF ProfileInv, ManagersOK, ManagerType, Leave
        <3> DEFINE g == managers'[n]
        <3>2. g \in ManagerRecords /\ ManagerOK(g)
            BY <3>1
        <3> HIDE DEF g
        <3>3. ASSUME NEW r \in ManagerRecords, ManagerOK(r) PROVE ManagerOK(r)'
            BY <3>1, <3>3, <2>7, ManagerStays
        <3> QED BY <3>1, <3>3 DEF ManagerOK, Past
    <2>10. ManagerType'
        BY <2>5, <2>8 DEF ProfileInv, ManagerType, Leave
    <2> QED BY <2>7, <2>9, <2>10 DEF ProfileInv, ManagersOK
<1> QED BY <1>2, <1>3

-----------------------------------------------------------------------------
\* Sources and runs: profiles, their history and the requests stay.
LEMMA SettingStep ==
    ASSUME ProfileInv, UNCHANGED <<profiles, versions, managers>>, RowType', RunType', RunsArePast'
    PROVE  ProfileInv'
BY DEF ProfileInv, ManagerType, Current, ManagersOK, ManagerOK, Past, ProfileActivatedAsTested

LEMMA SourceStep ==
    ASSUME ProfileInv, NEW k \in JobKeys,
           SetEnabled(k) \/ \E p \in Profiles \cup {Unset} : SetAuthProfile(k, p)
    PROVE  ProfileInv'
<1>1. UNCHANGED <<profiles, versions, bound, held, managers>>
    BY DEF SetEnabled, SetAuthProfile
<1>2. RowType'
    BY <1>1 DEF ProfileInv, RowType, SetEnabled, SetAuthProfile, SomeProfile
<1>3. RunType' /\ RunsArePast'
    BY <1>1 DEF ProfileInv, RunType, RunsArePast, Past
<1> QED BY <1>1, <1>2, <1>3, SettingStep

LEMMA ClaimedStep ==
    ASSUME ProfileInv, NEW x \in Executions, NEW k \in JobKeys, Claimed(x, k)
    PROVE  ProfileInv'
<1>1. UNCHANGED <<profiles, versions, settings, held, managers>>
    BY DEF Claimed
<1>2. RowType'
    BY <1>1 DEF ProfileInv, RowType
<1>3. RunType'
    BY <1>1 DEF ProfileInv, RunType, RunRows, Claimed
<1>4. \A y \in Executions : bound'[y].auth = bound[y].auth
    BY DEF ProfileInv, RunType, RunRows, Claimed
<1>5. RunsArePast'
    BY <1>1, <1>4 DEF ProfileInv, RunsArePast, Past
<1> QED BY <1>1, <1>2, <1>3, <1>5, SettingStep

LEMMA EndedStep ==
    ASSUME ProfileInv, NEW x \in Executions, Ended(x)
    PROVE  ProfileInv'
<1>1. UNCHANGED <<profiles, versions, settings, managers>>
    BY DEF Ended
<1>2. RowType'
    BY <1>1 DEF ProfileInv, RowType
<1>3. NoAuth \in AuthRecords
    BY ProfileAssumption DEF NoAuth, AuthRecords, SomeProfile, SomeSecret, Revisions
<1>4. RunType'
    BY <1>3 DEF ProfileInv, RunType, RunRows, Ended
<1>5. \A y \in Executions : bound'[y].auth = bound[y].auth /\ held'[y] \in {held[y], NoAuth}
    BY DEF ProfileInv, RunType, RunRows, Ended
<1>6. RunsArePast'
    BY <1>1, <1>5 DEF ProfileInv, RunsArePast, Past
<1> QED BY <1>1, <1>2, <1>4, <1>6, SettingStep

LEMMA FreezeStep ==
    ASSUME ProfileInv, NEW x \in Executions, ResolveAndFreezeRunAuth(x)
    PROVE  ProfileInv'
<1> DEFINE p == settings[bound[x].job].profile
           auth == [profile |-> p, revision |-> profiles[p].revision,
                    secret |-> profiles[p].secret]
<1>1. UNCHANGED <<profiles, versions, settings, managers>>
    BY DEF ResolveAndFreezeRunAuth
<1>2. RowType'
    BY <1>1 DEF ProfileInv, RowType
<1>3. p \in Profiles /\ profiles[p] \in ProfileRows /\ profiles[p] # NoProfile
    BY DEF ResolveAndFreezeRunAuth, ProfileInv, RowType, RunType, RunRows, SomeProfile, NoProfile, Unset
<1>4. auth \in AuthRecords
    BY <1>3 DEF ProfileRows, AuthRecords, SomeProfile
<1>5. Past(auth.profile, auth.revision, auth.secret)
    BY <1>3 DEF ProfileInv, Current, Past, ProfileRows, Revisions
<1>6. /\ bound' = [bound EXCEPT ![x].auth = auth]
      /\ held' \in {held, [held EXCEPT ![x] = auth]}
      /\ held[x] = NoAuth
    BY DEF ResolveAndFreezeRunAuth
<1> HIDE DEF auth
<1>7. RunType'
    BY <1>4, <1>6 DEF ProfileInv, RunType, RunRows
<1>8. ASSUME NEW y \in Executions
      PROVE  /\ bound'[y].auth # NoAuth =>
                    Past(bound'[y].auth.profile, bound'[y].auth.revision, bound'[y].auth.secret)
             /\ held'[y] # NoAuth => held'[y] = bound'[y].auth
    BY <1>5, <1>6 DEF ProfileInv, RunType, RunRows, RunsArePast
<1>9. RunsArePast'
    BY <1>1, <1>8 DEF RunsArePast, Past
<1> QED BY <1>1, <1>2, <1>7, <1>9, SettingStep

-----------------------------------------------------------------------------
LEMMA ProfileInitHolds == ASSUME ProfileInit PROVE ProfileInv
<1> USE ProfileAssumption DEF ProfileInit
<1>1. RowType
    BY DEF RowType, NoProfile, ProfileRows, Revisions, SomeProfile, SomeStatus, SomeSecret
<1>2. RunType
    BY DEF RunType, NoRun, NoAuth, RunRows, AuthRecords, Revisions, SomeProfile, SomeSecret
<1>3. ManagerType
    BY DEF ManagerType, NoManager, ManagerRecords, Revisions, SomeProfile, SomeStatus, SomeSecret
<1>4. Current /\ RunsArePast
    BY DEF Current, RunsArePast, NoRun
<1>5. ManagersOK
    BY DEF ManagersOK, ManagerOK, NoManager, Unset
<1>6. ProfileActivatedAsTested
    BY DEF ProfileActivatedAsTested, NoProfile, Unset
<1> QED BY <1>1, <1>2, <1>3, <1>4, <1>5, <1>6 DEF ProfileInv

LEMMA ProfileNextPreserves == ASSUME ProfileInv, [ProfileNext]_profileVars PROVE ProfileInv'
<1>1. CASE \E p \in Profiles, s \in Secrets : Create(p, s)
    BY <1>1, CreateStep
<1>2. ASSUME NEW m \in Managers,
             \/ \E p \in Profiles : Edit(m, p)
             \/ \E s \in Secrets : SubmitUpdate(m, s)
             \/ \E status \in States : SubmitStatus(m, status)
             \/ SubmitTest(m) \/ Find(m) \/ Auth(m) \/ Login(m) \/ Write(m)
      PROVE  ProfileInv'
    <2>1. CASE Leave(m) /\ UNCHANGED tables
        BY <2>1, LeaveStep
    <2>2. CASE ~Leave(m) /\ (Find(m) \/ Auth(m) \/ Login(m))
        BY <2>2, FindStep, AuthStep, LoginStep
    <2>3. Find(m) \/ Auth(m) \/ Login(m) => UNCHANGED tables
        BY DEF Find, Auth, Login
    <2> QED BY <1>2, <2>1, <2>2, <2>3, EditStep, SubmitUpdateStep, SubmitStatusStep,
               SubmitTestStep, WriteStep
<1>3. CASE \E k \in JobKeys :
              SetEnabled(k) \/ \E p \in Profiles \cup {Unset} : SetAuthProfile(k, p)
    BY <1>3, SourceStep
<1>4. ASSUME NEW x \in Executions,
             \/ \E k \in JobKeys : Claimed(x, k)
             \/ Ended(x) \/ ResolveAndFreezeRunAuth(x)
      PROVE  ProfileInv'
    BY <1>4, ClaimedStep, EndedStep, FreezeStep
<1>5. CASE UNCHANGED profileVars
    <2>1. UNCHANGED <<profiles, versions, settings, bound, held, managers>>
        BY <1>5 DEF profileVars
    <2>2. RowType' /\ RunType' /\ RunsArePast'
        BY <2>1 DEF ProfileInv, RowType, RunType, RunsArePast, Past
    <2> QED BY <2>1, <2>2, SettingStep
<1> QED BY <1>1, <1>2, <1>3, <1>4, <1>5 DEF ProfileNext

\* fincloudauth/repository.go ResolveAndFreezeRunAuth, service.go SetStatus: for any
\* number of profiles, sources, runs and requests, the revision in a run's row names
\* the secret its worker logs in with, and a profile becomes active as it was tested.
THEOREM ProfileSafetyHolds == ProfileSpec => []ProfileSafety
<1>1. ProfileInit => ProfileInv
    BY ProfileInitHolds
<1>2. ProfileInv /\ [ProfileNext]_profileVars => ProfileInv'
    BY ProfileNextPreserves
<1>3. ProfileInv => ProfileSafety
    BY DEF ProfileInv, RunsArePast, Past, ProfileSafety, RunIsBoundToRevision
<1> QED BY <1>1, <1>2, <1>3, PTL DEF ProfileSpec

-----------------------------------------------------------------------------
(***************************************************************************)
(* Login and second factor.  Two invariants.  LoginInv is about who is     *)
(* signed in: a challenge for a login still has the password its user has, *)
(* and one for an enrollment is only open while its user has no factor,    *)
(* so that finishing it disturbs no session.  CodeInv is about codes: a    *)
(* secret is in one place, a challenge or one user's factor, and a code    *)
(* that was accepted belongs to no open challenge and is older than the    *)
(* last one of the factor that has its secret.                             *)
(***************************************************************************)
Purposes == {"none", "login", "enrollment", "step_up", "rotate_authorize", "regenerate",
             "rotation"}
Passwords == 1 .. MaxPassword
FactorRecords == [secret : 0 .. MaxSerial, last : Periods \cup {-1}, recovery : 0 .. MaxSerial]
TicketRecords ==
    [user : People \cup {Null}, session : Seats \cup {Null}, purpose : Purposes,
     secret : 0 .. MaxSerial, failures : Nat, password : Passwords \cup {Null}]
SeatRecords ==
    [user : People \cup {Null}, password : Passwords \cup {Null}, secret : 0 .. MaxSerial]
CallRecords ==
    [kind : {"none", "login", "verify"}, user : People \cup {Null},
     hash : Passwords \cup {Null}, ticket : Tickets \cup {Null}]

AuthType ==
    /\ people \in [People -> [active : BOOLEAN, password : Passwords]]
    /\ factors \in [People -> FactorRecords]
    /\ tickets \in [Tickets -> TicketRecords]
    /\ seats \in [Seats -> SeatRecords]
    /\ calls \in [Browsers -> CallRecords]
    /\ period \in Periods
    /\ serial \in 0 .. MaxSerial
    /\ uses \in [Codes -> Nat]

CallsOK ==
    \A b \in Browsers :
        /\ calls[b].kind = "login" => calls[b].user \in People
        /\ calls[b].kind = "verify" => calls[b].ticket \in Tickets

TicketOK(x) ==
    /\ x.user \in People /\ x.purpose # "none"
    /\ x.purpose \in {"enrollment", "rotation"} <=> x.secret # Null
    /\ x.purpose \in {"login", "enrollment"} <=> x.session = Null

\* A login challenge stands on what its user has now.
TicketCurrent(x) ==
    x.session = Null =>
        /\ people[x.user].active
        /\ x.password = people[x.user].password
        /\ x.purpose = "enrollment" => factors[x.user].secret = Null

TicketsOK ==
    \A t \in Tickets : tickets[t] # NoTicket => TicketOK(tickets[t]) /\ TicketCurrent(tickets[t])

SeatsOK == \A s \in Seats : seats[s] # NoSeat => seats[s].user \in People

LoginInv ==
    /\ AuthType /\ CallsOK /\ TicketsOK /\ SeatsOK
    /\ SessionsAreCurrent /\ OneChallenge

\* A secret and a batch of recovery codes is one challenge's or one user's.
SecretsMade ==
    /\ \A t \in Tickets : tickets[t].secret <= serial
    /\ \A u \in People : factors[u].secret <= serial /\ factors[u].recovery <= serial
    /\ \A k \in Codes : uses[k] # 0 => k[1] <= serial

SecretsApart ==
    /\ \A t1, t2 \in Tickets :
           t1 # t2 /\ tickets[t1].secret # Null => tickets[t1].secret # tickets[t2].secret
    /\ \A t \in Tickets, u \in People :
           tickets[t].secret # Null =>
               tickets[t].secret # factors[u].secret /\ tickets[t].secret # factors[u].recovery
    /\ \A u1, u2 \in People :
           u1 # u2 =>
               /\ factors[u1].secret # Null => factors[u1].secret # factors[u2].secret
               /\ factors[u1].recovery # Null => factors[u1].recovery # factors[u2].recovery

UsedBehind ==
    \A k \in Codes :
        uses[k] # 0 =>
            /\ \A t \in Tickets : tickets[t].secret # k[1]
            /\ \A u \in People :
                   /\ k[2] >= 0 /\ factors[u].secret = k[1] => factors[u].last >= k[2]
                   /\ k[2] = -1 => factors[u].recovery # k[1]

CodeInv == SecretsMade /\ SecretsApart /\ UsedBehind /\ CodesUsedOnce

-----------------------------------------------------------------------------
(* Challenges, seats and what a verification does to a factor *)

LEMMA EmptyRows ==
    /\ NoFactor \in FactorRecords /\ NoTicket \in TicketRecords
    /\ NoSeat \in SeatRecords /\ NoCall \in CallRecords
  BY AuthAssumption DEF NoFactor, NoTicket, NoSeat, NoCall, FactorRecords, TicketRecords,
     SeatRecords, CallRecords, Purposes, Passwords, Periods, Null

LEMMA OpenTickets ==
    ASSUME LoginInv
    PROVE  \A t \in Tickets :
               /\ tickets[t] \in TicketRecords
               /\ tickets[t] = NoTicket <=> tickets[t].user = Null
               /\ tickets[t] = NoTicket =>
                      tickets[t].session = Null /\ tickets[t].secret = Null
                      /\ tickets[t].purpose = "none"
  BY AuthAssumption DEF LoginInv, AuthType, TicketsOK, TicketOK, NoTicket, Null

LEMMA OpenSeats ==
    ASSUME LoginInv
    PROVE  \A s \in Seats :
               /\ seats[s] \in SeatRecords
               /\ seats[s] = NoSeat <=> seats[s].user = Null
  BY AuthAssumption DEF LoginInv, AuthType, SeatsOK, NoSeat, Null

\* What an accepted code makes of the factor: the secret of a challenge that
\* brings one, otherwise the same secret.
LEMMA SpentFacts ==
    ASSUME LoginInv, NEW t \in Tickets, tickets[t] # NoTicket, NEW k \in Codes,
           totp(t, k) \/ recovery(t, k)
    PROVE  /\ tickets[t].user \in People
           /\ Spent(t, k) \in FactorRecords
           /\ pending(t) => /\ Spent(t, k).secret = tickets[t].secret
                            /\ Spent(t, k).recovery = tickets[t].secret
                            /\ Spent(t, k).last = k[2] /\ k[1] = tickets[t].secret /\ k[2] >= 0
           /\ ~pending(t) => Spent(t, k).secret = factors[tickets[t].user].secret
           /\ ~pending(t) /\ totp(t, k) =>
                  /\ Spent(t, k).recovery = factors[tickets[t].user].recovery
                  /\ Spent(t, k).last = k[2] /\ k[2] >= 0
                  /\ k[2] > factors[tickets[t].user].last
                  /\ k[1] = factors[tickets[t].user].secret
           /\ ~pending(t) /\ ~totp(t, k) =>
                  /\ Spent(t, k).recovery = Null
                  /\ Spent(t, k).last = factors[tickets[t].user].last
                  /\ k[1] = factors[tickets[t].user].recovery /\ k[2] = -1
  <1> DEFINE u == tickets[t].user
             f == factors[tickets[t].user]
  <1>1. u \in People /\ f \in FactorRecords
    BY DEF LoginInv, AuthType, TicketsOK, TicketOK
  <1>2. k[1] \in 1 .. MaxSerial /\ k[2] \in Periods \cup {-1}
    BY DEF Codes
  <1>3. tickets[t].secret \in 0 .. MaxSerial
    BY OpenTickets DEF TicketRecords
  <1>4. CASE pending(t)
    <2>1. Spent(t, k) = [secret |-> tickets[t].secret, last |-> k[2], recovery |-> tickets[t].secret]
      BY <1>4 DEF Spent
    <2>2. Match(tickets[t].secret, k, -1)
      BY <1>4 DEF totp, recovery
    <2> QED
      BY <1>1, <1>2, <1>3, <1>4, <2>1, <2>2 DEF FactorRecords, Match
  <1>5. CASE ~pending(t) /\ totp(t, k)
    <2>1. Spent(t, k) = [f EXCEPT !.last = k[2]]
      BY <1>5 DEF Spent
    <2>2. Match(f.secret, k, f.last)
      BY <1>5 DEF totp
    <2> QED
      BY <1>1, <1>2, <1>5, <2>1, <2>2 DEF FactorRecords, Match
  <1>6. CASE ~pending(t) /\ ~totp(t, k)
    <2>1. Spent(t, k) = [f EXCEPT !.recovery = Null]
      BY <1>6 DEF Spent
    <2>2. k = <<f.recovery, -1>>
      BY <1>6 DEF recovery, RecoveryCode
    <2> QED
      BY <1>1, <1>2, <1>6, <2>1, <2>2, AuthAssumption DEF FactorRecords, Null
  <1> QED
    BY <1>4, <1>5, <1>6

-----------------------------------------------------------------------------
(* Who is signed in *)

\* A step keeps a challenge as it is but for its failures, or closes it.
KeptTicket(t) ==
    \/ tickets'[t] = NoTicket
    \/ /\ tickets[t] # NoTicket
       /\ tickets'[t].user = tickets[t].user /\ tickets'[t].session = tickets[t].session
       /\ tickets'[t].purpose = tickets[t].purpose /\ tickets'[t].secret = tickets[t].secret
       /\ tickets'[t].password = tickets[t].password

KeptSeat(s) == seats'[s] = NoSeat \/ seats'[s] = seats[s]

\* What a user has stays, or nobody is signed in or signing in as this user.
KeptUser(u) ==
    \/ people'[u] = people[u] /\ factors'[u].secret = factors[u].secret
    \/ /\ \A t \in Tickets : tickets'[t].user = u => tickets'[t].session # Null
       /\ \A s \in Seats : seats'[s].user # u

LEMMA Removal ==
    ASSUME LoginInv, AuthType', CallsOK',
           \A t \in Tickets : KeptTicket(t),
           \A s \in Seats : KeptSeat(s),
           \A u \in People : KeptUser(u)
    PROVE  LoginInv'
  <1>1. ASSUME NEW t \in Tickets, tickets'[t] # NoTicket
        PROVE  TicketOK(tickets[t])' /\ TicketCurrent(tickets[t])'
    <2>1. /\ tickets[t] # NoTicket
          /\ tickets'[t].user = tickets[t].user /\ tickets'[t].session = tickets[t].session
          /\ tickets'[t].purpose = tickets[t].purpose /\ tickets'[t].secret = tickets[t].secret
          /\ tickets'[t].password = tickets[t].password
      BY <1>1 DEF KeptTicket
    <2>2. TicketOK(tickets[t]) /\ TicketCurrent(tickets[t])
      BY <2>1 DEF LoginInv, TicketsOK
    <2>3. TicketOK(tickets[t])'
      BY <2>1, <2>2 DEF TicketOK
    <2>4. KeptUser(tickets[t].user)
      BY <2>2 DEF TicketOK
    <2> QED
      BY <2>1, <2>2, <2>3, <2>4 DEF TicketCurrent, KeptUser, TicketOK
  <1>2. TicketsOK'
    BY <1>1 DEF TicketsOK
  <1>3. SeatsOK' /\ SessionsAreCurrent'
    BY DEF LoginInv, SeatsOK, SessionsAreCurrent, KeptSeat, KeptUser
  <1>4. OneChallenge'
    <2> SUFFICES ASSUME NEW t1 \in Tickets, NEW t2 \in Tickets, t1 # t2, tickets'[t1] # NoTicket,
                        tickets'[t1].user = tickets'[t2].user
                 PROVE  tickets'[t1].session # tickets'[t2].session
      BY DEF OneChallenge
    <2>1. tickets'[t2] # NoTicket
      BY <1>1, AuthAssumption DEF TicketOK, NoTicket, Null
    <2> QED
      BY <2>1 DEF LoginInv, OneChallenge, KeptTicket
  <1> QED
    BY <1>2, <1>3, <1>4 DEF LoginInv

\* A call that is answered, or one that has read a user or a challenge.
LEMMA AnsweredCalls ==
    ASSUME LoginInv, NEW b \in Browsers, calls' = Answered(b)
    PROVE  calls' \in [Browsers -> CallRecords] /\ CallsOK'
  <1>1. calls \in [Browsers -> CallRecords] /\ CallsOK
    BY DEF LoginInv, AuthType
  <1>2. calls' = [calls EXCEPT ![b] = NoCall] /\ NoCall \in CallRecords
    BY EmptyRows DEF Answered
  <1>3. NoCall.kind = "none"
    BY DEF NoCall
  <1>4. calls' \in [Browsers -> CallRecords]
    BY <1>1, <1>2
  <1>5. \A a \in Browsers : calls'[a] = calls[a] \/ calls'[a].kind = "none"
    BY <1>1, <1>2, <1>3
  <1> QED
    BY <1>1, <1>4, <1>5 DEF CallsOK

LEMMA SubmitLoginKeeps ==
    ASSUME LoginInv, NEW b \in Browsers, NEW u \in People, SubmitLogin(b, u)
    PROVE  LoginInv'
  <1> DEFINE call == [NoCall EXCEPT !.kind = "login", !.user = u, !.hash = people[u].password]
  <1>1. calls' = [calls EXCEPT ![b] = call]
    BY DEF SubmitLogin
  <1>2. call \in CallRecords /\ call.kind = "login" /\ call.user = u
    <2>1. people[u].password \in Passwords
      BY DEF LoginInv, AuthType
    <2> QED
      BY <2>1, EmptyRows DEF CallRecords
  <1> HIDE DEF call
  <1>3. calls' \in [Browsers -> CallRecords] /\ CallsOK'
    BY <1>1, <1>2 DEF LoginInv, AuthType, CallsOK
  <1>4. AuthType'
    BY <1>3 DEF LoginInv, AuthType, SubmitLogin
  <1> QED
    BY <1>3, <1>4, Removal DEF SubmitLogin, KeptTicket, KeptSeat, KeptUser

LEMMA VerifyMFAKeeps ==
    ASSUME LoginInv, NEW b \in Browsers, NEW t \in Tickets, VerifyMFA(b, t)
    PROVE  LoginInv'
  <1>1. tickets[t].user \in People
    BY DEF VerifyMFA, LoginInv, TicketsOK, TicketOK
  <1>2. people[tickets[t].user].password \in Passwords
    BY <1>1 DEF LoginInv, AuthType
  <1>3. PICK hash \in Passwords \cup {Null} :
            calls' = [calls EXCEPT ![b] = [kind |-> "verify", user |-> tickets[t].user,
                                           hash |-> hash, ticket |-> t]]
    BY <1>2 DEF VerifyMFA
  <1>4. calls' \in [Browsers -> CallRecords] /\ CallsOK'
    BY <1>1, <1>3 DEF LoginInv, AuthType, CallsOK, CallRecords
  <1>5. AuthType'
    BY <1>4 DEF LoginInv, AuthType, VerifyMFA
  <1> QED
    BY <1>4, <1>5, Removal DEF VerifyMFA, KeptTicket, KeptSeat, KeptUser

LEMMA RefusedKeeps ==
    ASSUME LoginInv, NEW b \in Browsers, VerifyRefused(b)
    PROVE  LoginInv'
  <1>1. calls' \in [Browsers -> CallRecords] /\ CallsOK'
    BY AnsweredCalls DEF VerifyRefused
  <1>2. AuthType'
    BY <1>1 DEF LoginInv, AuthType, VerifyRefused
  <1> QED
    BY <1>1, <1>2, Removal DEF VerifyRefused, KeptTicket, KeptSeat, KeptUser

\* The challenges and the seats that stay when a user, or one seat, signs out.
LEMMA SignedOut ==
    ASSUME LoginInv, NEW u \in People
    PROVE  /\ WithoutTicketsOf(u) \in [Tickets -> TicketRecords]
           /\ WithoutSeatsOf(u) \in [Seats -> SeatRecords]
           /\ \A t \in Tickets :
                  /\ WithoutTicketsOf(u)[t] \in {NoTicket, tickets[t]}
                  /\ WithoutTicketsOf(u)[t].user # u
           /\ \A s \in Seats :
                  /\ WithoutSeatsOf(u)[s] \in {NoSeat, seats[s]}
                  /\ WithoutSeatsOf(u)[s].user # u
  BY EmptyRows, AuthAssumption DEF WithoutTicketsOf, WithoutSeatsOf, NoTicket, NoSeat, Null,
     LoginInv, AuthType

LEMMA SeatEnds ==
    ASSUME LoginInv, NEW s \in Seats
    PROVE  /\ TicketsWithout(s) \in [Tickets -> TicketRecords]
           /\ \A t \in Tickets : TicketsWithout(s)[t] \in {NoTicket, tickets[t]}
           /\ [seats EXCEPT ![s] = NoSeat] \in [Seats -> SeatRecords]
           /\ \A z \in Seats : [seats EXCEPT ![s] = NoSeat][z] \in {NoSeat, seats[z]}
  BY EmptyRows DEF TicketsWithout, LoginInv, AuthType

LEMMA ResetKeeps ==
    ASSUME LoginInv, NEW u \in People, Reset(u)
    PROVE  LoginInv'
  <1>1. factors' \in [People -> FactorRecords]
    BY EmptyRows DEF Reset, LoginInv, AuthType
  <1>2. AuthType' /\ CallsOK'
    BY <1>1, SignedOut DEF Reset, LoginInv, AuthType, CallsOK
  <1>3. \A t \in Tickets : KeptTicket(t)
    BY SignedOut DEF Reset, KeptTicket
  <1>4. \A s \in Seats : KeptSeat(s)
    BY SignedOut DEF Reset, KeptSeat
  <1>5. \A v \in People : KeptUser(v)
    BY SignedOut DEF Reset, KeptUser, LoginInv, AuthType
  <1> QED
    BY <1>2, <1>3, <1>4, <1>5, Removal

LEMMA ReplacePasswordKeeps ==
    ASSUME LoginInv, NEW u \in People, ReplacePassword(u)
    PROVE  LoginInv'
  <1>1. people[u] \in [active : BOOLEAN, password : Passwords]
    BY DEF LoginInv, AuthType
  <1>2. people' = [people EXCEPT ![u] = [active |-> people[u].active,
                                         password |-> people[u].password + 1]]
    <2>1. [people[u] EXCEPT !.password = @ + 1] =
              [active |-> people[u].active, password |-> people[u].password + 1]
      BY <1>1
    <2>2. people' = [people EXCEPT ![u].password = @ + 1]
      BY DEF ReplacePassword
    <2> QED
      BY <2>1, <2>2
  <1>3. people[u].password + 1 \in Passwords
    BY <1>1, AuthAssumption DEF ReplacePassword, Passwords
  <1>4. people' \in [People -> [active : BOOLEAN, password : Passwords]]
    BY <1>1, <1>2, <1>3 DEF LoginInv, AuthType
  <1>5. AuthType' /\ CallsOK'
    BY <1>4, SignedOut DEF ReplacePassword, LoginInv, AuthType, CallsOK
  <1>6. \A t \in Tickets : KeptTicket(t)
    BY SignedOut DEF ReplacePassword, KeptTicket
  <1>7. \A s \in Seats : KeptSeat(s)
    BY SignedOut DEF ReplacePassword, KeptSeat
  <1>8. \A v \in People : KeptUser(v)
    <2> TAKE v \in People
    <2>1. v # u => people'[v] = people[v]
      BY <1>2 DEF LoginInv, AuthType
    <2> QED
      BY <2>1, SignedOut DEF ReplacePassword, KeptUser
  <1> QED
    BY <1>5, <1>6, <1>7, <1>8, Removal

LEMMA SwitchActiveKeeps ==
    ASSUME LoginInv, NEW u \in People, SwitchActive(u)
    PROVE  LoginInv'
  <1>1. people[u] \in [active : BOOLEAN, password : Passwords]
    BY DEF LoginInv, AuthType
  <1>2. people' = [people EXCEPT ![u] = [active |-> ~people[u].active,
                                         password |-> people[u].password]]
    <2>1. [people[u] EXCEPT !.active = ~@] =
              [active |-> ~people[u].active, password |-> people[u].password]
      BY <1>1
    <2>2. people' = [people EXCEPT ![u].active = ~@]
      BY DEF SwitchActive
    <2> QED
      BY <2>1, <2>2
  <1>3. (~people[u].active) \in BOOLEAN /\ people[u].password \in Passwords
    <2>1. (~people[u].active) \in BOOLEAN
      OBVIOUS
    <2> QED
      BY <1>1, <2>1
  <1>4. people' \in [People -> [active : BOOLEAN, password : Passwords]]
    BY <1>2, <1>3 DEF LoginInv, AuthType
  <1>5. AuthType' /\ CallsOK'
    BY <1>4, SignedOut DEF SwitchActive, LoginInv, AuthType, CallsOK
  <1>6. \A t \in Tickets : KeptTicket(t)
    BY SignedOut DEF SwitchActive, KeptTicket
  <1>7. \A s \in Seats : KeptSeat(s)
    BY SignedOut DEF SwitchActive, KeptSeat
  <1>8. \A v \in People : KeptUser(v)
    <2> TAKE v \in People
    <2>1. CASE v # u
      <3>1. people'[v] = people[v]
        BY <2>1, <1>2 DEF LoginInv, AuthType
      <3> QED
        BY <3>1 DEF SwitchActive, KeptUser
    <2>2. CASE v = u /\ people[u].active
      BY <2>2, SignedOut DEF SwitchActive, KeptUser
    <2>3. CASE v = u /\ ~people[u].active
      <3>1. tickets' = tickets /\ seats' = seats
        BY <2>3 DEF SwitchActive
      <3>2. \A t \in Tickets : tickets[t].user = u => tickets[t].session # Null
        BY <2>3, OpenTickets, AuthAssumption
           DEF LoginInv, TicketsOK, TicketOK, TicketCurrent, NoTicket, Null
      <3>3. \A s \in Seats : seats[s].user # u
        BY <2>3, OpenSeats, AuthAssumption DEF LoginInv, SessionsAreCurrent, NoSeat, Null
      <3> QED
        BY <2>3, <3>1, <3>2, <3>3 DEF KeptUser
    <2> QED
      BY <2>1, <2>2, <2>3
  <1> QED
    BY <1>5, <1>6, <1>7, <1>8, Removal

LEMMA EndSeatKeeps ==
    ASSUME LoginInv, NEW s \in Seats, EndSeat(s)
    PROVE  LoginInv'
  <1>1. AuthType' /\ CallsOK'
    BY SeatEnds DEF EndSeat, LoginInv, AuthType, CallsOK
  <1>2. \A t \in Tickets : KeptTicket(t)
    BY SeatEnds DEF EndSeat, KeptTicket
  <1>3. \A z \in Seats : KeptSeat(z)
    BY SeatEnds DEF EndSeat, KeptSeat
  <1> QED
    BY <1>1, <1>2, <1>3, Removal DEF EndSeat, KeptUser

LEMMA ExpireTicketKeeps ==
    ASSUME LoginInv, NEW t \in Tickets, ExpireTicket(t)
    PROVE  LoginInv'
  <1>1. tickets' \in [Tickets -> TicketRecords]
    BY EmptyRows DEF ExpireTicket, LoginInv, AuthType
  <1>2. AuthType' /\ CallsOK'
    BY <1>1 DEF ExpireTicket, LoginInv, AuthType, CallsOK
  <1>3. \A x \in Tickets : KeptTicket(x)
    BY DEF ExpireTicket, KeptTicket, LoginInv, AuthType
  <1> QED
    BY <1>2, <1>3, Removal DEF ExpireTicket, KeptSeat, KeptUser

LEMMA TickKeeps ==
    ASSUME LoginInv, Tick
    PROVE  LoginInv'
  <1>1. AuthType' /\ CallsOK'
    BY AuthAssumption DEF Tick, LoginInv, AuthType, CallsOK, Periods
  <1> QED
    BY <1>1, Removal DEF Tick, KeptTicket, KeptSeat, KeptUser

LEMMA VerifyFailedKeeps ==
    ASSUME LoginInv, NEW b \in Browsers, NEW k, VerifyFailed(b, k)
    PROVE  LoginInv'
  <1> DEFINE t == calls[b].ticket
             s == tickets[t].session
  <1>1. t \in Tickets /\ tickets[t] # NoTicket /\ tickets[t] \in TicketRecords
    BY DEF VerifyFailed, LoginInv, AuthType, CallsOK, verifiable
  <1>2. calls' \in [Browsers -> CallRecords] /\ CallsOK'
    BY AnsweredCalls DEF VerifyFailed
  <1>3. CASE tickets[t].failures + 1 # MaxFailures
    <2>1. tickets' = [tickets EXCEPT ![t].failures = @ + 1] /\ seats' = seats
      BY <1>3 DEF VerifyFailed
    <2> DEFINE x == [tickets[t] EXCEPT !.failures = @ + 1]
    <2>2. tickets' = [tickets EXCEPT ![t] = x]
      BY <2>1, <1>1 DEF LoginInv, AuthType
    <2>3. /\ x \in TicketRecords
          /\ x.user = tickets[t].user /\ x.session = tickets[t].session
          /\ x.purpose = tickets[t].purpose /\ x.secret = tickets[t].secret
          /\ x.password = tickets[t].password
      BY <1>1 DEF TicketRecords
    <2> HIDE DEF x
    <2>4. tickets' \in [Tickets -> TicketRecords]
      BY <2>2, <2>3, <1>1 DEF LoginInv, AuthType
    <2>5. \A y \in Tickets : KeptTicket(y)
      BY <2>2, <2>3, <1>1 DEF LoginInv, AuthType, KeptTicket
    <2>6. AuthType'
      BY <2>1, <2>4, <1>2 DEF VerifyFailed, LoginInv, AuthType
    <2> QED
      BY <1>2, <2>1, <2>5, <2>6, Removal DEF VerifyFailed, KeptSeat, KeptUser
  <1>4. CASE tickets[t].failures + 1 = MaxFailures /\ s = Null
    <2>1. tickets' = [tickets EXCEPT ![t] = NoTicket] /\ seats' = seats
      BY <1>4 DEF VerifyFailed
    <2>2. tickets' \in [Tickets -> TicketRecords]
      BY <2>1, EmptyRows DEF LoginInv, AuthType
    <2>3. \A y \in Tickets : KeptTicket(y)
      BY <2>1 DEF LoginInv, AuthType, KeptTicket
    <2>4. AuthType'
      BY <2>1, <2>2, <1>2 DEF VerifyFailed, LoginInv, AuthType
    <2> QED
      BY <1>2, <2>1, <2>3, <2>4, Removal DEF VerifyFailed, KeptSeat, KeptUser
  <1>5. CASE tickets[t].failures + 1 = MaxFailures /\ s # Null
    <2>1. tickets' = TicketsWithout(s) /\ seats' = [seats EXCEPT ![s] = NoSeat]
      BY <1>5 DEF VerifyFailed
    <2>2. s \in Seats
      BY <1>1, <1>5 DEF TicketRecords
    <2> HIDE DEF s
    <2>3. AuthType'
      <3>1. tickets' \in [Tickets -> TicketRecords] /\ seats' \in [Seats -> SeatRecords]
        BY <2>1, <2>2, SeatEnds
      <3> QED
        BY <1>2, <3>1 DEF VerifyFailed, LoginInv, AuthType
    <2>4. \A y \in Tickets : KeptTicket(y)
      BY <2>1, <2>2, SeatEnds DEF KeptTicket
    <2>5. \A z \in Seats : KeptSeat(z)
      BY <2>1, <2>2, SeatEnds DEF KeptSeat
    <2> QED
      BY <1>2, <2>3, <2>4, <2>5, Removal DEF VerifyFailed, KeptUser
  <1> QED
    BY <1>3, <1>4, <1>5

\* A new challenge.
LEMMA IssuedFacts ==
    ASSUME LoginInv, NEW u \in People, NEW s \in Seats \cup {Null}, NEW purpose \in Purposes,
           NEW hash \in Passwords \cup {Null}, issueSerial(purpose) <= MaxSerial
    PROVE  LET x == issued(u, s, purpose, hash)
           IN  /\ x \in TicketRecords /\ x # NoTicket
               /\ x.user = u /\ x.session = s /\ x.purpose = purpose /\ x.password = hash
               /\ x.secret = IF purpose \in {"enrollment", "rotation"} THEN serial + 1 ELSE Null
               /\ issueSerial(purpose) \in 0 .. MaxSerial
  <1> DEFINE new == IF purpose \in {"enrollment", "rotation"} THEN serial + 1 ELSE Null
  <1>1. serial \in 0 .. MaxSerial
    BY DEF LoginInv, AuthType
  <1>2. new \in 0 .. MaxSerial /\ issueSerial(purpose) \in 0 .. MaxSerial
    BY <1>1, AuthAssumption DEF issueSerial, Null
  <1>3. NoTicket \in TicketRecords /\ NoTicket.user = Null
    BY EmptyRows DEF NoTicket
  <1>4. issued(u, s, purpose, hash) =
            [NoTicket EXCEPT !.user = u, !.session = s, !.purpose = purpose, !.password = hash,
                             !.secret = new]
    BY DEF issued
  <1> HIDE DEF new
  <1>5. LET x == issued(u, s, purpose, hash)
        IN  /\ x \in TicketRecords
            /\ x.user = u /\ x.session = s /\ x.purpose = purpose /\ x.password = hash
            /\ x.secret = new
    BY <1>2, <1>3, <1>4 DEF TicketRecords
  <1> QED
    BY <1>2, <1>3, <1>5, AuthAssumption DEF new

\* A new challenge beside the ones that stay.
LEMMA TicketOpened ==
    ASSUME LoginInv, AuthType', CallsOK', NEW new \in Tickets,
           UNCHANGED <<people, seats>>,
           \A v \in People : factors'[v].secret = factors[v].secret,
           \A t \in Tickets \ {new} : KeptTicket(t),
           TicketOK(tickets'[new]),
           TicketCurrent(tickets[new])',
           \A t \in Tickets \ {new} :
               tickets'[t] # NoTicket /\ tickets'[t].user = tickets'[new].user =>
                   tickets'[t].session # tickets'[new].session
    PROVE  LoginInv'
  <1>1. ASSUME NEW t \in Tickets \ {new}, tickets'[t] # NoTicket
        PROVE  /\ tickets[t] # NoTicket
               /\ tickets'[t].user = tickets[t].user /\ tickets'[t].session = tickets[t].session
               /\ TicketOK(tickets[t])' /\ TicketCurrent(tickets[t])'
    <2>1. /\ tickets[t] # NoTicket
          /\ tickets'[t].user = tickets[t].user /\ tickets'[t].session = tickets[t].session
          /\ tickets'[t].purpose = tickets[t].purpose /\ tickets'[t].secret = tickets[t].secret
          /\ tickets'[t].password = tickets[t].password
      BY <1>1 DEF KeptTicket
    <2>2. TicketOK(tickets[t]) /\ TicketCurrent(tickets[t])
      BY <2>1 DEF LoginInv, TicketsOK
    <2> QED
      BY <2>1, <2>2 DEF TicketOK, TicketCurrent
  <1>2. TicketsOK'
    BY <1>1 DEF TicketsOK, TicketOK
  <1>3. SeatsOK' /\ SessionsAreCurrent'
    BY DEF LoginInv, SeatsOK, SessionsAreCurrent
  <1>4. OneChallenge'
    <2> SUFFICES ASSUME NEW t1 \in Tickets, NEW t2 \in Tickets, t1 # t2, tickets'[t1] # NoTicket,
                        tickets'[t1].user = tickets'[t2].user
                 PROVE  tickets'[t1].session # tickets'[t2].session
      BY DEF OneChallenge
    <2>1. tickets'[t1].user \in People
      BY <1>2 DEF TicketsOK, TicketOK
    <2>2. tickets'[t2] # NoTicket
      BY <2>1, AuthAssumption DEF NoTicket, Null
    <2>3. CASE t1 # new /\ t2 # new
      BY <1>1, <2>2, <2>3 DEF LoginInv, OneChallenge
    <2> QED
      BY <2>2, <2>3
  <1> QED
    BY <1>2, <1>3, <1>4 DEF LoginInv

LEMMA BeginLoginKeeps ==
    ASSUME LoginInv, NEW b \in Browsers, BeginLogin(b)
    PROVE  LoginInv'
  <1> DEFINE u == calls[b].user
             hash == calls[b].hash
             purpose == IF factors[u].secret = Null THEN "enrollment" ELSE "login"
  <1>1. u \in People /\ hash \in Passwords \cup {Null}
    BY DEF BeginLogin, LoginInv, AuthType, CallsOK, CallRecords
  <1>2. calls' \in [Browsers -> CallRecords] /\ CallsOK'
    BY AnsweredCalls DEF BeginLogin
  <1>3. CASE UNCHANGED <<tickets, serial>>
    <2>1. AuthType'
      BY <1>2, <1>3 DEF BeginLogin, LoginInv, AuthType
    <2> QED
      BY <1>2, <1>3, <2>1, Removal DEF BeginLogin, KeptTicket, KeptSeat, KeptUser
  <1>4. CASE /\ stillValid(u, hash)
             /\ issueSerial(purpose) <= MaxSerial
             /\ \E t \in FreshTickets :
                    tickets' = [withoutLogins(u) EXCEPT ![t] = issued(u, Null, purpose, hash)]
             /\ serial' = issueSerial(purpose)
    <2> DEFINE x == issued(u, Null, purpose, hash)
    <2>1. purpose \in Purposes /\ Null \in Seats \cup {Null}
      BY DEF Purposes
    <2>2. PICK new \in Tickets : tickets' = [withoutLogins(u) EXCEPT ![new] = x]
      BY <1>4 DEF FreshTickets
    <2>3. /\ x \in TicketRecords /\ x # NoTicket
          /\ x.user = u /\ x.session = Null /\ x.purpose = purpose /\ x.password = hash
          /\ x.secret = IF purpose \in {"enrollment", "rotation"} THEN serial + 1 ELSE Null
          /\ serial' \in 0 .. MaxSerial
      <3>1. issueSerial(purpose) <= MaxSerial /\ serial' = issueSerial(purpose)
        BY <1>4
      <3> HIDE DEF u, hash, purpose
      <3> QED
        BY <1>1, <2>1, <3>1, IssuedFacts
    <2> HIDE DEF x
    <2>4. /\ withoutLogins(u) \in [Tickets -> TicketRecords]
          /\ \A t \in Tickets :
                 /\ withoutLogins(u)[t] \in {NoTicket, tickets[t]}
                 /\ withoutLogins(u)[t] = NoTicket \/ withoutLogins(u)[t].user # u
                    \/ withoutLogins(u)[t].session # Null
      BY EmptyRows DEF withoutLogins, LoginInv, AuthType
    <2>5. tickets' \in [Tickets -> TicketRecords] /\ tickets'[new] = x
      BY <2>2, <2>3, <2>4
    <2>6. AuthType'
      BY <1>2, <2>3, <2>5 DEF BeginLogin, LoginInv, AuthType
    <2>7. \A t \in Tickets \ {new} : tickets'[t] = withoutLogins(u)[t]
      BY <2>2, <2>4
    <2>8. \A t \in Tickets \ {new} : KeptTicket(t)
      BY <2>4, <2>7 DEF KeptTicket
    <2>9. serial + 1 # Null
      BY DEF LoginInv, AuthType, Null
    <2>10. TicketOK(x)
      BY <1>1, <2>3, <2>9 DEF TicketOK
    <2>11. TicketCurrent(tickets[new])'
      BY <1>4, <2>3, <2>5 DEF TicketCurrent, stillValid, BeginLogin
    <2>12. \A t \in Tickets \ {new} :
               tickets'[t] # NoTicket /\ tickets'[t].user = tickets'[new].user =>
                   tickets'[t].session # tickets'[new].session
      BY <2>3, <2>4, <2>5, <2>7
    <2>13. UNCHANGED <<people, seats, factors>>
      BY DEF BeginLogin
    <2> QED
      BY <1>2, <2>5, <2>6, <2>8, <2>10, <2>11, <2>12, <2>13, TicketOpened
  <1> QED
    BY <1>3, <1>4 DEF BeginLogin

LEMMA BeginAuthenticatedKeeps ==
    ASSUME LoginInv, NEW s \in Seats, NEW purpose \in {"step_up", "rotate_authorize", "regenerate"},
           BeginAuthenticated(s, purpose)
    PROVE  LoginInv'
  <1> DEFINE u == seats[s].user
             x == issued(u, s, purpose, Null)
  <1>1. u \in People /\ purpose \in Purposes
    BY DEF BeginAuthenticated, LoginInv, SeatsOK, Purposes
  <1>2. issueSerial(purpose) <= MaxSerial
    BY AuthAssumption DEF issueSerial, LoginInv, AuthType
  <1>3. PICK new \in Tickets : tickets' = [tickets EXCEPT ![new] = x]
    BY DEF BeginAuthenticated, FreshTickets
  <1>4. /\ x \in TicketRecords
        /\ x.user = u /\ x.session = s /\ x.purpose = purpose /\ x.secret = Null
    BY <1>1, <1>2, IssuedFacts
  <1> HIDE DEF x
  <1>5. tickets' \in [Tickets -> TicketRecords] /\ tickets'[new] = x
    BY <1>3, <1>4 DEF LoginInv, AuthType
  <1>6. AuthType' /\ CallsOK'
    BY <1>5 DEF BeginAuthenticated, LoginInv, AuthType, CallsOK
  <1>7. \A t \in Tickets \ {new} : tickets'[t] = tickets[t]
    BY <1>3 DEF LoginInv, AuthType
  <1>8. s # Null
    BY AuthAssumption
  <1>9. TicketOK(x)
    BY <1>1, <1>4, <1>8 DEF TicketOK
  <1>10. TicketCurrent(tickets[new])'
    BY <1>4, <1>5, <1>8 DEF TicketCurrent
  <1>11. \A t \in Tickets \ {new} : tickets'[t].session # s
    BY <1>7 DEF BeginAuthenticated
  <1>12. UNCHANGED <<people, seats, factors>>
    BY DEF BeginAuthenticated
  <1>13. \A t \in Tickets \ {new} : KeptTicket(t)
    BY <1>7 DEF KeptTicket
  <1> QED
    BY <1>4, <1>5, <1>6, <1>9, <1>10, <1>11, <1>12, <1>13, TicketOpened

-----------------------------------------------------------------------------
(* Accepted codes *)

\* What every accepted code has: an open challenge of a user, and a call that
\* is answered.
LEMMA AcceptedFacts ==
    ASSUME LoginInv, NEW b \in Browsers, NEW k \in Codes, accepted(b, k)
    PROVE  LET t == calls[b].ticket
           IN  /\ t \in Tickets /\ tickets[t] # NoTicket /\ tickets[t] \in TicketRecords
               /\ TicketOK(tickets[t]) /\ TicketCurrent(tickets[t])
               /\ totp(t, k) \/ recovery(t, k)
               /\ ~pending(t) => factors[tickets[t].user].secret # Null
               /\ calls' \in [Browsers -> CallRecords] /\ CallsOK'
               /\ uses' \in [Codes -> Nat]
               /\ UNCHANGED <<people, period>>
  <1> DEFINE t == calls[b].ticket
  <1>1. t \in Tickets /\ tickets[t] # NoTicket
    BY DEF accepted, verifiable, LoginInv, CallsOK
  <1>2. tickets[t] \in TicketRecords /\ TicketOK(tickets[t]) /\ TicketCurrent(tickets[t])
    BY <1>1 DEF LoginInv, AuthType, TicketsOK
  <1>3. totp(t, k) \/ recovery(t, k)
    BY DEF accepted, codeValid
  <1>4. ~pending(t) => factors[tickets[t].user].secret # Null
    BY DEF accepted, verifiable
  <1>5. calls' \in [Browsers -> CallRecords] /\ CallsOK'
    BY AnsweredCalls DEF accepted
  <1>6. uses' \in [Codes -> Nat] /\ UNCHANGED <<people, period>>
    BY DEF accepted, LoginInv, AuthType
  <1> QED
    BY <1>1, <1>2, <1>3, <1>4, <1>5, <1>6

LEMMA VerifyLoginKeeps ==
    ASSUME LoginInv, NEW b \in Browsers, NEW k \in Codes, VerifyLogin(b, k)
    PROVE  LoginInv'
  <1> DEFINE t == calls[b].ticket
             u == tickets[t].user
             factor == Spent(t, k)
             seat == [user |-> u, password |-> tickets[t].password, secret |-> factor.secret]
  <1>1. /\ t \in Tickets /\ tickets[t] # NoTicket /\ tickets[t] \in TicketRecords
        /\ TicketOK(tickets[t]) /\ TicketCurrent(tickets[t])
        /\ totp(t, k) \/ recovery(t, k)
        /\ ~pending(t) => factors[tickets[t].user].secret # Null
        /\ calls' \in [Browsers -> CallRecords] /\ CallsOK'
        /\ uses' \in [Codes -> Nat]
        /\ UNCHANGED <<people, period>>
    BY AcceptedFacts DEF VerifyLogin
  <1>2. /\ u \in People /\ factor \in FactorRecords
        /\ factor.secret = IF pending(t) THEN tickets[t].secret ELSE factors[u].secret
    BY <1>1, SpentFacts
  <1>3. /\ tickets[t].purpose \in {"login", "enrollment"}
        /\ factors' = [factors EXCEPT ![u] = factor]
        /\ tickets' = [tickets EXCEPT ![t] = NoTicket]
        /\ serial' = serial
    BY DEF VerifyLogin
  <1>4. PICK s \in Seats : seats' = [seats EXCEPT ![s] = seat]
    BY DEF VerifyLogin, FreshSeats
  <1>5. seat \in SeatRecords
    BY <1>1, <1>2 DEF SeatRecords, TicketRecords, FactorRecords
  <1>6. tickets[t].session = Null /\ (pending(t) <=> tickets[t].purpose = "enrollment")
    BY <1>1, <1>3 DEF TicketOK, pending
  <1>7. /\ people[u].active /\ tickets[t].password = people[u].password
        /\ factor.secret # Null
        /\ pending(t) => factors[u].secret = Null
    BY <1>1, <1>2, <1>6 DEF TicketCurrent, TicketOK, pending
  <1> HIDE DEF t, u, factor
  <1>8. AuthType'
    <2>1. tickets' \in [Tickets -> TicketRecords]
      BY <1>1, <1>3, EmptyRows DEF LoginInv, AuthType
    <2>2. factors' \in [People -> FactorRecords]
      BY <1>2, <1>3 DEF LoginInv, AuthType
    <2>3. seats' \in [Seats -> SeatRecords]
      BY <1>4, <1>5 DEF LoginInv, AuthType
    <2> QED
      BY <1>1, <1>3, <2>1, <2>2, <2>3 DEF LoginInv, AuthType
  <1>9. \A y \in Tickets : tickets'[y] # NoTicket => y # t /\ tickets'[y] = tickets[y]
    BY <1>1, <1>3 DEF LoginInv, AuthType
  <1>10. \A v \in People : v # u => factors'[v] = factors[v]
    BY <1>3 DEF LoginInv, AuthType
  <1>11. factors'[u].secret = factor.secret
    BY <1>2, <1>3 DEF LoginInv, AuthType
  <1>12. TicketsOK'
    <2> SUFFICES ASSUME NEW y \in Tickets, tickets'[y] # NoTicket
                 PROVE  TicketOK(tickets[y])' /\ TicketCurrent(tickets[y])'
      BY DEF TicketsOK
    <2>1. y # t /\ tickets'[y] = tickets[y] /\ TicketOK(tickets[y]) /\ TicketCurrent(tickets[y])
      BY <1>9 DEF LoginInv, TicketsOK
    <2>2. tickets[y].user = u => tickets[y].session # Null
      BY <1>1, <1>6, <2>1 DEF LoginInv, OneChallenge, u
    <2> QED
      BY <1>1, <1>10, <2>1, <2>2 DEF TicketOK, TicketCurrent
  <1>13. OneChallenge'
    <2> SUFFICES ASSUME NEW t1 \in Tickets, NEW t2 \in Tickets, t1 # t2, tickets'[t1] # NoTicket,
                        tickets'[t1].user = tickets'[t2].user
                 PROVE  tickets'[t1].session # tickets'[t2].session
      BY DEF OneChallenge
    <2>1. tickets'[t2] # NoTicket
      BY <1>12, AuthAssumption DEF TicketsOK, TicketOK, NoTicket, Null
    <2> QED
      BY <1>9, <2>1 DEF LoginInv, OneChallenge
  <1>14. ASSUME NEW z \in Seats, seats'[z] # NoSeat
         PROVE  /\ seats'[z].user \in People /\ people[seats'[z].user].active
                /\ seats'[z].password = people[seats'[z].user].password
                /\ seats'[z].secret # Null
                /\ seats'[z].secret = factors'[seats'[z].user].secret
    <2>1. CASE z = s
      <3>1. seats'[z] = seat
        BY <1>4, <2>1 DEF LoginInv, AuthType
      <3>2. seat.user = u /\ seat.password = tickets[t].password /\ seat.secret = factor.secret
        OBVIOUS
      <3> QED
        BY <1>2, <1>7, <1>11, <3>1, <3>2
    <2>2. CASE z # s
      <3>1. seats'[z] = seats[z]
        BY <1>4, <2>2 DEF LoginInv, AuthType
      <3>2. /\ seats[z].user \in People /\ people[seats[z].user].active
            /\ seats[z].password = people[seats[z].user].password
            /\ seats[z].secret # Null /\ seats[z].secret = factors[seats[z].user].secret
        BY <1>14, <3>1 DEF LoginInv, SeatsOK, SessionsAreCurrent
      <3>3. factors'[seats[z].user].secret = factors[seats[z].user].secret
        BY <1>2, <1>7, <1>10, <1>11, <3>2
      <3> QED
        BY <3>1, <3>2, <3>3
    <2> QED
      BY <2>1, <2>2
  <1>15. SeatsOK' /\ SessionsAreCurrent'
    BY <1>1, <1>14 DEF SeatsOK, SessionsAreCurrent
  <1> QED
    BY <1>1, <1>8, <1>12, <1>13, <1>15 DEF LoginInv

LEMMA VerifyStepUpKeeps ==
    ASSUME LoginInv, NEW b \in Browsers, NEW k \in Codes, VerifyStepUp(b, k)
    PROVE  LoginInv'
  <1> DEFINE t == calls[b].ticket
             u == tickets[t].user
             factor == Spent(t, k)
  <1>1. /\ t \in Tickets /\ tickets[t] # NoTicket
        /\ totp(t, k) \/ recovery(t, k)
        /\ calls' \in [Browsers -> CallRecords] /\ CallsOK'
        /\ uses' \in [Codes -> Nat]
        /\ UNCHANGED <<people, period>>
    BY AcceptedFacts DEF VerifyStepUp
  <1>2. /\ tickets[t].purpose = "step_up"
        /\ factors' = [factors EXCEPT ![u] = factor]
        /\ tickets' = [tickets EXCEPT ![t] = NoTicket]
        /\ UNCHANGED <<seats, serial>>
    BY DEF VerifyStepUp
  <1>3. u \in People /\ factor \in FactorRecords /\ factor.secret = factors[u].secret
    BY <1>1, <1>2, SpentFacts DEF pending
  <1> HIDE DEF t, u, factor
  <1>4. factors' \in [People -> FactorRecords]
    BY <1>2, <1>3 DEF LoginInv, AuthType
  <1>5. tickets' \in [Tickets -> TicketRecords]
    BY <1>2, EmptyRows DEF LoginInv, AuthType
  <1>6. AuthType'
    BY <1>1, <1>2, <1>4, <1>5 DEF LoginInv, AuthType
  <1>7. \A y \in Tickets : KeptTicket(y)
    BY <1>2 DEF KeptTicket, LoginInv, AuthType
  <1>8. \A v \in People : KeptUser(v)
    BY <1>1, <1>2, <1>3 DEF KeptUser, LoginInv, AuthType
  <1> QED
    BY <1>1, <1>2, <1>6, <1>7, <1>8, Removal DEF KeptSeat

LEMMA VerifyReplacedKeeps ==
    ASSUME LoginInv, NEW b \in Browsers, NEW k \in Codes, VerifyReplaced(b, k)
    PROVE  LoginInv'
  <1> DEFINE t == calls[b].ticket
             u == tickets[t].user
             regenerate == tickets[t].purpose = "regenerate"
             factor == IF regenerate THEN [Spent(t, k) EXCEPT !.recovery = serial + 1]
                       ELSE Spent(t, k)
  <1>1. /\ t \in Tickets /\ tickets[t] # NoTicket
        /\ totp(t, k) \/ recovery(t, k)
        /\ calls' \in [Browsers -> CallRecords] /\ CallsOK'
        /\ uses' \in [Codes -> Nat]
        /\ UNCHANGED <<people, period>>
    BY AcceptedFacts DEF VerifyReplaced
  <1>2. /\ factors' = [factors EXCEPT ![u] = factor]
        /\ tickets' = WithoutTicketsOf(u)
        /\ seats' = WithoutSeatsOf(u)
    BY DEF VerifyReplaced
  <1>3. serial \in 0 .. MaxSerial
    BY DEF LoginInv, AuthType
  <1>4. serial' \in 0 .. MaxSerial /\ (regenerate => serial + 1 \in 0 .. MaxSerial)
    BY <1>3, AuthAssumption DEF VerifyReplaced
  <1>5. u \in People /\ Spent(t, k) \in FactorRecords
    BY <1>1, SpentFacts
  <1>6. factor \in FactorRecords
    BY <1>4, <1>5 DEF FactorRecords
  <1> HIDE DEF t, u, factor
  <1>7. factors' \in [People -> FactorRecords]
    BY <1>2, <1>6 DEF LoginInv, AuthType
  <1>8. AuthType'
    BY <1>1, <1>2, <1>4, <1>5, <1>7, SignedOut DEF LoginInv, AuthType
  <1>9. \A y \in Tickets : KeptTicket(y)
    BY <1>2, <1>5, SignedOut DEF KeptTicket
  <1>10. \A z \in Seats : KeptSeat(z)
    BY <1>2, <1>5, SignedOut DEF KeptSeat
  <1>11. \A v \in People : KeptUser(v)
    <2> TAKE v \in People
    <2>1. v # u => factors'[v] = factors[v]
      BY <1>2 DEF LoginInv, AuthType
    <2> QED
      BY <1>1, <1>2, <1>5, <2>1, SignedOut DEF KeptUser
  <1> QED
    BY <1>1, <1>8, <1>9, <1>10, <1>11, Removal

LEMMA VerifyRotateAuthorizeKeeps ==
    ASSUME LoginInv, NEW b \in Browsers, NEW k \in Codes, VerifyRotateAuthorize(b, k)
    PROVE  LoginInv'
  <1> DEFINE t == calls[b].ticket
             u == tickets[t].user
             s == tickets[t].session
             factor == Spent(t, k)
             x == issued(u, s, "rotation", Null)
  <1>1. /\ t \in Tickets /\ tickets[t] # NoTicket /\ tickets[t] \in TicketRecords
        /\ TicketOK(tickets[t])
        /\ totp(t, k) \/ recovery(t, k)
        /\ calls' \in [Browsers -> CallRecords] /\ CallsOK'
        /\ uses' \in [Codes -> Nat]
        /\ UNCHANGED <<people, period>>
    BY AcceptedFacts DEF VerifyRotateAuthorize
  <1>2. /\ tickets[t].purpose = "rotate_authorize"
        /\ issueSerial("rotation") <= MaxSerial
        /\ factors' = [factors EXCEPT ![u] = factor]
        /\ serial' = issueSerial("rotation")
        /\ seats' = seats
    BY DEF VerifyRotateAuthorize
  <1>3. u \in People /\ factor \in FactorRecords /\ factor.secret = factors[u].secret
    BY <1>1, <1>2, SpentFacts DEF pending
  <1>4. s \in Seats
    BY <1>1, <1>2 DEF TicketOK, TicketRecords
  <1>5. PICK new \in Tickets :
            /\ tickets[new] = NoTicket
            /\ tickets' = [tickets EXCEPT ![t] = NoTicket, ![new] = x]
    BY DEF VerifyRotateAuthorize, FreshTickets
  <1>6. /\ x \in TicketRecords
        /\ x.user = u /\ x.session = s /\ x.purpose = "rotation" /\ x.secret = serial + 1
        /\ serial' \in 0 .. MaxSerial
    <2>1. s \in Seats \cup {Null} /\ "rotation" \in Purposes /\ Null \in Passwords \cup {Null}
      BY <1>4 DEF Purposes
    <2> HIDE DEF u, s
    <2> QED
      BY <1>2, <1>3, <2>1, IssuedFacts
  <1> HIDE DEF t, u, s, factor, x
  <1>7. factors' \in [People -> FactorRecords]
    BY <1>2, <1>3 DEF LoginInv, AuthType
  <1>8. new # t
    BY <1>1, <1>5
  <1>9. /\ tickets' \in [Tickets -> TicketRecords]
        /\ tickets'[new] = x /\ tickets'[t] = NoTicket
        /\ \A y \in Tickets : y # t /\ y # new => tickets'[y] = tickets[y]
    BY <1>1, <1>5, <1>6, <1>8, EmptyRows DEF LoginInv, AuthType
  <1>10. AuthType'
    BY <1>1, <1>2, <1>6, <1>7, <1>9 DEF LoginInv, AuthType
  <1>11. \A y \in Tickets \ {new} : KeptTicket(y)
    BY <1>9 DEF KeptTicket
  <1>12. s # Null /\ serial + 1 # Null
    BY <1>4, AuthAssumption DEF LoginInv, AuthType, Null
  <1>13. TicketOK(x)
    BY <1>3, <1>6, <1>12 DEF TicketOK
  <1>14. TicketCurrent(tickets[new])'
    BY <1>6, <1>9, <1>12 DEF TicketCurrent
  <1>15. \A y \in Tickets \ {new} :
             tickets'[y] # NoTicket /\ tickets'[y].user = tickets'[new].user =>
                 tickets'[y].session # tickets'[new].session
    <2> SUFFICES ASSUME NEW y \in Tickets \ {new}, tickets'[y] # NoTicket,
                        tickets'[y].user = tickets'[new].user
                 PROVE  tickets'[y].session # tickets'[new].session
      OBVIOUS
    <2>1. y # t /\ tickets'[y] = tickets[y]
      BY <1>9
    <2>2. tickets[y].user = tickets[t].user
      BY <1>6, <1>9, <2>1 DEF u
    <2> QED
      BY <1>1, <1>6, <1>9, <2>1, <2>2 DEF LoginInv, OneChallenge, s
  <1>16. \A v \in People : factors'[v].secret = factors[v].secret
    BY <1>2, <1>3 DEF LoginInv, AuthType
  <1> QED
    BY <1>1, <1>2, <1>9, <1>10, <1>11, <1>13, <1>14, <1>15, <1>16, TicketOpened

LEMMA LoginInitial ==
    AuthInit => LoginInv
  <1> SUFFICES ASSUME AuthInit
               PROVE  LoginInv
    OBVIOUS
  <1>1. 1 \in Passwords /\ 0 \in Periods /\ 0 \in 0 .. MaxSerial
    BY AuthAssumption DEF Passwords, Periods
  <1>2. [active |-> TRUE, password |-> 1] \in [active : BOOLEAN, password : Passwords]
    BY <1>1
  <1>3. AuthType
    BY <1>1, <1>2, EmptyRows DEF AuthInit, AuthType
  <1>4. CallsOK /\ TicketsOK /\ SeatsOK /\ SessionsAreCurrent /\ OneChallenge
    BY DEF AuthInit, CallsOK, NoCall, TicketsOK, SeatsOK, SessionsAreCurrent, OneChallenge
  <1> QED
    BY <1>3, <1>4 DEF LoginInv

LEMMA SignInStep ==
    ASSUME LoginInv, [AuthNext]_authVars
    PROVE  LoginInv'
  <1>1. CASE UNCHANGED authVars
    BY <1>1 DEF authVars, LoginInv, AuthType, CallsOK, TicketsOK, TicketOK, TicketCurrent, SeatsOK,
       SessionsAreCurrent, OneChallenge
  <1>2. CASE AuthNext
    BY <1>2, SubmitLoginKeeps, BeginLoginKeeps, VerifyMFAKeeps, RefusedKeeps, VerifyFailedKeeps,
       VerifyLoginKeeps, VerifyStepUpKeeps, VerifyRotateAuthorizeKeeps, VerifyReplacedKeeps,
       BeginAuthenticatedKeeps, EndSeatKeeps, ResetKeeps, ReplacePasswordKeeps,
       SwitchActiveKeeps, ExpireTicketKeeps, TickKeeps
       DEF AuthNext
  <1> QED
    BY <1>1, <1>2

\* mfa/store.go Verify, BeginLogin, BeginAuthenticated, Reset and
\* users/repository.go ResetUserPassword: for any users, sessions and challenges,
\* however logins, verifications and resets interleave, a session stands on the
\* password and the second factor its user has now and its user is active, and a
\* user has one login challenge, a session one challenge.
THEOREM LoginSafetyHolds == AuthSpec => []LoginSafety
  <1>1. LoginInv => LoginSafety
    BY DEF LoginInv, LoginSafety
  <1> QED
    BY LoginInitial, SignInStep, <1>1, PTL DEF AuthSpec

-----------------------------------------------------------------------------
(* Codes *)

\* The numbers CodeInv is about.
LEMMA CodeTypes ==
    ASSUME LoginInv
    PROVE  /\ serial \in Nat /\ MaxSerial \in Nat
           /\ \A t \in Tickets : tickets[t].secret \in Nat
           /\ \A u \in People : /\ factors[u].secret \in Nat /\ factors[u].recovery \in Nat
                                /\ factors[u].last \in Int
           /\ \A k \in Codes : uses[k] \in Nat /\ k[1] \in 1 .. MaxSerial /\ k[2] \in Int
  <1>1. serial \in Nat /\ MaxSerial \in Nat
    BY AuthAssumption DEF LoginInv, AuthType
  <1>2. \A t \in Tickets : tickets[t].secret \in Nat
    BY <1>1 DEF LoginInv, AuthType, TicketRecords
  <1>3. \A u \in People : /\ factors[u].secret \in Nat /\ factors[u].recovery \in Nat
                          /\ factors[u].last \in Int
    BY <1>1, AuthAssumption DEF LoginInv, AuthType, FactorRecords, Periods
  <1>4. \A k \in Codes : uses[k] \in Nat /\ k[1] \in 1 .. MaxSerial /\ k[2] \in Int
    BY AuthAssumption DEF LoginInv, AuthType, Codes, Periods
  <1> QED
    BY <1>1, <1>2, <1>3, <1>4

\* A step that accepts no code: challenges keep their secret or lose it, and at
\* most one gets the secret that was made in this step.
LEMMA NoCodeAccepted ==
    ASSUME LoginInv, LoginInv', CodeInv, uses' = uses,
           serial' \in {serial, serial + 1},
           \A u \in People : factors'[u] = factors[u] \/ factors'[u] = NoFactor,
           NEW new,
           \A t \in Tickets \ {new} : tickets'[t].secret \in {Null, tickets[t].secret},
           new \in Tickets =>
               \/ tickets'[new].secret \in {Null, tickets[new].secret}
               \/ tickets'[new].secret = serial + 1 /\ serial' = serial + 1
    PROVE  CodeInv'
  <1>1. /\ serial \in Nat
        /\ \A t \in Tickets : tickets[t].secret \in Nat /\ tickets'[t].secret \in Nat
        /\ \A u \in People : /\ factors[u].secret \in Nat /\ factors[u].recovery \in Nat
                             /\ factors[u].last \in Int
        /\ \A k \in Codes : uses[k] \in Nat /\ k[1] \in 1 .. MaxSerial /\ k[2] \in Int
        /\ MaxSerial \in Nat
    BY CodeTypes DEF LoginInv, AuthType, TicketRecords
  <1>2. NoFactor.secret = 0 /\ NoFactor.recovery = 0 /\ NoFactor.last = -1
    BY DEF NoFactor, Null
  <1>3. \A u \in People : /\ factors'[u].secret \in {0, factors[u].secret}
                          /\ factors'[u].recovery \in {0, factors[u].recovery}
                          /\ factors'[u].secret # 0 => factors'[u].last = factors[u].last
    BY <1>2
  <1>4. \A t \in Tickets : /\ tickets'[t].secret \in {0, tickets[t].secret, serial + 1}
                           /\ tickets'[t].secret = serial + 1 =>
                                  t = new /\ serial' = serial + 1
    BY <1>1 DEF CodeInv, SecretsMade, Null
  <1>5. SecretsMade'
    BY <1>1, <1>3, <1>4 DEF CodeInv, SecretsMade
  <1>6. SecretsApart'
    <2>1. \A t1, t2 \in Tickets :
              t1 # t2 /\ tickets'[t1].secret # 0 => tickets'[t1].secret # tickets'[t2].secret
      BY <1>1, <1>4 DEF CodeInv, SecretsMade, SecretsApart, Null
    <2>2. \A t \in Tickets, u \in People :
              tickets'[t].secret # 0 =>
                  tickets'[t].secret # factors'[u].secret
                  /\ tickets'[t].secret # factors'[u].recovery
      BY <1>1, <1>3, <1>4 DEF CodeInv, SecretsMade, SecretsApart, Null
    <2>3. \A u1, u2 \in People :
              u1 # u2 =>
                  /\ factors'[u1].secret # 0 => factors'[u1].secret # factors'[u2].secret
                  /\ factors'[u1].recovery # 0 => factors'[u1].recovery # factors'[u2].recovery
      BY <1>1, <1>3 DEF CodeInv, SecretsApart, Null
    <2> QED
      BY <2>1, <2>2, <2>3 DEF SecretsApart, Null
  <1>7. UsedBehind'
    <2> SUFFICES ASSUME NEW k \in Codes, uses[k] # 0
                 PROVE  /\ \A t \in Tickets : tickets'[t].secret # k[1]
                        /\ \A u \in People :
                               /\ k[2] >= 0 /\ factors'[u].secret = k[1] => factors'[u].last >= k[2]
                               /\ k[2] = -1 => factors'[u].recovery # k[1]
      BY DEF UsedBehind
    <2>1. k[1] \in 1 .. MaxSerial /\ k[1] <= serial
      BY <1>1 DEF CodeInv, SecretsMade
    <2>2. \A t \in Tickets : tickets'[t].secret # k[1]
      BY <1>1, <1>4, <2>1 DEF CodeInv, UsedBehind
    <2>3. \A u \in People :
              /\ k[2] >= 0 /\ factors'[u].secret = k[1] => factors'[u].last >= k[2]
              /\ k[2] = -1 => factors'[u].recovery # k[1]
      BY <1>1, <1>3, <2>1 DEF CodeInv, UsedBehind
    <2> QED
      BY <2>2, <2>3
  <1>8. CodesUsedOnce'
    BY DEF CodeInv, CodesUsedOnce
  <1> QED
    BY <1>5, <1>6, <1>7, <1>8 DEF CodeInv

\* An accepted code was not used before.
LEMMA CodeIsNew ==
    ASSUME LoginInv, CodeInv, NEW b \in Browsers, NEW k \in Codes, accepted(b, k)
    PROVE  uses[k] = 0
  <1> DEFINE t == calls[b].ticket
             u == tickets[t].user
  <1>1. t \in Tickets /\ tickets[t] # NoTicket /\ (totp(t, k) \/ recovery(t, k))
    BY AcceptedFacts
  <1>2. u \in People
    BY <1>1, SpentFacts
  <1>3. /\ factors[u].last \in Int /\ k[2] \in Int
        /\ uses[k] \in Nat
    BY <1>2, CodeTypes
  <1>4. CASE pending(t)
    BY <1>1, <1>4, SpentFacts DEF CodeInv, UsedBehind
  <1>5. CASE ~pending(t) /\ totp(t, k)
    <2>1. k[2] >= 0 /\ k[2] > factors[u].last /\ k[1] = factors[u].secret
      BY <1>1, <1>5, SpentFacts
    <2> QED
      BY <1>2, <1>3, <2>1 DEF CodeInv, UsedBehind
  <1>6. CASE ~pending(t) /\ ~totp(t, k)
    <2>1. k[1] = factors[u].recovery /\ k[2] = -1
      BY <1>1, <1>6, SpentFacts
    <2> QED
      BY <1>2, <2>1 DEF CodeInv, UsedBehind
  <1> QED
    BY <1>4, <1>5, <1>6

\* A step that accepts a code: the challenge is closed, the factor of its user is
\* what the code makes of it, but for the recovery codes of a new batch, and at most
\* one challenge or that batch has the number made in this step.
LEMMA CodeAccepted ==
    ASSUME LoginInv, LoginInv', CodeInv, NEW b \in Browsers, NEW k \in Codes, accepted(b, k),
           NEW t, t = calls[b].ticket, NEW u, u = tickets[t].user,
           NEW f \in FactorRecords, factors' = [factors EXCEPT ![u] = f],
           f.secret = Spent(t, k).secret, f.last = Spent(t, k).last,
           serial' \in {serial, serial + 1},
           tickets'[t].secret = Null,
           \A y \in Tickets : tickets'[y].secret \in {Null, tickets[y].secret, serial + 1},
           \A y, z \in Tickets : tickets'[y].secret = serial + 1 /\ tickets'[z].secret = serial + 1
                                 => y = z,
           \/ f.recovery = Spent(t, k).recovery
           \/ /\ f.recovery = serial + 1 /\ serial' = serial + 1
              /\ \A y \in Tickets : tickets'[y].secret # serial + 1,
           \A y \in Tickets : tickets'[y].secret = serial + 1 => serial' = serial + 1
    PROVE  CodeInv'
  <1>1. /\ t \in Tickets /\ u \in People
        /\ tickets[t] # NoTicket /\ (totp(t, k) \/ recovery(t, k))
    BY AcceptedFacts, SpentFacts
  <1>2. /\ serial \in Nat /\ MaxSerial \in Nat
        /\ \A y \in Tickets : tickets[y].secret \in Nat
        /\ \A v \in People : /\ factors[v].secret \in Nat /\ factors[v].recovery \in Nat
                             /\ factors[v].last \in Int
        /\ \A c \in Codes : uses[c] \in Nat /\ c[1] \in 1 .. MaxSerial /\ c[2] \in Int
    BY CodeTypes
  <1>3. uses[k] = 0 /\ uses' = [uses EXCEPT ![k] = @ + 1]
    BY CodeIsNew DEF accepted
  <1>4. \A c \in Codes : uses'[c] = IF c = k THEN 1 ELSE uses[c]
    BY <1>2, <1>3 DEF LoginInv, AuthType
  <1>5. \A v \in People : factors'[v] = IF v = u THEN f ELSE factors[v]
    BY <1>1 DEF LoginInv, AuthType
  <1>6. /\ pending(t) => /\ f.secret = tickets[t].secret /\ f.last = k[2]
                         /\ f.recovery \in {tickets[t].secret, serial + 1}
                         /\ k[1] = tickets[t].secret /\ k[2] >= 0
        /\ ~pending(t) /\ totp(t, k) =>
               /\ f.secret = factors[u].secret /\ f.last = k[2] /\ k[2] > factors[u].last
               /\ f.recovery \in {factors[u].recovery, serial + 1}
               /\ k[1] = factors[u].secret /\ k[2] >= 0
        /\ ~pending(t) /\ ~totp(t, k) =>
               /\ f.secret = factors[u].secret /\ f.last = factors[u].last
               /\ f.recovery \in {Null, serial + 1}
               /\ k[1] = factors[u].recovery /\ k[2] = -1
    BY <1>1, SpentFacts
  <1>7. /\ tickets[t].secret <= serial
        /\ factors[u].secret <= serial /\ factors[u].recovery <= serial
        /\ Null = 0
    BY <1>1 DEF CodeInv, SecretsMade, Null
  <1>8. k[1] # 0 /\ k[1] \in Nat /\ k[2] \in Int /\ k[1] <= serial
    BY <1>1, <1>2, <1>6, <1>7
  <1>9. /\ f.secret \in Nat /\ f.secret <= serial
        /\ f.recovery \in Nat /\ (f.recovery <= serial \/ f.recovery = serial + 1)
        /\ f.recovery = serial + 1 => serial' = serial + 1
    BY <1>1, <1>2, <1>6, <1>7, SpentFacts
  <1>10. \A y \in Tickets : tickets'[y].secret # Null => y # t
    OBVIOUS
  <1>11. SecretsMade'
    BY <1>2, <1>4, <1>5, <1>7, <1>8, <1>9 DEF CodeInv, SecretsMade
  \* No challenge and no other user has a secret or a batch of this factor.
  <1>12. ASSUME NEW y \in Tickets, tickets'[y].secret # Null
         PROVE  tickets'[y].secret # f.secret /\ tickets'[y].secret # f.recovery
    <2>1. y # t /\ tickets'[y].secret \in {tickets[y].secret, serial + 1}
      BY <1>12
    <2>2. CASE tickets'[y].secret = serial + 1
      <3>1. f.recovery = Spent(t, k).recovery
        BY <2>2
      <3>2. f.recovery <= serial
        BY <1>1, <1>2, <1>6, <1>7, <3>1, SpentFacts
      <3> QED
        BY <1>2, <1>9, <2>2, <3>2
    <2>3. CASE tickets'[y].secret = tickets[y].secret /\ tickets'[y].secret # serial + 1
      <3>1. /\ tickets[y].secret # tickets[t].secret
            /\ tickets[y].secret # factors[u].secret /\ tickets[y].secret # factors[u].recovery
        BY <1>1, <1>12, <2>1, <2>3 DEF CodeInv, SecretsApart
      <3> QED
        BY <1>1, <1>6, <1>12, <2>3, <3>1
    <2> QED
      BY <2>1, <2>2, <2>3
  <1>13. ASSUME NEW v \in People, v # u
         PROVE  /\ f.secret # 0 => f.secret # factors[v].secret
                /\ f.recovery # 0 => f.recovery # factors[v].recovery
    <2>1. /\ factors[u].secret # 0 => factors[u].secret # factors[v].secret
          /\ factors[u].recovery # 0 => factors[u].recovery # factors[v].recovery
          /\ tickets[t].secret # 0 => tickets[t].secret # factors[v].secret
                                      /\ tickets[t].secret # factors[v].recovery
          /\ factors[v].recovery <= serial
      BY <1>1, <1>7, <1>13 DEF CodeInv, SecretsApart, SecretsMade
    <2>2. factors[v].recovery # serial + 1
      BY <1>2, <2>1
    <2> QED
      BY <1>1, <1>6, <1>7, <2>1, <2>2
  <1>14. SecretsApart'
    <2>1. \A y, z \in Tickets :
              y # z /\ tickets'[y].secret # Null => tickets'[y].secret # tickets'[z].secret
      BY <1>2, <1>7 DEF CodeInv, SecretsApart, SecretsMade
    <2>2. \A y \in Tickets, v \in People :
              tickets'[y].secret # Null =>
                  tickets'[y].secret # factors'[v].secret
                  /\ tickets'[y].secret # factors'[v].recovery
      BY <1>2, <1>5, <1>12 DEF CodeInv, SecretsApart, SecretsMade
    <2>3. \A u1, u2 \in People :
              u1 # u2 =>
                  /\ factors'[u1].secret # Null => factors'[u1].secret # factors'[u2].secret
                  /\ factors'[u1].recovery # Null => factors'[u1].recovery # factors'[u2].recovery
      BY <1>5, <1>7, <1>13 DEF CodeInv, SecretsApart
    <2> QED
      BY <2>1, <2>2, <2>3 DEF SecretsApart
  <1>15. UsedBehind'
    <2> SUFFICES ASSUME NEW c \in Codes, uses'[c] # 0
                 PROVE  /\ \A y \in Tickets : tickets'[y].secret # c[1]
                        /\ \A v \in People :
                               /\ c[2] >= 0 /\ factors'[v].secret = c[1] => factors'[v].last >= c[2]
                               /\ c[2] = -1 => factors'[v].recovery # c[1]
      BY DEF UsedBehind
    <2>1. CASE c = k
      <3>1. \A y \in Tickets : tickets'[y].secret # k[1]
        BY <1>1, <1>2, <1>6, <1>7, <1>8 DEF CodeInv, SecretsApart
      <3>2. ASSUME NEW v \in People
            PROVE  /\ k[2] >= 0 /\ factors'[v].secret = k[1] => factors'[v].last >= k[2]
                   /\ k[2] = -1 => factors'[v].recovery # k[1]
        <4>1. CASE v = u
          BY <1>2, <1>5, <1>6, <1>7, <1>8, <4>1
        <4>2. CASE v # u
          BY <1>1, <1>5, <1>6, <1>7, <1>8, <4>2 DEF CodeInv, SecretsApart
        <4> QED
          BY <4>1, <4>2
      <3> QED
        BY <2>1, <3>1, <3>2
    <2>2. CASE c # k
      <3>1. /\ uses[c] # 0 /\ c[1] <= serial /\ c[1] \in Nat /\ c[2] \in Int /\ c[1] # 0
        BY <1>2, <1>4, <2>2 DEF CodeInv, SecretsMade
      <3>2. \A y \in Tickets : tickets'[y].secret # c[1]
        BY <1>2, <1>7, <3>1 DEF CodeInv, UsedBehind
      <3>3. ASSUME NEW v \in People
            PROVE  /\ c[2] >= 0 /\ factors'[v].secret = c[1] => factors'[v].last >= c[2]
                   /\ c[2] = -1 => factors'[v].recovery # c[1]
        <4>1. /\ c[2] >= 0 /\ factors[v].secret = c[1] => factors[v].last >= c[2]
              /\ c[2] = -1 => factors[v].recovery # c[1]
              /\ tickets[t].secret # c[1]
          BY <1>1, <3>1 DEF CodeInv, UsedBehind
        <4>2. CASE v = u
          BY <1>1, <1>2, <1>5, <1>6, <1>7, <3>1, <4>1, <4>2
        <4>3. CASE v # u
          BY <1>5, <4>1, <4>3
        <4> QED
          BY <4>2, <4>3
      <3> QED
        BY <3>2, <3>3
    <2> QED
      BY <2>1, <2>2
  <1>16. CodesUsedOnce'
    BY <1>2, <1>4 DEF CodeInv, CodesUsedOnce
  <1> QED
    BY <1>11, <1>14, <1>15, <1>16 DEF CodeInv

\* The actions that accept a code.
LEMMA VerifyLoginCodes ==
    ASSUME LoginInv, LoginInv', CodeInv, NEW b \in Browsers, NEW k \in Codes,
           VerifyLogin(b, k) \/ VerifyStepUp(b, k)
    PROVE  CodeInv'
  <1> DEFINE t == calls[b].ticket
             u == tickets[t].user
             f == Spent(t, k)
  <1>1. /\ accepted(b, k) /\ factors' = [factors EXCEPT ![u] = f]
        /\ tickets' = [tickets EXCEPT ![t] = NoTicket]
        /\ serial' = serial
    BY DEF VerifyLogin, VerifyStepUp
  <1>2. t \in Tickets /\ tickets[t] # NoTicket /\ (totp(t, k) \/ recovery(t, k))
    BY <1>1, AcceptedFacts
  <1>3. f \in FactorRecords
    BY <1>2, SpentFacts
  <1>4. /\ tickets'[t].secret = Null
        /\ \A y \in Tickets : tickets'[y].secret \in {Null, tickets[y].secret}
    BY <1>1, <1>2 DEF LoginInv, AuthType, NoTicket
  <1>5. \A y \in Tickets : tickets'[y].secret # serial + 1
    BY <1>4, CodeTypes DEF CodeInv, SecretsMade, Null
  <1> HIDE DEF t, u, f
  <1> QED
    BY <1>1, <1>3, <1>4, <1>5, CodeAccepted DEF t, u, f

LEMMA VerifyRotateAuthorizeCodes ==
    ASSUME LoginInv, LoginInv', CodeInv, NEW b \in Browsers, NEW k \in Codes,
           VerifyRotateAuthorize(b, k)
    PROVE  CodeInv'
  <1> DEFINE t == calls[b].ticket
             u == tickets[t].user
             f == Spent(t, k)
             x == issued(u, tickets[t].session, "rotation", Null)
  <1>1. /\ accepted(b, k) /\ factors' = [factors EXCEPT ![u] = f]
        /\ issueSerial("rotation") <= MaxSerial
        /\ serial' = serial + 1
    BY DEF VerifyRotateAuthorize, issueSerial
  <1>2. /\ t \in Tickets /\ tickets[t] # NoTicket /\ (totp(t, k) \/ recovery(t, k))
        /\ tickets[t] \in TicketRecords
    BY <1>1, AcceptedFacts
  <1>3. f \in FactorRecords /\ u \in People
    BY <1>2, SpentFacts
  <1>4. PICK new \in Tickets :
            /\ tickets[new] = NoTicket
            /\ tickets' = [tickets EXCEPT ![t] = NoTicket, ![new] = x]
    BY DEF VerifyRotateAuthorize, FreshTickets
  <1>5. x.secret = serial + 1
    <2>1. /\ tickets[t].session \in Seats \cup {Null} /\ "rotation" \in Purposes
          /\ Null \in Passwords \cup {Null}
      BY <1>2 DEF TicketRecords, Purposes
    <2> HIDE DEF u
    <2> QED
      BY <1>1, <1>3, <2>1, IssuedFacts
  <1> HIDE DEF x
  <1>6. /\ tickets'[t].secret = Null /\ tickets'[new].secret = serial + 1
        /\ \A y \in Tickets : y # new => tickets'[y].secret \in {Null, tickets[y].secret}
    BY <1>2, <1>4, <1>5 DEF LoginInv, AuthType, NoTicket
  <1>7. \A y \in Tickets : y # new => tickets'[y].secret # serial + 1
    BY <1>6, CodeTypes DEF CodeInv, SecretsMade, Null
  <1> HIDE DEF t, u, f
  <1>8. \A y \in Tickets : tickets'[y].secret \in {Null, tickets[y].secret, serial + 1}
    BY <1>6
  <1> QED
    BY <1>1, <1>3, <1>6, <1>7, <1>8, CodeAccepted DEF t, u, f

LEMMA VerifyReplacedCodes ==
    ASSUME LoginInv, LoginInv', CodeInv, NEW b \in Browsers, NEW k \in Codes, VerifyReplaced(b, k)
    PROVE  CodeInv'
  <1> DEFINE t == calls[b].ticket
             u == tickets[t].user
             regenerate == tickets[t].purpose = "regenerate"
             f == IF regenerate THEN [Spent(t, k) EXCEPT !.recovery = serial + 1]
                  ELSE Spent(t, k)
  <1>1. /\ accepted(b, k) /\ factors' = [factors EXCEPT ![u] = f]
        /\ tickets' = WithoutTicketsOf(u)
        /\ serial' = IF regenerate THEN serial + 1 ELSE serial
        /\ regenerate => serial < MaxSerial
    BY DEF VerifyReplaced
  <1>2. t \in Tickets /\ tickets[t] # NoTicket /\ (totp(t, k) \/ recovery(t, k))
    BY <1>1, AcceptedFacts
  <1>3. Spent(t, k) \in FactorRecords /\ u \in People
    BY <1>2, SpentFacts
  <1>4. regenerate => serial + 1 \in 0 .. MaxSerial
    BY <1>1, CodeTypes
  <1>5. /\ f \in FactorRecords
        /\ f.secret = Spent(t, k).secret /\ f.last = Spent(t, k).last
        /\ f.recovery = IF regenerate THEN serial + 1 ELSE Spent(t, k).recovery
    BY <1>3, <1>4 DEF FactorRecords
  <1> HIDE DEF f
  <1>6. /\ tickets'[t].secret = Null
        /\ \A y \in Tickets : tickets'[y].secret \in {Null, tickets[y].secret}
    BY <1>1, <1>2 DEF WithoutTicketsOf, NoTicket
  <1>7. \A y \in Tickets : tickets'[y].secret # serial + 1
    BY <1>6, CodeTypes DEF CodeInv, SecretsMade, Null
  <1>8. serial' \in {serial, serial + 1}
    BY <1>1
  <1>9. \/ f.recovery = Spent(t, k).recovery
        \/ f.recovery = serial + 1 /\ serial' = serial + 1
    BY <1>1, <1>5
  <1> HIDE DEF t, u, regenerate
  <1> QED
    BY <1>1, <1>5, <1>6, <1>7, <1>8, <1>9, CodeAccepted DEF t, u

\* The actions that accept none.
LEMMA BeginLoginCodes ==
    ASSUME LoginInv, LoginInv', CodeInv, NEW b \in Browsers, BeginLogin(b)
    PROVE  CodeInv'
  <1> DEFINE u == calls[b].user
             hash == calls[b].hash
             purpose == IF factors[u].secret = Null THEN "enrollment" ELSE "login"
             x == issued(u, Null, purpose, hash)
  <1>1. UNCHANGED <<factors, uses>>
    BY DEF BeginLogin
  <1>2. CASE UNCHANGED <<tickets, serial>>
    BY <1>1, <1>2, NoCodeAccepted
  <1>3. CASE /\ issueSerial(purpose) <= MaxSerial
             /\ \E t \in FreshTickets : tickets' = [withoutLogins(u) EXCEPT ![t] = x]
             /\ serial' = issueSerial(purpose)
    <2>1. u \in People /\ hash \in Passwords \cup {Null} /\ purpose \in Purposes
      BY DEF BeginLogin, LoginInv, AuthType, CallsOK, CallRecords, Purposes
    <2>2. PICK new \in Tickets : tickets' = [withoutLogins(u) EXCEPT ![new] = x]
      BY <1>3 DEF FreshTickets
    <2>3. issueSerial(purpose) <= MaxSerial
      BY <1>3
    <2>4. x.secret = IF purpose \in {"enrollment", "rotation"} THEN serial + 1 ELSE Null
      <3>1. Null \in Seats \cup {Null}
        OBVIOUS
      <3> HIDE DEF u, hash, purpose
      <3> QED
        BY <2>1, <2>3, <3>1, IssuedFacts
    <2>5. x.secret = Null \/ (x.secret = serial + 1 /\ serial' = serial + 1)
      BY <1>3, <2>4 DEF issueSerial
    <2>6. serial' \in {serial, serial + 1}
      BY <1>3 DEF issueSerial
    <2> HIDE DEF x
    <2>7. /\ tickets'[new].secret = x.secret
          /\ \A t \in Tickets \ {new} : tickets'[t].secret \in {Null, tickets[t].secret}
      BY <2>2 DEF withoutLogins, NoTicket
    <2> QED
      BY <1>1, <2>5, <2>6, <2>7, NoCodeAccepted
  <1> QED
    BY <1>2, <1>3 DEF BeginLogin

LEMMA BeginAuthenticatedCodes ==
    ASSUME LoginInv, LoginInv', CodeInv, NEW s \in Seats,
           NEW purpose \in {"step_up", "rotate_authorize", "regenerate"},
           BeginAuthenticated(s, purpose)
    PROVE  CodeInv'
  <1> DEFINE x == issued(seats[s].user, s, purpose, Null)
  <1>1. PICK new \in Tickets : tickets' = [tickets EXCEPT ![new] = x]
    BY DEF BeginAuthenticated, FreshTickets
  <1>2. x.secret = Null
    BY DEF issued, NoTicket
  <1>3. UNCHANGED <<factors, uses, serial>>
    BY DEF BeginAuthenticated
  <1> HIDE DEF x
  <1>4. \A t \in Tickets : tickets'[t].secret \in {Null, tickets[t].secret}
    BY <1>1, <1>2 DEF LoginInv, AuthType
  <1> QED
    BY <1>3, <1>4, NoCodeAccepted

LEMMA QuietCodes ==
    ASSUME LoginInv, LoginInv', CodeInv, UNCHANGED <<uses, serial>>,
           \A u \in People : factors'[u] = factors[u] \/ factors'[u] = NoFactor,
           \A t \in Tickets : KeptTicket(t)
    PROVE  CodeInv'
  <1>1. NoTicket.secret = Null
    BY DEF NoTicket
  <1>2. \A t \in Tickets : tickets'[t].secret \in {Null, tickets[t].secret}
    BY <1>1 DEF KeptTicket
  <1> QED
    BY <1>2, NoCodeAccepted

LEMMA VerifyFailedCodes ==
    ASSUME LoginInv, LoginInv', CodeInv, NEW b \in Browsers, NEW k, VerifyFailed(b, k)
    PROVE  CodeInv'
  <1> DEFINE t == calls[b].ticket
  <1>1. t \in Tickets /\ tickets[t] \in TicketRecords
    BY DEF VerifyFailed, LoginInv, AuthType, CallsOK
  <1>2. UNCHANGED <<factors, uses, serial>>
    BY DEF VerifyFailed
  <1>3. [tickets[t] EXCEPT !.failures = @ + 1].secret = tickets[t].secret
    BY <1>1 DEF TicketRecords
  <1>4. \/ tickets' = [tickets EXCEPT ![t] = [tickets[t] EXCEPT !.failures = @ + 1]]
        \/ \A y \in Tickets : tickets'[y] \in {NoTicket, tickets[y]}
    <2>1. \/ tickets' = [tickets EXCEPT ![t].failures = @ + 1]
          \/ tickets' = TicketsWithout(tickets[t].session)
          \/ tickets' = [tickets EXCEPT ![t] = NoTicket]
      BY DEF VerifyFailed
    <2>2. CASE tickets' = [tickets EXCEPT ![t].failures = @ + 1]
      BY <1>1, <2>2 DEF LoginInv, AuthType
    <2>3. CASE tickets' = TicketsWithout(tickets[t].session)
      BY <2>3 DEF TicketsWithout
    <2>4. CASE tickets' = [tickets EXCEPT ![t] = NoTicket]
      BY <2>4 DEF LoginInv, AuthType
    <2> QED
      BY <2>1, <2>2, <2>3, <2>4
  <1>5. \A y \in Tickets : tickets'[y].secret \in {Null, tickets[y].secret}
    <2> DEFINE x == [tickets[t] EXCEPT !.failures = @ + 1]
    <2>1. x.secret = tickets[t].secret /\ NoTicket.secret = Null
      BY <1>3 DEF NoTicket
    <2> HIDE DEF x, t
    <2>2. CASE tickets' = [tickets EXCEPT ![t] = x]
      BY <1>1, <2>1, <2>2 DEF LoginInv, AuthType
    <2>3. CASE \A y \in Tickets : tickets'[y] \in {NoTicket, tickets[y]}
      BY <2>1, <2>3
    <2> QED
      BY <1>4, <2>2, <2>3 DEF x
  <1> QED
    BY <1>2, <1>5, NoCodeAccepted

LEMMA OtherCodes ==
    ASSUME LoginInv, LoginInv', CodeInv,
           \/ \E b \in Browsers : \/ VerifyRefused(b)
                                  \/ \E u \in People : SubmitLogin(b, u)
                                  \/ \E t \in Tickets : VerifyMFA(b, t)
           \/ \E s \in Seats : EndSeat(s)
           \/ \E u \in People : Reset(u) \/ ReplacePassword(u) \/ SwitchActive(u)
           \/ \E t \in Tickets : ExpireTicket(t)
           \/ Tick
           \/ UNCHANGED authVars
    PROVE  CodeInv'
  <1>1. CASE \/ \E b \in Browsers : \/ VerifyRefused(b)
                                    \/ \E u \in People : SubmitLogin(b, u)
                                    \/ \E t \in Tickets : VerifyMFA(b, t)
             \/ Tick \/ UNCHANGED authVars
    <2>1. UNCHANGED <<factors, tickets, serial, uses>>
      BY <1>1 DEF VerifyRefused, SubmitLogin, VerifyMFA, Tick, authVars
    <2> QED
      BY <2>1, QuietCodes DEF KeptTicket
  <1>2. ASSUME NEW s \in Seats, EndSeat(s)
        PROVE  CodeInv'
    <2>1. \A t \in Tickets : KeptTicket(t)
      BY <1>2, SeatEnds DEF EndSeat, KeptTicket
    <2> QED
      BY <1>2, <2>1, QuietCodes DEF EndSeat
  <1>3. ASSUME NEW u \in People, Reset(u) \/ ReplacePassword(u) \/ SwitchActive(u)
        PROVE  CodeInv'
    <2>1. tickets' \in {tickets, WithoutTicketsOf(u)} /\ UNCHANGED <<serial, uses>>
      BY <1>3 DEF Reset, ReplacePassword, SwitchActive
    <2>2. \A t \in Tickets : KeptTicket(t)
      BY <2>1, SignedOut DEF KeptTicket
    <2>3. factors' = factors \/ factors' = [factors EXCEPT ![u] = NoFactor]
      BY <1>3 DEF Reset, ReplacePassword, SwitchActive
    <2>4. \A v \in People : factors'[v] = factors[v] \/ factors'[v] = NoFactor
      BY <2>3 DEF LoginInv, AuthType
    <2> QED
      BY <2>1, <2>2, <2>4, QuietCodes
  <1>4. ASSUME NEW t \in Tickets, ExpireTicket(t)
        PROVE  CodeInv'
    <2>1. \A y \in Tickets : KeptTicket(y)
      BY <1>4 DEF ExpireTicket, KeptTicket, LoginInv, AuthType
    <2> QED
      BY <1>4, <2>1, QuietCodes DEF ExpireTicket
  <1> QED
    BY <1>1, <1>2, <1>3, <1>4

LEMMA CodeStep ==
    ASSUME LoginInv, LoginInv', CodeInv, [AuthNext]_authVars
    PROVE  CodeInv'
  <1>1. CASE \E b \in Browsers :
                 \/ BeginLogin(b)
                 \/ \E k \in Codes \cup {WrongCode} : VerifyFailed(b, k)
                 \/ \E k \in Codes : VerifyLogin(b, k) \/ VerifyStepUp(b, k)
                                     \/ VerifyRotateAuthorize(b, k) \/ VerifyReplaced(b, k)
    BY <1>1, BeginLoginCodes, VerifyFailedCodes, VerifyLoginCodes, VerifyRotateAuthorizeCodes,
       VerifyReplacedCodes
  <1>2. CASE \E s \in Seats : \E purpose \in {"step_up", "rotate_authorize", "regenerate"} :
                 BeginAuthenticated(s, purpose)
    BY <1>2, BeginAuthenticatedCodes
  <1> QED
    BY <1>1, <1>2, OtherCodes DEF AuthNext

LEMMA CodeInitial ==
    AuthInit => CodeInv
  <1> SUFFICES ASSUME AuthInit
               PROVE  CodeInv
    OBVIOUS
  <1>1. /\ \A t \in Tickets : tickets[t].secret = 0
        /\ \A u \in People : factors[u].secret = 0 /\ factors[u].recovery = 0
        /\ serial = 0 /\ \A k \in Codes : uses[k] = 0
    BY DEF AuthInit, NoTicket, NoFactor, Null
  <1> QED
    BY <1>1 DEF CodeInv, SecretsMade, SecretsApart, UsedBehind, CodesUsedOnce, Null

\* mfa/store.go Verify, totp.go Match: for any users, challenges and number of
\* secrets, no TOTP code and no recovery code is accepted twice, whatever is rotated,
\* reset, regenerated or enrolled in between.
THEOREM CodesUsedOnceHolds == AuthSpec => []CodesUsedOnce
  <1>1. LoginInv /\ CodeInv => CodesUsedOnce
    BY DEF CodeInv
  <1>2. LoginInv /\ CodeInv /\ [AuthNext]_authVars => (LoginInv /\ CodeInv)'
    BY SignInStep, CodeStep
  <1> QED
    BY LoginInitial, CodeInitial, <1>1, <1>2, PTL DEF AuthSpec
=============================================================================
