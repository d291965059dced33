---------------------------- MODULE BrowserAuth ----------------------------
(***************************************************************************)
(* Password login, second factor and browser sessions (internal/mfa,       *)
(* internal/browserauth, internal/auth).                                   *)
(*                                                                         *)
(* Every change of credentials is one transaction that locks the users row *)
(* first, so it is one step; what a request read before its transaction    *)
(* (the password hash, the challenge) is kept in the request and may be    *)
(* old by then.  A consumed or expired challenge is refused everywhere, so *)
(* it is one with a deleted row, and so is an expired or idle session.     *)
(* Codes are random: two of them are never equal by chance.  Of the ten    *)
(* recovery codes of a batch one is modelled.  How long ago a session was  *)
(* verified and whether it impersonates somebody only refuses requests     *)
(* (RequireRecentMFA, Manage, Reset by an administrator); the model leaves *)
(* both out and takes more requests than the program.                      *)
(***************************************************************************)
EXTENDS Integers, FiniteSets

CONSTANTS
    People,         \* ids of users
    Seats,          \* session ids
    Tickets,        \* challenge ids
    Browsers,       \* requests under way
    MaxFailures,    \* wrong codes a challenge allows
    MaxPeriod,      \* bound: TOTP periods
    MaxSerial,      \* bound: secrets and batches of recovery codes
    MaxPassword     \* bound: passwords of a user

VARIABLES
    people,      \* people[u]: is_active and the number of the password
    factors,     \* factors[u]: TOTP secret, last_counter, unused recovery code
    tickets,     \* mfa_challenges that are neither consumed nor expired
    seats,       \* sessions that are neither expired nor idle
    calls,       \* calls[b]: what the request of b has read
    period,      \* the clock, in TOTP periods
    serial,      \* secrets and batches made so far
    uses         \* uses[k]: how often code k was accepted (history)

authVars == <<people, factors, tickets, seats, calls, period, serial, uses>>

Null == 0

ASSUME AuthAssumption ==
    /\ MaxFailures \in Nat \ {0} /\ MaxPeriod \in Nat /\ MaxSerial \in Nat
    /\ MaxPassword \in Nat \ {0}
    /\ Null \notin People \cup Seats \cup Tickets

NoFactor == [secret |-> Null, last |-> -1, recovery |-> Null]
NoTicket == [user |-> Null, session |-> Null, purpose |-> "none", secret |-> Null, failures |-> 0,
             password |-> Null]
\* A login challenge remembers the password that was checked for it, and a
\* session the password and the secret of its login (history).
NoSeat == [user |-> Null, password |-> Null, secret |-> Null]
NoCall == [kind |-> "none", user |-> Null, hash |-> Null, ticket |-> Null]

Periods == 0 .. MaxPeriod
RecoveryCode(n) == <<n, -1>>
Codes == (1 .. MaxSerial) \X (Periods \cup {-1})
WrongCode == <<Null, Null>>

AuthInit ==
    /\ people = [u \in People |-> [active |-> TRUE, password |-> 1]]
    /\ factors = [u \in People |-> NoFactor]
    /\ tickets = [t \in Tickets |-> NoTicket]
    /\ seats = [s \in Seats |-> NoSeat]
    /\ calls = [b \in Browsers |-> NoCall]
    /\ period = 0
    /\ serial = 0
    /\ uses = [k \in Codes |-> 0]

\* An id is new for the model when no row and no request has it.
FreshTickets == {t \in Tickets : tickets[t] = NoTicket /\ \A b \in Browsers : calls[b].ticket # t}
FreshSeats == {s \in Seats : seats[s] = NoSeat /\ \A t \in Tickets : tickets[t].session # s}

Answered(b) == [calls EXCEPT ![b] = NoCall]

-----------------------------------------------------------------------------
(* Challenges *)

\* issue: enrollment and rotation bring a new secret.
issued(u, s, purpose, hash) ==
    [NoTicket EXCEPT !.user = u, !.session = s, !.purpose = purpose, !.password = hash,
        !.secret = IF purpose \in {"enrollment", "rotation"} THEN serial + 1 ELSE Null]

issueSerial(purpose) ==
    IF purpose \in {"enrollment", "rotation"} THEN serial + 1 ELSE serial

\* clearChallengesSessions
WithoutTicketsOf(u) ==
    [t \in Tickets |-> IF tickets[t].user = u THEN NoTicket ELSE tickets[t]]
WithoutSeatsOf(u) == [s \in Seats |-> IF seats[s].user = u THEN NoSeat ELSE seats[s]]

\* fk_mfa_challenge_session: a session takes its challenges along.
TicketsWithout(s) ==
    [t \in Tickets |-> IF tickets[t].session = s THEN NoTicket ELSE tickets[t]]

-----------------------------------------------------------------------------
(* Login *)

\* auth.Handler.Login up to the password check: the user is read without a lock.
SubmitLogin(b, u) ==
    /\ calls[b] = NoCall
    /\ people[u].active
    /\ calls' = [calls EXCEPT ![b] = [NoCall EXCEPT !.kind = "login", !.user = u,
                                                    !.hash = people[u].password]]
    /\ UNCHANGED <<people, factors, tickets, seats, period, serial, uses>>

\* Mutant: the password is not compared again under the lock.
stillActive(u, hash) == people[u].active

stillValid(u, hash) == people[u].active /\ people[u].password = hash

\* DELETE FROM mfa_challenges WHERE user_id = ? AND session_id IS NULL
withoutLogins(u) ==
    [t \in Tickets |-> IF tickets[t].user = u /\ tickets[t].session = Null
                       THEN NoTicket ELSE tickets[t]]

BeginLogin(b) ==
    LET u == calls[b].user
        purpose == IF factors[u].secret = Null THEN "enrollment" ELSE "login"
    IN  /\ calls[b].kind = "login"
        /\ calls' = Answered(b)
        /\ \/ /\ stillValid(u, calls[b].hash)
              /\ issueSerial(purpose) <= MaxSerial
              /\ \E t \in FreshTickets :
                     tickets' = [withoutLogins(u) EXCEPT
                                     ![t] = issued(u, Null, purpose, calls[b].hash)]
              /\ serial' = issueSerial(purpose)
           \/ ~stillValid(u, calls[b].hash) /\ UNCHANGED <<tickets, serial>>
        /\ UNCHANGED <<people, factors, seats, period, uses>>

\* StepUp and Manage.  A pending challenge of the session is reused or refused,
\* which changes nothing.
BeginAuthenticated(s, purpose) ==
    LET u == seats[s].user
    IN  /\ seats[s] # NoSeat
        /\ people[u].active
        /\ \A t \in Tickets : tickets[t].session # s
        /\ \E t \in FreshTickets : tickets' = [tickets EXCEPT ![t] = issued(u, s, purpose, Null)]
        /\ UNCHANGED <<people, factors, seats, calls, period, serial, uses>>

-----------------------------------------------------------------------------
(* Verification *)

managed(t) == tickets[t].purpose \in {"rotate_authorize", "regenerate"}

\* VerifyMFA up to ConfirmPassword: the password typed is the current one, or
\* it is wrong.
VerifyMFA(b, t) ==
    LET u == tickets[t].user
    IN  /\ calls[b] = NoCall
        /\ tickets[t] # NoTicket
        /\ \E hash \in {Null} \cup (IF managed(t) THEN {people[u].password} ELSE {}) :
               calls' = [calls EXCEPT ![b] = [kind |-> "verify", user |-> u, hash |-> hash,
                                              ticket |-> t]]
        /\ UNCHANGED <<people, factors, tickets, seats, period, serial, uses>>

\* Mutant: a code is good for as long as its period is near.
MatchAnyTime(secret, k, last) ==
    secret # Null /\ k[1] = secret /\ k[2] \in (period - 1) .. (period + 1) /\ k[2] >= 0

\* Match: one period of skew, and never a counter that is not newer.
Match(secret, k, last) ==
    /\ secret # Null /\ k[1] = secret
    /\ k[2] \in (period - 1) .. (period + 1) /\ k[2] >= 0
    /\ k[2] > last

pending(t) == tickets[t].purpose \in {"enrollment", "rotation"}

totp(t, k) ==
    IF pending(t) THEN Match(tickets[t].secret, k, -1)
    ELSE Match(factors[tickets[t].user].secret, k, factors[tickets[t].user].last)

recovery(t, k) ==
    LET code == factors[tickets[t].user].recovery
    IN  ~pending(t) /\ code # Null /\ k = RecoveryCode(code)

\* The challenge that the transaction finds under the lock.
verifiable(t) ==
    /\ tickets[t] # NoTicket
    /\ people[tickets[t].user].active
    /\ tickets[t].failures < MaxFailures
    /\ tickets[t].session # Null => seats[tickets[t].session] # NoSeat
    /\ pending(t) \/ factors[tickets[t].user].secret # Null

codeValid(b, t, k) ==
    /\ totp(t, k) \/ recovery(t, k)
    /\ managed(t) => calls[b].hash # Null /\ calls[b].hash = people[tickets[t].user].password

\* The transaction refuses before it looks at the code.
VerifyRefused(b) ==
    /\ calls[b].kind = "verify"
    /\ ~verifiable(calls[b].ticket)
    /\ calls' = Answered(b)
    /\ UNCHANGED <<people, factors, tickets, seats, period, serial, uses>>

\* A wrong code; the last one allowed consumes the challenge and deletes the
\* session that asked.
VerifyFailed(b, k) ==
    LET t == calls[b].ticket
        s == tickets[t].session
        exhausted == tickets[t].failures + 1 = MaxFailures
    IN  /\ calls[b].kind = "verify"
        /\ verifiable(t) /\ ~codeValid(b, t, k)
        /\ tickets' = IF ~exhausted THEN [tickets EXCEPT ![t].failures = @ + 1]
                      ELSE IF s # Null THEN TicketsWithout(s)
                      ELSE [tickets EXCEPT ![t] = NoTicket]
        /\ seats' = IF exhausted /\ s # Null THEN [seats EXCEPT ![s] = NoSeat] ELSE seats
        /\ calls' = Answered(b)
        /\ UNCHANGED <<people, factors, period, serial, uses>>

\* What the code was: it is spent.
Spent(t, k) ==
    LET u == tickets[t].user
    IN  IF pending(t)
        THEN [secret |-> tickets[t].secret, last |-> k[2], recovery |-> tickets[t].secret]
        ELSE IF totp(t, k) THEN [factors[u] EXCEPT !.last = k[2]]
        ELSE [factors[u] EXCEPT !.recovery = Null]

accepted(b, k) ==
    /\ calls[b].kind = "verify"
    /\ verifiable(calls[b].ticket)
    /\ codeValid(b, calls[b].ticket, k)
    /\ uses' = [uses EXCEPT ![k] = @ + 1]
    /\ calls' = Answered(b)
    /\ UNCHANGED <<people, period>>

\* Purposes login and enrollment: a session.
VerifyLogin(b, k) ==
    LET t == calls[b].ticket
        u == tickets[t].user
        factor == Spent(t, k)
    IN  /\ accepted(b, k)
        /\ tickets[t].purpose \in {"login", "enrollment"}
        /\ factors' = [factors EXCEPT ![u] = factor]
        /\ tickets' = [tickets EXCEPT ![t] = NoTicket]
        /\ \E s \in FreshSeats :
               seats' = [seats EXCEPT ![s] = [user |-> u, password |-> tickets[t].password,
                                              secret |-> factor.secret]]
        /\ UNCHANGED serial

\* Purpose step_up: the session is verified anew, and only the code is spent.
VerifyStepUp(b, k) ==
    LET t == calls[b].ticket
    IN  /\ accepted(b, k)
        /\ tickets[t].purpose = "step_up"
        /\ factors' = [factors EXCEPT ![tickets[t].user] = Spent(t, k)]
        /\ tickets' = [tickets EXCEPT ![t] = NoTicket]
        /\ UNCHANGED <<seats, serial>>

\* Purpose rotate_authorize: a challenge for the new secret takes its place.
VerifyRotateAuthorize(b, k) ==
    LET t == calls[b].ticket
        u == tickets[t].user
    IN  /\ accepted(b, k)
        /\ tickets[t].purpose = "rotate_authorize"
        /\ issueSerial("rotation") <= MaxSerial
        /\ factors' = [factors EXCEPT ![u] = Spent(t, k)]
        /\ \E new \in FreshTickets :
               tickets' = [tickets EXCEPT ![t] = NoTicket,
                                          ![new] = issued(u, tickets[t].session, "rotation", Null)]
        /\ serial' = issueSerial("rotation")
        /\ UNCHANGED seats

\* Purposes rotation and regenerate: new credentials, everybody signs in anew.
VerifyReplaced(b, k) ==
    LET t == calls[b].ticket
        u == tickets[t].user
        regenerate == tickets[t].purpose = "regenerate"
    IN  /\ accepted(b, k)
        /\ tickets[t].purpose \in {"rotation", "regenerate"}
        /\ regenerate => serial < MaxSerial
        /\ serial' = IF regenerate THEN serial + 1 ELSE serial
        /\ factors' = [factors EXCEPT ![u] =
                          IF regenerate THEN [Spent(t, k) EXCEPT !.recovery = serial + 1]
                          ELSE Spent(t, k)]
        /\ tickets' = WithoutTicketsOf(u)
        /\ seats' = WithoutSeatsOf(u)

-----------------------------------------------------------------------------
(* Resets and the end of sessions and challenges *)

\* Reset, by the operator or by an administrator.
Reset(u) ==
    /\ factors' = [factors EXCEPT ![u] = NoFactor]
    /\ tickets' = WithoutTicketsOf(u)
    /\ seats' = WithoutSeatsOf(u)
    /\ UNCHANGED <<people, calls, period, serial, uses>>

\* users.Repository.ResetUserPassword and SetUserActive, as far as this module
\* goes; AccountAdmin has who may call them.
ReplacePassword(u) ==
    /\ people[u].password < MaxPassword
    /\ people' = [people EXCEPT ![u].password = @ + 1]
    /\ tickets' = WithoutTicketsOf(u)
    /\ seats' = WithoutSeatsOf(u)
    /\ UNCHANGED <<factors, calls, period, serial, uses>>

SwitchActive(u) ==
    /\ people' = [people EXCEPT ![u].active = ~@]
    /\ tickets' = IF people[u].active THEN WithoutTicketsOf(u) ELSE tickets
    /\ seats' = IF people[u].active THEN WithoutSeatsOf(u) ELSE seats
    /\ UNCHANGED <<factors, calls, period, serial, uses>>

\* Logout, the end of the lifetime or of the idle time, DeleteExpired.
EndSeat(s) ==
    /\ seats[s] # NoSeat
    /\ seats' = [seats EXCEPT ![s] = NoSeat]
    /\ tickets' = TicketsWithout(s)
    /\ UNCHANGED <<people, factors, calls, period, serial, uses>>

ExpireTicket(t) ==
    /\ tickets[t] # NoTicket
    /\ tickets' = [tickets EXCEPT ![t] = NoTicket]
    /\ UNCHANGED <<people, factors, seats, calls, period, serial, uses>>

Tick ==
    /\ period < MaxPeriod
    /\ period' = period + 1
    /\ UNCHANGED <<people, factors, tickets, seats, calls, serial, uses>>

-----------------------------------------------------------------------------
AuthNext ==
    \/ \E b \in Browsers :
           \/ \E u \in People : SubmitLogin(b, u)
           \/ BeginLogin(b)
           \/ \E t \in Tickets : VerifyMFA(b, t)
           \/ VerifyRefused(b)
           \/ \E k \in Codes \cup {WrongCode} : VerifyFailed(b, k)
           \/ \E k \in Codes : VerifyLogin(b, k) \/ VerifyStepUp(b, k)
                               \/ VerifyRotateAuthorize(b, k) \/ VerifyReplaced(b, k)
    \/ \E s \in Seats :
           \/ \E purpose \in {"step_up", "rotate_authorize", "regenerate"} :
                  BeginAuthenticated(s, purpose)
           \/ EndSeat(s)
    \/ \E u \in People : Reset(u) \/ ReplacePassword(u) \/ SwitchActive(u)
    \/ \E t \in Tickets : ExpireTicket(t)
    \/ Tick

AuthSpec == AuthInit /\ [][AuthNext]_authVars

-----------------------------------------------------------------------------
(* Properties *)

\* However requests interleave with resets, a session stands on the password
\* and the second factor its user has now, and its user is active.
SessionsAreCurrent ==
    \A s \in Seats : seats[s] # NoSeat =>
        LET u == seats[s].user
        IN  /\ people[u].active
            /\ seats[s].password = people[u].password
            /\ seats[s].secret # Null /\ seats[s].secret = factors[u].secret

\* mfa/store.go Verify, totp.go Match: no TOTP code and no recovery code is accepted
\* twice, whatever was rotated, reset or enrolled in between.
CodesUsedOnce == \A k \in Codes : uses[k] <= 1

\* A user has one login challenge at a time, and a session one challenge.
OneChallenge ==
    \A t1, t2 \in Tickets :
        /\ t1 # t2 /\ tickets[t1] # NoTicket
        /\ tickets[t1].user = tickets[t2].user
        => tickets[t1].session # tickets[t2].session

\* mfa/store.go Verify, BeginLogin, BeginAuthenticated, Reset and
\* users/repository.go ResetUserPassword: a session stands on the password and the
\* second factor its user has now, and its user is active; a user has one login
\* challenge at a time, and a session one challenge.
LoginSafety == SessionsAreCurrent /\ OneChallenge
=============================================================================
