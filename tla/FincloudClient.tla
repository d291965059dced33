--------------------------- MODULE FincloudClient ---------------------------
(***************************************************************************)
(* The session of one Fincloud client (internal/fincloud, client.go): the  *)
(* requests of several goroutines share a session id, one of them logs in  *)
(* for all (loginCall), and a 401 leads to one new login per generation of *)
(* the session.                                                            *)
(*                                                                         *)
(* One action is one critical section of the client's mutex or one answer  *)
(* of the server.  The server is external: it answers 401 to a session it  *)
(* has dropped, which it may do at any time.                               *)
(***************************************************************************)
EXTENDS Integers

CONSTANTS
    Callers,       \* goroutines calling do
    MaxGeneration  \* bound: successful logins

ASSUME ClientAssumption == MaxGeneration \in Nat \ {0}

VARIABLES
    generation,  \* session.generation; 0 while session.id is empty
    login,       \* Client.login: a loginCall is in flight
    alive,       \* the generations the server still knows
    pc,          \* where each call of do is
    stale,       \* the generation its first request was refused with; 0 is nil
    using        \* the generation of the request under way

vars == <<generation, login, alive, pc, stale, using>>

Generations == 1 .. MaxGeneration

Places == {"idle", "ensure", "leading", "following", "told", "failed", "sending"}

\* The type invariant; the client's session is the latest the server gave out.
TypeOK ==
    /\ generation \in 0 .. MaxGeneration
    /\ login \in BOOLEAN
    /\ alive \subseteq 1 .. generation
    /\ pc \in [Callers -> Places]
    /\ stale \in [Callers -> 0 .. generation]
    /\ using \in [Callers -> 0 .. generation]

Init ==
    /\ generation = 0
    /\ login = FALSE
    /\ alive = {}
    /\ pc = [c \in Callers |-> "idle"]
    /\ stale = [c \in Callers |-> 0]
    /\ using = [c \in Callers |-> 0]

-----------------------------------------------------------------------------

\* do calls ensureSession without a stale generation.
Do(c) ==
    /\ pc[c] = "idle"
    /\ pc' = [pc EXCEPT ![c] = "ensure"]
    /\ UNCHANGED <<generation, login, alive, stale, using>>

\* do returns; nothing of the call is left.
Return(c) ==
    /\ pc' = [pc EXCEPT ![c] = "idle"]
    /\ stale' = [stale EXCEPT ![c] = 0]
    /\ using' = [using EXCEPT ![c] = 0]

\* Mutant: every 401 leads to a login of its own.
OnlyUnrefused(c) == generation # 0 /\ stale[c] = 0

\* session.id != "" and staleGeneration is nil or not the current generation.
Usable(c) == generation # 0 /\ generation # stale[c]

\* ensureSession returns the session; the request goes out with it.
Reuse(c) ==
    /\ pc[c] = "ensure" /\ Usable(c)
    /\ pc' = [pc EXCEPT ![c] = "sending"]
    /\ using' = [using EXCEPT ![c] = generation]
    /\ UNCHANGED <<generation, login, alive, stale>>

\* Somebody else is logging in: wait for the end of that call.
Follow(c) ==
    /\ pc[c] = "ensure" /\ ~Usable(c)
    /\ login
    /\ pc' = [pc EXCEPT ![c] = "following"]
    /\ UNCHANGED <<generation, login, alive, stale, using>>

\* Mutant: nobody looks for a login in flight.
LeadAnyway(c) ==
    /\ pc[c] = "ensure" /\ ~Usable(c)
    /\ login' = TRUE
    /\ pc' = [pc EXCEPT ![c] = "leading"]
    /\ UNCHANGED <<generation, alive, stale, using>>

\* A new loginCall; loginRequest runs outside the mutex.
Lead(c) ==
    /\ pc[c] = "ensure" /\ ~Usable(c)
    /\ ~login
    /\ login' = TRUE
    /\ pc' = [pc EXCEPT ![c] = "leading"]
    /\ UNCHANGED <<generation, alive, stale, using>>

\* close(call.done): the leader goes on, and whoever followed has its answer.
CallDone(c, mine, theirs) ==
    /\ login' = FALSE
    /\ pc' = [d \in Callers |-> IF d = c THEN mine
                                ELSE IF pc[d] = "following" THEN theirs ELSE pc[d]]

LoginSucceeds(c) ==
    /\ pc[c] = "leading"
    /\ generation < MaxGeneration
    /\ generation' = generation + 1
    /\ alive' = alive \cup {generation + 1}
    /\ using' = [using EXCEPT ![c] = generation + 1]
    /\ CallDone(c, "sending", "told")
    /\ UNCHANGED stale

\* Mutant: a failed login leaves its call in flight.
LoginFailsOpen(c) ==
    /\ pc[c] = "leading"
    /\ Return(c)
    /\ UNCHANGED <<generation, login, alive>>

\* The server refuses, the network fails, the answer is malformed or the
\* leader's own context ends: all followers fail with it.
LoginFails(c) ==
    /\ pc[c] = "leading"
    /\ CallDone(c, "idle", "failed")
    /\ stale' = [stale EXCEPT ![c] = 0]
    /\ using' = [using EXCEPT ![c] = 0]
    /\ UNCHANGED <<generation, alive>>

\* A follower goes round the loop again, fails with the leader, or has its
\* own context end while it waits.
FollowerContinues(c) ==
    /\ pc[c] = "told"
    /\ pc' = [pc EXCEPT ![c] = "ensure"]
    /\ UNCHANGED <<generation, login, alive, stale, using>>

FollowerFails(c) ==
    /\ pc[c] = "failed"
    /\ Return(c)
    /\ UNCHANGED <<generation, login, alive>>

FollowerCancelled(c) ==
    /\ pc[c] \in {"following", "told", "failed"}
    /\ Return(c)
    /\ UNCHANGED <<generation, login, alive>>

\* send: any answer, or a failure, ends do, except a first 401.
Answered(c) ==
    /\ pc[c] = "sending"
    /\ Return(c)
    /\ UNCHANGED <<generation, login, alive>>

\* The first 401: ensureSession is asked for another generation.
Unauthorized(c) ==
    /\ pc[c] = "sending" /\ using[c] \notin alive
    /\ stale[c] = 0
    /\ pc' = [pc EXCEPT ![c] = "ensure"]
    /\ stale' = [stale EXCEPT ![c] = using[c]]
    /\ using' = [using EXCEPT ![c] = 0]
    /\ UNCHANGED <<generation, login, alive>>

\* The server drops a session.
Expire(g) ==
    /\ g \in alive
    /\ alive' = alive \ {g}
    /\ UNCHANGED <<generation, login, pc, stale, using>>

-----------------------------------------------------------------------------

Proceed(c) ==
    \/ Reuse(c) \/ Follow(c) \/ Lead(c) \/ LoginSucceeds(c) \/ LoginFails(c)
    \/ FollowerContinues(c) \/ FollowerFails(c)
    \/ Answered(c) \/ Unauthorized(c)

Next ==
    \/ \E c \in Callers : Do(c) \/ Proceed(c) \/ FollowerCancelled(c)
    \/ \E g \in Generations : Expire(g)

Spec == Init /\ [][Next]_vars

\* Fairness.  A call goes on by itself; the server answers or the HTTP client
\* times out.
Fairness == \A c \in Callers : WF_vars(Proceed(c))

FairSpec == Spec /\ Fairness

-----------------------------------------------------------------------------
(* Properties *)

\* Single flight: at most one login is under way, and exactly while
\* Client.login says so, through failed logins and leaders that give up.
SingleFlight ==
    /\ \A c, d \in Callers : pc[c] = "leading" /\ pc[d] = "leading" => c = d
    /\ login <=> \E c \in Callers : pc[c] = "leading"

\* A request is repeated only with a newer session than the one refused, so
\* "rejected after reauthentication" is never said of an old session.
RetryIsNewer ==
    \A c \in Callers : pc[c] = "sending" => using[c] > stale[c]

\* client.go ensureSession and do: what holds of a client in every state.
ClientSafety == TypeOK /\ SingleFlight /\ RetryIsNewer

\* Nobody logs in over a session the server still knows: when many requests
\* find one session expired, the first one renews it and the others use what
\* it got, however late their 401 arrives.
NoNeedlessLogin ==
    [][login' /\ ~login => generation \notin alive]_vars

\* Every call of do returns: nobody waits for a login that is over.
EveryCallReturns ==
    \A c \in Callers : []<>(pc[c] = "idle")
=============================================================================
