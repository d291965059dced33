---------------------------- MODULE SessionLane ----------------------------
(***************************************************************************)
(* The lane of one Fincloud username (internal/fincloud,                   *)
(* session_coordinator.go).  The runs of a username share one client, and  *)
(* with it one login, only while they agree on password, role and          *)
(* location; everybody else queues up in order, and a connection test has  *)
(* the lane for itself.                                                    *)
(*                                                                         *)
(* One action is one critical section of the lane's mutex, or a step of a  *)
(* caller between two of them.                                             *)
(***************************************************************************)
EXTENDS Integers, Sequences, FiniteSets

CONSTANTS
    Acquirers, \* concurrent calls of Acquire and Test
    Contexts,  \* passwords, roles and locations used with the username
    Clients,   \* client objects, recycled when nothing refers to one
    NoClient,  \* nil
    NoRequest  \* what a caller outside a call asks for

\* There is always a client object that nothing refers to.
ASSUME LaneAssumption ==
    /\ IsFiniteSet(Acquirers)
    /\ IsFiniteSet(Clients)
    /\ Cardinality(Clients) > Cardinality(Acquirers) + 1
    /\ NoClient \notin Clients

VARIABLES
    \* the lane
    current,   \* the epoch: context, client and exclusiveness; NoEpoch is nil
    active,    \* leases given out and not returned
    waiters,   \* the callers queued, in order
    closing,   \* "open"; "closing" once the coordinator is closed; then "closed"
    \* each call
    want,      \* what it asks for: a context, and whether exclusively
    place,     \* where it is; "granted" and "refused" are answers in its channel
    lease,     \* the client of its lease, in the channel or in its hands
    \* the clients
    loggedIn,  \* clients with a session id
    rejected,  \* clients whose login a test saw fail
    pooled     \* clients that may keep idle connections

lane == <<current, active, waiters>>
clientVars == <<loggedIn, rejected, pooled>>
laneVars == <<lane, closing, want, place, lease, clientVars>>

Requests == [context : Contexts, exclusive : BOOLEAN]
Epochs == [context : Contexts, client : Clients, exclusive : BOOLEAN]
NoEpoch == [client |-> NoClient]
LanePlaces == {"idle", "found", "waiting", "granted", "refused", "holding", "tested", "failed"}

\* The type invariant; a caller is queued while its channel is empty, once.
LaneTypeOK ==
    /\ current \in Epochs \cup {NoEpoch}
    /\ active \in 0 .. Cardinality(Acquirers)
    /\ waiters \in Seq(Acquirers)
    /\ \A i, k \in DOMAIN waiters : waiters[i] = waiters[k] => i = k
    /\ \A c \in Acquirers : place[c] = "waiting" <=> \E i \in DOMAIN waiters : waiters[i] = c
    /\ closing \in {"open", "closing", "closed"}
    /\ want \in [Acquirers -> Requests \cup {NoRequest}]
    /\ place \in [Acquirers -> LanePlaces]
    /\ lease \in [Acquirers -> Clients \cup {NoClient}]
    /\ loggedIn \subseteq Clients
    /\ rejected \subseteq Clients
    /\ pooled \subseteq Clients

LaneInit ==
    /\ current = NoEpoch
    /\ active = 0
    /\ waiters = <<>>
    /\ closing = "open"
    /\ want = [c \in Acquirers |-> NoRequest]
    /\ place = [c \in Acquirers |-> "idle"]
    /\ lease = [c \in Acquirers |-> NoClient]
    /\ loggedIn = {}
    /\ rejected = {}
    /\ pooled = {}

Holders == {c \in Acquirers : lease[c] # NoClient}

-----------------------------------------------------------------------------
(* grantLocked *)

\* sameSessionContext, for a caller that does not ask for the lane alone.
Compatible(c, e) == ~want[c].exclusive /\ want[c].context = e.context

\* The waiters at the head of the queue that may join epoch e.
Joining(W, e) == {i \in DOMAIN W : \A k \in 1 .. i : Compatible(W[k], e)}

\* newClient: an object that nothing refers to yet.
FreshClient == CHOOSE x \in Clients : x # current.client /\ \A c \in Acquirers : lease[c] # x

\* The client of an idle lane serves the next caller of the same context; a
\* test and another context get a new one.
KeepsClient(c, e) == e # NoEpoch /\ Compatible(c, e)

\* The epoch after grantLocked and the positions of the queue it grants.  An
\* idle lane turns to its first waiter; an exclusive one stays alone.
NextEpoch(e, n, W) ==
    IF n = 0 /\ W # <<>>
    THEN [context |-> want[W[1]].context, exclusive |-> want[W[1]].exclusive,
          client |-> IF KeepsClient(W[1], e) THEN e.client ELSE FreshClient]
    ELSE e

Admitted(e, n, W) ==
    LET f == NextEpoch(e, n, W) IN
    (IF n = 0 /\ W # <<>> THEN {1} ELSE {})
        \cup (IF f = NoEpoch \/ f.exclusive THEN {} ELSE Joining(W, f))

\* grantLocked on a lane with epoch e, n leases and queue W, of which the call
\* in this critical section leaves its callers at places with leases held.  A
\* closed lane refuses everybody; the client that is replaced drops its idle
\* connections.  What a client knows goes with the last reference to it.
\* popLocked: the queue loses as many callers as are granted.
GrantLocked(e, n, W, closed, places, held) ==
    LET f == IF closed THEN e ELSE NextEpoch(e, n, W)
        A == IF closed THEN {} ELSE Admitted(e, n, W)
        chosen == {W[i] : i \in A}
        kept == [c \in Acquirers |-> IF c \in chosen THEN f.client ELSE held[c]]
        referred == {f.client} \cup {kept[c] : c \in Acquirers}
    IN  /\ current' = f
        /\ active' = n + Cardinality(A)
        /\ waiters' = IF closed THEN <<>> ELSE SubSeq(W, Cardinality(A) + 1, Len(W))
        /\ place' = [c \in Acquirers |->
                    IF c \in chosen THEN "granted"
                    ELSE IF closed /\ \E i \in DOMAIN W : W[i] = c THEN "refused"
                    ELSE places[c]]
        /\ lease' = kept
        /\ loggedIn' = loggedIn \cap referred
        /\ rejected' = rejected \cap referred
        /\ pooled' = IF f.client # current.client THEN pooled \ {current.client} ELSE pooled

Closed == closing = "closed"

-----------------------------------------------------------------------------
(* The calls *)

\* acquire finds or makes the lane while the coordinator is open.
Lookup(c, request) ==
    /\ place[c] = "idle"
    /\ closing = "open"
    /\ want' = [want EXCEPT ![c] = request]
    /\ place' = [place EXCEPT ![c] = "found"]
    /\ UNCHANGED <<lane, closing, lease, clientVars>>

\* Mutant: the latest caller is served first.
QueuedFirst(c) == <<c>> \o waiters

Queued(c) == Append(waiters, c)

\* lane.acquire up to the select.
Enqueue(c) ==
    /\ place[c] = "found"
    /\ IF Closed
       THEN /\ place' = [place EXCEPT ![c] = "refused"]
            /\ UNCHANGED <<lane, lease, clientVars>>
       ELSE GrantLocked(current, active, Queued(c), FALSE,
                        [place EXCEPT ![c] = "waiting"], lease)
    /\ UNCHANGED <<closing, want>>

\* The call returns; the caller is free to call again.
Returned(c) == [place EXCEPT ![c] = "idle"]

ReceiveLease(c) ==
    /\ place[c] = "granted"
    /\ place' = [place EXCEPT ![c] = "holding"]
    /\ UNCHANGED <<lane, closing, want, lease, clientVars>>

ReceiveRefusal(c) ==
    /\ place[c] = "refused"
    /\ place' = Returned(c)
    /\ want' = [want EXCEPT ![c] = NoRequest]
    /\ UNCHANGED <<lane, closing, lease, clientVars>>

\* ctx.Done() while still queued: the caller leaves the queue, and whoever it
\* kept waiting may be let in.
CancelWaiting(c) ==
    /\ place[c] = "waiting"
    /\ \E i \in DOMAIN waiters :
          /\ waiters[i] = c
          /\ GrantLocked(current, active,
                         SubSeq(waiters, 1, i - 1) \o SubSeq(waiters, i + 1, Len(waiters)),
                         Closed, Returned(c), lease)
    /\ want' = [want EXCEPT ![c] = NoRequest]
    /\ UNCHANGED closing

\* Mutant: a caller that gave up drops the lease it was granted meanwhile.
ForgetGranted(c) ==
    /\ place[c] = "granted"
    /\ place' = Returned(c)
    /\ lease' = [lease EXCEPT ![c] = NoClient]
    /\ want' = [want EXCEPT ![c] = NoRequest]
    /\ UNCHANGED <<lane, closing, clientVars>>

\* release: the last lease ends an exclusive epoch, and on a closed lane it
\* takes the client with it.  A second Release of the same lease does nothing.
Release(c) ==
    LET n == IF active > 0 THEN active - 1 ELSE 0
        e == IF n # 0 \/ current = NoEpoch THEN current
             ELSE IF Closed THEN NoEpoch
             ELSE [current EXCEPT !.exclusive = FALSE]
    IN  /\ GrantLocked(e, n, waiters, Closed, Returned(c), [lease EXCEPT ![c] = NoClient])
        /\ want' = [want EXCEPT ![c] = NoRequest]
        /\ UNCHANGED closing

\* ctx.Done() wins the select although the grant is in the channel already,
\* or the grant arrives between ctx.Done() and cancel.
CancelGranted(c) == place[c] = "granted" /\ Release(c)

\* A run works with its client: the first request logs in, or fails to.
Use(c, ok) ==
    /\ place[c] = "holding" /\ ~want[c].exclusive
    /\ loggedIn' = IF ok THEN loggedIn \cup {lease[c]} ELSE loggedIn
    /\ pooled' = pooled \cup {lease[c]}
    /\ UNCHANGED <<lane, closing, want, place, lease, rejected>>

\* Test: Authenticate logs in unless the client has a session.
Authenticate(c, ok) ==
    /\ place[c] = "holding" /\ want[c].exclusive
    /\ lease[c] \in loggedIn => ok
    /\ place' = [place EXCEPT ![c] = IF ok THEN "tested" ELSE "failed"]
    /\ loggedIn' = IF ok THEN loggedIn \cup {lease[c]} ELSE loggedIn
    /\ rejected' = IF ok THEN rejected ELSE rejected \cup {lease[c]}
    /\ pooled' = pooled \cup {lease[c]}
    /\ UNCHANGED <<lane, closing, want, lease>>

\* invalidate: the lane forgets the client of a failed test.
Invalidate(c) ==
    /\ place[c] = "failed"
    /\ place' = [place EXCEPT ![c] = "tested"]
    /\ IF current.client = lease[c]
       THEN current' = NoEpoch /\ pooled' = pooled \ {lease[c]}
       ELSE UNCHANGED <<current, pooled>>
    /\ UNCHANGED <<active, waiters, closing, want, lease, loggedIn, rejected>>

\* A run or a test returns its lease.
ReleaseLease(c) ==
    /\ place[c] = "tested" \/ (place[c] = "holding" /\ ~want[c].exclusive)
    /\ Release(c)

\* Close of the coordinator, then of the lane.
CoordinatorClose ==
    /\ closing = "open"
    /\ closing' = "closing"
    /\ UNCHANGED <<lane, want, place, lease, clientVars>>

LaneClose ==
    /\ closing = "closing"
    /\ closing' = "closed"
    /\ GrantLocked(IF active = 0 THEN NoEpoch ELSE current, active, waiters, TRUE, place, lease)
    /\ UNCHANGED want

-----------------------------------------------------------------------------

LaneProceed(c) ==
    \/ Enqueue(c) \/ ReceiveLease(c) \/ ReceiveRefusal(c)
    \/ \E ok \in BOOLEAN : Authenticate(c, ok)
    \/ Invalidate(c) \/ ReleaseLease(c)

LaneNext ==
    \/ \E c \in Acquirers :
        \/ LaneProceed(c) \/ CancelWaiting(c) \/ CancelGranted(c)
        \/ \E request \in Requests : Lookup(c, request)
        \/ \E ok \in BOOLEAN : Use(c, ok)
    \/ CoordinatorClose \/ LaneClose

LaneSpec == LaneInit /\ [][LaneNext]_laneVars

\* Fairness.  A call goes on by itself: the mutex is held for a few
\* statements, logins have a timeout and a run returns its lease when its
\* execution ends (RunsSettle of RunLifecycle).  New calls, cancellations and
\* the shutdown owe nothing.
LaneFairness == \A c \in Acquirers : WF_laneVars(LaneProceed(c))

LaneFairSpec == LaneSpec /\ LaneFairness

-----------------------------------------------------------------------------
(* Properties *)

\* One username, one session: all leases that are out at a time, the ones on
\* their way through a channel included, use one client in one context, and
\* a connection test is alone.
OneSession ==
    \A c, d \in Holders : c # d =>
        /\ lease[c] = lease[d]
        /\ want[c].context = want[d].context
        /\ ~want[c].exclusive

\* No lease is lost: the count that lets the next context in is the number of
\* leases out, also when callers give up while they are being granted.
NoLeaseLost == active = Cardinality(Holders)

\* A connection test proves something: the client it is about to log in with
\* has no session from earlier use, and a client it saw rejected serves
\* nobody after it.
TestsAreReal ==
    \A c \in Holders :
        /\ want[c].exclusive /\ place[c] = "holding" => lease[c] \notin loggedIn
        /\ lease[c] \in rejected => want[c].exclusive /\ place[c] # "granted"

\* Idle connections do not outlive their client: only the client of the lane
\* or of a lease that is out may have some.  After Close and the last release
\* there are none.
NoConnectionsLeft ==
    pooled \subseteq {lease[c] : c \in Holders}
                        \cup (IF Closed THEN {} ELSE {current.client})

\* What holds of a lane in every state, with callers that give up at any point.
LaneSafety == LaneTypeOK /\ OneSession /\ NoLeaseLost /\ TestsAreReal /\ NoConnectionsLeft

\* Callers are served in order, so everybody in the queue gets an answer: a
\* stream of compatible callers does not keep another context or a test out.
EveryCallerIsAnswered ==
    \A c \in Acquirers : []<>(place[c] # "waiting")
=============================================================================
