---------------------------- MODULE FincloudProofs ----------------------------
(***************************************************************************)
(* The properties of FincloudClient, for any set of callers and any number *)
(* of logins, and of SessionLane, for any number of callers, contexts and  *)
(* client objects.  The two modules share no variable.                     *)
(***************************************************************************)
EXTENDS FincloudClient, SessionLane, FiniteSetTheorems, TLAPS

-----------------------------------------------------------------------------
(* FincloudClient *)

\* A generation some call saw refused is not known to the server any more.
StaleIsDead == \A c \in Callers : stale[c] \notin alive

\* SingleFlight and RetryIsNewer depend on each other only through the types;
\* NoNeedlessLogin needs StaleIsDead.
IInv == TypeOK /\ SingleFlight /\ RetryIsNewer /\ StaleIsDead

\* The first state: no session, no login, no call.
LEMMA InitIInv == Init => IInv
<1> SUFFICES ASSUME Init PROVE IInv
    OBVIOUS
<1> USE DEF Init
<1>1. TypeOK
    <2>1. login \in BOOLEAN
        BY Zenon
    <2>2. alive \subseteq 1 .. generation /\ generation \in 0 .. MaxGeneration
        BY ClientAssumption
    <2>3. pc \in [Callers -> Places]
        BY DEF Places
    <2>4. stale \in [Callers -> 0 .. generation] /\ using \in [Callers -> 0 .. generation]
        OBVIOUS
    <2> QED BY <2>1, <2>2, <2>3, <2>4 DEF TypeOK
<1>2. SingleFlight
    <2>1. ~login
        OBVIOUS
    <2>2. \A c \in Callers : pc[c] # "leading"
        OBVIOUS
    <2> QED BY <2>1, <2>2, Zenon DEF SingleFlight
<1>3. RetryIsNewer
    BY DEF RetryIsNewer
<1>4. StaleIsDead
    BY DEF StaleIsDead
<1> QED BY <1>1, <1>2, <1>3, <1>4 DEF IInv

\* No step of a call or of the server breaks the invariant.
LEMMA NextIInv == IInv /\ [Next]_vars => IInv'
<1> SUFFICES ASSUME IInv, [Next]_vars PROVE IInv'
    OBVIOUS
<1> USE ClientAssumption
    DEF IInv, TypeOK, SingleFlight, RetryIsNewer, StaleIsDead, Places, Generations
<1>1. ASSUME NEW c \in Callers, Do(c) PROVE IInv'
    BY <1>1 DEF Do
<1>2. ASSUME NEW c \in Callers, Reuse(c) PROVE IInv'
    BY <1>2 DEF Reuse, Usable
<1>3. ASSUME NEW c \in Callers, Follow(c) PROVE IInv'
    BY <1>3 DEF Follow
<1>4. ASSUME NEW c \in Callers, Lead(c) PROVE IInv'
    BY <1>4 DEF Lead
<1>5. ASSUME NEW c \in Callers, LoginSucceeds(c) PROVE IInv'
    <2>1. generation' = generation + 1 /\ generation' \in 0 .. MaxGeneration
        BY <1>5 DEF LoginSucceeds
    <2>2. TypeOK'
        <3>1. login' \in BOOLEAN
            BY <1>5 DEF LoginSucceeds, CallDone
        <3>2. alive' \subseteq 1 .. generation'
            BY <1>5, <2>1 DEF LoginSucceeds
        <3>3. pc' \in [Callers -> Places]
            BY <1>5 DEF LoginSucceeds, CallDone
        <3>4. stale' \in [Callers -> 0 .. generation'] /\ using' \in [Callers -> 0 .. generation']
            BY <1>5, <2>1 DEF LoginSucceeds
        <3> QED BY <2>1, <3>1, <3>2, <3>3, <3>4
    <2>3. SingleFlight'
        BY <1>5 DEF LoginSucceeds, CallDone
    <2>4. RetryIsNewer'
        BY <1>5 DEF LoginSucceeds, CallDone
    <2>5. StaleIsDead'
        BY <1>5 DEF LoginSucceeds
    <2> QED BY <2>2, <2>3, <2>4, <2>5
<1>6. ASSUME NEW c \in Callers, LoginFails(c) PROVE IInv'
    <2>1. TypeOK'
        <3>1. login' \in BOOLEAN
            BY <1>6 DEF LoginFails, CallDone
        <3>2. pc' \in [Callers -> Places]
            BY <1>6 DEF LoginFails, CallDone
        <3>3. stale' \in [Callers -> 0 .. generation] /\ using' \in [Callers -> 0 .. generation]
            BY <1>6 DEF LoginFails
        <3>4. generation' = generation /\ alive' = alive
            BY <1>6 DEF LoginFails
        <3> QED BY <3>1, <3>2, <3>3, <3>4
    <2>2. SingleFlight'
        BY <1>6 DEF LoginFails, CallDone
    <2>3. RetryIsNewer'
        BY <1>6 DEF LoginFails, CallDone
    <2>4. StaleIsDead'
        BY <1>6 DEF LoginFails
    <2> QED BY <2>1, <2>2, <2>3, <2>4
<1>7. ASSUME NEW c \in Callers, FollowerContinues(c) PROVE IInv'
    BY <1>7 DEF FollowerContinues
<1>8. ASSUME NEW c \in Callers,
             FollowerFails(c) \/ FollowerCancelled(c) \/ Answered(c)
      PROVE  IInv'
    <2>1. Return(c) /\ pc[c] # "leading" /\ UNCHANGED <<generation, login, alive>>
        BY <1>8 DEF FollowerFails, FollowerCancelled, Answered
    <2>2. TypeOK'
        BY <2>1 DEF Return
    <2>3. SingleFlight'
        BY <2>1 DEF Return
    <2>4. RetryIsNewer' /\ StaleIsDead'
        BY <2>1 DEF Return
    <2> QED BY <2>2, <2>3, <2>4
<1>9. ASSUME NEW c \in Callers, Unauthorized(c) PROVE IInv'
    BY <1>9 DEF Unauthorized
<1>10. ASSUME NEW g \in Generations, Expire(g) PROVE IInv'
    BY <1>10 DEF Expire
<1>11. CASE UNCHANGED vars
    BY <1>11 DEF vars
<1> QED BY <1>1, <1>2, <1>3, <1>4, <1>5, <1>6, <1>7, <1>8, <1>9, <1>10, <1>11
        DEF Next, Proceed

\* The inductive invariant holds throughout.
THEOREM ClientInvariance == Spec => []IInv
BY InitIInv, NextIInv, PTL DEF Spec

\* The client's state has its type whatever its callers and the server do.
THEOREM ClientTypeCorrect == Spec => []TypeOK
BY ClientInvariance, PTL DEF IInv

\* ensureSession: at most one login is under way.
THEOREM OneLogin == Spec => []SingleFlight
BY ClientInvariance, PTL DEF IInv

\* do: the repeated request carries a newer session than the refused one.
THEOREM FreshRetry == Spec => []RetryIsNewer
BY ClientInvariance, PTL DEF IInv

\* ensureSession: a login starts only when the server has dropped the session
\* or there has been none.
THEOREM LoginsAreNeeded == Spec => NoNeedlessLogin
<1>1. ASSUME IInv, [Next]_vars PROVE [login' /\ ~login => generation \notin alive]_vars
    <2> USE DEF IInv, TypeOK
    <2> SUFFICES ASSUME Next, login', ~login PROVE generation \notin alive
        BY <1>1
    <2>1. \A c \in Callers : Lead(c) => generation \notin alive
        BY <1>1, ClientAssumption DEF Lead, Usable, StaleIsDead
    <2>2. PICK c \in Callers : Lead(c)
        BY <1>1 DEF Next, Proceed, Do, Reuse, Follow, LoginSucceeds, LoginFails, CallDone,
            FollowerContinues, FollowerFails, FollowerCancelled, Answered, Unauthorized, Expire
    <2> QED BY <2>1, <2>2
<1> QED BY <1>1, ClientInvariance, PTL DEF Spec, NoNeedlessLogin

\* One client in every state: its type, one login at a time, and no request
\* repeated with the session that was refused.
THEOREM ClientSafetyHolds == Spec => []ClientSafety
BY ClientTypeCorrect, OneLogin, FreshRetry, PTL DEF ClientSafety

-----------------------------------------------------------------------------
(* SessionLane *)

HoldPlaces == {"granted", "holding", "tested", "failed"}
Leases == [Acquirers -> Clients \cup {NoClient}]
HoldersOf(held) == {c \in Acquirers : held[c] # NoClient}

\* The queue W beside the places of the calls.
QueueOK(W, places) ==
    /\ W \in Seq(Acquirers) /\ places \in [Acquirers -> LanePlaces]
    /\ \A i, k \in 1 .. Len(W) : W[i] = W[k] => i = k
    /\ \A c \in Acquirers : places[c] = "waiting" <=> \E i \in 1 .. Len(W) : W[i] = c

\* The leases, n of them, and whose they are.
LeasesOK(n, places, held) ==
    /\ held \in Leases
    /\ \A c \in Acquirers : held[c] # NoClient <=> places[c] \in HoldPlaces
    /\ n = Cardinality(HoldersOf(held))

WantsOK(places, wants) ==
    /\ wants \in [Acquirers -> Requests \cup {NoRequest}]
    /\ \A c \in Acquirers : places[c] # "idle" => wants[c] \in Requests

\* Every lease is of the epoch e, unless its test has failed and e is forgotten.
SessionOK(e, places, held, wants) ==
    /\ e \in Epochs \cup {NoEpoch}
    /\ \A c \in HoldersOf(held) :
           /\ e # NoEpoch => /\ held[c] = e.client /\ wants[c].context = e.context
                             /\ wants[c].exclusive <=> e.exclusive
           /\ e = NoEpoch => wants[c].exclusive /\ places[c] = "tested"
           /\ places[c] \in {"tested", "failed"} => wants[c].exclusive
           /\ \A d \in HoldersOf(held) : wants[c].exclusive => c = d

\* A client that is referred to.
Referred(e, held) == {e.client} \cup {held[c] : c \in Acquirers}

\* What is known of clients, known logged in, rejected, with idle connections.
TestsOK(e, places, held, wants, known, bad) ==
    /\ known \subseteq Referred(e, held) /\ known \subseteq Clients
    /\ \A c \in HoldersOf(held) :
           wants[c].exclusive /\ places[c] \in {"granted", "holding"} => held[c] \notin known
    /\ \A x \in bad :
           /\ x \in Clients
           /\ \E c \in HoldersOf(held) :
                  /\ held[c] = x /\ wants[c].exclusive
                  /\ places[c] = "failed" \/ (places[c] = "tested" /\ e = NoEpoch)

ClosedOK ==
    /\ closing \in {"open", "closing", "closed"}
    /\ Closed => waiters = <<>> /\ (active = 0 => current = NoEpoch)

LaneInv ==
    /\ QueueOK(waiters, place)
    /\ LeasesOK(active, place, lease)
    /\ WantsOK(place, want)
    /\ SessionOK(current, place, lease, want)
    /\ TestsOK(current, place, lease, want, loggedIn, rejected)
    /\ pooled \subseteq {current.client} /\ pooled \subseteq Clients
    /\ ClosedOK

-----------------------------------------------------------------------------
LEMMA LeaseCount ==
    ASSUME NEW held
    PROVE  /\ IsFiniteSet(HoldersOf(held))
           /\ Cardinality(HoldersOf(held)) \in 0 .. Cardinality(Acquirers)
           /\ Cardinality(HoldersOf(held)) = 0 <=> HoldersOf(held) = {}
<1>1. HoldersOf(held) \subseteq Acquirers
    BY DEF HoldersOf
<1>2. Cardinality(Acquirers) \in Nat
    BY LaneAssumption, FS_CardinalityType
<1>3. /\ IsFiniteSet(HoldersOf(held))
      /\ Cardinality(HoldersOf(held)) <= Cardinality(Acquirers)
    BY <1>1, LaneAssumption, FS_Subset
<1>4. Cardinality(HoldersOf(held)) \in Nat
    BY <1>3, FS_CardinalityType
<1> QED BY <1>2, <1>3, <1>4, FS_EmptySet

\* newClient: there is a client nothing refers to.
LEMMA FreshIsFresh ==
    ASSUME lease \in Leases
    PROVE  FreshClient \in Clients /\ FreshClient \notin Referred(current, lease)
<1> DEFINE held == {lease[c] : c \in Acquirers}
<1>1. lease \in Surjection(Acquirers, held)
    BY DEF Surjection, Leases
<1>2. IsFiniteSet(held) /\ Cardinality(held) <= Cardinality(Acquirers)
    BY <1>1, LaneAssumption, FS_Surjection
<1>3. Referred(current, lease) = held \cup {current.client}
    BY DEF Referred
<1> HIDE DEF held
<1>4. /\ IsFiniteSet(Referred(current, lease))
      /\ Cardinality(Referred(current, lease)) <= Cardinality(held) + 1
    <2>1. Cardinality(held) \in Nat
        BY <1>2, FS_CardinalityType
    <2> QED BY <1>2, <1>3, <2>1, FS_AddElement
<1>5. ~(Clients \subseteq Referred(current, lease))
    <2> SUFFICES ASSUME Clients \subseteq Referred(current, lease) PROVE FALSE
        OBVIOUS
    <2>1. Cardinality(Clients) <= Cardinality(Referred(current, lease))
        BY <1>4, FS_Subset
    <2>2. /\ Cardinality(held) \in Nat /\ Cardinality(Acquirers) \in Nat
          /\ Cardinality(Clients) \in Nat /\ Cardinality(Referred(current, lease)) \in Nat
        BY <1>2, <1>4, LaneAssumption, FS_CardinalityType
    <2> QED BY <1>2, <1>4, <2>1, <2>2, LaneAssumption
<1>6. \E x \in Clients : x # current.client /\ \A c \in Acquirers : lease[c] # x
    BY <1>5 DEF Referred
<1>7. /\ FreshClient \in Clients /\ FreshClient # current.client
      /\ \A c \in Acquirers : lease[c] # FreshClient
    BY <1>6 DEF FreshClient
<1> QED BY <1>7 DEF Referred

\* A set of positions without gaps is a head of the queue.
LEMMA HeadOfQueue ==
    ASSUME NEW A, NEW m \in Nat, A \subseteq 1 .. m, \A a \in A : 1 .. a \subseteq A
    PROVE  Cardinality(A) \in 0 .. m /\ A = 1 .. Cardinality(A)
<1> DEFINE k == Cardinality(A)
<1>1. IsFiniteSet(1 .. m) /\ Cardinality(1 .. m) = m
    BY FS_Interval
<1>2. IsFiniteSet(A) /\ k <= m /\ k \in Nat
    BY <1>1, FS_Subset, FS_CardinalityType
<1>3. ASSUME NEW a \in A PROVE a \in 1 .. k
    <2>1. Cardinality(1 .. a) = a /\ a \in Nat \ {0}
        BY FS_Interval
    <2>2. Cardinality(1 .. a) <= k
        BY <1>2, FS_Subset
    <2> QED BY <1>2, <2>1, <2>2
<1>4. IsFiniteSet(1 .. k) /\ Cardinality(1 .. k) = k
    BY <1>2, FS_Interval
<1>5. A = 1 .. k
    BY <1>3, <1>4, FS_Subset
<1> QED BY <1>2, <1>5

\* As many callers as positions.
LEMMA ChosenCount ==
    ASSUME NEW W \in Seq(Acquirers), \A i, j \in 1 .. Len(W) : W[i] = W[j] => i = j,
           NEW k \in 0 .. Len(W)
    PROVE  /\ IsFiniteSet({W[i] : i \in 1 .. k})
           /\ Cardinality({W[i] : i \in 1 .. k}) = k
<1> DEFINE f == [i \in 1 .. k |-> W[i]]
           T == {W[i] : i \in 1 .. k}
<1>1. f \in Bijection(1 .. k, T)
    <2>1. f \in [1 .. k -> T]
        OBVIOUS
    <2>2. \A i, j \in 1 .. k : f[i] = f[j] => i = j
        OBVIOUS
    <2>3. \A t \in T : \E i \in 1 .. k : f[i] = t
        OBVIOUS
    <2> HIDE DEF f, T
    <2> QED BY <2>1, <2>2, <2>3 DEF Bijection, Injection, IsInjective, Surjection
<1>2. ExistsBijection(1 .. k, T)
    BY <1>1 DEF ExistsBijection
<1>3. IsFiniteSet(1 .. k) /\ Cardinality(1 .. k) = k
    BY FS_Interval
<1> HIDE DEF T
<1>4. IsFiniteSet(T) /\ Cardinality(T) = k
    BY <1>2, <1>3, FS_Bijection
<1> QED BY <1>4 DEF T

-----------------------------------------------------------------------------
(* grantLocked *)

\* The lane in the middle of a critical section, before grantLocked: what the
\* call has already done to epoch, leases, queue, places and requests.
Carried(e, n, W, places, held, wants) ==
    /\ QueueOK(W, places)
    /\ LeasesOK(n, places, held)
    /\ WantsOK(places, wants)
    /\ \A c \in Acquirers : places[c] # "idle" => wants[c] = want[c]
    /\ SessionOK(e, places, held, wants)
    /\ e.client \in {current.client, NoClient}
    /\ \A c \in Acquirers : held[c] \in {lease[c], NoClient}
    /\ \A c \in HoldersOf(held) :
           wants[c].exclusive /\ places[c] \in {"granted", "holding"} => held[c] \notin loggedIn
    /\ \A x \in rejected :
           \/ \E c \in HoldersOf(held) :
                  /\ held[c] = x /\ wants[c].exclusive
                  /\ places[c] = "failed" \/ (places[c] = "tested" /\ e = NoEpoch)
           \/ x # e.client /\ \A c \in Acquirers : held[c] # x

\* Who is granted: a head of the queue.
LEMMA GrantedHead ==
    ASSUME NEW e, NEW n \in Nat, NEW W \in Seq(Acquirers)
    PROVE  /\ Cardinality(Admitted(e, n, W)) \in 0 .. Len(W)
           /\ Admitted(e, n, W) = 1 .. Cardinality(Admitted(e, n, W))
<1> DEFINE A == Admitted(e, n, W)
<1>1. A \subseteq 1 .. Len(W)
    BY DEF Admitted, Joining
<1>2. \A a \in A : 1 .. a \subseteq A
    BY <1>1 DEF Admitted, Joining
<1> HIDE DEF A
<1>3. Len(W) \in Nat
    OBVIOUS
<1> QED BY <1>1, <1>2, <1>3, HeadOfQueue DEF A

\* The epoch they are granted.
LEMMA GrantedEpoch ==
    ASSUME LaneInv, NEW e, NEW n, NEW W, NEW places, NEW held, NEW wants,
           Carried(e, n, W, places, held, wants)
    PROVE  LET f == NextEpoch(e, n, W)
               A == Admitted(e, n, W)
           IN  /\ f \in Epochs \cup {NoEpoch}
               /\ f = e \/ (f.client = FreshClient /\ f # NoEpoch)
                        \/ (f.client = e.client /\ f # NoEpoch /\ e # NoEpoch)
               /\ HoldersOf(held) # {} => f = e
               /\ A # {} => /\ f \in Epochs
                            /\ \A i \in A : /\ want[W[i]].context = f.context
                                            /\ want[W[i]].exclusive <=> f.exclusive
                            /\ f.exclusive => /\ HoldersOf(held) = {} /\ A = {1}
                                              /\ f.client = FreshClient
                            /\ ~f.exclusive => \A c \in HoldersOf(held) : ~wants[c].exclusive
<1> DEFINE f == NextEpoch(e, n, W)
           A == Admitted(e, n, W)
<1>1. W \in Seq(Acquirers) /\ \A i \in 1 .. Len(W) : W[i] \in Acquirers /\ want[W[i]] \in Requests
    BY DEF Carried, QueueOK, WantsOK, LanePlaces
<1>2. n = Cardinality(HoldersOf(held)) /\ (n = 0 <=> HoldersOf(held) = {})
    BY LeaseCount DEF Carried, LeasesOK
<1>3. e \in Epochs \cup {NoEpoch}
    BY DEF Carried, SessionOK
<1>4. FreshClient \in Clients
    BY FreshIsFresh DEF LaneInv, LeasesOK
<1>5. \A i \in Joining(W, f) : i \in 1 .. Len(W) /\ Compatible(W[i], f) /\ Compatible(W[1], f)
    BY <1>1 DEF Joining
<1>6. NoClient \notin Clients
    BY LaneAssumption
<1>7. CASE n = 0 /\ W # <<>>
    <2>1. 1 \in 1 .. Len(W)
        BY <1>1, <1>7
    <2>2. f = [context |-> want[W[1]].context, exclusive |-> want[W[1]].exclusive,
               client |-> IF KeepsClient(W[1], e) THEN e.client ELSE FreshClient]
        BY <1>7 DEF NextEpoch
    <2>3. KeepsClient(W[1], e) => e \in Epochs /\ ~want[W[1]].exclusive
        BY <1>3 DEF KeepsClient, Compatible
    <2>4. f \in Epochs /\ f.client \in Clients
        BY <2>1, <2>2, <2>3, <1>1, <1>4 DEF Epochs, Requests
    <2>5. f # NoEpoch
        BY <2>4, <1>6 DEF NoEpoch
    <2>6. A = {1} \cup (IF f.exclusive THEN {} ELSE Joining(W, f))
        BY <1>7, <2>5 DEF Admitted
    <2>7. f.exclusive <=> want[W[1]].exclusive
        BY <2>2
    <2>8. f.context = want[W[1]].context
        BY <2>2
    <2>9. f.client \in {e.client, FreshClient} /\ (f.client # FreshClient => e # NoEpoch)
        BY <2>2 DEF KeepsClient
    <2>10. f.exclusive => f.client = FreshClient
        BY <2>2, <2>3
    <2> HIDE DEF f, A
    <2>11. \A i \in A : /\ want[W[i]].context = f.context
                        /\ want[W[i]].exclusive <=> f.exclusive
        BY <2>6, <2>7, <2>8, <1>5 DEF Compatible
    <2> QED BY <1>2, <1>7, <2>4, <2>5, <2>6, <2>9, <2>10, <2>11 DEF f, A
<1>8. CASE ~(n = 0 /\ W # <<>>)
    <2>1. f = e
        BY <1>8 DEF NextEpoch
    <2>2. A = IF e = NoEpoch \/ e.exclusive THEN {} ELSE Joining(W, e)
        BY <1>8, <2>1 DEF Admitted
    <2>3. A # {} => e \in Epochs /\ e # NoEpoch /\ ~e.exclusive
        BY <2>2, <1>3
    <2>4. A # {} => \A c \in HoldersOf(held) : ~wants[c].exclusive
        BY <2>3 DEF Carried, SessionOK
    <2> HIDE DEF f, A
    <2>5. \A i \in A : /\ want[W[i]].context = f.context
                       /\ ~want[W[i]].exclusive
        BY <2>1, <2>2, <1>5 DEF Compatible
    <2> QED BY <1>3, <2>1, <2>3, <2>4, <2>5 DEF f, A
<1> QED BY <1>7, <1>8

\* What grantLocked makes of the lane, read without its LET.
Kept(f, chosen, held) == [c \in Acquirers |-> IF c \in chosen THEN f.client ELSE held[c]]

LEMMA Granting ==
    ASSUME LaneInv, NEW e, NEW n, NEW W, NEW places, NEW held,
           Carried(e, n, W, places, held, want'),
           closing' \in {"open", "closing"},
           GrantLocked(e, n, W, FALSE, places, held)
    PROVE  LaneInv'
<1> DEFINE f == NextEpoch(e, n, W)
           A == Admitted(e, n, W)
           k == Cardinality(A)
           chosen == {W[i] : i \in A}
           kept == Kept(f, chosen, held)
           moved == [c \in Acquirers |-> IF c \in chosen THEN "granted" ELSE places[c]]
<1>1. /\ current' = f
      /\ active' = n + k
      /\ waiters' = SubSeq(W, k + 1, Len(W))
      /\ place' = moved
      /\ lease' = kept
      /\ loggedIn' = loggedIn \cap Referred(f, kept)
      /\ rejected' = rejected \cap Referred(f, kept)
      /\ pooled' = IF f.client # current.client THEN pooled \ {current.client} ELSE pooled
    BY DEF GrantLocked, Kept, Referred
<1>2. /\ W \in Seq(Acquirers) /\ Len(W) \in Nat
      /\ \A i, j \in 1 .. Len(W) : W[i] = W[j] => i = j
      /\ places \in [Acquirers -> LanePlaces]
      /\ \A c \in Acquirers : places[c] = "waiting" <=> \E i \in 1 .. Len(W) : W[i] = c
    BY DEF Carried, QueueOK
<1>3. /\ held \in Leases
      /\ \A c \in Acquirers : held[c] # NoClient <=> places[c] \in HoldPlaces
      /\ n = Cardinality(HoldersOf(held))
    BY DEF Carried, LeasesOK
<1>4. n \in Nat /\ IsFiniteSet(HoldersOf(held))
    BY <1>3, LeaseCount
<1>5. k \in 0 .. Len(W) /\ A = 1 .. k
    BY <1>2, <1>4, GrantedHead
<1>6. /\ f \in Epochs \cup {NoEpoch}
      /\ f = e \/ (f.client = FreshClient /\ f # NoEpoch)
               \/ (f.client = e.client /\ f # NoEpoch /\ e # NoEpoch)
      /\ HoldersOf(held) # {} => f = e
      /\ A # {} => /\ f \in Epochs
                   /\ \A i \in A : /\ want[W[i]].context = f.context
                                   /\ want[W[i]].exclusive <=> f.exclusive
                   /\ f.exclusive => /\ HoldersOf(held) = {} /\ A = {1}
                                     /\ f.client = FreshClient
                   /\ ~f.exclusive => \A c \in HoldersOf(held) : ~want'[c].exclusive
    BY GrantedEpoch
<1>7. FreshClient \in Clients /\ FreshClient \notin Referred(current, lease)
    BY FreshIsFresh DEF LaneInv, LeasesOK
<1>8. NoClient \notin Clients
    BY LaneAssumption
<1>9. \A c \in chosen : c \in Acquirers /\ places[c] = "waiting" /\ held[c] = NoClient
    BY <1>2, <1>3, <1>5 DEF HoldPlaces
<1>10. chosen = {} <=> A = {}
    OBVIOUS
<1>11. chosen # {} => f \in Epochs /\ f.client \in Clients /\ f # NoEpoch
    BY <1>6, <1>8, <1>10 DEF Epochs, NoEpoch
<1>12. \A c \in Acquirers : places[c] # "idle" => want'[c] = want[c]
    BY DEF Carried
<1>13. \A c \in chosen : /\ want'[c].context = f.context
                         /\ want'[c].exclusive <=> f.exclusive
    BY <1>6, <1>9, <1>12
<1>15. chosen = {W[i] : i \in 1 .. k}
    BY <1>5
<1>16. A # {} <=> chosen # {}
    OBVIOUS
<1> HIDE DEF f, k, A, chosen, kept, moved
<1>14. IsFiniteSet(chosen) /\ Cardinality(chosen) = k
    BY <1>2, <1>5, <1>15, ChosenCount
<1>17. HoldersOf(kept) = HoldersOf(held) \cup chosen
    BY <1>3, <1>8, <1>9, <1>11 DEF HoldersOf, kept, Kept
<1>18. \A c \in Acquirers : kept[c] = IF c \in chosen THEN f.client ELSE held[c]
    BY DEF kept, Kept
<1>19. \A c \in Acquirers : moved[c] = IF c \in chosen THEN "granted" ELSE places[c]
    BY DEF moved
<1>20. QueueOK(waiters', moved)
    <2> DEFINE V == SubSeq(W, k + 1, Len(W))
    <2>1. V \in Seq(Acquirers) /\ Len(V) = Len(W) - k /\ \A i \in 1 .. Len(V) : V[i] = W[i + k]
        BY <1>2, <1>5
    <2>2. \A i, j \in 1 .. Len(V) : V[i] = V[j] => i = j
        BY <2>1, <1>2, <1>5
    <2>3. moved \in [Acquirers -> LanePlaces]
        BY <1>2 DEF moved, LanePlaces
    <2>4. ASSUME NEW c \in Acquirers
          PROVE  moved[c] = "waiting" <=> \E i \in 1 .. Len(V) : V[i] = c
        <3>1. ASSUME NEW i \in 1 .. Len(V), V[i] = c PROVE moved[c] = "waiting"
            <4>1. i + k \in 1 .. Len(W) /\ W[i + k] = c
                BY <2>1, <3>1, <1>5
            <4>2. c \notin chosen
                BY <4>1, <1>2, <1>5, <1>15
            <4> QED BY <4>1, <4>2, <1>2, <1>19
        <3>2. ASSUME moved[c] = "waiting" PROVE \E i \in 1 .. Len(V) : V[i] = c
            <4>1. c \notin chosen /\ places[c] = "waiting"
                BY <3>2, <1>19
            <4>2. PICK j \in 1 .. Len(W) : W[j] = c
                BY <4>1, <1>2
            <4>3. j > k
                BY <4>1, <4>2, <1>5, <1>15
            <4>4. j - k \in 1 .. Len(V) /\ V[j - k] = c
                BY <4>2, <4>3, <2>1, <1>5
            <4> QED BY <4>4
        <3> QED BY <3>1, <3>2
    <2> HIDE DEF V
    <2>5. QueueOK(V, moved)
        BY <2>1, <2>2, <2>3, <2>4 DEF QueueOK
    <2> QED BY <2>5, <1>1 DEF V
<1>21. LeasesOK(n + k, moved, kept)
    <2>1. kept \in Leases
        BY <1>3, <1>11 DEF kept, Kept, Leases
    <2>2. HoldersOf(held) \cap chosen = {}
        BY <1>9 DEF HoldersOf
    <2>3. Cardinality(HoldersOf(kept)) = n + k
        <3>1. Cardinality(HoldersOf(held) \cap chosen) = 0
            BY <2>2, FS_EmptySet
        <3>2. k \in Nat
            BY <1>5, <1>2
        <3>3. Cardinality(HoldersOf(held) \cup chosen)
                = Cardinality(HoldersOf(held)) + Cardinality(chosen)
                  - Cardinality(HoldersOf(held) \cap chosen)
            BY <1>4, <1>14, FS_Union
        <3> QED BY <1>17, <3>1, <3>2, <3>3, <1>14, <1>4, <1>3
    <2>4. \A c \in Acquirers : kept[c] # NoClient <=> moved[c] \in HoldPlaces
        BY <1>3, <1>8, <1>11, <1>18, <1>19 DEF HoldPlaces
    <2> QED BY <2>1, <2>3, <2>4 DEF LeasesOK
<1>22. WantsOK(moved, want')
    BY <1>9, <1>19 DEF Carried, WantsOK
<1>23. SessionOK(f, moved, kept, want')
    <2>1. ASSUME NEW c \in HoldersOf(kept)
          PROVE  /\ f # NoEpoch => /\ kept[c] = f.client /\ want'[c].context = f.context
                                   /\ want'[c].exclusive <=> f.exclusive
                 /\ f = NoEpoch => want'[c].exclusive /\ moved[c] = "tested"
                 /\ moved[c] \in {"tested", "failed"} => want'[c].exclusive
                 /\ \A d \in HoldersOf(kept) : want'[c].exclusive => c = d
        <3>1. c \in Acquirers
            BY DEF HoldersOf
        <3>2. CASE c \in chosen
            <4>1. f # NoEpoch /\ kept[c] = f.client /\ moved[c] = "granted"
                BY <3>1, <3>2, <1>11, <1>18, <1>19
            <4>2. ASSUME NEW d \in HoldersOf(kept), want'[c].exclusive PROVE c = d
                <5>1. f.exclusive
                    BY <4>2, <3>2, <1>13
                <5>2. HoldersOf(held) = {} /\ A = {1}
                    BY <5>1, <3>2, <1>6, <1>16
                <5>3. chosen = {W[1]}
                    BY <5>2 DEF chosen
                <5> QED BY <5>2, <5>3, <3>2, <1>17
            <4> QED BY <4>1, <4>2, <3>2, <1>13
        <3>3. CASE c \notin chosen
            <4>1. c \in HoldersOf(held) /\ kept[c] = held[c] /\ moved[c] = places[c]
                BY <3>1, <3>3, <1>17, <1>18, <1>19
            <4>2. f = e
                BY <4>1, <1>6
            <4>3. /\ e # NoEpoch => /\ held[c] = e.client /\ want'[c].context = e.context
                                    /\ want'[c].exclusive <=> e.exclusive
                  /\ e = NoEpoch => want'[c].exclusive /\ places[c] = "tested"
                  /\ places[c] \in {"tested", "failed"} => want'[c].exclusive
                  /\ \A d \in HoldersOf(held) : want'[c].exclusive => c = d
                BY <4>1 DEF Carried, SessionOK
            <4>4. ASSUME want'[c].exclusive PROVE chosen = {}
                <5> SUFFICES ASSUME chosen # {} PROVE FALSE
                    OBVIOUS
                <5>1. f.exclusive => HoldersOf(held) = {}
                    BY <1>6, <1>16
                <5>2. ~f.exclusive => ~want'[c].exclusive
                    BY <1>6, <1>16, <4>1
                <5> QED BY <5>1, <5>2, <4>1, <4>4
            <4> QED BY <4>1, <4>2, <4>3, <4>4, <1>17
        <3> QED BY <3>2, <3>3
    <2> QED BY <2>1, <1>6 DEF SessionOK
<1>24. TestsOK(f, moved, kept, want', loggedIn', rejected')
    <2>1. loggedIn \subseteq Clients /\ loggedIn \subseteq Referred(current, lease)
          /\ rejected \subseteq Clients
          /\ \A x \in rejected : \E c \in HoldersOf(lease) : lease[c] = x
        BY DEF LaneInv, TestsOK
    <2>2. ASSUME NEW c \in HoldersOf(kept), want'[c].exclusive,
                 moved[c] \in {"granted", "holding"}, kept[c] \in loggedIn
          PROVE  FALSE
        <3>1. c \in Acquirers
            BY DEF HoldersOf
        <3>2. CASE c \in chosen
            <4>1. kept[c] = FreshClient
                BY <2>2, <3>1, <3>2, <1>6, <1>13, <1>16, <1>18
            <4> QED BY <4>1, <2>1, <2>2, <1>7
        <3>3. CASE c \notin chosen
            <4>1. c \in HoldersOf(held) /\ kept[c] = held[c] /\ moved[c] = places[c]
                BY <3>1, <3>3, <1>17, <1>18, <1>19
            <4> QED BY <4>1, <2>2 DEF Carried
        <3> QED BY <3>2, <3>3
    <2>3. ASSUME NEW x \in rejected, x \in Referred(f, kept)
          PROVE  \E c \in HoldersOf(kept) :
                     /\ kept[c] = x /\ want'[c].exclusive
                     /\ moved[c] = "failed" \/ (moved[c] = "tested" /\ f = NoEpoch)
        <3>1. x # FreshClient /\ x # NoClient
            BY <2>1, <1>7, <1>8 DEF Referred, HoldersOf
        <3>2. CASE \E c \in HoldersOf(held) :
                       /\ held[c] = x /\ want'[c].exclusive
                       /\ places[c] = "failed" \/ (places[c] = "tested" /\ e = NoEpoch)
            <4>1. PICK c \in HoldersOf(held) :
                       /\ held[c] = x /\ want'[c].exclusive
                       /\ places[c] = "failed" \/ (places[c] = "tested" /\ e = NoEpoch)
                BY <3>2
            <4>2. f = e
                BY <4>1, <1>6
            <4>3. c \notin chosen /\ c \in Acquirers
                BY <4>1, <1>9 DEF HoldersOf
            <4>4. c \in HoldersOf(kept) /\ kept[c] = held[c] /\ moved[c] = places[c]
                BY <4>1, <4>3, <1>17, <1>18, <1>19
            <4> QED BY <4>1, <4>2, <4>4
        <3>3. CASE x # e.client /\ \A c \in Acquirers : held[c] # x
            <4>1. x # f.client
                BY <3>1, <3>3, <1>6
            <4> QED BY <4>1, <3>3, <2>3, <1>18 DEF Referred
        <3> QED BY <3>2, <3>3 DEF Carried
    <2>4. loggedIn' \subseteq Referred(f, kept) /\ loggedIn' \subseteq Clients
        BY <1>1, <2>1
    <2> QED BY <2>1, <2>2, <2>3, <2>4, <1>1 DEF TestsOK
<1>25. pooled' \subseteq {f.client} /\ pooled' \subseteq Clients
    BY <1>1 DEF LaneInv
<1>26. ClosedOK'
    BY DEF ClosedOK, Closed
<1> QED BY <1>1, <1>20, <1>21, <1>22, <1>23, <1>24, <1>25, <1>26 DEF LaneInv

\* A closed lane answers everybody in the queue, and gives up its client with the
\* last lease.
LEMMA Refusing ==
    ASSUME LaneInv, NEW e, NEW n, NEW W, NEW places, NEW held,
           Carried(e, n, W, places, held, want'),
           closing' = "closed", n = 0 => e = NoEpoch,
           GrantLocked(e, n, W, TRUE, places, held)
    PROVE  LaneInv'
<1> DEFINE moved == [c \in Acquirers |->
                         IF \E i \in 1 .. Len(W) : W[i] = c THEN "refused" ELSE places[c]]
<1>1. /\ W \in Seq(Acquirers) /\ DOMAIN W = 1 .. Len(W)
      /\ places \in [Acquirers -> LanePlaces]
      /\ \A c \in Acquirers : places[c] = "waiting" <=> \E i \in 1 .. Len(W) : W[i] = c
    BY DEF Carried, QueueOK
<1>2. /\ held \in Leases
      /\ \A c \in Acquirers : held[c] # NoClient <=> places[c] \in HoldPlaces
      /\ n = Cardinality(HoldersOf(held)) /\ n \in Nat
    BY LeaseCount DEF Carried, LeasesOK
<1>3. held = [c \in Acquirers |-> held[c]]
    BY <1>2 DEF Leases
<1>4. n + Cardinality({}) = n
    BY <1>2, FS_EmptySet
<1>5. {W[i] : i \in {}} = {}
    OBVIOUS
<1>6. /\ current' = e
      /\ active' = n
      /\ waiters' = <<>>
      /\ place' = moved
      /\ lease' = held
      /\ loggedIn' = loggedIn \cap Referred(e, held)
      /\ rejected' = rejected \cap Referred(e, held)
      /\ pooled' = IF e.client # current.client THEN pooled \ {current.client} ELSE pooled
    BY <1>1, <1>3, <1>4, <1>5 DEF GrantLocked, Referred
<1>7. \A c \in Acquirers : moved[c] = IF places[c] = "waiting" THEN "refused" ELSE places[c]
    BY <1>1
<1>8. moved \in [Acquirers -> LanePlaces]
    BY <1>1 DEF LanePlaces
<1> HIDE DEF moved
<1>9. QueueOK(<<>>, moved)
    BY <1>7, <1>8 DEF QueueOK
<1>10. LeasesOK(n, moved, held)
    BY <1>2, <1>7 DEF LeasesOK, HoldPlaces
<1>11. WantsOK(moved, want')
    BY <1>7 DEF Carried, WantsOK
<1>12. \A c \in HoldersOf(held) : moved[c] = places[c]
    BY <1>2, <1>7 DEF HoldersOf, HoldPlaces
<1>13. SessionOK(e, moved, held, want')
    BY <1>12 DEF Carried, SessionOK
<1>14. TestsOK(e, moved, held, want', loggedIn', rejected')
    <2>1. loggedIn \subseteq Clients /\ rejected \subseteq Clients
        BY DEF LaneInv, TestsOK
    <2>2. \A x \in rejected' :
              \E c \in HoldersOf(held) :
                  /\ held[c] = x /\ want'[c].exclusive
                  /\ moved[c] = "failed" \/ (moved[c] = "tested" /\ e = NoEpoch)
        BY <1>6, <1>12 DEF Carried, Referred
    <2> QED BY <1>6, <1>12, <2>1, <2>2 DEF Carried, TestsOK
<1>15. pooled' \subseteq {e.client} /\ pooled' \subseteq Clients
    BY <1>6 DEF LaneInv
<1>16. ClosedOK'
    BY <1>6 DEF ClosedOK, Closed
<1> QED BY <1>6, <1>9, <1>10, <1>11, <1>13, <1>14, <1>15, <1>16 DEF LaneInv

-----------------------------------------------------------------------------
(* The calls *)

LEMMA NotHeld ==
    ASSUME LaneInv, NEW c \in Acquirers, place[c] \notin HoldPlaces
    PROVE  lease[c] = NoClient /\ c \notin HoldersOf(lease)
BY DEF LaneInv, LeasesOK, HoldersOf

\* A step of one call from a place without a lease to another.
LEMMA OutsideTheLane ==
    ASSUME LaneInv, NEW c \in Acquirers, NEW p \in LanePlaces \ HoldPlaces, NEW w,
           place[c] \notin HoldPlaces, place[c] # "waiting", p # "waiting",
           w \in Requests \/ (p = "idle" /\ w = NoRequest),
           place' = [place EXCEPT ![c] = p], want' = [want EXCEPT ![c] = w],
           UNCHANGED <<lane, closing, lease, clientVars>>
    PROVE  LaneInv'
<1>1. c \notin HoldersOf(lease) /\ lease[c] = NoClient
    BY NotHeld
<1>2. \A d \in Acquirers : d # c => place'[d] = place[d] /\ want'[d] = want[d]
    BY DEF LaneInv, QueueOK, WantsOK
<1>3. place'[c] = p /\ want'[c] = w
    BY DEF LaneInv, QueueOK, WantsOK
<1>4. \A d \in HoldersOf(lease) : place'[d] = place[d] /\ want'[d] = want[d]
    BY <1>1, <1>2 DEF HoldersOf
<1>5. QueueOK(waiters, place')
    BY <1>2, <1>3 DEF LaneInv, QueueOK
<1>6. LeasesOK(active, place', lease)
    BY <1>1, <1>2, <1>3 DEF LaneInv, LeasesOK
<1>7. WantsOK(place', want')
    BY <1>2, <1>3 DEF LaneInv, WantsOK
<1>8. SessionOK(current, place', lease, want')
    BY <1>4 DEF LaneInv, SessionOK
<1>9. TestsOK(current, place', lease, want', loggedIn, rejected)
    BY <1>4 DEF LaneInv, TestsOK
<1> QED BY <1>5, <1>6, <1>7, <1>8, <1>9 DEF LaneInv, lane, clientVars, ClosedOK, Closed

LEMMA LookupStep ==
    ASSUME LaneInv, NEW c \in Acquirers, NEW request \in Requests, Lookup(c, request)
    PROVE  LaneInv'
<1>1. place[c] \notin HoldPlaces /\ place[c] # "waiting"
    BY DEF Lookup, HoldPlaces
<1>2. "found" \in LanePlaces \ HoldPlaces
    BY DEF LanePlaces, HoldPlaces
<1> QED BY <1>1, <1>2, OutsideTheLane DEF Lookup

LEMMA ReceiveRefusalStep ==
    ASSUME LaneInv, NEW c \in Acquirers, ReceiveRefusal(c)
    PROVE  LaneInv'
<1>1. place[c] \notin HoldPlaces /\ place[c] # "waiting"
    BY DEF ReceiveRefusal, HoldPlaces
<1>2. "idle" \in LanePlaces \ HoldPlaces
    BY DEF LanePlaces, HoldPlaces
<1> QED BY <1>1, <1>2, OutsideTheLane DEF ReceiveRefusal, Returned

LEMMA CarriedNow ==
    ASSUME LaneInv
    PROVE  Carried(current, active, waiters, place, lease, want)
<1>1. \A c \in Acquirers : lease[c] \in {lease[c], NoClient}
    OBVIOUS
<1>2. \A x \in rejected :
          \E c \in HoldersOf(lease) :
              /\ lease[c] = x /\ want[c].exclusive
              /\ place[c] = "failed" \/ (place[c] = "tested" /\ current = NoEpoch)
    BY DEF LaneInv, TestsOK
<1>3. \A c \in HoldersOf(lease) :
          want[c].exclusive /\ place[c] \in {"granted", "holding"} => lease[c] \notin loggedIn
    BY DEF LaneInv, TestsOK
<1> QED BY <1>1, <1>2, <1>3 DEF LaneInv, Carried

LEMMA EnqueueStep ==
    ASSUME LaneInv, NEW c \in Acquirers, Enqueue(c)
    PROVE  LaneInv'
<1>1. place[c] = "found" /\ want' = want /\ closing' = closing
    BY DEF Enqueue
<1>2. want[c] \in Requests
    BY <1>1 DEF LaneInv, WantsOK
<1>3. CASE Closed
    <2>1. want' = [want EXCEPT ![c] = want[c]]
        BY <1>1 DEF LaneInv, WantsOK
    <2>2. place[c] \notin HoldPlaces /\ place[c] # "waiting"
        BY <1>1 DEF HoldPlaces
    <2>3. "refused" \in LanePlaces \ HoldPlaces
        BY DEF LanePlaces, HoldPlaces
    <2>4. place' = [place EXCEPT ![c] = "refused"] /\ UNCHANGED <<lane, closing, lease, clientVars>>
        BY <1>3 DEF Enqueue
    <2> QED BY <1>2, <2>1, <2>2, <2>3, <2>4, OutsideTheLane
<1>4. CASE ~Closed
    <2> DEFINE W == Append(waiters, c)
               places == [place EXCEPT ![c] = "waiting"]
    <2>1. GrantLocked(current, active, W, FALSE, places, lease)
        BY <1>4 DEF Enqueue, Queued
    <2>2. closing' \in {"open", "closing"}
        BY <1>1, <1>4 DEF LaneInv, ClosedOK, Closed
    <2>3. /\ waiters \in Seq(Acquirers) /\ Len(waiters) \in Nat
          /\ place \in [Acquirers -> LanePlaces]
          /\ \A i, k \in 1 .. Len(waiters) : waiters[i] = waiters[k] => i = k
          /\ \A d \in Acquirers : place[d] = "waiting" <=> \E i \in 1 .. Len(waiters) : waiters[i] = d
        BY DEF LaneInv, QueueOK
    <2>4. \A i \in 1 .. Len(waiters) : waiters[i] # c
        BY <1>1, <2>3
    <2>5. /\ W \in Seq(Acquirers) /\ Len(W) = Len(waiters) + 1
          /\ W[Len(waiters) + 1] = c
          /\ \A i \in 1 .. Len(waiters) : W[i] = waiters[i]
        BY <2>3
    <2>6. places \in [Acquirers -> LanePlaces] /\ places[c] = "waiting"
          /\ \A d \in Acquirers : d # c => places[d] = place[d]
        BY <2>3 DEF LanePlaces
    <2> HIDE DEF W, places
    <2>7. QueueOK(W, places)
        <3>1. \A i, k \in 1 .. Len(W) : W[i] = W[k] => i = k
            BY <2>3, <2>4, <2>5
        <3>2. \A d \in Acquirers : places[d] = "waiting" <=> \E i \in 1 .. Len(W) : W[i] = d
            BY <2>3, <2>5, <2>6
        <3> QED BY <2>5, <2>6, <3>1, <3>2 DEF QueueOK
    <2>8. c \notin HoldersOf(lease) /\ lease[c] = NoClient
        BY <1>1, NotHeld DEF HoldPlaces
    <2>9. \A d \in HoldersOf(lease) : places[d] = place[d]
        BY <2>6, <2>8 DEF HoldersOf
    <2>10. LeasesOK(active, places, lease)
        BY <2>6, <2>8 DEF LaneInv, LeasesOK, HoldPlaces
    <2>11. WantsOK(places, want)
        BY <2>6, <1>2 DEF LaneInv, WantsOK
    <2>12. Carried(current, active, W, places, lease, want)
        <3>1. SessionOK(current, places, lease, want)
            BY <2>9 DEF LaneInv, SessionOK
        <3> QED BY <2>7, <2>9, <2>10, <2>11, <3>1, CarriedNow DEF Carried
    <2> QED BY <1>1, <2>1, <2>2, <2>12, Granting
<1> QED BY <1>3, <1>4

\* cancel: the queue without position i.
LEMMA WithoutPosition ==
    ASSUME NEW W \in Seq(Acquirers), \A j, k \in 1 .. Len(W) : W[j] = W[k] => j = k,
           NEW i \in 1 .. Len(W)
    PROVE  LET V == SubSeq(W, 1, i - 1) \o SubSeq(W, i + 1, Len(W)) IN
           /\ V \in Seq(Acquirers)
           /\ \A j, k \in 1 .. Len(V) : V[j] = V[k] => j = k
           /\ \A d : (\E j \in 1 .. Len(V) : V[j] = d)
                        <=> (d # W[i] /\ \E j \in 1 .. Len(W) : W[j] = d)
<1> DEFINE P == SubSeq(W, 1, i - 1)
           S == SubSeq(W, i + 1, Len(W))
           V == P \o S
<1>1. P \in Seq(Acquirers) /\ Len(P) = i - 1 /\ \A j \in 1 .. (i - 1) : P[j] = W[j]
    OBVIOUS
<1>2. S \in Seq(Acquirers) /\ Len(S) = Len(W) - i /\ \A j \in 1 .. (Len(W) - i) : S[j] = W[j + i]
    OBVIOUS
<1> HIDE DEF P, S
<1>3. V \in Seq(Acquirers) /\ Len(V) = Len(W) - 1
    BY <1>1, <1>2
<1>4. \A j \in 1 .. Len(V) : V[j] = IF j < i THEN W[j] ELSE W[j + 1]
    BY <1>1, <1>2, <1>3
<1> HIDE DEF V
<1>5. \A j, k \in 1 .. Len(V) : V[j] = V[k] => j = k
    BY <1>3, <1>4
<1>6. ASSUME NEW d
      PROVE  (\E j \in 1 .. Len(V) : V[j] = d)
                 <=> (d # W[i] /\ \E j \in 1 .. Len(W) : W[j] = d)
    <2>1. ASSUME NEW j \in 1 .. Len(V), V[j] = d
          PROVE  d # W[i] /\ \E k \in 1 .. Len(W) : W[k] = d
        BY <1>3, <1>4, <2>1
    <2>2. ASSUME d # W[i], NEW j \in 1 .. Len(W), W[j] = d
          PROVE  \E k \in 1 .. Len(V) : V[k] = d
        <3>1. CASE j < i
            BY <3>1, <1>3, <1>4, <2>2
        <3>2. CASE j > i
            <4>1. j - 1 \in 1 .. Len(V) /\ V[j - 1] = d
                BY <3>2, <1>3, <1>4, <2>2
            <4> QED BY <4>1
        <3> QED BY <3>1, <3>2, <2>2
    <2> QED BY <2>1, <2>2
<1> QED BY <1>3, <1>5, <1>6 DEF V, P, S

LEMMA CancelWaitingStep ==
    ASSUME LaneInv, NEW c \in Acquirers, CancelWaiting(c)
    PROVE  LaneInv'
<1>1. /\ place[c] = "waiting" /\ closing' = closing
      /\ want' = [want EXCEPT ![c] = NoRequest]
    BY DEF CancelWaiting
<1>2. /\ waiters \in Seq(Acquirers) /\ DOMAIN waiters = 1 .. Len(waiters)
      /\ place \in [Acquirers -> LanePlaces]
      /\ \A i, k \in 1 .. Len(waiters) : waiters[i] = waiters[k] => i = k
      /\ \A d \in Acquirers : place[d] = "waiting" <=> \E i \in 1 .. Len(waiters) : waiters[i] = d
    BY DEF LaneInv, QueueOK
<1>3. ~Closed /\ closing' \in {"open", "closing"}
    BY <1>1, <1>2 DEF LaneInv, ClosedOK, Closed
<1>4. PICK i \in 1 .. Len(waiters) :
          /\ waiters[i] = c
          /\ GrantLocked(current, active,
                         SubSeq(waiters, 1, i - 1) \o SubSeq(waiters, i + 1, Len(waiters)),
                         Closed, Returned(c), lease)
    BY <1>2 DEF CancelWaiting
<1> DEFINE W == SubSeq(waiters, 1, i - 1) \o SubSeq(waiters, i + 1, Len(waiters))
           places == Returned(c)
<1>5. GrantLocked(current, active, W, FALSE, places, lease)
    <2>1. Closed = FALSE
        BY <1>3 DEF Closed
    <2> QED BY <1>4, <2>1
<1>6. /\ W \in Seq(Acquirers)
      /\ \A j, k \in 1 .. Len(W) : W[j] = W[k] => j = k
      /\ \A d : (\E j \in 1 .. Len(W) : W[j] = d)
                   <=> (d # c /\ \E j \in 1 .. Len(waiters) : waiters[j] = d)
    <2>1. /\ W \in Seq(Acquirers)
          /\ \A j, k \in 1 .. Len(W) : W[j] = W[k] => j = k
          /\ \A d : (\E j \in 1 .. Len(W) : W[j] = d)
                       <=> (d # waiters[i] /\ \E j \in 1 .. Len(waiters) : waiters[j] = d)
        BY <1>2, WithoutPosition
    <2> HIDE DEF W
    <2> QED BY <2>1, <1>4
<1>7. /\ places \in [Acquirers -> LanePlaces] /\ places[c] = "idle"
      /\ \A d \in Acquirers : d # c => places[d] = place[d]
    BY <1>2 DEF Returned, LanePlaces
<1> HIDE DEF W, places
<1>8. QueueOK(W, places)
    <2>1. \A d \in Acquirers : places[d] = "waiting" <=> \E j \in 1 .. Len(W) : W[j] = d
        BY <1>2, <1>6, <1>7
    <2> QED BY <1>6, <1>7, <2>1 DEF QueueOK
<1>9. c \notin HoldersOf(lease) /\ lease[c] = NoClient
    BY <1>1, NotHeld DEF HoldPlaces
<1>10. \A d \in Acquirers : d # c => want'[d] = want[d]
    BY <1>1 DEF LaneInv, WantsOK
<1>11. \A d \in HoldersOf(lease) : places[d] = place[d] /\ want'[d] = want[d]
    BY <1>7, <1>9, <1>10 DEF HoldersOf
<1>12. LeasesOK(active, places, lease)
    BY <1>7, <1>9 DEF LaneInv, LeasesOK, HoldPlaces
<1>13. WantsOK(places, want')
    BY <1>1, <1>7 DEF LaneInv, WantsOK
<1>14. SessionOK(current, places, lease, want')
    BY <1>11 DEF LaneInv, SessionOK
<1>15. Carried(current, active, W, places, lease, want')
    <2>1. \A d \in Acquirers : places[d] # "idle" => want'[d] = want[d]
        BY <1>7, <1>10
    <2> QED BY <1>8, <1>11, <1>12, <1>13, <1>14, <2>1, CarriedNow DEF Carried
<1> QED BY <1>3, <1>5, <1>15, Granting

LEMMA ReleaseStep ==
    ASSUME LaneInv, NEW c \in Acquirers, Release(c),
           \/ place[c] \in {"granted", "tested"}
           \/ place[c] = "holding" /\ ~want[c].exclusive
    PROVE  LaneInv'
<1> DEFINE n == IF active > 0 THEN active - 1 ELSE 0
           e == IF n # 0 \/ current = NoEpoch THEN current
                ELSE IF Closed THEN NoEpoch
                ELSE [current EXCEPT !.exclusive = FALSE]
           places == Returned(c)
           held == [lease EXCEPT ![c] = NoClient]
<1>1. GrantLocked(e, n, waiters, Closed, places, held)
    BY DEF Release
<1>2. want' = [want EXCEPT ![c] = NoRequest] /\ closing' = closing
    BY DEF Release
<1>3. lease \in Leases /\ place \in [Acquirers -> LanePlaces]
      /\ want \in [Acquirers -> Requests \cup {NoRequest}]
    BY DEF LaneInv, LeasesOK, QueueOK, WantsOK
<1>4. c \in HoldersOf(lease) /\ lease[c] \in Clients
    BY <1>3 DEF LaneInv, LeasesOK, HoldPlaces, HoldersOf, Leases
<1>5. held \in Leases /\ held[c] = NoClient /\ \A d \in Acquirers : d # c => held[d] = lease[d]
    BY <1>3 DEF Leases
<1>6. places \in [Acquirers -> LanePlaces] /\ places[c] = "idle"
      /\ \A d \in Acquirers : d # c => places[d] = place[d]
    BY <1>3 DEF Returned, LanePlaces
<1>7. \A d \in Acquirers : d # c => want'[d] = want[d]
    BY <1>2, <1>3
<1>8. HoldersOf(held) = HoldersOf(lease) \ {c}
    BY <1>5 DEF HoldersOf
<1>9. n = Cardinality(HoldersOf(held)) /\ n \in Nat /\ (n = 0 <=> HoldersOf(held) = {})
    <2>1. IsFiniteSet(HoldersOf(lease)) /\ Cardinality(HoldersOf(lease)) \in Nat
        BY LeaseCount
    <2>2. active = Cardinality(HoldersOf(lease))
        BY DEF LaneInv, LeasesOK
    <2>3. Cardinality(HoldersOf(lease)) # 0
        BY <1>4, LeaseCount
    <2>4. Cardinality(HoldersOf(lease) \ {c}) = Cardinality(HoldersOf(lease)) - 1
        BY <1>4, <2>1, FS_RemoveElement
    <2>5. n = active - 1 /\ n \in Nat
        BY <2>1, <2>2, <2>3
    <2> HIDE DEF n, held
    <2>6. n = Cardinality(HoldersOf(held))
        BY <1>8, <2>1, <2>2, <2>4, <2>5
    <2> QED BY <2>5, <2>6, LeaseCount
<1>10. n # 0 => e = current
    OBVIOUS
<1>11. current = NoEpoch => e = NoEpoch
    OBVIOUS
<1>12. current \in Epochs \cup {NoEpoch}
    BY DEF LaneInv, SessionOK
<1>13. e \in Epochs \cup {NoEpoch} /\ e.client \in {current.client, NoClient}
    <2>1. NoEpoch.client = NoClient
        BY DEF NoEpoch
    <2>2. ASSUME current # NoEpoch
          PROVE  /\ [current EXCEPT !.exclusive = FALSE] \in Epochs
                 /\ [current EXCEPT !.exclusive = FALSE].client = current.client
        BY <1>12, <2>2 DEF Epochs
    <2> QED BY <1>12, <2>1, <2>2
<1>14. n = 0 /\ Closed => e = NoEpoch
    OBVIOUS
<1> HIDE DEF n, e, places, held
<1>15. QueueOK(waiters, places)
    <2>1. place[c] # "waiting"
        OBVIOUS
    <2> QED BY <1>6, <2>1 DEF LaneInv, QueueOK
<1>16. LeasesOK(n, places, held)
    BY <1>5, <1>6, <1>9 DEF LaneInv, LeasesOK, HoldPlaces
<1>17. WantsOK(places, want')
    BY <1>2, <1>6, <1>7 DEF LaneInv, WantsOK
<1>18. \A d \in HoldersOf(held) : /\ d \in HoldersOf(lease) /\ held[d] = lease[d]
                                  /\ places[d] = place[d] /\ want'[d] = want[d]
                                  /\ e = current
    BY <1>5, <1>6, <1>7, <1>8, <1>9, <1>10 DEF HoldersOf
<1>19. SessionOK(e, places, held, want')
    BY <1>13, <1>18 DEF LaneInv, SessionOK
<1>20. ASSUME NEW x \in rejected
       PROVE  \/ \E d \in HoldersOf(held) :
                     /\ held[d] = x /\ want'[d].exclusive
                     /\ places[d] = "failed" \/ (places[d] = "tested" /\ e = NoEpoch)
              \/ x # e.client /\ \A d \in Acquirers : held[d] # x
    <2>1. PICK d \in HoldersOf(lease) :
              /\ lease[d] = x /\ want[d].exclusive
              /\ place[d] = "failed" \/ (place[d] = "tested" /\ current = NoEpoch)
        BY DEF LaneInv, TestsOK
    <2>2. c = d
        BY <1>4, <2>1 DEF LaneInv, SessionOK
    <2>3. e = NoEpoch
        BY <2>1, <2>2, <1>11
    <2>4. HoldersOf(lease) = {c}
        BY <1>4, <2>1, <2>2 DEF LaneInv, SessionOK
    <2>5. x # NoClient
        BY <2>1 DEF HoldersOf
    <2>6. \A a \in Acquirers : held[a] = NoClient
        BY <2>4, <1>8 DEF HoldersOf
    <2> QED BY <2>3, <2>5, <2>6 DEF NoEpoch
<1>21. Carried(e, n, waiters, places, held, want')
    <2>1. \A d \in Acquirers : held[d] \in {lease[d], NoClient}
        BY <1>5
    <2>2. \A d \in Acquirers : places[d] # "idle" => want'[d] = want[d]
        BY <1>6, <1>7
    <2>3. \A d \in HoldersOf(held) :
              want'[d].exclusive /\ places[d] \in {"granted", "holding"} => held[d] \notin loggedIn
        BY <1>18 DEF LaneInv, TestsOK
    <2> QED BY <1>13, <1>15, <1>16, <1>17, <1>19, <1>20, <2>1, <2>2, <2>3 DEF Carried
<1>22. CASE Closed
    <2>1. Closed = TRUE /\ closing' = "closed"
        BY <1>2, <1>22 DEF Closed
    <2>2. GrantLocked(e, n, waiters, TRUE, places, held)
        BY <1>1, <2>1
    <2> QED BY <2>1, <2>2, <1>14, <1>21, Refusing
<1>23. CASE ~Closed
    <2>1. Closed = FALSE /\ closing' \in {"open", "closing"}
        BY <1>2, <1>23 DEF Closed, LaneInv, ClosedOK
    <2>2. GrantLocked(e, n, waiters, FALSE, places, held)
        BY <1>1, <2>1
    <2> QED BY <2>1, <2>2, <1>21, Granting
<1> QED BY <1>22, <1>23

\* What a caller holding a lease may rely on.
LEMMA HolderKnows ==
    ASSUME LaneInv, NEW c \in Acquirers, place[c] \in {"granted", "holding", "failed"}
    PROVE  /\ c \in HoldersOf(lease) /\ lease[c] \in Clients
           /\ current \in Epochs /\ current # NoEpoch /\ lease[c] = current.client
           /\ want[c].exclusive => /\ HoldersOf(lease) = {c}
                                   /\ place[c] # "failed" => rejected = {}
           /\ ~want[c].exclusive => \A d \in HoldersOf(lease) : ~want[d].exclusive
<1>1. c \in HoldersOf(lease) /\ lease[c] \in Clients
    BY DEF LaneInv, LeasesOK, HoldPlaces, HoldersOf, Leases
<1>2. current \in Epochs /\ current # NoEpoch /\ lease[c] = current.client
    BY <1>1 DEF LaneInv, SessionOK
<1>3. want[c].exclusive => HoldersOf(lease) = {c}
    BY <1>1 DEF LaneInv, SessionOK
<1>4. want[c].exclusive /\ place[c] # "failed" => rejected = {}
    BY <1>2, <1>3 DEF LaneInv, TestsOK
<1>5. ~want[c].exclusive => \A d \in HoldersOf(lease) : ~want[d].exclusive
    BY <1>1, <1>2 DEF LaneInv, SessionOK
<1> QED BY <1>1, <1>2, <1>3, <1>4, <1>5

\* A step of one call from a place with a lease to another leaves queue, leases
\* and requests as they were.
LEMMA InsideTheLane ==
    ASSUME LaneInv, NEW c \in Acquirers, NEW p \in HoldPlaces, place[c] \in HoldPlaces,
           place' = [place EXCEPT ![c] = p], UNCHANGED <<active, waiters, want, lease>>
    PROVE  /\ QueueOK(waiters, place)' /\ LeasesOK(active, place, lease)'
           /\ WantsOK(place, want)'
           /\ place'[c] = p /\ \A d \in Acquirers : d # c => place'[d] = place[d]
<1>1. place'[c] = p /\ \A d \in Acquirers : d # c => place'[d] = place[d]
    BY DEF LaneInv, QueueOK
<1>2. QueueOK(waiters, place)'
    <2>1. place' \in [Acquirers -> LanePlaces]
        BY DEF LaneInv, QueueOK, HoldPlaces, LanePlaces
    <2>2. \A d \in Acquirers : place'[d] = "waiting" <=> place[d] = "waiting"
        BY <1>1 DEF HoldPlaces
    <2> QED BY <2>1, <2>2 DEF LaneInv, QueueOK
<1>3. LeasesOK(active, place, lease)'
    BY <1>1 DEF LaneInv, LeasesOK
<1>4. WantsOK(place, want)'
    BY <1>1 DEF LaneInv, WantsOK, HoldPlaces
<1> QED BY <1>1, <1>2, <1>3, <1>4

LEMMA ReceiveLeaseStep ==
    ASSUME LaneInv, NEW c \in Acquirers, ReceiveLease(c)
    PROVE  LaneInv'
<1>1. /\ place[c] = "granted" /\ place' = [place EXCEPT ![c] = "holding"]
      /\ UNCHANGED <<current, active, waiters, closing, want, lease, loggedIn, rejected, pooled>>
    BY DEF ReceiveLease, lane, clientVars
<1>2. /\ QueueOK(waiters, place)' /\ LeasesOK(active, place, lease)' /\ WantsOK(place, want)'
      /\ place'[c] = "holding" /\ \A d \in Acquirers : d # c => place'[d] = place[d]
    BY <1>1, InsideTheLane DEF HoldPlaces
<1>3. SessionOK(current, place, lease, want)'
    BY <1>1, <1>2, HolderKnows DEF LaneInv, SessionOK, HoldersOf
<1>4. TestsOK(current, place, lease, want, loggedIn, rejected)'
    <2>1. \A d \in HoldersOf(lease) : d # c => place'[d] = place[d]
        BY <1>2 DEF HoldersOf
    <2> QED BY <1>1, <1>2, <2>1 DEF LaneInv, TestsOK
<1> QED BY <1>1, <1>2, <1>3, <1>4 DEF LaneInv, ClosedOK, Closed

LEMMA UseStep ==
    ASSUME LaneInv, NEW c \in Acquirers, NEW ok \in BOOLEAN, Use(c, ok)
    PROVE  LaneInv'
<1>1. /\ place[c] = "holding" /\ ~want[c].exclusive
      /\ loggedIn' = IF ok THEN loggedIn \cup {lease[c]} ELSE loggedIn
      /\ pooled' = pooled \cup {lease[c]}
      /\ UNCHANGED <<current, active, waiters, closing, want, place, lease, rejected>>
    BY DEF Use, lane
<1>2. /\ c \in HoldersOf(lease) /\ lease[c] \in Clients /\ lease[c] = current.client
      /\ \A d \in HoldersOf(lease) : ~want[d].exclusive
    BY <1>1, HolderKnows
<1>3. TestsOK(current, place, lease, want, loggedIn, rejected)'
    <2>1. loggedIn' \subseteq Referred(current, lease) /\ loggedIn' \subseteq Clients
        BY <1>1, <1>2 DEF LaneInv, TestsOK, Referred
    <2> QED BY <1>1, <1>2, <2>1 DEF LaneInv, TestsOK
<1>4. pooled' \subseteq {current.client} /\ pooled' \subseteq Clients
    BY <1>1, <1>2 DEF LaneInv
<1> QED BY <1>1, <1>3, <1>4 DEF LaneInv, ClosedOK, Closed

LEMMA AuthenticateStep ==
    ASSUME LaneInv, NEW c \in Acquirers, NEW ok \in BOOLEAN, Authenticate(c, ok)
    PROVE  LaneInv'
<1> DEFINE p == IF ok THEN "tested" ELSE "failed"
<1>1. /\ place[c] = "holding" /\ want[c].exclusive
      /\ place' = [place EXCEPT ![c] = p]
      /\ loggedIn' = IF ok THEN loggedIn \cup {lease[c]} ELSE loggedIn
      /\ rejected' = IF ok THEN rejected ELSE rejected \cup {lease[c]}
      /\ pooled' = pooled \cup {lease[c]}
      /\ UNCHANGED <<current, active, waiters, closing, want, lease>>
    BY DEF Authenticate, lane
<1>2. /\ c \in HoldersOf(lease) /\ lease[c] \in Clients /\ lease[c] = current.client
      /\ HoldersOf(lease) = {c} /\ rejected = {} /\ current # NoEpoch
    BY <1>1, HolderKnows
<1>3. p \in HoldPlaces /\ p \notin {"granted", "holding"} /\ (~ok => p = "failed")
    BY DEF HoldPlaces
<1> HIDE DEF p
<1>4. /\ QueueOK(waiters, place)' /\ LeasesOK(active, place, lease)' /\ WantsOK(place, want)'
      /\ place'[c] = p
    BY <1>1, <1>3, InsideTheLane DEF HoldPlaces
<1>5. SessionOK(current, place, lease, want)'
    BY <1>1, <1>2 DEF LaneInv, SessionOK
<1>6. TestsOK(current, place, lease, want, loggedIn, rejected)'
    <2>1. loggedIn' \subseteq Referred(current, lease) /\ loggedIn' \subseteq Clients
        BY <1>1, <1>2 DEF LaneInv, TestsOK, Referred
    <2>2. \A x \in rejected' : x = lease[c] /\ place'[c] = "failed"
        BY <1>1, <1>2, <1>3, <1>4
    <2> QED BY <1>1, <1>2, <1>3, <1>4, <2>1, <2>2 DEF TestsOK
<1>7. pooled' \subseteq {current.client} /\ pooled' \subseteq Clients
    BY <1>1, <1>2 DEF LaneInv
<1> QED BY <1>1, <1>4, <1>5, <1>6, <1>7 DEF LaneInv, ClosedOK, Closed

LEMMA InvalidateStep ==
    ASSUME LaneInv, NEW c \in Acquirers, Invalidate(c)
    PROVE  LaneInv'
<1>1. /\ place[c] = "failed" /\ place' = [place EXCEPT ![c] = "tested"]
      /\ UNCHANGED <<active, waiters, closing, want, lease, loggedIn, rejected>>
    BY DEF Invalidate
<1>2. c \in HoldersOf(lease) /\ lease[c] \in Clients /\ lease[c] = current.client
      /\ current # NoEpoch
    BY <1>1, HolderKnows
<1>3. want[c].exclusive /\ HoldersOf(lease) = {c}
    <2>1. \A d \in HoldersOf(lease) : want[c].exclusive => c = d
        BY <1>2 DEF LaneInv, SessionOK
    <2>2. want[c].exclusive
        BY <1>1, <1>2 DEF LaneInv, SessionOK
    <2> QED BY <1>2, <2>1, <2>2
<1>4. current' = NoEpoch /\ pooled' = pooled \ {lease[c]}
    BY <1>2 DEF Invalidate
<1>5. /\ QueueOK(waiters, place)' /\ LeasesOK(active, place, lease)' /\ WantsOK(place, want)'
      /\ place'[c] = "tested"
    BY <1>1, InsideTheLane DEF HoldPlaces
<1>6. SessionOK(current, place, lease, want)'
    BY <1>1, <1>3, <1>4, <1>5 DEF SessionOK
<1>7. TestsOK(current, place, lease, want, loggedIn, rejected)'
    <2>1. loggedIn' \subseteq Referred(NoEpoch, lease) /\ loggedIn' \subseteq Clients
        BY <1>1, <1>2 DEF LaneInv, TestsOK, Referred
    <2>2. \A x \in rejected' : x \in Clients /\ x = lease[c]
        BY <1>1, <1>3 DEF LaneInv, TestsOK
    <2> QED BY <1>1, <1>3, <1>4, <1>5, <2>1, <2>2 DEF TestsOK
<1>8. pooled' = {}
    BY <1>2, <1>4 DEF LaneInv
<1> QED BY <1>1, <1>4, <1>5, <1>6, <1>7, <1>8 DEF LaneInv, ClosedOK, Closed

LEMMA LaneCloseStep ==
    ASSUME LaneInv, LaneClose
    PROVE  LaneInv'
<1> DEFINE e == IF active = 0 THEN NoEpoch ELSE current
<1>1. /\ closing' = "closed" /\ want' = want
      /\ GrantLocked(e, active, waiters, TRUE, place, lease)
    BY DEF LaneClose
<1>2. active = 0 => e = NoEpoch /\ HoldersOf(lease) = {}
    BY LeaseCount DEF LaneInv, LeasesOK
<1>3. active # 0 => e = current
    OBVIOUS
<1> HIDE DEF e
<1>4. CASE active # 0
    BY <1>1, <1>2, <1>3, <1>4, CarriedNow, Refusing
<1>5. CASE active = 0
    <2>1. e = NoEpoch /\ e.client = NoClient
        BY <1>2, <1>5 DEF NoEpoch
    <2>2. rejected = {}
        BY <1>2, <1>5 DEF LaneInv, TestsOK
    <2>3. SessionOK(e, place, lease, want)
        BY <1>2, <1>5, <2>1 DEF SessionOK
    <2>4. Carried(e, active, waiters, place, lease, want)
        BY <1>2, <1>5, <2>1, <2>2, <2>3, CarriedNow DEF Carried
    <2> QED BY <1>1, <1>2, <2>4, Refusing
<1> QED BY <1>4, <1>5

LEMMA LaneInitHolds == LaneInit => LaneInv
<1> SUFFICES ASSUME LaneInit PROVE LaneInv
    OBVIOUS
<1> USE DEF LaneInit
<1>1. HoldersOf(lease) = {}
    BY DEF HoldersOf
<1>2. QueueOK(waiters, place)
    BY DEF QueueOK, LanePlaces
<1>3. LeasesOK(active, place, lease)
    <2>1. Cardinality(HoldersOf(lease)) = 0
        BY <1>1, FS_EmptySet
    <2> QED BY <2>1 DEF LeasesOK, Leases, HoldPlaces
<1>4. WantsOK(place, want)
    BY DEF WantsOK
<1>5. SessionOK(current, place, lease, want)
    BY <1>1 DEF SessionOK
<1>6. TestsOK(current, place, lease, want, loggedIn, rejected)
    BY <1>1 DEF TestsOK
<1> QED BY <1>2, <1>3, <1>4, <1>5, <1>6 DEF LaneInv, ClosedOK, Closed

LEMMA LaneNextPreserves == LaneInv /\ [LaneNext]_laneVars => LaneInv'
<1> SUFFICES ASSUME LaneInv, [LaneNext]_laneVars PROVE LaneInv'
    OBVIOUS
<1>1. ASSUME NEW c \in Acquirers, LaneProceed(c) PROVE LaneInv'
    <2>1. CASE ReleaseLease(c)
        BY <2>1, ReleaseStep DEF ReleaseLease
    <2> QED BY <1>1, <2>1, EnqueueStep, ReceiveLeaseStep, ReceiveRefusalStep,
               AuthenticateStep, InvalidateStep DEF LaneProceed
<1>2. ASSUME NEW c \in Acquirers, CancelGranted(c) PROVE LaneInv'
    BY <1>2, ReleaseStep DEF CancelGranted
<1>3. CASE CoordinatorClose
    BY <1>3 DEF CoordinatorClose, LaneInv, ClosedOK, Closed, lane, clientVars
<1>4. CASE UNCHANGED laneVars
    BY <1>4 DEF laneVars, LaneInv, ClosedOK, Closed, lane, clientVars
<1> QED BY <1>1, <1>2, <1>3, <1>4, CancelWaitingStep, LookupStep, UseStep, LaneCloseStep
        DEF LaneNext

LEMMA LaneInvariance == LaneSpec => []LaneInv
<1> QED BY LaneInitHolds, LaneNextPreserves, PTL DEF LaneSpec

\* session_coordinator.go lane: for any number of callers, contexts and client objects,
\* the leases that are out are of one session, no lease is lost to callers that give up
\* while they are granted, a test logs in afresh and alone, and idle connections end with
\* their client.
THEOREM LaneSafetyHolds == LaneSpec => []LaneSafety
<1>1. LaneInv => LaneSafety
    <2> SUFFICES ASSUME LaneInv PROVE LaneSafety
        OBVIOUS
    <2>1. Holders = HoldersOf(lease)
        BY DEF Holders, HoldersOf
    <2>2. LaneTypeOK
        <3>1. active \in 0 .. Cardinality(Acquirers)
            BY LeaseCount DEF LaneInv, LeasesOK
        <3>2. rejected \subseteq Clients
            BY DEF LaneInv, TestsOK
        <3>3. DOMAIN waiters = 1 .. Len(waiters)
            BY DEF LaneInv, QueueOK
        <3> QED BY <3>1, <3>2, <3>3 DEF LaneTypeOK, LaneInv, QueueOK, LeasesOK, Leases, WantsOK,
                                        SessionOK, TestsOK, ClosedOK
    <2>3. OneSession
        <3> SUFFICES ASSUME NEW c \in HoldersOf(lease), NEW d \in HoldersOf(lease), c # d
                     PROVE  /\ lease[c] = lease[d] /\ want[c].context = want[d].context
                            /\ ~want[c].exclusive
            BY <2>1 DEF OneSession
        <3>1. ~want[c].exclusive
            BY DEF LaneInv, SessionOK
        <3> QED BY <3>1 DEF LaneInv, SessionOK
    <2>4. NoLeaseLost
        BY <2>1 DEF NoLeaseLost, LaneInv, LeasesOK
    <2>5. TestsAreReal
        <3>1. ASSUME NEW c \in HoldersOf(lease), lease[c] \in rejected
              PROVE  want[c].exclusive /\ place[c] # "granted"
            <4>1. PICK d \in HoldersOf(lease) :
                      want[d].exclusive /\ place[d] \in {"failed", "tested"}
                BY <3>1 DEF LaneInv, TestsOK
            <4>2. c = d
                BY <4>1 DEF LaneInv, SessionOK
            <4> QED BY <4>1, <4>2
        <3> QED BY <2>1, <3>1 DEF TestsAreReal, LaneInv, TestsOK
    <2>6. NoConnectionsLeft
        <3>1. pooled \subseteq {current.client} /\ pooled \subseteq Clients
            BY DEF LaneInv
        <3>2. ASSUME Closed, NEW x \in pooled
              PROVE  x \in {lease[c] : c \in HoldersOf(lease)}
            <4>1. current # NoEpoch
                BY <3>1, <3>2, LaneAssumption DEF NoEpoch
            <4>2. active # 0
                BY <3>2, <4>1 DEF LaneInv, ClosedOK
            <4>3. PICK c \in HoldersOf(lease) : TRUE
                BY <4>2, LeaseCount DEF LaneInv, LeasesOK
            <4>4. lease[c] = current.client
                BY <4>1, <4>3 DEF LaneInv, SessionOK
            <4> QED BY <3>1, <3>2, <4>4
        <3> QED BY <2>1, <3>1, <3>2 DEF NoConnectionsLeft
    <2> QED BY <2>2, <2>3, <2>4, <2>5, <2>6 DEF LaneSafety
<1> QED BY <1>1, LaneInvariance, PTL
=============================================================================
