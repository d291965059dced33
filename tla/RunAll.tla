------------------------------- MODULE RunAll -------------------------------
(***************************************************************************)
(* Run All: a parent row and one child row per catalog job                 *)
(* (internal/ingestionrun), advanced one child at a time by whichever      *)
(* coordinator process holds the parent's ownership token                  *)
(* (internal/coordinator, the parents map).                                *)
(*                                                                         *)
(* reconcileParentTransaction is modelled in two steps, because it reads   *)
(* in two ways: it locks the parent row, takes its snapshot with the next  *)
(* plain SELECT (MySQL's REPEATABLE READ), and later mixes that snapshot   *)
(* with a locking read of the planned children.  Everything else is one    *)
(* transaction, one action.  How a queued child is claimed, executed and   *)
(* closed is the subject of RunLifecycle; here only its status moves.      *)
(***************************************************************************)
EXTENDS Integers, FiniteSets

CONSTANTS
    Coordinators, \* the coordinator processes sharing the database
    MaxParents,   \* bound: Run All submissions
    NumJobs,      \* jobs of the catalog: children of a parent
    Tokens        \* ownership tokens, recycled when no copy of one is left

ASSUME RunAllAssumption ==
    /\ IsFiniteSet(Coordinators)
    /\ MaxParents \in Nat \ {0}
    /\ NumJobs \in Nat \ {0}
    /\ Tokens \subseteq Nat \ {0}
    /\ IsFiniteSet(Tokens)
    /\ Cardinality(Tokens) > 2 * Cardinality(Coordinators) + 1

VARIABLES
    \* table ingestion_runs
    parent,          \* status of each parent row; "none" before it is inserted
    parentCancelReq, \* the parent's cancel_requested_at IS NOT NULL
    parentOwner,     \* the parent's owner_id
    expired,         \* parents whose heartbeat is older than the lease
    child,           \* child[P][i]: status of the child at position i
    flagged,         \* <<P, i>>: the child runs and its cancel_requested_at IS NOT NULL
    \* each coordinator process
    up,              \* it runs
    creating,        \* the parent it has created and not yet registered
    parents,         \* Coordinator.parents: its token for each parent
    \* its call of reconcileParent
    step,            \* "idle", "called", or "locked" inside the transaction
    callee,          \* the parent it was called for
    token,           \* the token it was called with
    snapshot,        \* its first plain SELECT: "active", or the verdict on the children
    sawCancel        \* cancel_requested_at as the snapshot has it

parentRows == <<parent, parentCancelReq, parentOwner, expired, child, flagged>>
calls == <<step, callee, token, snapshot, sawCancel>>
runAllVars == <<parentRows, up, creating, parents, calls>>

Parents == 1 .. MaxParents
NoParent == 0
Positions == 1 .. NumJobs
NoToken == 0

ActiveChild == {"queued", "running"}
Bad == {"failed", "cancelled", "abandoned"}
TerminalChild == Bad \cup {"succeeded", "skipped"}
ChildStatus == {"none", "planned"} \cup ActiveChild \cup TerminalChild
Ended == {"completed", "completed_with_skips", "failed", "cancelled"}

NoChildren == [i \in Positions |-> "none"]

\* The type invariant; a token is only held for an inserted parent.
RunAllTypeOK ==
    /\ parent \in [Parents -> {"none", "running"} \cup Ended]
    /\ parentCancelReq \in [Parents -> BOOLEAN]
    /\ parentOwner \in [Parents -> Tokens \cup {NoToken}]
    /\ expired \subseteq Parents
    /\ child \in [Parents -> [Positions -> ChildStatus]]
    /\ flagged \subseteq Parents \X Positions
    /\ up \in [Coordinators -> BOOLEAN]
    /\ creating \in [Coordinators -> Parents \cup {NoParent}]
    /\ parents \in [Coordinators -> [Parents -> Tokens \cup {NoToken}]]
    /\ step \in [Coordinators -> {"idle", "called", "locked"}]
    /\ callee \in [Coordinators -> Parents \cup {NoParent}]
    /\ token \in [Coordinators -> Tokens \cup {NoToken}]
    /\ snapshot \in [Coordinators -> {"none", "active"} \cup Ended]
    /\ sawCancel \in [Coordinators -> BOOLEAN]
    /\ \A p \in Coordinators, P \in Parents : parents[p][P] # NoToken => parent[P] # "none"

RunAllInit ==
    /\ parent = [P \in Parents |-> "none"]
    /\ parentCancelReq = [P \in Parents |-> FALSE]
    /\ parentOwner = [P \in Parents |-> NoToken]
    /\ expired = {}
    /\ child = [P \in Parents |-> NoChildren]
    /\ flagged = {}
    /\ up = [p \in Coordinators |-> TRUE]
    /\ creating = [p \in Coordinators |-> NoParent]
    /\ parents = [p \in Coordinators |-> [P \in Parents |-> NoToken]]
    /\ step = [p \in Coordinators |-> "idle"]
    /\ callee = [p \in Coordinators |-> NoParent]
    /\ token = [p \in Coordinators |-> NoToken]
    /\ snapshot = [p \in Coordinators |-> "none"]
    /\ sawCancel = [p \in Coordinators |-> FALSE]

-----------------------------------------------------------------------------

\* NewOwnerID: a token nobody has a copy of.
Fresh(P, t) ==
    /\ t \in Tokens /\ t # parentOwner[P]
    /\ \A p \in Coordinators : parents[p][P] # t /\ (callee[p] = P => token[p] # t)

NewOwnerID(P) == CHOOSE t \in Tokens : Fresh(P, t) /\ \A u \in Tokens : Fresh(P, u) => t <= u

\* The row lock of SELECT ... FOR UPDATE on the parent.
Locked(P) == \E p \in Coordinators : step[p] = "locked" /\ callee[p] = P

\* UNIQUE KEY uq_ingestion_runs_active_job, among the children of all parents.
JobBusy(i) == \E P \in Parents : child[P][i] \in ActiveChild

\* ORDER BY child_position LIMIT 1
FirstPlanned(P, i) ==
    /\ child[P][i] = "planned"
    /\ \A k \in Positions : child[P][k] = "planned" => i <= k

aggregateParentStatus(c) ==
    IF \E i \in Positions : c[i] \in Bad THEN "failed"
    ELSE IF \E i \in Positions : c[i] = "skipped" THEN "completed_with_skips"
    ELSE "completed"

\* What reconcileParentTransaction learns from a snapshot of the children: the
\* count of active ones and, if it is zero, the verdict.
Seen(c) ==
    IF \E i \in Positions : c[i] \in ActiveChild THEN "active" ELSE aggregateParentStatus(c)

\* ensureRunAllChildren: the children of the catalog that are missing.
WithAllChildren(c) == [i \in Positions |-> IF c[i] = "none" THEN "planned" ELSE c[i]]

-----------------------------------------------------------------------------
(* Users *)

\* createRunAll: the parent, already running and owned, and all children in
\* one transaction.  Without the answer of the commit nobody registers it.
CreateRunAll(p, P, answered) ==
    /\ up[p] /\ creating[p] = NoParent
    /\ parent[P] = "none" /\ \A Q \in Parents : Q < P => parent[Q] # "none"
    /\ parent' = [parent EXCEPT ![P] = "running"]
    /\ parentOwner' = [parentOwner EXCEPT ![P] = NewOwnerID(P)]
    /\ child' = [child EXCEPT ![P] = WithAllChildren(@)]
    /\ creating' = [creating EXCEPT ![p] = IF answered THEN P ELSE NoParent]
    /\ UNCHANGED <<parentCancelReq, expired, flagged, up, parents, calls>>

\* registerParent reads the owner back, which by then may be the token of a
\* process that recovered the parent; the read may fail.
RegisterParent(p, answered) ==
    /\ creating[p] # NoParent
    /\ parents' = IF answered /\ parent[creating[p]] = "running"
               THEN [parents EXCEPT ![p][creating[p]] = parentOwner[creating[p]]] ELSE parents
    /\ creating' = [creating EXCEPT ![p] = NoParent]
    /\ UNCHANGED <<parentRows, up, calls>>

\* What a cancellation of the parent does to a child.
CancelledChild(s) == IF s \in {"planned", "queued"} THEN "cancelled" ELSE s

\* Mutant: queued children are forgotten.
RequestCancellationOfPlanned(P) ==
    /\ parent[P] = "running" /\ ~Locked(P)
    /\ parentCancelReq' = [parentCancelReq EXCEPT ![P] = TRUE]
    /\ child' = [child EXCEPT ![P] =
           [i \in Positions |-> IF @[i] = "planned" THEN "cancelled" ELSE @[i]]]
    /\ flagged' = flagged \cup {<<P, i>> : i \in {j \in Positions : child[P][j] = "running"}}
    /\ UNCHANGED <<parent, parentOwner, expired, up, creating, parents, calls>>

\* RequestCancellation of a parent: the waiting children are cancelled with
\* it, the running one is flagged, the parent itself is left to reconcile.
RequestParentCancellation(P) ==
    /\ parent[P] = "running" /\ ~Locked(P)
    /\ parentCancelReq' = [parentCancelReq EXCEPT ![P] = TRUE]
    /\ child' = [child EXCEPT ![P] = [i \in Positions |-> CancelledChild(@[i])]]
    /\ flagged' = flagged \cup {<<P, i>> : i \in {j \in Positions : child[P][j] = "running"}}
    /\ UNCHANGED <<parent, parentOwner, expired, up, creating, parents, calls>>

\* RequestCancellation of a single child takes no lock on the parent.
CancelChild(P, i) ==
    /\ child[P][i] \in {"planned"} \cup ActiveChild
    /\ child' = [child EXCEPT ![P][i] = CancelledChild(@)]
    /\ flagged' = IF child[P][i] = "running" THEN flagged \cup {<<P, i>>} ELSE flagged
    /\ UNCHANGED <<parent, parentCancelReq, parentOwner, expired, up, creating, parents, calls>>

-----------------------------------------------------------------------------
(* The children's own life: RunLifecycle *)

ClaimChild(P, i) ==
    /\ child[P][i] = "queued"
    /\ child' = [child EXCEPT ![P][i] = "running"]
    /\ UNCHANGED <<parent, parentCancelReq, parentOwner, expired,
                   flagged, up, creating, parents, calls>>

CloseChild(P, i, outcome) ==
    /\ child[P][i] = "running"
    /\ outcome = "succeeded" => <<P, i>> \notin flagged
    /\ child' = [child EXCEPT ![P][i] = outcome]
    /\ flagged' = flagged \ {<<P, i>>}
    /\ UNCHANGED <<parent, parentCancelReq, parentOwner, expired, up, creating, parents, calls>>

-----------------------------------------------------------------------------
(* reconcileParent *)

\* Called by the ticker, after a recovery sweep and after a child.
CallReconcile(p, P) ==
    /\ up[p] /\ step[p] = "idle"
    /\ parents[p][P] # NoToken
    /\ step' = [step EXCEPT ![p] = "called"]
    /\ callee' = [callee EXCEPT ![p] = P]
    /\ token' = [token EXCEPT ![p] = parents[p][P]]
    /\ UNCHANGED <<parentRows, up, creating, parents, snapshot, sawCancel>>

ReconcileReturns(p) ==
    /\ step' = [step EXCEPT ![p] = "idle"]
    /\ callee' = [callee EXCEPT ![p] = NoParent]
    /\ token' = [token EXCEPT ![p] = NoToken]
    /\ snapshot' = [snapshot EXCEPT ![p] = "none"]
    /\ sawCancel' = [sawCancel EXCEPT ![p] = FALSE]

\* changed: the loop calls ReconcileParent again with the same token.
Again(p) ==
    /\ step' = [step EXCEPT ![p] = "called"]
    /\ snapshot' = [snapshot EXCEPT ![p] = "none"]
    /\ sawCancel' = [sawCancel EXCEPT ![p] = FALSE]
    /\ UNCHANGED <<callee, token>>

\* ErrOwnershipLost: the token is dropped unless it was replaced meanwhile.
OwnershipLost(p) ==
    LET P == callee[p] IN
    /\ step[p] = "called" /\ ~Locked(P)
    /\ ~(parent[P] = "running" /\ parentOwner[P] = token[p])
    /\ parents' = IF parents[p][P] = token[p] THEN [parents EXCEPT ![p][P] = NoToken] ELSE parents
    /\ ReconcileReturns(p)
    /\ UNCHANGED <<parentRows, up, creating>>

\* Mutant: the parent row is read without FOR UPDATE.
ReadParent(p) ==
    LET P == callee[p] IN
    /\ step[p] = "called"
    /\ parent[P] = "running" /\ parentOwner[P] = token[p]
    /\ step' = [step EXCEPT ![p] = "locked"]
    /\ snapshot' = [snapshot EXCEPT ![p] = Seen(child[P])]
    /\ sawCancel' = [sawCancel EXCEPT ![p] = parentCancelReq[P]]
    /\ UNCHANGED <<parentRows, up, creating, parents, callee, token>>

\* SELECT ... FOR UPDATE of the parent under the exact token, the heartbeat,
\* and the first plain SELECT, which fixes the snapshot.
LockParent(p) ==
    LET P == callee[p] IN
    /\ step[p] = "called" /\ ~Locked(P)
    /\ parent[P] = "running" /\ parentOwner[P] = token[p]
    /\ step' = [step EXCEPT ![p] = "locked"]
    /\ snapshot' = [snapshot EXCEPT ![p] = Seen(child[P])]
    /\ sawCancel' = [sawCancel EXCEPT ![p] = parentCancelReq[P]]
    /\ UNCHANGED <<parentRows, up, creating, parents, callee, token>>

\* A child is active: only the heartbeat is committed.
ReconcileWaits(p) ==
    /\ step[p] = "locked"
    /\ snapshot[p] = "active"
    /\ expired' = expired \ {callee[p]}
    /\ ReconcileReturns(p)
    /\ UNCHANGED <<parent, parentCancelReq, parentOwner, child, flagged, up, creating, parents>>

\* The parent ends, and its heartbeat with it.
EndParent(p, status) ==
    /\ parent' = [parent EXCEPT ![callee[p]] = status]
    /\ expired' = expired \ {callee[p]}
    /\ Again(p)
    /\ UNCHANGED <<parentCancelReq, parentOwner, child, flagged, up, creating, parents>>

ReconcileCancels(p) ==
    /\ step[p] = "locked"
    /\ snapshot[p] # "active" /\ sawCancel[p]
    /\ EndParent(p, "cancelled")

\* The next planned child is queued; it is skipped when its source is
\* disabled or another run of the job is active.
ReconcileActivates(p, i, status) ==
    LET P == callee[p] IN
    /\ step[p] = "locked"
    /\ snapshot[p] # "active" /\ ~sawCancel[p]
    /\ FirstPlanned(P, i)
    /\ status = "queued" => ~JobBusy(i)
    /\ child' = [child EXCEPT ![P][i] = status]
    /\ expired' = expired \ {P}
    /\ Again(p)
    /\ UNCHANGED <<parent, parentCancelReq, parentOwner, flagged, up, creating, parents>>

\* Nothing planned is left: the verdict is computed from the snapshot.
ReconcileFinishes(p) ==
    /\ step[p] = "locked"
    /\ snapshot[p] # "active" /\ ~sawCancel[p]
    /\ \A i \in Positions : child[callee[p]][i] # "planned"
    /\ EndParent(p, snapshot[p])

Commit(p) ==
    \/ ReconcileWaits(p) \/ ReconcileCancels(p) \/ ReconcileFinishes(p)
    \/ \E i \in Positions, status \in {"queued", "skipped"} : ReconcileActivates(p, i, status)

\* A database error or the end of the process's context: rolled back.
ReconcileFails(p) ==
    /\ step[p] # "idle"
    /\ ReconcileReturns(p)
    /\ UNCHANGED <<parentRows, up, creating, parents>>

-----------------------------------------------------------------------------
(* Time, recovery, crash, restart *)

\* A lease passes without a heartbeat.
ParentLeaseExpires(P) ==
    /\ parent[P] = "running" /\ P \notin expired
    /\ expired' = expired \cup {P}
    /\ UNCHANGED <<parent, parentCancelReq, parentOwner, child,
                   flagged, up, creating, parents, calls>>

\* Mutant: the recovered parent is not entered in the parents map.
RecoverWithoutRegistering(p, P, answered) ==
    /\ up[p]
    /\ parent[P] = "running" /\ P \in expired /\ ~Locked(P)
    /\ parentOwner' = [parentOwner EXCEPT ![P] = NewOwnerID(P)]
    /\ expired' = expired \ {P}
    /\ child' = [child EXCEPT ![P] = WithAllChildren(@)]
    /\ UNCHANGED <<parent, parentCancelReq, flagged, up, creating, parents, calls>>

\* RecoverOneStale of a parent, by any process: a new token replaces the old
\* one and recoverStaleSweep enters it in the parents map.
RecoverOneStale(p, P, answered) ==
    /\ up[p]
    /\ parent[P] = "running" /\ P \in expired /\ ~Locked(P)
    /\ parentOwner' = [parentOwner EXCEPT ![P] = NewOwnerID(P)]
    /\ expired' = expired \ {P}
    /\ child' = [child EXCEPT ![P] = WithAllChildren(@)]
    /\ parents' = IF answered THEN [parents EXCEPT ![p][P] = NewOwnerID(P)] ELSE parents
    /\ UNCHANGED <<parent, parentCancelReq, flagged, up, creating, calls>>

\* The process dies: its map and its call are gone, the lock is released.
ProcessCrash(p) ==
    /\ up[p]
    /\ up' = [up EXCEPT ![p] = FALSE]
    /\ creating' = [creating EXCEPT ![p] = NoParent]
    /\ parents' = [parents EXCEPT ![p] = [P \in Parents |-> NoToken]]
    /\ ReconcileReturns(p)
    /\ UNCHANGED parentRows

ProcessRestart(p) ==
    /\ ~up[p]
    /\ up' = [up EXCEPT ![p] = TRUE]
    /\ UNCHANGED <<parentRows, creating, parents, calls>>

-----------------------------------------------------------------------------

ChildNext(P, i) ==
    \/ CancelChild(P, i) \/ ClaimChild(P, i)
    \/ \E outcome \in Bad \cup {"succeeded"} : CloseChild(P, i, outcome)

ReconcileNext(p) ==
    \/ \E P \in Parents : CallReconcile(p, P)
    \/ OwnershipLost(p) \/ LockParent(p) \/ Commit(p) \/ ReconcileFails(p)

RunAllNext ==
    \/ \E p \in Coordinators, P \in Parents, answered \in BOOLEAN :
            CreateRunAll(p, P, answered) \/ RecoverOneStale(p, P, answered)
    \/ \E p \in Coordinators, answered \in BOOLEAN : RegisterParent(p, answered)
    \/ \E P \in Parents : RequestParentCancellation(P) \/ ParentLeaseExpires(P)
    \/ \E P \in Parents, i \in Positions : ChildNext(P, i)
    \/ \E p \in Coordinators : ReconcileNext(p) \/ ProcessCrash(p) \/ ProcessRestart(p)

RunAllSpec == RunAllInit /\ [][RunAllNext]_runAllVars

\* Fairness.  Queued children are claimed and running ones close (RunsSettle
\* of RunLifecycle); the reconcile ticker and the recovery sweep go on, and
\* neither fails every time; leases run out.
RunAllFairness ==
    /\ \A P \in Parents : WF_runAllVars(ParentLeaseExpires(P))
    /\ \A P \in Parents, i \in Positions :
        /\ WF_runAllVars(ClaimChild(P, i))
        /\ WF_runAllVars(\E outcome \in Bad \cup {"succeeded"} : CloseChild(P, i, outcome))
    /\ \A p \in Coordinators :
        /\ WF_runAllVars(OwnershipLost(p))
        /\ SF_runAllVars(LockParent(p))
        /\ SF_runAllVars(Commit(p))
        /\ \A P \in Parents :
            /\ SF_runAllVars(CallReconcile(p, P))
            /\ SF_runAllVars(RecoverOneStale(p, P, TRUE))

RunAllFairSpec == RunAllSpec /\ RunAllFairness

-----------------------------------------------------------------------------
(* Properties *)

\* "Children activate sequentially": a child is activated only after every
\* child before it is done, although several processes may hold the same
\* token (registerParent reads back what a recovery wrote) and a process may
\* use one that was replaced under its feet.
ChildrenInTurn ==
    \A P \in Parents : \A i, k \in Positions :
        i < k /\ child[P][k] \notin {"none", "planned", "cancelled"}
            => child[P][i] \in TerminalChild

\* A parent that has ended left nothing behind: failures, skips, crashes and
\* cancellations never strand a planned or active child.
EndedParentIsDone ==
    \A P \in Parents : parent[P] \in Ended => \A i \in Positions : child[P][i] \in TerminalChild

\* The verdict hides no failed and no abandoned child, and a completed run
\* has no skipped one.  (A child cancelled while the verdict is computed can
\* be missed: the snapshot still has it planned.)
VerdictCoversFailures ==
    \A P \in Parents : parent[P] \in {"completed", "completed_with_skips"} =>
        \A i \in Positions :
            /\ child[P][i] \in {"succeeded", "skipped", "cancelled"}
            /\ child[P][i] = "skipped" => parent[P] = "completed_with_skips"

\* A Run All whose cancellation was applied never ends with another verdict,
\* however the request races with a reconciliation under way.
CancelledParentStaysCancelled ==
    \A P \in Parents : parentCancelReq[P] => parent[P] \in {"running", "cancelled"}

\* What holds of a Run All and its children in every state, with several
\* processes reconciling it from old snapshots and with replaced tokens.
RunAllSafety ==
    /\ RunAllTypeOK /\ ChildrenInTurn /\ EndedParentIsDone
    /\ VerdictCoversFailures /\ CancelledParentStaysCancelled

\* Once its cancellation is applied no child of the parent is activated,
\* claimed or published any more.
NothingStartsAfterCancellation ==
    [][\A P \in Parents, i \in Positions :
        parentCancelReq[P] /\ child'[P][i] # child[P][i]
            => child'[P][i] \in Bad]_runAllVars

\* A lease (two minutes) does not run out under a live process that holds the
\* parent: its ticker reconciles every few seconds.
Prompt ==
    \A P \in expired : \A p \in Coordinators : ~(up[p] /\ parents[p][P] = parentOwner[P])

\* Every accepted Run All ends once some coordinator stays up and the holders
\* of tokens are prompt: a lost answer, a failed registration or a crash of
\* the owner only delays it.
RunAllEnds ==
    (\E p \in Coordinators : <>[]up[p]) /\ <>[]Prompt =>
        \A P \in Parents : []<>(parent[P] # "running")
=============================================================================
