------------------------- MODULE CoordinatorProofs -------------------------
(***************************************************************************)
(* What the coordinator promises of Run All parents (RunAllSafety,         *)
(* NothingStartsAfterCancellation) for any number of processes, parents    *)
(* and jobs, and of schedules (OccurrenceSafety, NoDateSkipped,            *)
(* NeverDeliveredAgain) for any schedules, jobs, cron tables and           *)
(* operators.                                                              *)
(***************************************************************************)
EXTENDS RunAll, Scheduler, FiniteSetTheorems, TLAPS

(***************************************************************************)
(* Run All.  Who holds which token turns out not to matter for safety: a   *)
(* token decides who may try, the row lock keeps two that may from acting  *)
(* on one snapshot.  What has to be known is how far the snapshot of the   *)
(* process inside the transaction can be out of date.                      *)
(***************************************************************************)

\* One transaction at a time holds the row lock of a parent, and a call is
\* always for a parent.
LockIsExclusive ==
    /\ \A p \in Coordinators : step[p] # "idle" => callee[p] \in Parents
    /\ \A p, q \in Coordinators :
           step[p] = "locked" /\ step[q] = "locked" /\ callee[p] = callee[q] => p = q

\* A row that was inserted has all its children, one that was not has none.
ChildrenExist ==
    \A P \in Parents, i \in Positions : (parent[P] = "none") <=> (child[P][i] = "none")

\* An applied cancellation leaves only running children, which are told.
CancellationApplied ==
    \A P \in Parents : parentCancelReq[P] =>
        /\ parent[P] # "none"
        /\ \A i \in Positions :
               /\ child[P][i] \in {"running"} \cup TerminalChild
               /\ child[P][i] = "running" => <<P, i>> \in flagged

\* A child may have been cancelled since the snapshot, and nothing else.
SnapshotCovers(verdict, c) ==
    /\ \A i \in Positions : c[i] \notin ActiveChild
    /\ verdict \in {"completed", "completed_with_skips"} =>
           \A i \in Positions :
               /\ c[i] \notin {"failed", "abandoned"}
               /\ c[i] = "skipped" => verdict = "completed_with_skips"

SnapshotHolds ==
    \A p \in Coordinators : step[p] = "locked" =>
        LET P == callee[p] IN
        /\ parent[P] = "running"
        /\ sawCancel[p] = parentCancelReq[P]
        /\ snapshot[p] \in {"active", "failed", "completed", "completed_with_skips"}
        /\ snapshot[p] # "active" => SnapshotCovers(snapshot[p], child[P])

RunAllInv ==
    /\ RunAllSafety
    /\ LockIsExclusive /\ ChildrenExist /\ CancellationApplied /\ SnapshotHolds

-----------------------------------------------------------------------------
(* Tokens *)

\* A set of naturals that is not empty has a least element.
LEMMA LeastElement ==
    ASSUME NEW S \in SUBSET Nat, S # {}
    PROVE  \E m \in S : \A n \in S : m <= n
<1>1. PICK m \in S : \A n \in S : ~(<<n, m>> \in OpToRel(<, Nat))
    BY NatLessThanWellFounded, WFMin
<1>2. \A n \in S : ~(n < m)
    BY <1>1 DEF OpToRel
<1> QED BY <1>2

LEMMA ImageBound ==
    ASSUME NEW S, IsFiniteSet(S), NEW f, f = [x \in S |-> f[x]]
    PROVE  /\ IsFiniteSet({f[x] : x \in S})
           /\ Cardinality({f[x] : x \in S}) <= Cardinality(S)
           /\ Cardinality({f[x] : x \in S}) \in Nat
<1>1. f \in Surjection(S, {f[x] : x \in S})
    BY DEF Surjection
<1> QED BY <1>1, FS_Surjection, FS_CardinalityType

\* There are more tokens than copies of tokens.
LEMMA FreshTokenExists ==
    ASSUME RunAllTypeOK, NEW P \in Parents
    PROVE  \E t \in Tokens : Fresh(P, t)
<1> DEFINE f == [p \in Coordinators |-> parents[p][P]]
           H == {f[p] : p \in Coordinators}
           T == {token[p] : p \in Coordinators}
           Used == (H \cup T) \cup {parentOwner[P]}
           n == Cardinality(Coordinators)
<1>1. /\ IsFiniteSet(Coordinators) /\ n \in Nat
      /\ IsFiniteSet(Tokens) /\ Cardinality(Tokens) \in Nat
      /\ Cardinality(Tokens) > 2 * n + 1
    BY RunAllAssumption, FS_CardinalityType
<1>2. IsFiniteSet(H) /\ Cardinality(H) <= n /\ Cardinality(H) \in Nat
    <2>1. f = [p \in Coordinators |-> f[p]]
        OBVIOUS
    <2> HIDE DEF f
    <2> QED BY <2>1, <1>1, ImageBound
<1>3. IsFiniteSet(T) /\ Cardinality(T) <= n /\ Cardinality(T) \in Nat
    <2>1. token = [p \in Coordinators |-> token[p]]
        BY DEF RunAllTypeOK
    <2> QED BY <2>1, <1>1, ImageBound
<1>4. IsFiniteSet(H \cup T) /\ Cardinality(H \cup T) <= 2 * n /\ Cardinality(H \cup T) \in Nat
    <2>1. /\ IsFiniteSet(H \cup T)
          /\ Cardinality(H \cup T) = Cardinality(H) + Cardinality(T) - Cardinality(H \cap T)
        BY <1>2, <1>3, FS_Union
    <2>2. Cardinality(H \cap T) \in Nat
        BY <1>2, FS_Intersection, FS_CardinalityType
    <2>3. Cardinality(H \cup T) \in Nat
        BY <2>1, FS_CardinalityType
    <2> HIDE DEF H, T, n
    <2> QED BY <1>1, <1>2, <1>3, <2>1, <2>2, <2>3
<1>5. IsFiniteSet(Used) /\ Cardinality(Used) <= 2 * n + 1 /\ Cardinality(Used) \in Nat
    <2>1. /\ IsFiniteSet(Used)
          /\ Cardinality(Used) \in {Cardinality(H \cup T), Cardinality(H \cup T) + 1}
        BY <1>4, FS_AddElement
    <2> HIDE DEF H, T, n
    <2> QED BY <1>1, <1>4, <2>1
<1>6. ~(Tokens \subseteq Used)
    <2> HIDE DEF Used, n
    <2> QED BY <1>1, <1>5, FS_Subset
<1>7. PICK t \in Tokens : t \notin Used
    BY <1>6
<1> QED BY <1>7 DEF Fresh

LEMMA TokenIsNew ==
    ASSUME RunAllTypeOK, NEW P \in Parents
    PROVE  NewOwnerID(P) \in Tokens
<1> DEFINE S == {t \in Tokens : Fresh(P, t)}
<1>1. S \in SUBSET Nat /\ S # {}
    BY FreshTokenExists, RunAllAssumption
<1> HIDE DEF S
<1>2. PICK t \in S : \A u \in S : t <= u
    BY <1>1, LeastElement
<1>3. t \in Tokens /\ Fresh(P, t) /\ \A u \in Tokens : Fresh(P, u) => t <= u
    BY <1>2 DEF S
<1> QED BY <1>3 DEF NewOwnerID

-----------------------------------------------------------------------------
(* What a step that leaves the rows, or the calls, alone preserves *)

RowsOK ==
    /\ ChildrenInTurn /\ EndedParentIsDone /\ VerdictCoversFailures
    /\ CancelledParentStaysCancelled /\ ChildrenExist /\ CancellationApplied

LEMMA RowsStay ==
    ASSUME RowsOK, UNCHANGED <<parent, parentCancelReq, child, flagged>>
    PROVE  RowsOK'
BY DEF RowsOK, ChildrenInTurn, EndedParentIsDone, VerdictCoversFailures,
       CancelledParentStaysCancelled, ChildrenExist, CancellationApplied

\* One call returns or starts over: the others keep their locks and snapshots.
LEMMA CallLeavesLock ==
    ASSUME RunAllTypeOK, LockIsExclusive, SnapshotHolds, NEW p \in Coordinators,
           step' = [step EXCEPT ![p] = step'[p]], step'[p] # "locked",
           callee' = [callee EXCEPT ![p] = callee'[p]],
           step'[p] # "idle" => callee'[p] \in Parents,
           snapshot' = [snapshot EXCEPT ![p] = snapshot'[p]],
           sawCancel' = [sawCancel EXCEPT ![p] = sawCancel'[p]],
           \A q \in Coordinators \ {p} : step[q] = "locked" =>
               /\ parent'[callee[q]] = parent[callee[q]]
               /\ parentCancelReq'[callee[q]] = parentCancelReq[callee[q]]
               /\ child'[callee[q]] = child[callee[q]]
    PROVE  LockIsExclusive' /\ SnapshotHolds'
<1>1. /\ step'[p] # "locked"
      /\ \A q \in Coordinators \ {p} : /\ step'[q] = step[q] /\ callee'[q] = callee[q]
                                /\ snapshot'[q] = snapshot[q] /\ sawCancel'[q] = sawCancel[q]
    BY DEF RunAllTypeOK
<1>2. LockIsExclusive'
    BY <1>1 DEF LockIsExclusive
<1>3. SnapshotHolds'
    BY <1>1 DEF SnapshotHolds
<1> QED BY <1>2, <1>3

\* The calls stay as they are, and so do the parents that are locked.
LEMMA CallsStay ==
    ASSUME LockIsExclusive, SnapshotHolds, UNCHANGED <<step, callee, snapshot, sawCancel>>,
           \A q \in Coordinators : step[q] = "locked" =>
               /\ parent'[callee[q]] = parent[callee[q]]
               /\ parentCancelReq'[callee[q]] = parentCancelReq[callee[q]]
               /\ child'[callee[q]] = child[callee[q]]
    PROVE  LockIsExclusive' /\ SnapshotHolds'
BY DEF LockIsExclusive, SnapshotHolds

\* IInv, in the parts the lemmas are about.
LEMMA Parts ==
    /\ RunAllInv <=> RunAllTypeOK /\ RowsOK /\ LockIsExclusive /\ SnapshotHolds
    /\ RunAllInv' <=> RunAllTypeOK' /\ RowsOK' /\ LockIsExclusive' /\ SnapshotHolds'
BY DEF RunAllInv, RunAllSafety, RowsOK

-----------------------------------------------------------------------------
(* Children *)

\* A child moves on: out of "planned" by a cancellation only, from "queued" to
\* "running" or to its end, from "running" to its end or under a flag.
LEMMA ChildMoves ==
    ASSUME RunAllTypeOK, RowsOK, LockIsExclusive, SnapshotHolds,
           NEW P \in Parents, NEW i \in Positions, NEW s \in ChildStatus,
           child' = [child EXCEPT ![P][i] = s],
           child[P][i] \in {"planned", "queued", "running"},
           child[P][i] = "planned" => s = "cancelled",
           s \in TerminalChild \/ s = "running",
           s = "running" /\ child[P][i] = "running" => <<P, i>> \in flagged',
           flagged \ {<<P, i>>} \subseteq flagged',
           UNCHANGED <<parent, parentCancelReq, step, callee, snapshot, sawCancel>>
    PROVE  RowsOK' /\ LockIsExclusive' /\ SnapshotHolds'
<1>1. /\ \A Q \in Parents, k \in Positions :
             child'[Q][k] = IF Q = P /\ k = i THEN s ELSE child[Q][k]
      /\ \A Q \in Parents, k \in Positions :
             <<Q, k>> \in flagged /\ <<Q, k>> # <<P, i>> => <<Q, k>> \in flagged'
    BY DEF RunAllTypeOK
<1>2. ChildrenInTurn'
    BY <1>1 DEF RowsOK, ChildrenInTurn, TerminalChild, Bad, Positions
<1>3. EndedParentIsDone' /\ CancelledParentStaysCancelled'
    BY <1>1 DEF RowsOK, EndedParentIsDone, CancelledParentStaysCancelled, TerminalChild, Bad
<1>4. VerdictCoversFailures'
    BY <1>1 DEF RowsOK, EndedParentIsDone, VerdictCoversFailures, TerminalChild, Bad, Ended
<1>5. ChildrenExist'
    BY <1>1 DEF RowsOK, ChildrenExist, TerminalChild, Bad
<1>6. CancellationApplied'
    BY <1>1 DEF RowsOK, CancellationApplied, TerminalChild, Bad
<1>7. LockIsExclusive'
    BY DEF LockIsExclusive
<1>8. SnapshotHolds'
    <2> SUFFICES ASSUME NEW p \in Coordinators, step[p] = "locked", snapshot[p] # "active"
                 PROVE  SnapshotCovers(snapshot[p], child[callee[p]])'
        BY DEF SnapshotHolds
    <2>1. callee[p] \in Parents /\ SnapshotCovers(snapshot[p], child[callee[p]])
        BY DEF SnapshotHolds, LockIsExclusive
    <2>2. \A k \in Positions : child'[callee[p]][k] \in {child[callee[p]][k], "cancelled"}
        BY <1>1, <2>1 DEF SnapshotCovers, ActiveChild
    <2> QED BY <2>1, <2>2 DEF SnapshotCovers, ActiveChild
<1> QED BY <1>2, <1>3, <1>4, <1>5, <1>6, <1>7, <1>8 DEF RowsOK

LEMMA CancelChildStep ==
    ASSUME RunAllInv, NEW P \in Parents, NEW i \in Positions, CancelChild(P, i) PROVE RunAllInv'
<1> DEFINE s == CancelledChild(child[P][i])
<1>1. RunAllTypeOK /\ RowsOK /\ LockIsExclusive /\ SnapshotHolds
    BY Parts
<1>2. /\ s \in ChildStatus /\ (s \in TerminalChild \/ s = "running")
      /\ child[P][i] = "planned" => s = "cancelled"
    BY DEF CancelChild, CancelledChild, ChildStatus, ActiveChild, TerminalChild, Bad
<1>3. /\ child' = [child EXCEPT ![P][i] = s]
      /\ child[P][i] \in {"planned", "queued", "running"}
      /\ flagged \ {<<P, i>>} \subseteq flagged'
      /\ s = "running" /\ child[P][i] = "running" => <<P, i>> \in flagged'
      /\ UNCHANGED <<parent, parentCancelReq, step, callee, snapshot, sawCancel>>
    BY DEF CancelChild, ActiveChild, calls
<1>4. RunAllTypeOK'
    BY <1>1, <1>2 DEF RunAllTypeOK, CancelChild, calls
<1> HIDE DEF s
<1> QED BY <1>1, <1>2, <1>3, <1>4, ChildMoves, Parts

LEMMA ClaimChildStep ==
    ASSUME RunAllInv, NEW P \in Parents, NEW i \in Positions, ClaimChild(P, i) PROVE RunAllInv'
<1>1. RunAllTypeOK /\ RowsOK /\ LockIsExclusive /\ SnapshotHolds
    BY Parts
<1>2. "running" \in ChildStatus
    BY DEF ChildStatus, ActiveChild
<1>3. RunAllTypeOK'
    BY <1>1, <1>2 DEF RunAllTypeOK, ClaimChild, calls
<1>4. RowsOK' /\ LockIsExclusive' /\ SnapshotHolds'
    BY <1>1, <1>2, ChildMoves DEF ClaimChild, calls
<1> QED BY <1>3, <1>4, Parts

LEMMA CloseChildStep ==
    ASSUME RunAllInv, NEW P \in Parents, NEW i \in Positions, NEW outcome \in Bad \cup {"succeeded"},
           CloseChild(P, i, outcome)
    PROVE  RunAllInv'
<1>1. RunAllTypeOK /\ RowsOK /\ LockIsExclusive /\ SnapshotHolds
    BY Parts
<1>2. outcome \in ChildStatus /\ outcome \in TerminalChild /\ outcome # "running"
    BY DEF ChildStatus, TerminalChild, Bad
<1>3. RunAllTypeOK'
    BY <1>1, <1>2 DEF RunAllTypeOK, CloseChild, calls
<1>4. RowsOK' /\ LockIsExclusive' /\ SnapshotHolds'
    BY <1>1, <1>2, ChildMoves DEF CloseChild, calls
<1> QED BY <1>3, <1>4, Parts

-----------------------------------------------------------------------------
(* Parents *)

LEMMA CreateRunAllStep ==
    ASSUME RunAllInv, NEW p \in Coordinators, NEW P \in Parents, NEW answered \in BOOLEAN,
           CreateRunAll(p, P, answered)
    PROVE  RunAllInv'
<1>1. RunAllTypeOK /\ RowsOK /\ LockIsExclusive /\ SnapshotHolds
    BY Parts
<1>2. \A i \in Positions : child[P][i] = "none"
    BY <1>1 DEF CreateRunAll, RowsOK, ChildrenExist
<1>3. child' = [child EXCEPT ![P] = [i \in Positions |-> "planned"]]
    BY <1>2 DEF CreateRunAll, WithAllChildren
<1>4. RunAllTypeOK'
    <2>1. NewOwnerID(P) \in Tokens
        BY <1>1, TokenIsNew
    <2>2. "planned" \in ChildStatus
        BY DEF ChildStatus
    <2> QED BY <1>1, <1>3, <2>1, <2>2 DEF RunAllTypeOK, CreateRunAll, calls
<1>5. ~parentCancelReq[P]
    BY <1>1 DEF CreateRunAll, RowsOK, CancellationApplied
<1>6. /\ parent' = [parent EXCEPT ![P] = "running"] /\ UNCHANGED <<parentCancelReq, flagged>>
      /\ \A Q \in Parents, i \in Positions :
             child'[Q][i] = IF Q = P THEN "planned" ELSE child[Q][i]
    BY <1>1, <1>3 DEF CreateRunAll, RunAllTypeOK
<1>7. RowsOK'
    <2>1. ChildrenInTurn'
        BY <1>1, <1>6 DEF RowsOK, ChildrenInTurn
    <2>2. EndedParentIsDone' /\ CancelledParentStaysCancelled' /\ VerdictCoversFailures'
        BY <1>1, <1>5, <1>6 DEF RowsOK, EndedParentIsDone, CancelledParentStaysCancelled,
               VerdictCoversFailures, RunAllTypeOK, Ended
    <2>3. ChildrenExist' /\ CancellationApplied'
        BY <1>1, <1>5, <1>6 DEF RowsOK, ChildrenExist, CancellationApplied, RunAllTypeOK
    <2> QED BY <2>1, <2>2, <2>3 DEF RowsOK
<1>8. LockIsExclusive' /\ SnapshotHolds'
    <2>1. \A q \in Coordinators : step[q] = "locked" => callee[q] # P
        BY <1>1 DEF SnapshotHolds, CreateRunAll
    <2> QED BY <1>1, <2>1, CallsStay DEF CreateRunAll, calls, RunAllTypeOK
<1> QED BY <1>4, <1>7, <1>8, Parts

LEMMA RecoverStep ==
    ASSUME RunAllInv, NEW p \in Coordinators, NEW P \in Parents, NEW answered \in BOOLEAN,
           RecoverOneStale(p, P, answered)
    PROVE  RunAllInv'
<1>1. RunAllTypeOK /\ RowsOK /\ LockIsExclusive /\ SnapshotHolds
    BY Parts
<1>2. child' = child
    <2>1. \A i \in Positions : child[P][i] # "none"
        BY <1>1 DEF RecoverOneStale, RowsOK, ChildrenExist
    <2>2. WithAllChildren(child[P]) = child[P]
        BY <1>1, <2>1 DEF WithAllChildren, RunAllTypeOK
    <2> QED BY <1>1, <2>2 DEF RecoverOneStale, RunAllTypeOK
<1>3. RunAllTypeOK'
    <2>1. NewOwnerID(P) \in Tokens
        BY <1>1, TokenIsNew
    <2> QED BY <1>1, <1>2, <2>1 DEF RunAllTypeOK, RecoverOneStale, calls
<1>4. RowsOK'
    BY <1>1, <1>2, RowsStay DEF RecoverOneStale
<1>5. LockIsExclusive' /\ SnapshotHolds'
    BY <1>1, <1>2, CallsStay DEF RecoverOneStale, calls
<1> QED BY <1>3, <1>4, <1>5, Parts

LEMMA RegisterParentStep ==
    ASSUME RunAllInv, NEW p \in Coordinators, NEW answered \in BOOLEAN, RegisterParent(p, answered)
    PROVE  RunAllInv'
<1>1. RunAllTypeOK /\ RowsOK /\ LockIsExclusive /\ SnapshotHolds
    BY Parts
<1>2. RunAllTypeOK'
    BY <1>1 DEF RunAllTypeOK, RegisterParent, parentRows, calls, NoParent
<1>3. RowsOK'
    BY <1>1, RowsStay DEF RegisterParent, parentRows
<1>4. LockIsExclusive' /\ SnapshotHolds'
    BY <1>1, CallsStay DEF RegisterParent, parentRows, calls
<1> QED BY <1>2, <1>3, <1>4, Parts

\* The cancellation waits for the row lock: no snapshot is older than it.
LEMMA RequestCancellationStep ==
    ASSUME RunAllInv, NEW P \in Parents, RequestParentCancellation(P) PROVE RunAllInv'
<1>1. RunAllTypeOK /\ RowsOK /\ LockIsExclusive /\ SnapshotHolds
    BY Parts
<1>2. /\ \A Q \in Parents, i \in Positions :
             child'[Q][i] = IF Q = P THEN CancelledChild(child[Q][i]) ELSE child[Q][i]
      /\ \A Q \in Parents \ {P} : parentCancelReq'[Q] = parentCancelReq[Q]
      /\ parent[P] = "running" /\ parent' = parent
      /\ \A Q \in Parents, i \in Positions :
             <<Q, i>> \in flagged' <=>
                 <<Q, i>> \in flagged \/ (Q = P /\ child[P][i] = "running")
    BY <1>1 DEF RequestParentCancellation, RunAllTypeOK
<1>3. RunAllTypeOK'
    <2>1. \A i \in Positions : CancelledChild(child[P][i]) \in ChildStatus
        BY <1>1 DEF RunAllTypeOK, CancelledChild, ChildStatus, TerminalChild, Bad
    <2> QED BY <1>1, <2>1 DEF RunAllTypeOK, RequestParentCancellation, calls
<1>4. RowsOK'
    <2> USE DEF CancelledChild, TerminalChild, Bad
    <2>1. ChildrenInTurn'
        BY <1>1, <1>2 DEF RowsOK, ChildrenInTurn
    <2>2. EndedParentIsDone' /\ VerdictCoversFailures'
        BY <1>1, <1>2 DEF RowsOK, EndedParentIsDone, VerdictCoversFailures, Ended
    <2>3. ChildrenExist' /\ CancelledParentStaysCancelled'
        BY <1>1, <1>2 DEF RowsOK, ChildrenExist, CancelledParentStaysCancelled
    <2>4. CancellationApplied'
        <3>1. \A i \in Positions : child[P][i] \in ChildStatus /\ child[P][i] # "none"
            BY <1>1, <1>2 DEF RowsOK, ChildrenExist, RunAllTypeOK
        <3>2. \A i \in Positions :
                  /\ child'[P][i] \in {"running"} \cup TerminalChild
                  /\ child'[P][i] = "running" => <<P, i>> \in flagged'
            BY <1>2, <3>1 DEF ChildStatus, ActiveChild
        <3> QED BY <1>1, <1>2, <3>2 DEF RowsOK, CancellationApplied
    <2> QED BY <2>1, <2>2, <2>3, <2>4 DEF RowsOK
<1>5. LockIsExclusive' /\ SnapshotHolds'
    <2>1. \A q \in Coordinators : step[q] = "locked" => callee[q] # P
        BY DEF RequestParentCancellation, Locked
    <2>2. \A q \in Coordinators : step[q] = "locked" => callee[q] \in Parents \ {P}
        BY <1>1, <2>1 DEF LockIsExclusive
    <2>3. \A Q \in Parents \ {P} : parentCancelReq'[Q] = parentCancelReq[Q] /\ child'[Q] = child[Q]
        BY <1>1 DEF RequestParentCancellation, RunAllTypeOK
    <2>4. UNCHANGED <<parent, step, callee, snapshot, sawCancel>>
        BY DEF RequestParentCancellation, calls
    <2> QED BY <1>1, <2>2, <2>3, <2>4, CallsStay
<1> QED BY <1>3, <1>4, <1>5, Parts

LEMMA ExpireStep ==
    ASSUME RunAllInv, NEW P \in Parents, ParentLeaseExpires(P) PROVE RunAllInv'
<1>1. RunAllTypeOK /\ RowsOK /\ LockIsExclusive /\ SnapshotHolds
    BY Parts
<1>2. RunAllTypeOK'
    BY <1>1 DEF RunAllTypeOK, ParentLeaseExpires, calls
<1>3. RowsOK'
    BY <1>1, RowsStay DEF ParentLeaseExpires
<1>4. LockIsExclusive' /\ SnapshotHolds'
    BY <1>1, CallsStay DEF ParentLeaseExpires, calls
<1> QED BY <1>2, <1>3, <1>4, Parts

-----------------------------------------------------------------------------
(* reconcileParent *)

LEMMA CallReconcileStep ==
    ASSUME RunAllInv, NEW p \in Coordinators, NEW P \in Parents, CallReconcile(p, P) PROVE RunAllInv'
<1>1. RunAllTypeOK /\ RowsOK /\ LockIsExclusive /\ SnapshotHolds
    BY Parts
<1>2. RunAllTypeOK'
    BY <1>1 DEF RunAllTypeOK, CallReconcile, parentRows
<1>3. RowsOK'
    BY <1>1, RowsStay DEF CallReconcile, parentRows
<1>4. LockIsExclusive' /\ SnapshotHolds'
    BY <1>1, CallLeavesLock DEF CallReconcile, parentRows, RunAllTypeOK
<1> QED BY <1>2, <1>3, <1>4, Parts

\* A call that returns leaves the row lock behind.
LEMMA ReturnStep ==
    ASSUME RunAllTypeOK, LockIsExclusive, SnapshotHolds, NEW p \in Coordinators, ReconcileReturns(p),
           UNCHANGED <<parent, parentCancelReq, child>>
    PROVE  LockIsExclusive' /\ SnapshotHolds'
BY CallLeavesLock DEF ReconcileReturns, RunAllTypeOK

LEMMA OwnershipLostStep ==
    ASSUME RunAllInv, NEW p \in Coordinators, OwnershipLost(p) PROVE RunAllInv'
<1>1. RunAllTypeOK /\ RowsOK /\ LockIsExclusive /\ SnapshotHolds
    BY Parts
<1>2. callee[p] \in Parents
    BY <1>1 DEF LockIsExclusive, OwnershipLost
<1>3. RunAllTypeOK'
    BY <1>1, <1>2 DEF RunAllTypeOK, OwnershipLost, ReconcileReturns, parentRows
<1>4. RowsOK'
    BY <1>1, RowsStay DEF OwnershipLost, parentRows
<1>5. LockIsExclusive' /\ SnapshotHolds'
    BY <1>1, ReturnStep DEF OwnershipLost, parentRows
<1> QED BY <1>3, <1>4, <1>5, Parts

LEMMA SeenCovers ==
    ASSUME NEW c
    PROVE  /\ Seen(c) \in {"active", "failed", "completed", "completed_with_skips"}
           /\ Seen(c) # "active" => SnapshotCovers(Seen(c), c)
BY DEF Seen, aggregateParentStatus, SnapshotCovers, Bad

LEMMA LockParentStep ==
    ASSUME RunAllInv, NEW p \in Coordinators, LockParent(p) PROVE RunAllInv'
<1>1. RunAllTypeOK /\ RowsOK /\ LockIsExclusive /\ SnapshotHolds
    BY Parts
<1>2. callee[p] \in Parents
    BY <1>1 DEF LockIsExclusive, LockParent
<1> DEFINE seen == Seen(child[callee[p]])
<1>3. /\ seen \in {"active", "failed", "completed", "completed_with_skips"}
      /\ seen # "active" => SnapshotCovers(seen, child[callee[p]])
    BY SeenCovers
<1>4. /\ step' = [step EXCEPT ![p] = "locked"] /\ snapshot' = [snapshot EXCEPT ![p] = seen]
      /\ sawCancel' = [sawCancel EXCEPT ![p] = parentCancelReq[callee[p]]]
      /\ parent[callee[p]] = "running"
      /\ \A q \in Coordinators : step[q] = "locked" => callee[q] # callee[p]
      /\ UNCHANGED <<parentRows, up, creating, parents, callee, token>>
    BY DEF LockParent, Locked
<1> HIDE DEF seen
<1>5. RunAllTypeOK'
    BY <1>1, <1>2, <1>3, <1>4 DEF RunAllTypeOK, parentRows, Ended
<1>6. RowsOK'
    BY <1>1, <1>4, RowsStay DEF parentRows
<1>7. LockIsExclusive'
    BY <1>1, <1>2, <1>4 DEF LockIsExclusive, RunAllTypeOK
<1>8. SnapshotHolds'
    <2>1. \A q \in Coordinators : q # p => /\ step'[q] = step[q] /\ snapshot'[q] = snapshot[q]
                                    /\ sawCancel'[q] = sawCancel[q]
        BY <1>1, <1>4 DEF RunAllTypeOK
    <2>2. step'[p] = "locked" /\ snapshot'[p] = seen /\ sawCancel'[p] = parentCancelReq[callee[p]]
        BY <1>1, <1>4 DEF RunAllTypeOK
    <2>3. parent' = parent /\ parentCancelReq' = parentCancelReq /\ child' = child /\ callee' = callee
        BY <1>4 DEF parentRows
    <2> QED BY <1>1, <1>3, <1>4, <2>1, <2>2, <2>3 DEF SnapshotHolds
<1> QED BY <1>5, <1>6, <1>7, <1>8, Parts

LEMMA ReconcileWaitsStep ==
    ASSUME RunAllInv, NEW p \in Coordinators, ReconcileWaits(p) PROVE RunAllInv'
<1>1. RunAllTypeOK /\ RowsOK /\ LockIsExclusive /\ SnapshotHolds
    BY Parts
<1>2. RunAllTypeOK'
    BY <1>1 DEF RunAllTypeOK, ReconcileWaits, ReconcileReturns
<1>3. RowsOK'
    BY <1>1, RowsStay DEF ReconcileWaits
<1>4. LockIsExclusive' /\ SnapshotHolds'
    BY <1>1, ReturnStep DEF ReconcileWaits
<1> QED BY <1>2, <1>3, <1>4, Parts

\* A transaction that ends writes to the parent it has locked, which nobody
\* else has locked.
LEMMA AgainStep ==
    ASSUME RunAllTypeOK, LockIsExclusive, SnapshotHolds, NEW p \in Coordinators, step[p] = "locked", Again(p),
           \A Q \in Parents \ {callee[p]} :
               parent'[Q] = parent[Q] /\ parentCancelReq'[Q] = parentCancelReq[Q] /\ child'[Q] = child[Q]
    PROVE  LockIsExclusive' /\ SnapshotHolds'
<1>1. callee[p] \in Parents
    BY DEF LockIsExclusive
<1>2. \A q \in Coordinators \ {p} : step[q] = "locked" => callee[q] \in Parents \ {callee[p]}
    BY DEF LockIsExclusive
<1> QED BY <1>1, <1>2, CallLeavesLock DEF Again, RunAllTypeOK

\* The parent ends when no child is left to be done.
LEMMA EndParentStep ==
    ASSUME RunAllInv, NEW p \in Coordinators, step[p] = "locked", NEW status \in Ended, EndParent(p, status),
           LET P == callee[p] IN
           /\ \A i \in Positions : child[P][i] \in TerminalChild
           /\ parentCancelReq[P] <=> status = "cancelled"
           /\ status \in {"completed", "completed_with_skips"} => SnapshotCovers(status, child[P])
    PROVE  RunAllInv'
<1>1. RunAllTypeOK /\ RowsOK /\ LockIsExclusive /\ SnapshotHolds
    BY Parts
<1>2. callee[p] \in Parents /\ parent[callee[p]] = "running"
    BY <1>1 DEF LockIsExclusive, SnapshotHolds
<1>3. /\ parent' = [parent EXCEPT ![callee[p]] = status]
      /\ UNCHANGED <<parentCancelReq, child, flagged>> /\ Again(p)
    BY DEF EndParent
<1>4. RunAllTypeOK'
    BY <1>1, <1>2 DEF RunAllTypeOK, EndParent, Again, Ended
<1>5. RowsOK'
    <2>1. ChildrenInTurn' /\ CancellationApplied'
        BY <1>1, <1>2, <1>3 DEF RowsOK, ChildrenInTurn, CancellationApplied, RunAllTypeOK, Ended
    <2>2. EndedParentIsDone' /\ CancelledParentStaysCancelled'
        BY <1>1, <1>2, <1>3 DEF RowsOK, EndedParentIsDone, CancelledParentStaysCancelled, RunAllTypeOK
    <2>3. VerdictCoversFailures'
        BY <1>1, <1>2, <1>3 DEF RowsOK, VerdictCoversFailures, SnapshotCovers, RunAllTypeOK,
               TerminalChild, Bad
    <2>4. ChildrenExist'
        BY <1>1, <1>2, <1>3 DEF RowsOK, ChildrenExist, RunAllTypeOK, Ended
    <2> QED BY <2>1, <2>2, <2>3, <2>4 DEF RowsOK
<1>6. LockIsExclusive' /\ SnapshotHolds'
    BY <1>1, <1>3, AgainStep DEF RunAllTypeOK
<1> QED BY <1>4, <1>5, <1>6, Parts

LEMMA ReconcileCancelsStep ==
    ASSUME RunAllInv, NEW p \in Coordinators, ReconcileCancels(p) PROVE RunAllInv'
<1>1. RunAllTypeOK /\ RowsOK /\ LockIsExclusive /\ SnapshotHolds
    BY Parts
<1>2. /\ step[p] = "locked" /\ callee[p] \in Parents /\ parentCancelReq[callee[p]]
      /\ SnapshotCovers(snapshot[p], child[callee[p]])
    BY <1>1 DEF LockIsExclusive, SnapshotHolds, ReconcileCancels
<1>3. \A i \in Positions : child[callee[p]][i] \in TerminalChild
    BY <1>1, <1>2 DEF RowsOK, CancellationApplied, SnapshotCovers, ActiveChild
<1> QED BY <1>2, <1>3, EndParentStep DEF ReconcileCancels, Ended

LEMMA ReconcileFinishesStep ==
    ASSUME RunAllInv, NEW p \in Coordinators, ReconcileFinishes(p) PROVE RunAllInv'
<1>1. RunAllTypeOK /\ RowsOK /\ LockIsExclusive /\ SnapshotHolds
    BY Parts
<1>2. /\ step[p] = "locked" /\ callee[p] \in Parents /\ ~parentCancelReq[callee[p]]
      /\ parent[callee[p]] = "running"
      /\ snapshot[p] \in {"failed", "completed", "completed_with_skips"}
      /\ SnapshotCovers(snapshot[p], child[callee[p]])
    BY <1>1 DEF LockIsExclusive, SnapshotHolds, ReconcileFinishes
<1>3. \A i \in Positions : child[callee[p]][i] \in TerminalChild
    <2>1. \A i \in Positions : child[callee[p]][i] \in ChildStatus /\ child[callee[p]][i] # "none"
        BY <1>1, <1>2 DEF RunAllTypeOK, RowsOK, ChildrenExist
    <2> QED BY <1>2, <2>1 DEF SnapshotCovers, ReconcileFinishes, ChildStatus
<1> QED BY <1>2, <1>3, EndParentStep DEF ReconcileFinishes, Ended

\* Before the next child nothing is active and all before it are done: the
\* snapshot showed no active child, and only this process activates one.
LEMMA ReconcileActivatesStep ==
    ASSUME RunAllInv, NEW p \in Coordinators, NEW i \in Positions, NEW status \in {"queued", "skipped"},
           ReconcileActivates(p, i, status)
    PROVE  RunAllInv'
<1> DEFINE P == callee[p]
<1>1. RunAllTypeOK /\ RowsOK /\ LockIsExclusive /\ SnapshotHolds
    BY Parts
<1>2. /\ step[p] = "locked" /\ P \in Parents /\ ~parentCancelReq[P] /\ parent[P] = "running"
      /\ \A k \in Positions : child[P][k] \notin ActiveChild
    BY <1>1 DEF LockIsExclusive, SnapshotHolds, ReconcileActivates, SnapshotCovers
<1>3. /\ child[P][i] = "planned"
      /\ \A k \in Positions : child[P][k] = "planned" => i <= k
      /\ child' = [child EXCEPT ![P][i] = status]
      /\ UNCHANGED <<parent, parentCancelReq, flagged>> /\ Again(p)
    BY DEF ReconcileActivates, FirstPlanned
<1> HIDE DEF P
<1>4. \A Q \in Parents, k \in Positions :
          child'[Q][k] = IF Q = P /\ k = i THEN status ELSE child[Q][k]
    BY <1>1, <1>2, <1>3 DEF RunAllTypeOK
<1>5. RunAllTypeOK'
    BY <1>1, <1>2 DEF RunAllTypeOK, ReconcileActivates, Again, ChildStatus, ActiveChild, TerminalChild, P
<1>6. RowsOK'
    <2>1. ChildrenInTurn'
        <3>1. \A k \in Positions : k < i => child[P][k] \in TerminalChild
            <4>1. \A k \in Positions : child[P][k] \in ChildStatus /\ child[P][k] # "none"
                BY <1>1, <1>2 DEF RunAllTypeOK, RowsOK, ChildrenExist
            <4>2. \A k \in Positions : k < i => child[P][k] # "planned"
                BY <1>3 DEF Positions
            <4> QED BY <1>2, <4>1, <4>2 DEF ChildStatus
        <3>2. \A k \in Positions : i < k => child[P][k] \in {"none", "planned", "cancelled"}
            BY <1>1, <1>2, <1>3 DEF RowsOK, ChildrenInTurn, TerminalChild, Bad
        <3> QED BY <1>1, <1>2, <1>4, <3>1, <3>2 DEF RowsOK, ChildrenInTurn, TerminalChild, Positions
    <2>2. EndedParentIsDone' /\ VerdictCoversFailures'
        BY <1>1, <1>2, <1>3, <1>4 DEF RowsOK, EndedParentIsDone, VerdictCoversFailures, Ended
    <2>3. CancelledParentStaysCancelled' /\ CancellationApplied'
        BY <1>1, <1>2, <1>3, <1>4 DEF RowsOK, CancelledParentStaysCancelled, CancellationApplied
    <2>4. ChildrenExist'
        BY <1>1, <1>2, <1>3, <1>4 DEF RowsOK, ChildrenExist
    <2> QED BY <2>1, <2>2, <2>3, <2>4 DEF RowsOK
<1>7. LockIsExclusive' /\ SnapshotHolds'
    BY <1>1, <1>2, <1>3, AgainStep DEF RunAllTypeOK, P
<1> QED BY <1>5, <1>6, <1>7, Parts

LEMMA ReconcileFailsStep ==
    ASSUME RunAllInv, NEW p \in Coordinators, ReconcileFails(p) PROVE RunAllInv'
<1>1. RunAllTypeOK /\ RowsOK /\ LockIsExclusive /\ SnapshotHolds
    BY Parts
<1>2. RunAllTypeOK'
    BY <1>1 DEF RunAllTypeOK, ReconcileFails, ReconcileReturns, parentRows
<1>3. RowsOK'
    BY <1>1, RowsStay DEF ReconcileFails, parentRows
<1>4. LockIsExclusive' /\ SnapshotHolds'
    BY <1>1, ReturnStep DEF ReconcileFails, parentRows
<1> QED BY <1>2, <1>3, <1>4, Parts

LEMMA CrashStep ==
    ASSUME RunAllInv, NEW p \in Coordinators, ProcessCrash(p) PROVE RunAllInv'
<1>1. RunAllTypeOK /\ RowsOK /\ LockIsExclusive /\ SnapshotHolds
    BY Parts
<1>2. RunAllTypeOK'
    BY <1>1 DEF RunAllTypeOK, ProcessCrash, ReconcileReturns, parentRows
<1>3. RowsOK'
    BY <1>1, RowsStay DEF ProcessCrash, parentRows
<1>4. LockIsExclusive' /\ SnapshotHolds'
    BY <1>1, ReturnStep DEF ProcessCrash, parentRows
<1> QED BY <1>2, <1>3, <1>4, Parts

LEMMA RestartStep ==
    ASSUME RunAllInv, NEW p \in Coordinators, ProcessRestart(p) PROVE RunAllInv'
<1>1. RunAllTypeOK /\ RowsOK /\ LockIsExclusive /\ SnapshotHolds
    BY Parts
<1>2. RunAllTypeOK'
    BY <1>1 DEF RunAllTypeOK, ProcessRestart, parentRows, calls
<1>3. RowsOK'
    BY <1>1, RowsStay DEF ProcessRestart, parentRows
<1>4. LockIsExclusive' /\ SnapshotHolds'
    BY <1>1, CallsStay DEF ProcessRestart, parentRows, calls
<1> QED BY <1>2, <1>3, <1>4, Parts

-----------------------------------------------------------------------------
LEMMA RunAllInitial == RunAllInit => RunAllInv
<1> SUFFICES ASSUME RunAllInit PROVE RunAllInv
    OBVIOUS
<1>1. RunAllTypeOK
    BY DEF RunAllInit, RunAllTypeOK, NoChildren, ChildStatus, NoParent, NoToken
<1>2. RowsOK
    BY DEF RunAllInit, RowsOK, ChildrenInTurn, EndedParentIsDone, VerdictCoversFailures,
           CancelledParentStaysCancelled, ChildrenExist, CancellationApplied, NoChildren, Ended
<1>3. LockIsExclusive /\ SnapshotHolds
    BY DEF RunAllInit, LockIsExclusive, SnapshotHolds
<1> QED BY <1>1, <1>2, <1>3, Parts

LEMMA NextPreserves == RunAllInv /\ [RunAllNext]_runAllVars => RunAllInv'
<1> SUFFICES ASSUME RunAllInv, [RunAllNext]_runAllVars PROVE RunAllInv'
    OBVIOUS
<1>1. ASSUME NEW p \in Coordinators, NEW P \in Parents, NEW answered \in BOOLEAN,
             CreateRunAll(p, P, answered) \/ RecoverOneStale(p, P, answered)
      PROVE  RunAllInv'
    BY <1>1, CreateRunAllStep, RecoverStep
<1>2. ASSUME NEW p \in Coordinators, NEW answered \in BOOLEAN, RegisterParent(p, answered) PROVE RunAllInv'
    BY <1>2, RegisterParentStep
<1>3. ASSUME NEW P \in Parents, RequestParentCancellation(P) \/ ParentLeaseExpires(P) PROVE RunAllInv'
    BY <1>3, RequestCancellationStep, ExpireStep
<1>4. ASSUME NEW P \in Parents, NEW i \in Positions, ChildNext(P, i) PROVE RunAllInv'
    BY <1>4, CancelChildStep, ClaimChildStep, CloseChildStep DEF ChildNext
<1>5. ASSUME NEW p \in Coordinators, ReconcileNext(p) PROVE RunAllInv'
    <2>1. CASE Commit(p)
        BY <2>1, ReconcileWaitsStep, ReconcileCancelsStep, ReconcileFinishesStep,
           ReconcileActivatesStep DEF Commit
    <2> QED BY <1>5, <2>1, CallReconcileStep, OwnershipLostStep, LockParentStep,
               ReconcileFailsStep DEF ReconcileNext
<1>6. ASSUME NEW p \in Coordinators, ProcessCrash(p) \/ ProcessRestart(p) PROVE RunAllInv'
    BY <1>6, CrashStep, RestartStep
<1>7. CASE UNCHANGED runAllVars
    <2>1. RunAllTypeOK'
        BY <1>7, Parts DEF RunAllTypeOK, runAllVars, parentRows, calls
    <2>2. RowsOK' /\ LockIsExclusive' /\ SnapshotHolds'
        BY <1>7, Parts, RowsStay, CallsStay DEF runAllVars, parentRows, calls
    <2> QED BY <2>1, <2>2, Parts
<1> QED BY <1>1, <1>2, <1>3, <1>4, <1>5, <1>6, <1>7 DEF RunAllNext

LEMMA RunAllInvariance == RunAllSpec => []RunAllInv
BY RunAllInitial, NextPreserves, PTL DEF RunAllSpec

\* ingestionrun reconcileParentTransaction, RequestCancellation and RecoverOneStale:
\* for any number of processes, Run All submissions and jobs, children are activated
\* in turn, an ended parent has nothing left to do, and its verdict hides no failure
\* and no cancellation, although it is computed from an old snapshot.
THEOREM RunAllSafetyHolds == RunAllSpec => []RunAllSafety
<1>1. RunAllInv => RunAllSafety
    BY DEF RunAllInv
<1> QED BY <1>1, RunAllInvariance, PTL

\* A child of a cancelled parent only ever ends, and never well.
LEMMA CancelledChildrenEnd ==
    RunAllInv /\ [RunAllNext]_runAllVars =>
        [\A P \in Parents, i \in Positions :
            parentCancelReq[P] /\ child'[P][i] # child[P][i] => child'[P][i] \in Bad]_runAllVars
<1> SUFFICES ASSUME RunAllInv, RunAllNext, NEW P \in Parents, NEW i \in Positions, parentCancelReq[P],
                    child'[P][i] # child[P][i]
             PROVE  child'[P][i] \in Bad
    OBVIOUS
<1>1. RunAllTypeOK /\ RowsOK /\ LockIsExclusive /\ SnapshotHolds
    BY Parts
<1>2. /\ child[P][i] = "running" => <<P, i>> \in flagged
      /\ child[P][i] \in {"running"} \cup TerminalChild /\ parent[P] # "none"
    BY <1>1 DEF RowsOK, CancellationApplied
<1>3. child[P][i] # "none" /\ child \in [Parents -> [Positions -> ChildStatus]]
    BY <1>1, <1>2 DEF RunAllTypeOK, RowsOK, ChildrenExist
<1>4. ASSUME NEW Q \in Parents, NEW k \in Positions, ChildNext(Q, k) PROVE child'[P][i] \in Bad
    BY <1>2, <1>3, <1>4 DEF ChildNext, CancelChild, ClaimChild, CloseChild, CancelledChild,
           TerminalChild, Bad
<1>5. ASSUME NEW p \in Coordinators, NEW k \in Positions, NEW status \in {"queued", "skipped"},
             ReconcileActivates(p, k, status)
      PROVE  FALSE
    <2>1. callee[p] \in Parents /\ ~parentCancelReq[callee[p]]
        BY <1>1, <1>5 DEF LockIsExclusive, SnapshotHolds, ReconcileActivates
    <2> QED BY <1>3, <1>5, <2>1 DEF ReconcileActivates
<1>6. ASSUME NEW p \in Coordinators, NEW Q \in Parents, NEW answered \in BOOLEAN,
             CreateRunAll(p, Q, answered) \/ RecoverOneStale(p, Q, answered)
      PROVE  FALSE
    BY <1>2, <1>3, <1>6 DEF CreateRunAll, RecoverOneStale, WithAllChildren
<1>7. ASSUME NEW Q \in Parents, RequestParentCancellation(Q) PROVE FALSE
    BY <1>2, <1>3, <1>7 DEF RequestParentCancellation, CancelledChild, TerminalChild, Bad
<1>8. ASSUME NEW p \in Coordinators, ReconcileNext(p) PROVE FALSE
    BY <1>5, <1>8 DEF ReconcileNext, Commit, CallReconcile, OwnershipLost, LockParent,
           ReconcileFails, ReconcileWaits, ReconcileCancels, ReconcileFinishes, EndParent, parentRows
<1> QED BY <1>4, <1>6, <1>7, <1>8 DEF RunAllNext, RegisterParent, ParentLeaseExpires, ProcessCrash, ProcessRestart, parentRows

\* ingestionrun RequestCancellation: for any number of processes, Run All submissions
\* and jobs, no child of a parent whose cancellation is applied is activated, claimed
\* or recorded as a success afterwards.
THEOREM NothingStartsHolds == RunAllSpec => NothingStartsAfterCancellation
BY RunAllInvariance, CancelledChildrenEnd, PTL DEF RunAllSpec, NothingStartsAfterCancellation

-----------------------------------------------------------------------------
(***************************************************************************)
(* Schedules.  The inductive invariant speaks of one schedule at a time:   *)
(* what its unresolved occurrence, the attempt rows, the ingestion runs    *)
(* and the runs that succeeded say of each other.  A step changes the      *)
(* rows of few schedules, and what it leaves alone stays true (Untouched). *)
(***************************************************************************)

\* The open occurrence of s is the one the cursor points at; work is about it.
OpenIsCurrent(s) ==
    /\ state[s] = "enabled" => def[s] \in Defs
    /\ \A t \in Times : Unresolved(s, t) =>
           state[s] = "enabled" /\ cursor[s] = t /\ work[s].def = def[s]
    /\ ~Found(s) => work[s] = NoWork

\* Attempts are counted from one, and one that failed is not the last.
AttemptsOK(s) ==
    /\ work[s].attempts = 0 <=> work[s].outcome = "none"
    /\ work[s].outcome = "failed" => work[s].attempts < MaxAttempts

\* A run belongs to the attempt that waits for it, or to a closed occurrence.
RunsOK(s) ==
    /\ \A t \in Times : Unresolved(s, t) /\ work[s].outcome = "active" =>
           run[def[s].job] = <<s, t, work[s].attempts>>
    /\ \A j \in Jobs, t \in Times, n \in 1 .. MaxAttempts : run[j] = <<s, t, n>> =>
           /\ occ[s][t] \in {"unresolved", "discarded", "rejected_invalid"}
           /\ Unresolved(s, t) =>
                  j = def[s].job /\ work[s].outcome = "active" /\ work[s].attempts = n

\* What succeeded is not owed any more.
DoneOK(s) ==
    /\ \A t \in Times : Unresolved(s, t) /\ work[s].outcome = "succeeded" => <<s, t>> \in done
    /\ \A t \in Times : <<s, t>> \in done =>
           occ[s][t] # "none" /\ (Unresolved(s, t) => work[s].outcome = "succeeded")

Gapless(s) ==
    state[s] = "enabled" /\ def[s].policy = "historical" =>
        \A t \in Times : Fires(def[s].cron, t) /\ since[s] <= t /\ t < cursor[s]
            => occ[s][t] = "resolved" /\ <<s, t>> \in done

ScheduleOK(s) ==
    OpenIsCurrent(s) /\ AttemptsOK(s) /\ RunsOK(s) /\ DoneOK(s) /\ Gapless(s)

SchedulerInv == TypeOK /\ \A s \in Schedules : ScheduleOK(s)

-----------------------------------------------------------------------------
(* Cron times and runs *)

\* cronDefinition.Next finds the least later time.
LEMMA NextTime ==
    ASSUME NEW c \in Crons, NEW t \in 0 .. MaxTime
    PROVE  IsNext(c, t, Next(c, t)) /\ Next(c, t) \in Nat \ {0}
<1>1. \E u \in CronTimes[c] : IsNext(c, t, u)
    BY SchedulerAssumption
<1>2. Next(c, t) \in CronTimes[c] /\ IsNext(c, t, Next(c, t))
    BY <1>1 DEF Next
<1> QED BY <1>2, SchedulerAssumption

LEMMA RunKinds ==
    /\ Idle # Manual
    /\ \A s, t, n : <<s, t, n>> # Idle /\ <<s, t, n>> # Manual
    /\ \A x \in References :
           /\ x[1] \in Schedules /\ x[2] \in Times /\ x[3] \in 1 .. MaxAttempts
           /\ x = <<x[1], x[2], x[3]>>
BY DEF Idle, Manual, References

LEMMA NoWorkType == NoWork \in Works
BY SchedulerAssumption DEF NoWork, Works

-----------------------------------------------------------------------------
(* What a step leaves alone *)

SameRows(s) ==
    /\ state'[s] = state[s] /\ def'[s] = def[s] /\ cursor'[s] = cursor[s]
    /\ since'[s] = since[s] /\ occ'[s] = occ[s] /\ work'[s] = work[s]

\* Runs of occurrences of s are the same, and so is what has succeeded.
SameRuns(s) ==
    /\ \A j \in Jobs, t \in Times, n \in 1 .. MaxAttempts :
           run'[j] = <<s, t, n>> <=> run[j] = <<s, t, n>>
    /\ \A t \in Times : <<s, t>> \in done' <=> <<s, t>> \in done

LEMMA Untouched ==
    ASSUME TypeOK, NEW s \in Schedules, ScheduleOK(s), SameRows(s), SameRuns(s)
    PROVE  ScheduleOK(s)'
<1>1. \A t \in Times : Unresolved(s, t)' <=> Unresolved(s, t)
    BY DEF SameRows, Unresolved
<1>2. Found(s)' <=> Found(s)
    BY <1>1 DEF Found
<1>3. OpenIsCurrent(s)' /\ AttemptsOK(s)'
    BY <1>1, <1>2 DEF ScheduleOK, OpenIsCurrent, AttemptsOK, SameRows
<1>4. RunsOK(s)'
    <2>1. ASSUME NEW t \in Times, Unresolved(s, t), work[s].outcome = "active"
          PROVE  run'[def[s].job] = <<s, t, work[s].attempts>>
        <3>1. run[def[s].job] = <<s, t, work[s].attempts>>
            BY <2>1 DEF ScheduleOK, RunsOK
        <3>2. def[s].job \in Jobs
            BY <2>1 DEF ScheduleOK, OpenIsCurrent, Defs
        <3>3. work[s].attempts \in 1 .. MaxAttempts
            BY <2>1, SchedulerAssumption DEF ScheduleOK, AttemptsOK, TypeOK, Works
        <3> QED BY <3>1, <3>2, <3>3 DEF SameRuns
    <2> QED BY <1>1, <2>1 DEF ScheduleOK, RunsOK, SameRows, SameRuns
<1>5. DoneOK(s)' /\ Gapless(s)'
    BY <1>1 DEF ScheduleOK, DoneOK, Gapless, SameRows, SameRuns
<1> QED BY <1>3, <1>4, <1>5 DEF ScheduleOK

LEMMA RunsUnchanged ==
    ASSUME UNCHANGED <<run, done>> PROVE \A s \in Schedules : SameRuns(s)
BY DEF SameRuns

LEMMA NothingTouched ==
    ASSUME SchedulerInv, TypeOK', \A s \in Schedules : SameRows(s) /\ SameRuns(s)
    PROVE  SchedulerInv'
BY Untouched DEF SchedulerInv

LEMMA OneTouched ==
    ASSUME SchedulerInv, TypeOK', NEW s \in Schedules, ScheduleOK(s)',
           \A r \in Schedules \ {s} : SameRows(r) /\ SameRuns(r)
    PROVE  SchedulerInv'
BY Untouched DEF SchedulerInv

\* A request is over: revisions only get outdated.
LEMMA RequestEnds ==
    ASSUME TypeOK, NEW u \in Operators, NEW C, EndRequest(u, C)
    PROVE  /\ asOf' \in [Operators -> 0 .. MaxTime \cup {NoRequest}]
           /\ fresh' \in [Operators -> SUBSET Schedules]
BY DEF TypeOK, EndRequest

-----------------------------------------------------------------------------
(* Steps that touch no occurrence *)

LEMMA BeginRequestStep ==
    ASSUME SchedulerInv, NEW u \in Operators, BeginRequest(u) PROVE SchedulerInv'
<1>1. TypeOK'
    BY DEF SchedulerInv, TypeOK, BeginRequest, rows, Existing
<1> QED BY <1>1, NothingTouched DEF BeginRequest, rows, SameRows, SameRuns

LEMMA RequestFailsStep ==
    ASSUME SchedulerInv, NEW u \in Operators, RequestFails(u) PROVE SchedulerInv'
<1>1. /\ asOf' \in [Operators -> 0 .. MaxTime \cup {NoRequest}]
      /\ fresh' \in [Operators -> SUBSET Schedules]
    BY RequestEnds DEF RequestFails, SchedulerInv
<1>2. TypeOK'
    BY <1>1 DEF SchedulerInv, TypeOK, RequestFails, rows
<1> QED BY <1>2, NothingTouched DEF RequestFails, rows, SameRows, SameRuns

LEMMA HoldEndsStep ==
    ASSUME SchedulerInv, NEW s \in Schedules, HoldEnds(s) PROVE SchedulerInv'
<1>1. TypeOK'
    BY DEF SchedulerInv, TypeOK, HoldEnds
<1> QED BY <1>1, NothingTouched DEF HoldEnds, SameRows, SameRuns

LEMMA DeployStep ==
    ASSUME SchedulerInv, NEW j \in Jobs, NEW mode \in Modes \cup {"gone"}, Deploy(j, mode) PROVE SchedulerInv'
<1>1. TypeOK'
    BY DEF SchedulerInv, TypeOK, Deploy, rows
<1> QED BY <1>1, NothingTouched DEF Deploy, rows, SameRows, SameRuns

LEMMA TickStep ==
    ASSUME SchedulerInv, Tick PROVE SchedulerInv'
<1>1. now' \in 0 .. MaxTime
    BY SchedulerAssumption DEF SchedulerInv, TypeOK, Tick
<1>2. TypeOK'
    BY <1>1 DEF SchedulerInv, TypeOK, Tick, rows
<1> QED BY <1>2, NothingTouched DEF Tick, rows, SameRows, SameRuns

LEMMA SubmitManuallyStep ==
    ASSUME SchedulerInv, NEW j \in Jobs, SubmitManually(j) PROVE SchedulerInv'
<1>1. TypeOK'
    BY DEF SchedulerInv, TypeOK, SubmitManually, rows
<1>2. /\ run[j] = Idle /\ run' = [run EXCEPT ![j] = Manual]
      /\ run \in [Jobs -> References \cup {Idle, Manual}]
    BY DEF SubmitManually, SchedulerInv, TypeOK
<1>3. \A s \in Schedules : SameRuns(s)
    BY <1>2, RunKinds DEF SubmitManually, SameRuns
<1> QED BY <1>1, <1>3, NothingTouched DEF SubmitManually, rows, SameRows

-----------------------------------------------------------------------------
(* Attempts *)

\* The attempt row of s changes in its retry time only.
RetryChanges(s) ==
    /\ work' = [work EXCEPT ![s].retry = work'[s].retry]
    /\ work'[s].retry \in {"null", "future", "due"}
    /\ UNCHANGED <<state, def, cursor, since, occ, run, done>>

LEMMA RetryOnly ==
    ASSUME SchedulerInv, NEW s \in Schedules, Found(s), RetryChanges(s)
    PROVE  /\ work' \in [Schedules -> Works]
           /\ ScheduleOK(s)'
           /\ \A r \in Schedules \ {s} : SameRows(r) /\ SameRuns(r)
<1> DEFINE w == work'[s]
<1>1. work[s] \in Works /\ work \in [Schedules -> Works]
    BY DEF SchedulerInv, TypeOK
<1>2. w = [work[s] EXCEPT !.retry = w.retry]
    BY <1>1 DEF RetryChanges
<1>3. w \in Works
    BY <1>1, <1>2 DEF Works, RetryChanges
<1>4. /\ w.def = work[s].def /\ w.attempts = work[s].attempts
      /\ w.outcome = work[s].outcome /\ w.finished = work[s].finished
    BY <1>1, <1>2 DEF Works
<1>5. \A r \in Schedules : r # s => work'[r] = work[r]
    BY <1>1 DEF RetryChanges
<1>6. work' \in [Schedules -> Works]
    BY <1>1, <1>3, <1>5 DEF RetryChanges
<1>7. \A t \in Times : Unresolved(s, t)' <=> Unresolved(s, t)
    BY DEF RetryChanges, Unresolved
<1>8. ScheduleOK(s)
    BY DEF SchedulerInv
<1>9. OpenIsCurrent(s)'
    BY <1>4, <1>7, <1>8 DEF ScheduleOK, OpenIsCurrent, RetryChanges, Found
<1>10. AttemptsOK(s)'
    BY <1>4, <1>8 DEF ScheduleOK, AttemptsOK
<1>11. RunsOK(s)'
    BY <1>4, <1>7, <1>8 DEF ScheduleOK, RunsOK, RetryChanges
<1>12. DoneOK(s)' /\ Gapless(s)'
    BY <1>4, <1>7, <1>8 DEF ScheduleOK, DoneOK, Gapless, RetryChanges
<1>13. \A r \in Schedules \ {s} : SameRows(r) /\ SameRuns(r)
    BY <1>5 DEF SameRows, SameRuns, RetryChanges
<1> QED BY <1>6, <1>9, <1>10, <1>11, <1>12, <1>13 DEF ScheduleOK

LEMMA RetryDueStep ==
    ASSUME SchedulerInv, NEW s \in Schedules, RetryDue(s) PROVE SchedulerInv'
<1>1. Found(s)
    BY DEF RetryDue, SchedulerInv, ScheduleOK, OpenIsCurrent, NoWork
<1>2. RetryChanges(s)
    BY DEF RetryDue, RetryChanges, SchedulerInv, TypeOK, Works, rows
<1>3. TypeOK'
    BY <1>1, <1>2, RetryOnly DEF SchedulerInv, TypeOK, RetryDue, rows
<1> QED BY <1>1, <1>2, <1>3, RetryOnly, OneTouched

LEMMA recordBackoffStep ==
    ASSUME SchedulerInv, NEW s \in Schedules, recordBackoff(s) PROVE SchedulerInv'
<1>1. Found(s) /\ RetryChanges(s)
    BY DEF recordBackoff, RetryChanges, SchedulerInv, TypeOK, Works
<1>2. TypeOK'
    BY <1>1, RetryOnly DEF SchedulerInv, TypeOK, recordBackoff
<1> QED BY <1>1, <1>2, RetryOnly, OneTouched

\* A run that nobody waits for ends: a user's, or one of a closed occurrence.
LEMMA RunEndsStep ==
    ASSUME SchedulerInv, NEW j \in Jobs, NEW outcome \in {"succeeded", "failed"}, RunEnds(j, outcome)
    PROVE  SchedulerInv'
<1>1. /\ run \in [Jobs -> References \cup {Idle, Manual}] /\ run[j] # Idle
      /\ run' = [run EXCEPT ![j] = Idle]
      /\ UNCHANGED <<now, catalog, state, def, cursor, held, since, occ, asOf, fresh>>
    BY DEF RunEnds, SchedulerInv, TypeOK, rows
<1>2. run' \in [Jobs -> References \cup {Idle, Manual}]
    BY <1>1
<1>3. CASE run[j] = Manual
    <2>1. UNCHANGED <<work, done>>
        BY <1>3 DEF RunEnds
    <2>2. TypeOK'
        BY <1>1, <1>2, <2>1 DEF SchedulerInv, TypeOK
    <2>3. \A s \in Schedules : SameRuns(s)
        BY <1>1, <1>3, <2>1, RunKinds DEF SameRuns
    <2> QED BY <1>1, <2>1, <2>2, <2>3, NothingTouched DEF SameRows
<1>4. CASE run[j] # Manual
    <2>1. PICK s \in Schedules, t \in Times, n \in 1 .. MaxAttempts : run[j] = <<s, t, n>>
        BY <1>1, <1>4, RunKinds
    <2>2. /\ outcome = "failed" => n < MaxAttempts
          /\ work' = IF Unresolved(s, t) /\ work[s].attempts = n
                     THEN [work EXCEPT ![s].outcome = outcome, ![s].finished = now]
                     ELSE work
          /\ done' = IF outcome = "succeeded" THEN done \cup {<<s, t>>} ELSE done
        <3>1. run[j][1] = s /\ run[j][2] = t /\ run[j][3] = n
            BY <2>1
        <3> QED BY <1>4, <3>1 DEF RunEnds
    <2>3. ScheduleOK(s) /\ work \in [Schedules -> Works] /\ now \in 0 .. MaxTime
        BY <2>1 DEF SchedulerInv, TypeOK
    <2>4. \A x \in Times : Unresolved(s, x)' <=> Unresolved(s, x)
        BY <1>1 DEF Unresolved
    \* The other schedules see nothing of it.
    <2>5. \A r \in Schedules \ {s} : SameRows(r) /\ SameRuns(r)
        <3>1. \A r \in Schedules \ {s} : work'[r] = work[r]
            BY <2>2, <2>3
        <3>2. \A r \in Schedules \ {s} : SameRuns(r)
            <4> SUFFICES ASSUME NEW r \in Schedules \ {s} PROVE SameRuns(r)
                OBVIOUS
            <4>1. ASSUME NEW i \in Jobs, NEW x \in Times, NEW m \in 1 .. MaxAttempts
                  PROVE  run'[i] = <<r, x, m>> <=> run[i] = <<r, x, m>>
                <5>1. <<r, x, m>> # Idle /\ <<r, x, m>> # <<s, t, n>>
                    BY RunKinds
                <5> QED BY <1>1, <2>1, <5>1
            <4>2. \A x \in Times : <<r, x>> # <<s, t>>
                OBVIOUS
            <4> QED BY <2>2, <4>1, <4>2 DEF SameRuns
        <3> QED BY <1>1, <3>1, <3>2 DEF SameRows
    <2>6. done' \subseteq Schedules \X Times
        BY <2>1, <2>2 DEF SchedulerInv, TypeOK
    \* No other run belongs to the occurrence while it is open.
    <2>7. ASSUME NEW i \in Jobs, NEW x \in Times, NEW m \in 1 .. MaxAttempts, run'[i] = <<s, x, m>>
          PROVE  run[i] = <<s, x, m>> /\ i # j
        <3>1. <<s, x, m>> # Idle
            BY RunKinds
        <3> QED BY <1>1, <2>7, <3>1
    <2>8. CASE Unresolved(s, t)
        <3>1. j = def[s].job /\ work[s].outcome = "active" /\ work[s].attempts = n
            BY <2>1, <2>3, <2>8 DEF ScheduleOK, RunsOK
        <3> DEFINE w == [work[s] EXCEPT !.outcome = outcome, !.finished = now]
        <3>2. work[s] \in Works
            BY <2>1, <2>3
        <3>3. /\ w \in Works /\ w.outcome = outcome /\ w.def = work[s].def
              /\ w.attempts = work[s].attempts
            BY <2>3, <3>2 DEF Works
        <3>4. work' = [work EXCEPT ![s] = w]
            BY <2>2, <2>8, <3>1
        <3> HIDE DEF w
        <3>5. work' \in [Schedules -> Works] /\ work'[s] = w
            BY <2>1, <2>3, <3>3, <3>4
        <3>6. TypeOK'
            BY <1>1, <1>2, <2>6, <3>5 DEF SchedulerInv, TypeOK
        <3>7. \A x \in Times : Unresolved(s, x) => x = t
            BY <2>1, <2>3, <2>8 DEF ScheduleOK, OpenIsCurrent
        <3>8. OpenIsCurrent(s)'
            BY <1>1, <2>1, <2>3, <2>4, <2>8, <3>3, <3>5 DEF ScheduleOK, OpenIsCurrent, Found
        <3>9. AttemptsOK(s)'
            BY <2>1, <2>2, <3>1, <3>3, <3>5 DEF AttemptsOK
        <3>10. RunsOK(s)'
            BY <1>1, <2>3, <2>4, <2>7, <3>1, <3>3, <3>5 DEF ScheduleOK, RunsOK
        <3>11. DoneOK(s)' /\ Gapless(s)'
            <4>1. \A x \in Times : <<s, x>> \in done => <<s, x>> \in done'
                BY <2>2
            <4>2. \A x \in Times : <<s, x>> \in done' =>
                      <<s, x>> \in done \/ (x = t /\ outcome = "succeeded")
                BY <2>2
            <4>3. outcome = "succeeded" => <<s, t>> \in done'
                BY <2>2
            <4>4. <<s, t>> \notin done
                BY <2>1, <2>3, <2>8, <3>1 DEF ScheduleOK, DoneOK
            <4>5. DoneOK(s)'
                BY <1>1, <2>1, <2>3, <2>4, <2>8, <3>3, <3>5, <3>7, <4>1, <4>2, <4>3, <4>4
                   DEF ScheduleOK, DoneOK, Unresolved
            <4>6. Gapless(s)'
                BY <1>1, <2>3, <4>1 DEF ScheduleOK, Gapless
            <4> QED BY <4>5, <4>6
        <3> QED BY <2>1, <2>5, <3>6, <3>8, <3>9, <3>10, <3>11, OneTouched DEF ScheduleOK
    <2>9. CASE ~Unresolved(s, t)
        <3>1. work' = work
            BY <2>2, <2>9
        <3>2. TypeOK'
            BY <1>1, <1>2, <2>6, <3>1 DEF SchedulerInv, TypeOK
        <3>3. OpenIsCurrent(s)' /\ AttemptsOK(s)'
            BY <1>1, <2>3, <2>4, <3>1 DEF ScheduleOK, OpenIsCurrent, AttemptsOK, Found
        <3>4. RunsOK(s)'
            <4>1. ASSUME NEW x \in Times, Unresolved(s, x), work[s].outcome = "active"
                  PROVE  run'[def[s].job] = <<s, x, work[s].attempts>>
                <5>1. run[def[s].job] = <<s, x, work[s].attempts>>
                    BY <2>3, <4>1 DEF ScheduleOK, RunsOK
                <5>2. def[s].job # j
                    BY <2>1, <2>9, <4>1, <5>1
                <5>3. def[s].job \in Jobs
                    BY <2>3, <4>1 DEF ScheduleOK, OpenIsCurrent, Defs
                <5> QED BY <1>1, <5>1, <5>2, <5>3
            <4> QED BY <1>1, <2>3, <2>4, <2>7, <3>1, <4>1 DEF ScheduleOK, RunsOK
        <3>5. DoneOK(s)' /\ Gapless(s)'
            <4>1. \A x \in Times : <<s, x>> \in done => <<s, x>> \in done'
                BY <2>2
            <4>2. \A x \in Times : <<s, x>> \in done' => <<s, x>> \in done \/ x = t
                BY <2>2
            <4>3. occ[s][t] # "none"
                BY <2>1, <2>3 DEF ScheduleOK, RunsOK
            <4>4. DoneOK(s)'
                BY <1>1, <2>3, <2>4, <2>9, <3>1, <4>1, <4>2, <4>3 DEF ScheduleOK, DoneOK
            <4>5. Gapless(s)'
                BY <1>1, <2>3, <4>1 DEF ScheduleOK, Gapless
            <4> QED BY <4>4, <4>5
        <3> QED BY <2>1, <2>5, <3>2, <3>3, <3>4, <3>5, OneTouched DEF ScheduleOK
    <2> QED BY <2>8, <2>9
<1> QED BY <1>3, <1>4

-----------------------------------------------------------------------------
(* The sweep *)

LEMMA DueTime ==
    ASSUME TypeOK, NEW s \in Schedules, Due(s)
    PROVE  cursor[s] \in Times /\ cursor[s] \in 0 .. MaxTime
BY SchedulerAssumption DEF TypeOK, Due, Times, NoTime

\* One occurrence of s gets another status.
LEMMA StatusChanges ==
    ASSUME TypeOK, NEW s \in Schedules, NEW c \in Times, NEW v \in OccStatus,
           occ' = [occ EXCEPT ![s][c] = v]
    PROVE  /\ occ' \in [Schedules -> [Times -> OccStatus]]
           /\ \A r \in Schedules : r # s => occ'[r] = occ[r]
           /\ \A t \in Times : occ'[s][t] = IF t = c THEN v ELSE occ[s][t]
BY DEF TypeOK

\* An owed occurrence is found unresolved under the cursor, or is made there.
LEMMA OwedIsOpen ==
    ASSUME SchedulerInv, NEW s \in Schedules, Due(s), Openable(s)
    PROVE  /\ occ[s][cursor[s]] \in {"none", "unresolved"}
           /\ \A t \in Times : Unresolved(s, t) => t = cursor[s]
           /\ ~Found(s) => occ[s][cursor[s]] = "none" /\ work[s] = NoWork
BY DEF SchedulerInv, ScheduleOK, OpenIsCurrent, Openable, Found, Unresolved

\* No run belongs to an occurrence that is owed.
LEMMA OwedHasNoRun ==
    ASSUME SchedulerInv, NEW s \in Schedules, Due(s), Openable(s), Owed(s)
    PROVE  /\ \A j \in Jobs, n \in 1 .. MaxAttempts : run[j] # <<s, cursor[s], n>>
           /\ <<s, cursor[s]>> \notin done
           /\ work[s].outcome \in {"none", "failed"}
           /\ work[s].attempts < MaxAttempts
<1>1. ScheduleOK(s) /\ cursor[s] \in Times
    BY DueTime DEF SchedulerInv
<1>2. occ[s][cursor[s]] \in {"none", "unresolved"}
    BY OwedIsOpen
<1>3. work[s].outcome \in {"none", "failed"}
    BY OwedIsOpen DEF Owed, NoWork
<1>4. work[s].attempts < MaxAttempts
    BY <1>1, <1>3, SchedulerAssumption DEF ScheduleOK, AttemptsOK
<1>5. <<s, cursor[s]>> \notin done
    BY <1>1, <1>2, <1>3 DEF ScheduleOK, DoneOK, Unresolved
<1>6. \A j \in Jobs, n \in 1 .. MaxAttempts : run[j] # <<s, cursor[s], n>>
    BY <1>1, <1>2, <1>3 DEF ScheduleOK, RunsOK, Unresolved
<1> QED BY <1>3, <1>4, <1>5, <1>6

LEMMA BlockStep ==
    ASSUME SchedulerInv, NEW s \in Schedules, Block(s) PROVE SchedulerInv'
<1>1. TypeOK /\ ScheduleOK(s) /\ Due(s) /\ Openable(s) /\ Owed(s)
    BY DEF SchedulerInv, Block
<1>2. PICK c : c = cursor[s]
    OBVIOUS
<1>3. c \in Times /\ state[s] = "enabled"
    BY <1>1, <1>2, DueTime DEF Due
<1>4. /\ \A j \in Jobs, n \in 1 .. MaxAttempts : run[j] # <<s, c, n>>
      /\ <<s, c>> \notin done
      /\ work[s].outcome \in {"none", "failed"}
    BY <1>1, <1>2, OwedHasNoRun
<1>5. \A t \in Times : Unresolved(s, t) => t = c
    BY <1>1, <1>2, OwedIsOpen
<1> DEFINE w == [work[s] EXCEPT !.def = def[s]]
<1>6. /\ occ' = [occ EXCEPT ![s][c] = "unresolved"]
      /\ work' = [work EXCEPT ![s] = w]
      /\ held' = [held EXCEPT ![s] = TRUE]
      /\ UNCHANGED <<now, catalog, state, def, cursor, run, asOf, fresh, since, done>>
    BY <1>2 DEF Block, Opened
<1>7. work[s] \in Works /\ def[s] \in Defs \cup {NoDef} /\ work \in [Schedules -> Works]
    BY <1>1 DEF TypeOK
<1>8. /\ w \in Works /\ w.def = def[s] /\ w.attempts = work[s].attempts
      /\ w.outcome = work[s].outcome
    BY <1>7 DEF Works
<1> HIDE DEF w
<1>9. /\ occ' \in [Schedules -> [Times -> OccStatus]]
      /\ \A r \in Schedules : r # s => occ'[r] = occ[r]
      /\ \A t \in Times : occ'[s][t] = IF t = c THEN "unresolved" ELSE occ[s][t]
    BY <1>1, <1>3, <1>6, StatusChanges DEF OccStatus
<1>10. work' \in [Schedules -> Works] /\ work'[s] = w
    BY <1>6, <1>7, <1>8
<1>11. TypeOK'
    BY <1>1, <1>6, <1>9, <1>10 DEF TypeOK
<1>12. \A t \in Times : Unresolved(s, t)' <=> t = c
    BY <1>5, <1>9 DEF Unresolved
<1>13. OpenIsCurrent(s)'
    BY <1>1, <1>2, <1>3, <1>6, <1>8, <1>10, <1>12 DEF ScheduleOK, OpenIsCurrent, Found
<1>14. AttemptsOK(s)'
    BY <1>1, <1>8, <1>10 DEF ScheduleOK, AttemptsOK
<1>15. RunsOK(s)'
    BY <1>1, <1>4, <1>6, <1>8, <1>9, <1>10, <1>12 DEF ScheduleOK, RunsOK
<1>16. DoneOK(s)'
    BY <1>1, <1>4, <1>6, <1>8, <1>9, <1>10, <1>12 DEF ScheduleOK, DoneOK
<1>17. Gapless(s)'
    BY <1>1, <1>2, <1>3, <1>6, <1>9, SchedulerAssumption DEF ScheduleOK, Gapless, Times
<1>18. \A r \in Schedules \ {s} : SameRows(r) /\ SameRuns(r)
    BY <1>6, <1>7, <1>9 DEF SameRows, SameRuns
<1> QED BY <1>11, <1>13, <1>14, <1>15, <1>16, <1>17, <1>18, OneTouched DEF ScheduleOK

LEMMA DeliverStep ==
    ASSUME SchedulerInv, NEW s \in Schedules, Deliver(s) PROVE SchedulerInv'
<1>1. TypeOK /\ ScheduleOK(s) /\ Due(s) /\ Openable(s) /\ Owed(s) /\ Valid(def[s])
    BY DEF SchedulerInv, Deliver, Coherent
<1>2. PICK c : c = cursor[s]
    OBVIOUS
<1>3. c \in Times /\ state[s] = "enabled"
    BY <1>1, <1>2, DueTime DEF Due
<1>4. /\ \A j \in Jobs, n \in 1 .. MaxAttempts : run[j] # <<s, c, n>>
      /\ <<s, c>> \notin done /\ work[s].attempts < MaxAttempts
    BY <1>1, <1>2, OwedHasNoRun
<1>5. \A t \in Times : Unresolved(s, t) => t = c
    BY <1>1, <1>2, OwedIsOpen
<1>6. PICK n : n = work[s].attempts + 1
    OBVIOUS
<1>7. PICK job : job = def[s].job
    OBVIOUS
<1> DEFINE w == [NoWork EXCEPT !.def = def[s], !.attempts = n, !.outcome = "active"]
<1>8. /\ run[job] = Idle
      /\ occ' = [occ EXCEPT ![s][c] = "unresolved"]
      /\ work' = [work EXCEPT ![s] = w]
      /\ held' = [held EXCEPT ![s] = TRUE]
      /\ run' = [run EXCEPT ![job] = <<s, c, n>>]
      /\ UNCHANGED <<now, catalog, state, def, cursor, asOf, fresh, since, done>>
    BY <1>2, <1>6, <1>7 DEF Deliver, Opened
<1>9. def[s] \in Defs /\ work \in [Schedules -> Works] /\ job \in Jobs
    BY <1>1, <1>7 DEF TypeOK, Valid, Defs
<1>10. n \in 1 .. MaxAttempts
    BY <1>4, <1>6, <1>9, SchedulerAssumption DEF Works
<1>11. /\ w \in Works /\ w.def = def[s] /\ w.attempts = n /\ w.outcome = "active"
    <2>1. n \in 0 .. MaxAttempts
        BY <1>10, SchedulerAssumption
    <2> QED BY <1>9, <2>1, NoWorkType DEF Works
<1> HIDE DEF w
<1>12. /\ occ' \in [Schedules -> [Times -> OccStatus]]
       /\ \A r \in Schedules : r # s => occ'[r] = occ[r]
       /\ \A t \in Times : occ'[s][t] = IF t = c THEN "unresolved" ELSE occ[s][t]
    BY <1>1, <1>3, <1>8, StatusChanges DEF OccStatus
<1>13. work' \in [Schedules -> Works] /\ work'[s] = w
    BY <1>8, <1>9, <1>11
<1>14. /\ run' \in [Jobs -> References \cup {Idle, Manual}]
       /\ \A j \in Jobs : run'[j] = IF j = job THEN <<s, c, n>> ELSE run[j]
    BY <1>1, <1>3, <1>8, <1>10 DEF TypeOK, References
<1>15. TypeOK'
    BY <1>1, <1>8, <1>12, <1>13, <1>14 DEF TypeOK
<1>16. \A t \in Times : Unresolved(s, t)' <=> t = c
    BY <1>5, <1>12 DEF Unresolved
<1>17. OpenIsCurrent(s)'
    BY <1>1, <1>2, <1>3, <1>8, <1>11, <1>13, <1>16 DEF ScheduleOK, OpenIsCurrent, Found
<1>18. AttemptsOK(s)'
    BY <1>10, <1>11, <1>13 DEF AttemptsOK
<1>19. RunsOK(s)'
    <2>1. \A t \in Times : Unresolved(s, t)' /\ work'[s].outcome = "active" =>
              run'[def'[s].job] = <<s, t, work'[s].attempts>>
        BY <1>7, <1>8, <1>9, <1>11, <1>13, <1>14, <1>16
    <2>2. ASSUME NEW j \in Jobs, NEW t \in Times, NEW m \in 1 .. MaxAttempts,
                 run'[j] = <<s, t, m>>
          PROVE  /\ occ'[s][t] \in {"unresolved", "discarded", "rejected_invalid"}
                 /\ Unresolved(s, t)' =>
                        j = def'[s].job /\ work'[s].outcome = "active" /\ work'[s].attempts = m
        <3>1. CASE j = job
            <4>1. t = c /\ m = n
                BY <1>14, <2>2, <3>1
            <4> QED BY <1>7, <1>8, <1>11, <1>12, <1>13, <3>1, <4>1
        <3>2. CASE j # job
            <4>1. run[j] = <<s, t, m>>
                BY <1>14, <2>2, <3>2
            <4>2. t # c
                BY <1>4, <4>1
            <4> QED BY <1>1, <1>12, <1>16, <4>1, <4>2 DEF ScheduleOK, RunsOK
        <3> QED BY <3>1, <3>2
    <2> QED BY <2>1, <2>2 DEF RunsOK
<1>20. DoneOK(s)'
    BY <1>1, <1>4, <1>8, <1>11, <1>12, <1>13, <1>16 DEF ScheduleOK, DoneOK
<1>21. Gapless(s)'
    BY <1>1, <1>2, <1>3, <1>8, <1>12, SchedulerAssumption DEF ScheduleOK, Gapless, Times
<1>22. \A r \in Schedules \ {s} : SameRows(r) /\ SameRuns(r)
    <2> SUFFICES ASSUME NEW r \in Schedules \ {s} PROVE SameRows(r) /\ SameRuns(r)
        OBVIOUS
    <2>1. ASSUME NEW j \in Jobs, NEW t \in Times, NEW m \in 1 .. MaxAttempts
          PROVE  run'[j] = <<r, t, m>> <=> run[j] = <<r, t, m>>
        <3>1. <<r, t, m>> # Idle /\ <<r, t, m>> # <<s, c, n>>
            BY RunKinds
        <3> QED BY <1>8, <1>14, <3>1
    <2> QED BY <1>8, <1>9, <1>12, <2>1 DEF SameRows, SameRuns
<1> QED BY <1>15, <1>17, <1>18, <1>19, <1>20, <1>21, <1>22, OneTouched DEF ScheduleOK

\* The cursor moves on only over a time that has been ingested.
LEMMA resolveSuccessStep ==
    ASSUME SchedulerInv, NEW s \in Schedules, resolveSuccess(s) PROVE SchedulerInv'
<1>1. /\ TypeOK /\ ScheduleOK(s) /\ Due(s) /\ Valid(def[s]) /\ Found(s)
      /\ work[s].outcome = "succeeded"
    BY DEF SchedulerInv, resolveSuccess, Coherent
<1>2. PICK c : c = cursor[s]
    OBVIOUS
<1>3. c \in Times /\ c \in 0 .. MaxTime /\ state[s] = "enabled"
    BY <1>1, <1>2, DueTime DEF Due
<1>4. PICK from : from = IF def[s].policy = "live_coalesced" THEN work[s].finished ELSE c
    OBVIOUS
<1>5. PICK d : d = def[s]
    OBVIOUS
<1>6. PICK next : next = Next(d.cron, from)
    OBVIOUS
<1>7. /\ occ' = [occ EXCEPT ![s][c] = "resolved"]
      /\ work' = [work EXCEPT ![s] = NoWork]
      /\ cursor' = [cursor EXCEPT ![s] = next]
      /\ held' = [held EXCEPT ![s] = FALSE]
      /\ UNCHANGED <<now, catalog, state, def, run, asOf, fresh, since, done>>
    BY <1>2, <1>4, <1>5, <1>6 DEF resolveSuccess
<1>8. d \in Defs /\ work \in [Schedules -> Works] /\ cursor \in [Schedules -> Nat]
    BY <1>1, <1>5 DEF TypeOK, Valid
<1>9. from \in 0 .. MaxTime
    BY <1>3, <1>4, <1>8 DEF Works
<1>10. IsNext(d.cron, from, next) /\ next \in Nat \ {0}
    BY <1>6, <1>8, <1>9, NextTime DEF Defs
<1>11. Unresolved(s, c) /\ \A t \in Times : Unresolved(s, t) => t = c
    BY <1>1, <1>2 DEF Found, ScheduleOK, OpenIsCurrent
<1>12. <<s, c>> \in done
    BY <1>1, <1>3, <1>11 DEF ScheduleOK, DoneOK
<1>13. /\ occ' \in [Schedules -> [Times -> OccStatus]]
       /\ \A r \in Schedules : r # s => occ'[r] = occ[r]
       /\ \A t \in Times : occ'[s][t] = IF t = c THEN "resolved" ELSE occ[s][t]
    BY <1>1, <1>3, <1>7, StatusChanges DEF OccStatus
<1>14. work' \in [Schedules -> Works] /\ work'[s] = NoWork
    BY <1>7, <1>8, NoWorkType
<1>15. cursor' \in [Schedules -> Nat] /\ cursor'[s] = next
    BY <1>7, <1>8, <1>10
<1>16. \A r \in Schedules : state'[r] = "enabled" <=> cursor'[r] # NoTime
    BY <1>1, <1>3, <1>7, <1>8, <1>10 DEF TypeOK, NoTime
<1>17. TypeOK'
    BY <1>1, <1>7, <1>13, <1>14, <1>15, <1>16 DEF TypeOK
<1>18. \A t \in Times : ~Unresolved(s, t)'
    BY <1>11, <1>13 DEF Unresolved
<1>19. OpenIsCurrent(s)' /\ AttemptsOK(s)'
    BY <1>1, <1>7, <1>14, <1>18 DEF ScheduleOK, OpenIsCurrent, AttemptsOK, Found, NoWork
<1>20. RunsOK(s)'
    <2>1. \A j \in Jobs, n \in 1 .. MaxAttempts : run[j] # <<s, c, n>>
        BY <1>1, <1>3, <1>11 DEF ScheduleOK, RunsOK
    <2> QED BY <1>1, <1>7, <1>13, <1>18, <2>1 DEF ScheduleOK, RunsOK
<1>21. DoneOK(s)'
    BY <1>1, <1>7, <1>13, <1>18 DEF ScheduleOK, DoneOK
<1>22. Gapless(s)'
    <2> SUFFICES ASSUME def'[s].policy = "historical", NEW t \in Times,
                        Fires(def'[s].cron, t), since'[s] <= t, t < cursor'[s]
                 PROVE  occ'[s][t] = "resolved" /\ <<s, t>> \in done'
        BY DEF Gapless
    <2>1. d.policy = "historical" /\ Fires(d.cron, t) /\ since[s] <= t /\ t < next /\ from = c
        BY <1>4, <1>5, <1>7, <1>15
    <2>2. t \in Nat /\ c \in Nat
        BY <1>3, SchedulerAssumption DEF Times
    <2>3. ~(t > c)
        BY <1>10, <2>1, <2>2 DEF IsNext, Fires
    <2>4. CASE t = c
        BY <1>7, <1>12, <1>13, <2>4
    <2>5. CASE t < c
        BY <1>1, <1>2, <1>3, <1>5, <1>7, <1>13, <2>1, <2>5 DEF ScheduleOK, Gapless
    <2> QED BY <2>2, <2>3, <2>4, <2>5
<1>23. \A r \in Schedules \ {s} : SameRows(r) /\ SameRuns(r)
    BY <1>7, <1>8, <1>13 DEF SameRows, SameRuns
<1> QED BY <1>17, <1>19, <1>20, <1>21, <1>22, <1>23, OneTouched DEF ScheduleOK

\* A schedule without a cursor has no open occurrence and owes nothing; what
\* its occurrences became is not "none" and not "resolved".
Closed(s) ==
    /\ state'[s] \in {"disabled", "archived"} /\ work'[s] = NoWork
    /\ \A t \in Times :
           \/ occ'[s][t] = occ[s][t] /\ ~Unresolved(s, t)
           \/ /\ occ'[s][t] \in {"discarded", "rejected_invalid"}
              /\ occ[s][t] \in {"none", "unresolved"}

LEMMA ClosedOK ==
    ASSUME SchedulerInv, NEW s \in Schedules, Closed(s), UNCHANGED <<run, done>>
    PROVE  ScheduleOK(s)'
<1>1. ScheduleOK(s)
    BY DEF SchedulerInv
<1>2. \A t \in Times : ~Unresolved(s, t)'
    BY DEF Closed, Unresolved
<1>3. OpenIsCurrent(s)' /\ AttemptsOK(s)' /\ Gapless(s)'
    BY <1>2 DEF Closed, OpenIsCurrent, AttemptsOK, Gapless, NoWork, Found
<1>4. RunsOK(s)'
    BY <1>1, <1>2 DEF Closed, ScheduleOK, RunsOK
<1>5. DoneOK(s)'
    BY <1>1, <1>2 DEF Closed, ScheduleOK, DoneOK
<1> QED BY <1>3, <1>4, <1>5 DEF ScheduleOK

LEMMA rejectInvalidStep ==
    ASSUME SchedulerInv, NEW s \in Schedules, rejectInvalid(s) PROVE SchedulerInv'
<1>1. TypeOK /\ ScheduleOK(s) /\ Due(s) /\ Openable(s)
    BY DEF SchedulerInv, rejectInvalid
<1> DEFINE new == [t \in Times |->
                IF Unresolved(s, t) \/ (~Found(s) /\ t = cursor[s])
                THEN "rejected_invalid" ELSE occ[s][t]]
<1>2. /\ occ' = [occ EXCEPT ![s] = new]
      /\ work' = [work EXCEPT ![s] = NoWork]
      /\ state' = [state EXCEPT ![s] = "disabled"]
      /\ cursor' = [cursor EXCEPT ![s] = NoTime]
      /\ held' = [held EXCEPT ![s] = FALSE]
      /\ fresh' = [u \in Operators |-> fresh[u] \ {s}]
      /\ UNCHANGED <<now, catalog, def, run, asOf, since, done>>
    BY DEF rejectInvalid
<1>3. new \in [Times -> OccStatus]
    BY <1>1 DEF TypeOK, OccStatus
<1>4. ~Found(s) => occ[s][cursor[s]] = "none"
    BY <1>1, OwedIsOpen
<1>5. \A t \in Times :
          \/ new[t] = occ[s][t] /\ ~Unresolved(s, t)
          \/ new[t] \in {"discarded", "rejected_invalid"} /\ occ[s][t] \in {"none", "unresolved"}
    BY <1>4 DEF Unresolved
<1> HIDE DEF new
<1>6. occ' \in [Schedules -> [Times -> OccStatus]] /\ occ'[s] = new
    BY <1>1, <1>2, <1>3 DEF TypeOK
<1>7. \A r \in Schedules : state'[r] = "enabled" <=> cursor'[r] # NoTime
    BY <1>1, <1>2 DEF TypeOK, NoTime
<1>8. TypeOK'
    BY <1>1, <1>2, <1>6, <1>7, NoWorkType DEF TypeOK, NoTime
<1>9. Closed(s)
    BY <1>1, <1>2, <1>5, <1>6 DEF Closed, TypeOK
<1>10. \A r \in Schedules \ {s} : SameRows(r) /\ SameRuns(r)
    BY <1>1, <1>2 DEF SameRows, SameRuns, TypeOK
<1> QED BY <1>2, <1>8, <1>9, <1>10, ClosedOK, OneTouched

-----------------------------------------------------------------------------
(* Operators *)

\* A schedule without an open occurrence is disabled or starts anew: it owes
\* nothing from before its cursor.
Restarts(s) ==
    /\ ~Found(s) /\ occ'[s] = occ[s] /\ work'[s] = work[s]
    /\ state'[s] = "enabled" => def'[s] \in Defs /\ since'[s] = cursor'[s]

LEMMA RestartsOK ==
    ASSUME SchedulerInv, TypeOK', NEW s \in Schedules, Restarts(s), UNCHANGED <<run, done>>
    PROVE  ScheduleOK(s)'
<1>1. ScheduleOK(s)
    BY DEF SchedulerInv
<1>2. \A t \in Times : ~Unresolved(s, t) /\ ~Unresolved(s, t)'
    BY DEF Restarts, Unresolved, Found
<1>3. OpenIsCurrent(s)' /\ AttemptsOK(s)'
    BY <1>1, <1>2 DEF Restarts, ScheduleOK, OpenIsCurrent, AttemptsOK, Found
<1>4. RunsOK(s)' /\ DoneOK(s)'
    BY <1>1, <1>2 DEF Restarts, ScheduleOK, RunsOK, DoneOK
<1>5. Gapless(s)'
    <2>1. cursor'[s] \in Nat /\ Times \subseteq Nat
        BY SchedulerAssumption DEF TypeOK, Times
    <2> QED BY <2>1 DEF Gapless, Restarts
<1> QED BY <1>3, <1>4, <1>5 DEF ScheduleOK

\* The schedules of C are stopped or start anew, the others see nothing.
LEMMA SomeChange ==
    ASSUME SchedulerInv, TypeOK', NEW C, UNCHANGED <<run, done>>,
           \A s \in Schedules : IF s \in C THEN Closed(s) \/ Restarts(s) ELSE SameRows(s)
    PROVE  SchedulerInv'
<1> SUFFICES ASSUME NEW s \in Schedules PROVE ScheduleOK(s)'
    BY DEF SchedulerInv
<1>1. CASE s \in C
    BY <1>1, ClosedOK, RestartsOK
<1>2. CASE s \notin C
    BY <1>2, Untouched, RunsUnchanged DEF SchedulerInv
<1> QED BY <1>1, <1>2

\* An open occurrence has an enabled schedule.
LEMMA OpenIsEnabled ==
    ASSUME SchedulerInv, NEW s \in Schedules, Found(s) PROVE state[s] = "enabled"
BY DEF SchedulerInv, ScheduleOK, OpenIsCurrent, Found

LEMMA UpdateStep ==
    ASSUME SchedulerInv, NEW u \in Operators, NEW s \in Schedules, NEW d \in Defs, Update(u, s, d)
    PROVE  SchedulerInv'
<1>1. TypeOK /\ asOf[u] \in 0 .. MaxTime /\ EndRequest(u, {s})
    BY DEF SchedulerInv, Update, TypeOK, NoRequest
<1>2. PICK next : next = Next(d.cron, asOf[u])
    OBVIOUS
<1>3. next \in Nat \ {0}
    BY <1>1, <1>2, NextTime DEF Defs
<1>4. /\ asOf' \in [Operators -> 0 .. MaxTime \cup {NoRequest}]
      /\ fresh' \in [Operators -> SUBSET Schedules]
    BY <1>1, RequestEnds
<1>5. /\ def' = [def EXCEPT ![s] = d]
      /\ UNCHANGED <<now, catalog, state, held, occ, work, run, done>>
    BY DEF Update
<1>6. def' \in [Schedules -> Defs \cup {NoDef}] /\ def'[s] = d
    BY <1>1, <1>5 DEF TypeOK
<1>7. CASE d # def[s] /\ state[s] = "enabled"
    <2>1. cursor' = [cursor EXCEPT ![s] = next] /\ since' = [since EXCEPT ![s] = next]
        BY <1>2, <1>7 DEF Update
    <2>2. /\ cursor' \in [Schedules -> Nat] /\ since' \in [Schedules -> Nat]
          /\ cursor'[s] = next /\ since'[s] = next
        BY <1>1, <1>3, <2>1 DEF TypeOK
    <2>3. \A r \in Schedules : state'[r] = "enabled" <=> cursor'[r] # NoTime
        BY <1>1, <1>3, <1>5, <1>7, <2>1 DEF TypeOK, NoTime
    <2>4. TypeOK'
        BY <1>1, <1>4, <1>5, <1>6, <2>2, <2>3 DEF TypeOK
    <2>5. Restarts(s)
        BY <1>5, <1>6, <1>7, <2>2 DEF Restarts, Update
    <2>6. \A r \in Schedules : r # s => SameRows(r)
        BY <1>1, <1>5, <2>1 DEF SameRows, TypeOK
    <2> QED BY <1>5, <2>4, <2>5, <2>6, RestartsOK, RunsUnchanged, OneTouched
<1>8. CASE d # def[s] /\ state[s] # "enabled"
    <2>1. UNCHANGED <<cursor, since>>
        BY <1>8 DEF Update
    <2>2. TypeOK'
        BY <1>1, <1>4, <1>5, <1>6, <2>1 DEF TypeOK
    <2>3. Restarts(s)
        BY <1>5, <1>8 DEF Restarts, Update
    <2>4. \A r \in Schedules : r # s => SameRows(r)
        BY <1>1, <1>5, <2>1 DEF SameRows, TypeOK
    <2> QED BY <1>5, <2>2, <2>3, <2>4, RestartsOK, RunsUnchanged, OneTouched
<1>9. CASE d = def[s]
    <2>1. UNCHANGED <<cursor, since, def>>
        BY <1>1, <1>9 DEF Update, TypeOK
    <2>2. TypeOK'
        BY <1>1, <1>4, <1>5, <2>1 DEF TypeOK
    <2> QED BY <1>5, <2>1, <2>2, NothingTouched DEF SameRows, SameRuns
<1> QED BY <1>7, <1>8, <1>9

LEMMA EnableAllStep ==
    ASSUME SchedulerInv, NEW u \in Operators, asOf[u] # NoRequest, NEW C \in SUBSET Schedules,
           EnableAll(u, C)
    PROVE  SchedulerInv'
<1>1. TypeOK /\ asOf[u] \in 0 .. MaxTime /\ EndRequest(u, C)
    BY DEF SchedulerInv, EnableAll, TypeOK, NoRequest
<1>2. \A s \in C : ~Found(s) /\ def[s] \in Defs
    BY <1>1 DEF EnableAll, Valid, TypeOK
<1>3. \A s \in C : Next(def[s].cron, asOf[u]) \in Nat \ {0}
    BY <1>1, <1>2, NextTime DEF Defs
<1>4. /\ asOf' \in [Operators -> 0 .. MaxTime \cup {NoRequest}]
      /\ fresh' \in [Operators -> SUBSET Schedules]
    BY <1>1, RequestEnds
<1>5. /\ cursor' \in [Schedules -> Nat] /\ since' \in [Schedules -> Nat]
      /\ state' \in [Schedules -> {"none", "enabled", "disabled", "archived"}]
      /\ held' \in [Schedules -> BOOLEAN]
    BY <1>1, <1>3 DEF EnableAll, TypeOK
<1>6. \A s \in Schedules : state'[s] = "enabled" <=> cursor'[s] # NoTime
    BY <1>1, <1>3 DEF EnableAll, TypeOK, NoTime
<1>7. UNCHANGED <<now, catalog, def, occ, work, run, done>>
    BY DEF EnableAll
<1>8. TypeOK'
    BY <1>1, <1>4, <1>5, <1>6, <1>7 DEF TypeOK
<1>9. \A s \in C : Restarts(s)
    BY <1>2, <1>7 DEF Restarts, EnableAll
<1>10. \A s \in Schedules \ C : SameRows(s)
    BY <1>7 DEF SameRows, EnableAll
<1> QED BY <1>7, <1>8, <1>9, <1>10, SomeChange

LEMMA StopAllStep ==
    ASSUME SchedulerInv, NEW u \in Operators, NEW C \in SUBSET Schedules, NEW archive \in BOOLEAN,
           StopAll(u, C, archive)
    PROVE  SchedulerInv'
<1>1. TypeOK /\ EndRequest(u, C)
    BY DEF SchedulerInv, StopAll
<1>2. /\ asOf' \in [Operators -> 0 .. MaxTime \cup {NoRequest}]
      /\ fresh' \in [Operators -> SUBSET Schedules]
    BY <1>1, RequestEnds
<1>3. \A s \in C : /\ state'[s] \in {"disabled", "archived"}
                   /\ work'[s] = NoWork /\ cursor'[s] = NoTime
    BY DEF StopAll
<1>4. /\ state' \in [Schedules -> {"none", "enabled", "disabled", "archived"}]
      /\ cursor' \in [Schedules -> Nat] /\ work' \in [Schedules -> Works]
      /\ held' \in [Schedules -> BOOLEAN]
    BY <1>1, NoWorkType DEF StopAll, TypeOK, NoTime
<1>5. occ' \in [Schedules -> [Times -> OccStatus]]
    BY <1>1 DEF StopAll, TypeOK, OccStatus
<1>6. UNCHANGED <<now, catalog, def, run, since, done>>
    BY DEF StopAll
<1>7. \A s \in Schedules \ C : state'[s] = state[s] /\ cursor'[s] = cursor[s] /\ work'[s] = work[s]
    BY DEF StopAll
<1>8. \A s \in Schedules : state'[s] = "enabled" <=> cursor'[s] # NoTime
    BY <1>1, <1>3, <1>7 DEF TypeOK
<1>9. TypeOK'
    BY <1>1, <1>2, <1>4, <1>5, <1>6, <1>8 DEF TypeOK
<1>10. \A s \in C : Closed(s)
    BY <1>3 DEF Closed, StopAll, Unresolved
<1>11. \A s \in Schedules \ C : occ'[s] = occ[s]
    BY <1>1 DEF StopAll, TypeOK
<1>12. \A s \in Schedules \ C : SameRows(s)
    BY <1>6, <1>7, <1>11 DEF SameRows
<1> QED BY <1>6, <1>9, <1>10, <1>12, SomeChange

LEMMA InsertStep ==
    ASSUME SchedulerInv, NEW u \in Operators, asOf[u] # NoRequest, NEW c \in Crons,
           NEW enabled \in BOOLEAN, NEW J \in SUBSET Jobs, NEW ids \in [J -> Schedules],
           Insert(u, c, enabled, ids)
    PROVE  SchedulerInv'
<1> DEFINE New == {ids[j] : j \in DOMAIN ids}
           Job(s) == CHOOSE j \in DOMAIN ids : ids[j] = s
           first == Next(c, asOf[u])
<1>1. TypeOK /\ asOf[u] \in 0 .. MaxTime /\ EndRequest(u, {}) /\ DOMAIN ids = J
    BY DEF SchedulerInv, Insert, TypeOK, NoRequest
<1>2. first \in Nat \ {0}
    BY <1>1, NextTime
<1>3. /\ asOf' \in [Operators -> 0 .. MaxTime \cup {NoRequest}]
      /\ fresh' \in [Operators -> SUBSET Schedules]
    BY <1>1, RequestEnds
<1>4. New \subseteq Schedules /\ \A s \in New : state[s] = "none"
    BY DEF Insert
<1>5. \A s \in New : Job(s) \in J
    BY <1>1
<1>6. \A s \in New : DefinitionFor(Job(s), c) \in Defs
    <2> SUFFICES ASSUME NEW s \in New PROVE DefinitionFor(Job(s), c) \in Defs
        OBVIOUS
    <2>1. PICK j : j = Job(s)
        OBVIOUS
    <2>2. j \in Jobs /\ catalog[j] # "gone"
        BY <1>1, <1>5, <2>1 DEF Insert
    <2>3. catalog[j] \in Modes
        BY <1>1, <2>2 DEF TypeOK
    <2>4. DefinitionFor(j, c) \in Defs
        BY <2>2, <2>3 DEF DefinitionFor, Defs
    <2> QED BY <2>1, <2>4
<1>7. /\ state' = [s \in Schedules |->
                      IF s \in New THEN IF enabled THEN "enabled" ELSE "disabled" ELSE state[s]]
      /\ def' = [s \in Schedules |-> IF s \in New THEN DefinitionFor(Job(s), c) ELSE def[s]]
      /\ cursor' = [s \in Schedules |-> IF s \in New /\ enabled THEN first ELSE cursor[s]]
      /\ since' = [s \in Schedules |-> IF s \in New /\ enabled THEN first ELSE since[s]]
      /\ UNCHANGED <<now, catalog, held, occ, work, run, done>>
    BY DEF Insert
<1> HIDE DEF New, Job, first
<1>8. /\ state' \in [Schedules -> {"none", "enabled", "disabled", "archived"}]
      /\ def' \in [Schedules -> Defs \cup {NoDef}]
      /\ cursor' \in [Schedules -> Nat] /\ since' \in [Schedules -> Nat]
    BY <1>1, <1>2, <1>6, <1>7 DEF TypeOK
<1>9. \A s \in Schedules : state'[s] = "enabled" <=> cursor'[s] # NoTime
    BY <1>1, <1>2, <1>4, <1>7 DEF TypeOK, NoTime
<1>10. TypeOK'
    BY <1>1, <1>3, <1>7, <1>8, <1>9 DEF TypeOK
<1>11. \A s \in New : ~Found(s)
    BY <1>4, OpenIsEnabled
<1>12. \A s \in New : Restarts(s)
    BY <1>4, <1>6, <1>7, <1>11 DEF Restarts
<1>13. \A s \in Schedules \ New : SameRows(s)
    BY <1>7 DEF SameRows
<1> QED BY <1>7, <1>10, <1>12, <1>13, SomeChange

LEMMA OperatorStep ==
    ASSUME SchedulerInv, NEW u \in Operators, OperatorNext(u) PROVE SchedulerInv'
<1>1. CASE BeginRequest(u) \/ RequestFails(u)
    BY <1>1, BeginRequestStep, RequestFailsStep
<1>2. CASE \E j \in Jobs, c \in Crons, enabled \in BOOLEAN, s \in Schedules :
               Create(u, j, c, enabled, s)
    <2>1. PICK j \in Jobs, c \in Crons, enabled \in BOOLEAN, s \in Schedules :
               Create(u, j, c, enabled, s)
        BY <1>2
    <2>2. [i \in {j} |-> s] \in [{j} -> Schedules] /\ {j} \in SUBSET Jobs
        OBVIOUS
    <2>3. asOf[u] # NoRequest /\ Insert(u, c, enabled, [i \in {j} |-> s])
        BY <2>1 DEF Create
    <2> QED BY <2>2, <2>3, InsertStep
<1>3. CASE \E J \in SUBSET Jobs \ {{}}, c \in Crons, enabled \in BOOLEAN :
               CreateMany(u, J, c, enabled)
    <2>1. PICK J \in SUBSET Jobs, c \in Crons, enabled \in BOOLEAN : CreateMany(u, J, c, enabled)
        BY <1>3
    <2>2. PICK K \in SUBSET Jobs : K = {j \in J : ~Covered(j, c)}
        OBVIOUS
    <2>3. PICK ids \in [K -> Schedules] : Insert(u, c, enabled, ids)
        BY <2>1, <2>2 DEF CreateMany
    <2>4. asOf[u] # NoRequest
        BY <2>1 DEF CreateMany
    <2> QED BY <2>3, <2>4, InsertStep
<1>4. CASE \E s \in Schedules : Enable(u, s)
    <2>1. PICK s \in Schedules : Enable(u, s)
        BY <1>4
    <2>2. asOf[u] # NoRequest /\ EnableAll(u, {s}) /\ {s} \in SUBSET Schedules
        BY <2>1 DEF Enable
    <2> QED BY <2>2, EnableAllStep
<1>5. CASE \E s \in Schedules, d \in Defs : Update(u, s, d)
    BY <1>5, UpdateStep
<1>6. CASE \E s \in Schedules, archive \in BOOLEAN : Stop(u, s, archive)
    <2>1. PICK s \in Schedules, archive \in BOOLEAN : Stop(u, s, archive)
        BY <1>6
    <2>2. StopAll(u, {s}, archive) /\ {s} \in SUBSET Schedules
        BY <2>1 DEF Stop
    <2> QED BY <2>2, StopAllStep
<1>7. CASE \E S \in SUBSET Schedules \ {{}} : BulkEnable(u, S)
    <2>1. PICK S \in SUBSET Schedules : BulkEnable(u, S)
        BY <1>7
    <2>2. PICK C \in SUBSET Schedules : C = {s \in S : state[s] = "disabled"}
        OBVIOUS
    <2>3. asOf[u] # NoRequest /\ EnableAll(u, C)
        BY <2>1, <2>2 DEF BulkEnable
    <2> QED BY <2>3, EnableAllStep
<1>8. CASE \E S \in SUBSET Schedules \ {{}} : \E archive \in BOOLEAN : BulkStop(u, S, archive)
    <2>1. PICK S \in SUBSET Schedules, archive \in BOOLEAN : BulkStop(u, S, archive)
        BY <1>8
    <2>2. PICK C \in SUBSET Schedules : C = {s \in S : archive \/ state[s] = "enabled"}
        OBVIOUS
    <2>3. StopAll(u, C, archive)
        BY <2>1, <2>2 DEF BulkStop
    <2> QED BY <2>3, StopAllStep
<1> QED BY <1>1, <1>2, <1>3, <1>4, <1>5, <1>6, <1>7, <1>8 DEF OperatorNext

-----------------------------------------------------------------------------
(* The specification *)

LEMMA SchedulerInitial == Init => SchedulerInv
<1> SUFFICES ASSUME Init PROVE SchedulerInv
    OBVIOUS
<1>1. TypeOK
    BY NoWorkType, SchedulerAssumption DEF Init, TypeOK, OccStatus, NoTime
<1>2. \A s \in Schedules : OpenIsCurrent(s) /\ AttemptsOK(s) /\ DoneOK(s) /\ Gapless(s)
    BY DEF Init, OpenIsCurrent, AttemptsOK, DoneOK, Gapless, Unresolved, NoWork
<1>3. \A s \in Schedules : RunsOK(s)
    BY RunKinds DEF Init, RunsOK, Unresolved
<1> QED BY <1>1, <1>2, <1>3 DEF SchedulerInv, ScheduleOK

LEMMA StepPreserves == SchedulerInv /\ [Steps]_vars => SchedulerInv'
<1> SUFFICES ASSUME SchedulerInv, [Steps]_vars PROVE SchedulerInv'
    OBVIOUS
<1>1. CASE UNCHANGED vars
    <2>1. TypeOK'
        BY <1>1 DEF vars, rows, SchedulerInv, TypeOK
    <2> QED BY <1>1, <2>1, NothingTouched DEF vars, rows, SameRows, SameRuns
<1>2. CASE \E u \in Operators : OperatorNext(u)
    BY <1>2, OperatorStep
<1>3. CASE \E s \in Schedules : SweepNext(s)
    BY <1>3, DeliverStep, BlockStep, resolveSuccessStep, recordBackoffStep, rejectInvalidStep
       DEF SweepNext
<1>4. CASE \E s \in Schedules : HoldEnds(s) \/ RetryDue(s)
    BY <1>4, HoldEndsStep, RetryDueStep
<1>5. CASE \E j \in Jobs : RunNext(j)
    BY <1>5, SubmitManuallyStep, RunEndsStep DEF RunNext
<1>6. CASE \E j \in Jobs : \E mode \in Modes \cup {"gone"} : Deploy(j, mode)
    BY <1>6, DeployStep
<1>7. CASE Tick
    BY <1>7, TickStep
<1> QED BY <1>1, <1>2, <1>3, <1>4, <1>5, <1>6, <1>7 DEF Steps

LEMMA SchedulerInvariance == Spec => []SchedulerInv
<1>1. Init => SchedulerInv
    BY SchedulerInitial
<1>2. SchedulerInv /\ [Steps]_vars => SchedulerInv'
    BY StepPreserves
<1> QED BY <1>1, <1>2, PTL DEF Spec

\* processTransaction, the operators' transactions and the runs: for any
\* schedules, jobs, cron tables and operators, an open occurrence is the one
\* the cursor of its enabled schedule points at and has exactly the attempt
\* under way that the job's active run belongs to.
THEOREM OccurrenceSafetyHolds == Spec => []OccurrenceSafety
<1>1. SchedulerInv => OccurrenceSafety
    <2> SUFFICES ASSUME SchedulerInv PROVE OccurrenceSafety
        OBVIOUS
    <2>1. OpenOccurrenceIsCurrent
        BY DEF SchedulerInv, ScheduleOK, OpenIsCurrent, OpenOccurrenceIsCurrent
    <2>2. ASSUME NEW s \in Schedules, NEW t \in Times, Unresolved(s, t)
          PROVE  work[s].outcome = "active" <=> run[def[s].job] = <<s, t, work[s].attempts>>
        <3>1. ScheduleOK(s)
            BY DEF SchedulerInv
        <3>2. def[s].job \in Jobs
            BY <2>2, <3>1 DEF ScheduleOK, OpenIsCurrent, Defs
        <3>3. run[def[s].job] \in References \cup {Idle, Manual}
            BY <3>2 DEF SchedulerInv, TypeOK
        <3>4. ASSUME run[def[s].job] = <<s, t, work[s].attempts>>
              PROVE  work[s].attempts \in 1 .. MaxAttempts
            BY <3>3, <3>4, RunKinds
        <3> QED BY <2>2, <3>1, <3>2, <3>4 DEF ScheduleOK, RunsOK
    <2>3. OneLiveAttempt
        BY <2>2 DEF SchedulerInv, ScheduleOK, RunsOK, OneLiveAttempt
    <2> QED BY <2>1, <2>3 DEF SchedulerInv, OccurrenceSafety
<1> QED BY <1>1, SchedulerInvariance, PTL

\* resolveSuccess is the only step that moves the cursor of a dated source
\* while it is enabled, so every time between the first one it owed and its
\* cursor has had a successful run, for any cron table.
THEOREM NoDateSkippedHolds == Spec => []NoDateSkipped
<1>1. SchedulerInv => NoDateSkipped
    BY DEF SchedulerInv, ScheduleOK, Gapless, NoDateSkipped
<1> QED BY <1>1, SchedulerInvariance, PTL

\* createOccurrence: a time for which a run has succeeded is not submitted
\* again, whatever operators do with old clock readings.
THEOREM NeverDeliveredAgainHolds == Spec => NeverDeliveredAgain
<1> DEFINE Newcomers == \A j \in Jobs, s \in Schedules, t \in Times, n \in 1 .. MaxAttempts :
                        run'[j] = <<s, t, n>> /\ run[j] # run'[j] => <<s, t>> \notin done
<1>1. ASSUME SchedulerInv, [Steps]_vars PROVE Newcomers
    <2> SUFFICES ASSUME NEW j \in Jobs, NEW s \in Schedules, NEW t \in Times,
                        NEW n \in 1 .. MaxAttempts, run'[j] = <<s, t, n>>, run[j] # run'[j]
                 PROVE  <<s, t>> \notin done
        OBVIOUS
    <2>1. run \in [Jobs -> References \cup {Idle, Manual}]
        BY <1>1 DEF SchedulerInv, TypeOK
    <2>2. <<s, t, n>> # Idle /\ <<s, t, n>> # Manual
        BY RunKinds
    <2>3. CASE \E i \in Jobs : RunNext(i)
        BY <2>1, <2>2, <2>3 DEF RunNext, SubmitManually, RunEnds
    <2>4. CASE \E r \in Schedules : Deliver(r)
        <3>1. PICK r \in Schedules : Deliver(r)
            BY <2>4
        <3>2. PICK m : m = work[r].attempts + 1
            OBVIOUS
        <3>3. run' = [run EXCEPT ![def[r].job] = <<r, cursor[r], m>>]
            BY <3>1, <3>2 DEF Deliver
        <3>4. <<s, t, n>> = <<r, cursor[r], m>>
            BY <2>1, <3>3
        <3>5. <<r, cursor[r]>> \notin done
            BY <1>1, <3>1, OwedHasNoRun DEF Deliver
        <3> QED BY <3>4, <3>5
    <2>5. CASE UNCHANGED run
        BY <2>5
    <2>6. UNCHANGED run \/ (\E i \in Jobs : RunNext(i)) \/ (\E r \in Schedules : Deliver(r))
        <3>1. CASE \E u \in Operators : OperatorNext(u)
            <4>1. ASSUME NEW u, NEW c, NEW enabled, NEW ids, Insert(u, c, enabled, ids)
                  PROVE  UNCHANGED run
                BY <4>1 DEF Insert
            <4>2. ASSUME NEW u, NEW C, EnableAll(u, C) PROVE UNCHANGED run
                BY <4>2 DEF EnableAll
            <4>3. ASSUME NEW u, NEW C, NEW archive, StopAll(u, C, archive) PROVE UNCHANGED run
                BY <4>3 DEF StopAll
            <4>4. ASSUME NEW u, NEW s1, NEW d, Update(u, s1, d) PROVE UNCHANGED run
                BY <4>4 DEF Update
            <4>5. ASSUME NEW u, BeginRequest(u) \/ RequestFails(u) PROVE UNCHANGED run
                BY <4>5 DEF BeginRequest, RequestFails
            <4> QED BY <3>1, <4>1, <4>2, <4>3, <4>4, <4>5 DEF OperatorNext, Create, CreateMany,
                    Enable, Stop, BulkEnable, BulkStop
        <3>2. CASE \E r \in Schedules : SweepNext(r) \/ HoldEnds(r) \/ RetryDue(r)
            BY <3>2 DEF SweepNext, Block, resolveSuccess, recordBackoff, rejectInvalid,
                HoldEnds, RetryDue
        <3>3. CASE (\E i \in Jobs, mode \in Modes \cup {"gone"} : Deploy(i, mode)) \/ Tick
            BY <3>3 DEF Deploy, Tick
        <3>4. CASE UNCHANGED vars
            BY <3>4 DEF vars
        <3> QED BY <1>1, <3>1, <3>2, <3>3, <3>4 DEF Steps
    <2> QED BY <2>3, <2>4, <2>5, <2>6
<1>2. SchedulerInv /\ [Steps]_vars => [Newcomers]_vars
    BY <1>1
<1> QED BY <1>2, SchedulerInvariance, PTL DEF Spec, NeverDeliveredAgain
=============================================================================
