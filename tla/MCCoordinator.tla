---------------------------- MODULE MCCoordinator ----------------------------
(***************************************************************************)
(* What a coordinator does beyond single runs, side by side: maintenance   *)
(* series, in which one run writes several dates, and Run All parents.     *)
(* Each behaviour is of one of them; the other stays in its initial state. *)
(***************************************************************************)
EXTENDS RunLifecycle, RunAll, TLC

CONSTANTS c1, c2

VARIABLE part

TwoCoordinators == {c1, c2}

\* The processes that reconcile parents are interchangeable.
Symmetry == Permutations(TwoCoordinators)

\* Ownership tokens are only ever compared, so two states that agree but for the
\* choice of tokens are the same one: of each place that may hold a copy of the
\* parent's token it matters where else this copy is.
Copies == <<parentOwner[1], parents[c1][1], token[c1], parents[c2][1], token[c2]>>
FirstAlike ==
    [k \in 1 .. 5 |-> IF Copies[k] = NoToken THEN 0
                      ELSE CHOOSE j \in 1 .. 5 :
                               /\ Copies[j] = Copies[k]
                               /\ \A i \in 1 .. j - 1 : Copies[i] # Copies[k]]
UpToTokens ==
    <<part, vars, parent, parentCancelReq, expired, child, flagged, up, creating, step,
      callee, snapshot, sawCancel, FirstAlike>>

MCInit == part \in {"series", "parent"} /\ Init /\ RunAllInit

MCNext ==
    \/ part = "series" /\ Next /\ UNCHANGED <<part, runAllVars>>
    \/ part = "parent" /\ RunAllNext /\ UNCHANGED <<part, vars>>

MCSpec == MCInit /\ [][MCNext]_<<part, vars, runAllVars>>
=============================================================================
