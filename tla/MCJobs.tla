------------------------------- MODULE MCJobs -------------------------------
(***************************************************************************)
(* Custom datasets and the files behind them on small instances.  They     *)
(* share no table and no worker, so a behaviour of the two together is one *)
(* of each; "part" says which of them a behaviour is about, and the other  *)
(* one rests in its initial state, where no action with a fairness         *)
(* condition is enabled.                                                   *)
(***************************************************************************)
EXTENDS CustomDataset, UploadStore

VARIABLE part

MCHome == [w \in Workers |-> "p1"]

MCInit == part \in {"datasets", "files"} /\ Init /\ UploadInit

MCNext ==
    \/ part = "datasets" /\ Next /\ UNCHANGED <<part, uploadVars>>
    \/ part = "files" /\ UploadNext /\ UNCHANGED <<part, vars>>

MCSpec == MCInit /\ [][MCNext]_<<part, vars, uploadVars>> /\ Fairness
=============================================================================
