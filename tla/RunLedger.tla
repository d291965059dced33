----------------------------- MODULE RunLedger ------------------------------
(***************************************************************************)
(* What ingestion runs promise about the data they publish, without        *)
(* processes, leases or messages.  A run is accepted, open while it may    *)
(* still write, and closed for good with one outcome.  A job has one open  *)
(* run at a time, only the open run writes the job's data, and a run       *)
(* closes as succeeded only with every date in place.                      *)
(***************************************************************************)
CONSTANTS Runs, Jobs, Dates, NoRun, NoJob

VARIABLES phase, jobOf, data

ledger == <<phase, jobOf, data>>

LedgerInit ==
    /\ phase = [r \in Runs |-> "none"]
    /\ jobOf = [r \in Runs |-> NoJob]
    /\ data = [j \in Jobs |-> [d \in Dates |-> NoRun]]

Accept(r, j) ==
    /\ phase[r] = "none"
    /\ \A s \in Runs : jobOf[s] = j => phase[s] # "open"
    /\ phase' = [phase EXCEPT ![r] = "open"]
    /\ jobOf' = [jobOf EXCEPT ![r] = j]
    /\ UNCHANGED data

\* The open run replaces the rows of some dates of its job.
Write(r, D) ==
    /\ phase[r] = "open"
    /\ data' = [data EXCEPT ![jobOf[r]] =
                    [d \in Dates |-> IF d \in D THEN r ELSE @[d]]]
    /\ UNCHANGED <<phase, jobOf>>

\* Success may come with the last write in one step.
Succeed(r) ==
    /\ phase[r] = "open"
    /\ data' = [data EXCEPT ![jobOf[r]] = [d \in Dates |-> r]]
    /\ phase' = [phase EXCEPT ![r] = "succeeded"]
    /\ UNCHANGED jobOf

\* Or after it, when nothing is left to write.
Complete(r) ==
    /\ phase[r] = "open"
    /\ \A d \in Dates : data[jobOf[r]][d] = r
    /\ phase' = [phase EXCEPT ![r] = "succeeded"]
    /\ UNCHANGED <<jobOf, data>>

Close(r, outcome) ==
    /\ phase[r] = "open"
    /\ phase' = [phase EXCEPT ![r] = outcome]
    /\ UNCHANGED <<jobOf, data>>

LedgerNext ==
    \E r \in Runs :
        \/ \E j \in Jobs : Accept(r, j)
        \/ \E D \in SUBSET Dates : Write(r, D)
        \/ Succeed(r) \/ Complete(r)
        \/ \E outcome \in {"failed", "cancelled", "abandoned"} : Close(r, outcome)

LedgerSpec == LedgerInit /\ [][LedgerNext]_ledger
=============================================================================
