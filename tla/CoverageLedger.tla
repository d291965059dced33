--------------------------- MODULE CoverageLedger ---------------------------
(***************************************************************************)
(* What readers of a Fixed report may rely on.  The data is divided into   *)
(* keys (dates or whole periods).  A run publishes at most once; its rows  *)
(* replace everything at the keys it covers, in one step, and nothing      *)
(* elsewhere.  Runs publish in the order of their ids, so a key always     *)
(* shows the newest run that succeeded in covering it.                     *)
(***************************************************************************)
EXTENDS Integers

CONSTANTS Keys, NoRun

VARIABLES
    holder,     \* the run whose rows each key shows
    published,  \* the runs that have published
    data        \* the rows: <<key, run, row>>

ledger == <<holder, published, data>>

LedgerInit ==
    /\ holder = [k \in Keys |-> NoRun]
    /\ published = {}
    /\ data = {}

Publish(r, K) ==
    /\ \A s \in published : s < r
    /\ published' = published \cup {r}
    /\ holder' = [k \in Keys |-> IF k \in K THEN r ELSE holder[k]]
    /\ \A x \in data' : x[1] \in K => x[2] = r
    /\ {x \in data' : x[1] \notin K} = {x \in data : x[1] \notin K}

\* Only a newcomer publishes, and it holds the keys it covers afterwards.
LedgerNext ==
    \E r \in published' \ published : Publish(r, {k \in Keys : holder'[k] = r})

LedgerSpec == LedgerInit /\ [][LedgerNext]_ledger
=============================================================================
