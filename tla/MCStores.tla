------------------------------ MODULE MCStores ------------------------------
(***************************************************************************)
(* The executions that publish by replacing tables, side by side: a Detail *)
(* job, the Master jobs, a maintenance job.  They share no table, so each  *)
(* behaviour is of one of them.                                            *)
(***************************************************************************)
EXTENDS DetailRun, MasterRun, MaintenanceStore

VARIABLE part

MCRecords == {[body |-> 1, items |-> 2], [body |-> 2, items |-> 1]}

\* Two identifiers in one pool, and two overlapping runs of one identifier.
MCDetailJobs ==
    {[kind |-> k, ids |-> Ids, runs |-> 1, concurrency |-> 2] : k \in {"parented", "parentless"}}
    \cup {[kind |-> "parented", ids |-> {i}, runs |-> 2, concurrency |-> 1] :
              i \in {CHOOSE x \in Ids : TRUE}}

\* Two domains; the second run of the first one may meet its zombie.
MCDomain == <<"cif", "saving", "cif">>
MCSources ==
    {[k \in {"p"} |-> <<"x", Blank>>],
     [k \in {"p", "q"} |-> IF k = "p" THEN <<Blank, "y">> ELSE <<"x">>]}

File(b, n) == [branch |-> b, copy |-> n]
MCFiles == {File("merged", 1), File("unknown", 1)} \cup {File(b, n) : b \in Branches, n \in 1 .. 2}

\* Merged, split, incomplete, both layouts at once, a branch that comes twice.
MCListings ==
    LET split == {File(b, 1) : b \in Branches}
        one == {File(CHOOSE b \in Branches : TRUE, 2)}
    IN  {{File("merged", 1)}, split \cup {File("unknown", 1)}, one, split \cup {File("merged", 1)},
         split \cup one}

\* Two headers that normalize to one column, in one file or in two, and a column
\* that comes later.
Header(column, text) == [column |-> column, text |-> text]
MCHeaders == {Header("x", 1), Header("x", 2), Header("y", 1)}
MCHeaderRows ==
    {{Header("x", 1)}, {Header("x", 2), Header("y", 1)}, {Header("x", 1), Header("x", 2)}}

MCTables == {{}, {"x"}}

allVars == <<part, vars, masterVars, maintenanceVars>>

MCInit ==
    /\ part \in {"detail", "master", "maintenance"}
    /\ Init /\ MasterInit /\ MaintenanceInit
    /\ part # "detail" => job = CHOOSE j \in Jobs : TRUE
    /\ part # "maintenance" => columns = {}

MCNext ==
    \/ part = "detail" /\ Next /\ UNCHANGED <<part, masterVars, maintenanceVars>>
    \/ part = "master" /\ MasterNext /\ UNCHANGED <<part, vars, maintenanceVars>>
    \/ part = "maintenance" /\ MaintenanceNext /\ UNCHANGED <<part, vars, masterVars>>

MCSpec == MCInit /\ [][MCNext]_allVars /\ Fairness /\ MaintenanceFairness
=============================================================================
