----------------------------- MODULE MasterRun ------------------------------
(***************************************************************************)
(* The execution of a Master job (internal/ingestionexec executeMaster,    *)
(* internal/ingestionstore master.go, internal/ingestion master.go): one   *)
(* answer of Fincloud is normalized, staged, verified and published by a   *)
(* transaction that records the success of the run.  The reference jobs of *)
(* all domains share two tables, categories and items; Marketing has one.  *)
(*                                                                         *)
(* The runs of different jobs are concurrent, and a run may go on after it *)
(* was abandoned.  RunLifecycle has the rest of a run's life.              *)
(***************************************************************************)
EXTENDS Integers, Sequences, FiniteSets

CONSTANTS
    MasterRuns,    \* runs of Master jobs, in the order of their claims
    Domain,        \* the job of each run: a reference domain, or "marketing"
    MasterSources, \* what Fincloud answers: categories -> sequences of items
    Blank          \* an item without a code

ASSUME MasterAssumption ==
    \A source \in MasterSources : \A k \in DOMAIN source : IsFiniteSet(DOMAIN source[k])

VARIABLES
    masterRow,      \* the status of each run; "cancelling" has cancel_requested_at
    masters,        \* the execution of each run: [pc, candidate]
    masterStaged,   \* the staging tables, by run
    categories,     \* fincloud_reference_categories, and the ids of Marketing
    referenceItems, \* fincloud_reference_items, and the entities of Marketing
    published       \* the candidate each domain has published last (history)

masterVars == <<masterRow, masters, masterStaged, categories, referenceItems, published>>

Domains == {Domain[r] : r \in MasterRuns}
Empty == [categories |-> {}, items |-> {}]
MasterIdle == [pc |-> "none", candidate |-> Empty]

MasterInit ==
    /\ masterRow = [r \in MasterRuns |-> "none"]
    /\ masters = [r \in MasterRuns |-> MasterIdle]
    /\ masterStaged = [r \in MasterRuns |-> Empty]
    /\ categories = {} /\ referenceItems = {}
    /\ published = [d \in Domains |-> Empty]

referenceTables == <<categories, referenceItems, published>>

OwnsMaster(r) == masterRow[r] \in {"running", "cancelling"}
MasterOver(r) == masterRow[r] \in {"succeeded", "closed"}
MasterGoto(r, pc) == masters' = [masters EXCEPT ![r].pc = pc]

-----------------------------------------------------------------------------
(* The run's row *)

\* A job has one active run at a time.
ClaimMaster(r) ==
    /\ masterRow[r] = "none"
    /\ \A q \in MasterRuns : Domain[q] = Domain[r] /\ q < r => MasterOver(q)
    /\ masterRow' = [masterRow EXCEPT ![r] = "running"]
    /\ MasterGoto(r, "prepare")
    /\ UNCHANGED <<masterStaged, referenceTables>>

CancelMaster(r) ==
    /\ masterRow[r] = "running"
    /\ masterRow' = [masterRow EXCEPT ![r] = "cancelling"]
    /\ UNCHANGED <<masters, masterStaged, referenceTables>>

AbandonMaster(r) ==
    /\ OwnsMaster(r)
    /\ masterRow' = [masterRow EXCEPT ![r] = "closed"]
    /\ UNCHANGED <<masters, masterStaged, referenceTables>>

-----------------------------------------------------------------------------
(* executeMaster *)

\* normalizeReferenceCategory: blank items are discarded and the others keep
\* the position they had.  A row is <<key, source_item_count, item_count>>,
\* an item <<key, ordinal, value>>; the ordinals of Marketing stand for ids.
Kept(sequence) == {n \in DOMAIN sequence : sequence[n] # Blank}

NormalizeReference(source) ==
    [categories |-> {<<k, Len(source[k]), Cardinality(Kept(source[k]))>> : k \in DOMAIN source},
     items |-> UNION {{<<k, n, source[k][n]>> : n \in Kept(source[k])} : k \in DOMAIN source}]

PrepareMaster(r) ==
    /\ masters[r].pc = "prepare"
    /\ masterStaged' = [masterStaged EXCEPT ![r] = Empty]
    /\ MasterGoto(r, "fetch")
    /\ UNCHANGED <<masterRow, referenceTables>>

\* Then progress is written, unless the run is no longer its owner's.
FetchMaster(r) ==
    /\ masters[r].pc = "fetch"
    /\ IF OwnsMaster(r)
       THEN \E source \in MasterSources : masters' = [masters EXCEPT ![r] =
                [pc |-> "stage", candidate |-> NormalizeReference(source)]]
       ELSE MasterGoto(r, "failed")
    /\ UNCHANGED <<masterRow, masterStaged, referenceTables>>

\* One transaction, which does not ask who owns the run.
StageReference(r) ==
    /\ masters[r].pc = "stage"
    /\ masterStaged' = [masterStaged EXCEPT ![r] = masters[r].candidate]
    /\ MasterGoto(r, IF OwnsMaster(r) THEN "publish" ELSE "failed")
    /\ UNCHANGED <<masterRow, referenceTables>>

\* verifyStagedReference: counts and checksums are those of the candidate.
Verified(r) ==
    /\ \A c \in masterStaged[r].categories :
           Cardinality({i \in masterStaged[r].items : i[1] = c[1]}) = c[3] /\ c[3] <= c[2]
    /\ \A i \in masterStaged[r].items :
           \E c \in masterStaged[r].categories : c[1] = i[1] /\ i[2] <= c[2]
    /\ masterStaged[r] = masters[r].candidate

\* Mutant: the deletion is not confined to the domain.
inDomainAny(entry, d) == TRUE

\* WHERE c.domain=?
inDomain(entry, d) == entry.domain = d

\* Staged rows, with what identifies a row of each table.
CategoryRows(d, set) ==
    {[domain |-> d, key |-> e[1], id |-> <<d, e[1]>>, value |-> e] : e \in set}
ItemRows(d, set) ==
    {[domain |-> d, key |-> e[1], id |-> <<d, e[1], e[2]>>, value |-> e] : e \in set}

\* DELETE what is not staged, UPDATE what is, INSERT what is new.
Reconciled(old, new, d) ==
    LET kept == {o \in old : inDomain(o, d) => \E n \in new : n.id = o.id}
        updated == {o \in kept : o.domain = d}
    IN  (kept \ updated) \cup {n \in new : \E o \in updated : o.id = n.id}
                         \cup {n \in new : ~\E o \in kept : o.id = n.id}

\* The transaction fences the run, verifies, reconciles and records success.
\* If its answer is lost the status is read, which may fail as well.
PublishReference(r) ==
    LET d == Domain[r]
    IN  /\ masters[r].pc = "publish"
        /\ IF masterRow[r] = "running" /\ Verified(r)
           THEN /\ categories' =
                       Reconciled(categories, CategoryRows(d, masterStaged[r].categories), d)
                /\ referenceItems' =
                       Reconciled(referenceItems, ItemRows(d, masterStaged[r].items), d)
                /\ published' = [published EXCEPT ![d] = masters[r].candidate]
                /\ masterRow' = [masterRow EXCEPT ![r] = "succeeded"]
                /\ \E pc \in {"clean", "failed"} : MasterGoto(r, pc)
           ELSE MasterGoto(r, "failed") /\ UNCHANGED <<masterRow, referenceTables>>
        /\ UNCHANGED masterStaged

CleanupMaster(r) ==
    /\ masters[r].pc = "clean"
    /\ \E cleaned \in BOOLEAN :
           masterStaged' = IF cleaned THEN [masterStaged EXCEPT ![r] = Empty] ELSE masterStaged
    /\ masters' = [masters EXCEPT ![r] = [MasterIdle EXCEPT !.pc = "ended"]]
    /\ UNCHANGED <<masterRow, referenceTables>>

\* Every step may fail, by its own error or because the run was told to stop.
MasterFault(r) ==
    /\ masters[r].pc \in {"prepare", "fetch", "stage", "publish"}
    /\ MasterGoto(r, "failed")
    /\ UNCHANGED <<masterRow, masterStaged, referenceTables>>

\* The coordinator records the failure of a run it still owns.
FinishMaster(r) ==
    /\ masters[r].pc = "failed"
    /\ masterRow' = IF OwnsMaster(r) THEN [masterRow EXCEPT ![r] = "closed"] ELSE masterRow
    /\ masters' = [masters EXCEPT ![r] = [MasterIdle EXCEPT !.pc = "ended"]]
    /\ UNCHANGED <<masterStaged, referenceTables>>

\* The process ends.
MasterCrash(r) ==
    /\ masters[r].pc \notin {"none", "ended"}
    /\ masters' = [masters EXCEPT ![r] = [MasterIdle EXCEPT !.pc = "ended"]]
    /\ UNCHANGED <<masterRow, masterStaged, referenceTables>>

\* The coordinator's loop.
CleanupTerminalMaster(r) ==
    /\ MasterOver(r)
    /\ masterStaged[r] # Empty
    /\ masterStaged' = [masterStaged EXCEPT ![r] = Empty]
    /\ UNCHANGED <<masterRow, masters, referenceTables>>

MasterNext ==
    \E r \in MasterRuns :
        \/ ClaimMaster(r) \/ CancelMaster(r) \/ AbandonMaster(r) \/ MasterCrash(r)
        \/ PrepareMaster(r) \/ FetchMaster(r) \/ StageReference(r) \/ PublishReference(r)
        \/ CleanupMaster(r)
        \/ MasterFault(r) \/ FinishMaster(r) \/ CleanupTerminalMaster(r)

MasterSpec == MasterInit /\ [][MasterNext]_masterVars

-----------------------------------------------------------------------------
(* Properties *)

MasterTypeOK ==
    /\ masterRow \in [MasterRuns -> {"none", "running", "cancelling", "succeeded", "closed"}]
    /\ \A r \in MasterRuns : masters[r].pc \in
           {"none", "prepare", "fetch", "stage", "publish", "clean", "failed", "ended"}
    /\ \A c \in categories : c.domain \in Domains
    /\ \A i \in referenceItems : i.domain \in Domains

\* Each domain's part of the shared tables is the whole candidate of the run
\* that published it last, whatever the runs of the other domains do.
DomainsAreWhole ==
    \A d \in Domains :
        /\ {c.value : c \in {e \in categories : e.domain = d}} = published[d].categories
        /\ {i.value : i \in {e \in referenceItems : e.domain = d}} = published[d].items

\* The counts a category row states are those of its items.
CountsAreTrue ==
    \A c \in categories :
        Cardinality({i \in referenceItems : i.domain = c.domain /\ i.key = c.key}) = c.value[3]

\* ingestionstore/master.go PublishReference, of tables several jobs share: each
\* domain's part of them is the whole candidate of one run of that domain.
MasterSafety == MasterTypeOK /\ DomainsAreWhole /\ CountsAreTrue
=============================================================================
