-------------------------- MODULE MaintenanceStore --------------------------
(***************************************************************************)
(* The tables of maintenance reports (internal/ingestionstore              *)
(* maintenance.go, fetchAndSaveMaintenance of internal/ingestionexec).     *)
(* The columns of such a table follow the headers of the reports: they are *)
(* added by DDL, which commits by itself, under a named lock of the        *)
(* database; the rows of a date are replaced by a transaction that asks    *)
(* for the ownership of the run.  The dates of a run are taken in order.   *)
(*                                                                         *)
(* The module follows one job whose report may come as one merged file or  *)
(* as one file for each branch.  A run may go on after it was abandoned.   *)
(***************************************************************************)
EXTENDS Integers, FiniteSets

CONSTANTS
    MaxMaintenanceRuns, \* bound: runs of the job
    MaxDate,    \* bound: each run has the dates 1 .. MaxDate
    Branches,   \* the branches a split report needs
    Files,      \* file names: [branch |-> a branch, "merged" or "unknown", copy |-> ...]
    Listings,   \* bound: the listings of a date's folder that are looked at, sets of files
    Headers,    \* column headers: [column |-> physical name, text |-> ...]
    HeaderRows, \* bound: the header rows of a report that are looked at, sets of headers
    Tables      \* the table before the first run: no columns is no table

ASSUME MaintenanceAssumption ==
    /\ MaxMaintenanceRuns \in Nat /\ MaxDate \in Nat \ {0}
    /\ IsFiniteSet(Files) /\ Listings \subseteq SUBSET Files
    /\ HeaderRows \subseteq SUBSET Headers
    /\ Tables \subseteq SUBSET {h.column : h \in Headers}

VARIABLES
    saverRow,  \* the status of each run; "cancelling" has cancel_requested_at
    savers,    \* the execution of each run
    lock,      \* the run whose connection holds the named lock, or 0
    columns,   \* physical columns of the table
    indexed,   \* whether its secondary index exists
    registry,  \* dynamic_csv_source_columns: physical column -> header
    dateRows   \* the rows of each date: the files and the headers they came from

maintenanceVars == <<saverRow, savers, lock, columns, indexed, registry, dateRows>>

MaintenanceRuns == 1 .. MaxMaintenanceRuns
Dates == 1 .. MaxDate
NoSnapshot == [files |-> {}, headers |-> {}]
MaintenanceIdle ==
    [pc |-> "none", date |-> 0, snapshot |-> NoSnapshot, missing |-> {}, failed |-> FALSE]
MaintenanceEnded == [MaintenanceIdle EXCEPT !.pc = "ended"]

\* A table that an older release has created lacks the index.
MaintenanceInit ==
    /\ saverRow = [r \in MaintenanceRuns |-> "none"]
    /\ savers = [r \in MaintenanceRuns |-> MaintenanceIdle]
    /\ lock = 0
    /\ columns \in Tables
    /\ indexed = FALSE
    /\ registry = [c \in {} |-> 0]
    /\ dateRows = [d \in Dates |-> NoSnapshot]

table == <<columns, indexed, registry, dateRows>>

OwnsMaintenance(r) == saverRow[r] \in {"running", "cancelling"}
Publishable(r) == saverRow[r] = "running"
MaintenanceOver(r) == saverRow[r] \in {"succeeded", "closed"}

-----------------------------------------------------------------------------
(* The run's row *)

ClaimMaintenance(r) ==
    /\ saverRow[r] = "none"
    /\ \A q \in MaintenanceRuns : q < r => MaintenanceOver(q)
    /\ saverRow' = [saverRow EXCEPT ![r] = "running"]
    /\ savers' = [savers EXCEPT ![r].pc = "fetch", ![r].date = 1]
    /\ UNCHANGED <<lock, table>>

CancelMaintenance(r) ==
    /\ saverRow[r] = "running"
    /\ saverRow' = [saverRow EXCEPT ![r] = "cancelling"]
    /\ UNCHANGED <<savers, lock, table>>

AbandonMaintenance(r) ==
    /\ OwnsMaintenance(r)
    /\ saverRow' = [saverRow EXCEPT ![r] = "closed"]
    /\ UNCHANGED <<savers, lock, table>>

-----------------------------------------------------------------------------
(* Which files make up the report of a date *)

Of(listing, branch) == {f \in listing : f.branch = branch}
Split(listing) == {f \in listing : f.branch # "merged"}

\* One merged file, or one file for each branch; {} if the folder has neither,
\* or a layout that is refused.  Split files of unknown branches are passed over.
selectSources(listing) ==
    LET merged == Of(listing, "merged")
        parts == UNION {Of(listing, b) : b \in Branches}
    IN  IF \/ merged # {} /\ Split(listing) # {}
           \/ Cardinality(merged) > 1
           \/ \E b \in Branches : Cardinality(Of(listing, b)) > 1
        THEN {}
        ELSE IF merged # {} THEN merged
        ELSE IF \A b \in Branches : Of(listing, b) # {} THEN parts ELSE {}

\* NormalizeMaintenanceHeaders: no two headers of a file share a column.
Distinct(headers) == \A h, k \in headers : h.column = k.column => h = k

Columns(headers) == {h.column : h \in headers}

\* The date is over: the next one, or the end of the series.
NextDate(r, failed) ==
    savers' = [savers EXCEPT ![r] =
        [MaintenanceIdle EXCEPT !.failed = savers[r].failed \/ failed,
                                !.date = savers[r].date + 1,
                                !.pc = IF savers[r].date < MaxDate THEN "fetch" ELSE "finish"]]

\* The series ends with the date, as a failure.
Stops(r) ==
    savers' = [savers EXCEPT ![r] = [MaintenanceIdle EXCEPT !.pc = "finish", !.failed = TRUE]]

\* Listing, download and parsing.  All the files have the same headers, or
\* the date fails; an error of the source ends the series.
FetchMaintenance(r) ==
    /\ savers[r].pc = "fetch"
    /\ \/ \E listing \in Listings, headers \in HeaderRows :
              /\ Distinct(headers)
              /\ selectSources(listing) # {}
              /\ savers' = [savers EXCEPT ![r].pc = "lock",
                      ![r].snapshot = [files |-> selectSources(listing), headers |-> headers]]
       \/ NextDate(r, TRUE)
       \/ Stops(r)
    /\ UNCHANGED <<saverRow, lock, table>>

-----------------------------------------------------------------------------
(* saveSnapshot *)

\* Mutant: the lock is not waited for.
GetLockAlways(r) ==
    /\ savers[r].pc = "lock"
    /\ lock' = r
    /\ savers' = [savers EXCEPT ![r].pc = "schema"]
    /\ UNCHANGED <<saverRow, table>>

\* GET_LOCK, which gives up after the lock timeout.
GetLock(r) ==
    /\ savers[r].pc = "lock"
    /\ \/ /\ lock = 0
          /\ lock' = r
          /\ savers' = [savers EXCEPT ![r].pc = "schema"]
       \/ lock # 0 /\ NextDate(r, TRUE) /\ UNCHANGED lock
    /\ UNCHANGED <<saverRow, table>>

\* RELEASE_LOCK, or the connection that holds the lock is discarded.
ReleaseLock(r) == lock' = IF lock = r THEN 0 ELSE lock

\* Mutant: the lock is released only after a success.
FailsLocked(r) == NextDate(r, TRUE) /\ UNCHANGED lock

\* The date fails and the lock is released; a lost owner ends the series.
Fails(r) == NextDate(r, TRUE) /\ ReleaseLock(r)

LosesOwner(r) == Stops(r) /\ ReleaseLock(r)

\* A physical column keeps the header it was registered for.
Conflict(headers) ==
    \E h \in headers : h.column \in DOMAIN registry /\ registry[h.column] # h

\* syncMaintenanceSchema: what the table lacks.
ReadSchema(r) ==
    /\ savers[r].pc = "schema"
    /\ LET headers == savers[r].snapshot.headers
           missing == Columns(headers) \ columns
       IN  IF Conflict(headers) THEN Fails(r)
           ELSE /\ savers' = [savers EXCEPT ![r].missing = missing, ![r].pc =
                        IF missing # {} THEN "prove" ELSE IF ~indexed THEN "proveIndex" ELSE "rows"]
                /\ UNCHANGED lock
    /\ UNCHANGED <<saverRow, table>>

\* proveOwnership: a read of its own before each DDL statement.
ProveOwnership(r) ==
    /\ savers[r].pc \in {"prove", "proveIndex"}
    /\ IF Publishable(r)
       THEN /\ savers' = [savers EXCEPT ![r].pc = IF @ = "prove" THEN "columns" ELSE "index"]
            /\ UNCHANGED lock
       ELSE LosesOwner(r)
    /\ UNCHANGED <<saverRow, table>>

\* CREATE TABLE, which has the index as well, or ALTER TABLE ... ADD COLUMN.
AddColumns(r) ==
    /\ savers[r].pc = "columns"
    /\ columns' = columns \cup savers[r].missing
    /\ indexed' = (indexed \/ columns = {})
    /\ savers' = [savers EXCEPT ![r].missing = {},
            ![r].pc = IF indexed' THEN "rows" ELSE "proveIndex"]
    /\ UNCHANGED <<saverRow, lock, registry, dateRows>>

\* reconcileMaintenanceSecondaryIndexes
AddIndex(r) ==
    /\ savers[r].pc = "index"
    /\ indexed' = TRUE
    /\ savers' = [savers EXCEPT ![r].pc = "rows"]
    /\ UNCHANGED <<saverRow, lock, columns, registry, dateRows>>

\* upsertDynamicRegistry: the first header of a column stays.
Registered(headers) ==
    [c \in DOMAIN registry \cup Columns(headers) |->
        IF c \in DOMAIN registry THEN registry[c] ELSE CHOOSE h \in headers : h.column = c]

\* replaceMaintenanceSnapshot: one transaction, fenced by its last statement.
\* The answer to its commit may be lost: the date then counts as failed.
ReplaceSnapshot(r) ==
    /\ savers[r].pc = "rows"
    /\ IF Publishable(r)
       THEN /\ dateRows' = [dateRows EXCEPT ![savers[r].date] = savers[r].snapshot]
            /\ registry' = Registered(savers[r].snapshot.headers)
            /\ \E failed \in BOOLEAN : NextDate(r, failed)
            /\ ReleaseLock(r)
       ELSE LosesOwner(r) /\ UNCHANGED <<dateRows, registry>>
    /\ UNCHANGED <<saverRow, columns, indexed>>

Locked(r) == savers[r].pc \in {"schema", "prove", "proveIndex", "columns", "index", "rows"}

\* A statement fails: the rest of the date is not done.
MaintenanceFault(r) ==
    /\ Locked(r)
    /\ Fails(r)
    /\ UNCHANGED <<saverRow, table>>

\* The run is told to stop: its context ends, and what it has not begun.
InterruptMaintenance(r) ==
    /\ savers[r].pc = "lock" \/ Locked(r)
    /\ Stops(r) /\ ReleaseLock(r)
    /\ UNCHANGED <<saverRow, table>>

\* The process ends, and with it the connection and the lock; a statement the
\* server has begun may end before the lock is free.
MaintenanceCrash(r) ==
    /\ savers[r].pc \notin {"none", "ended"}
    /\ savers' = [savers EXCEPT ![r] = MaintenanceEnded]
    /\ ReleaseLock(r)
    /\ \/ UNCHANGED <<columns, indexed>>
       \/ /\ savers[r].pc = "columns"
          /\ columns' = columns \cup savers[r].missing
          /\ indexed' = (indexed \/ columns = {})
    /\ UNCHANGED <<saverRow, registry, dateRows>>

\* The coordinator records how the series has ended, if the run is still its.
FinishMaintenance(r) ==
    /\ savers[r].pc = "finish"
    /\ saverRow' = IF ~OwnsMaintenance(r) THEN saverRow
              ELSE [saverRow EXCEPT ![r] =
                       IF savers[r].failed \/ ~Publishable(r) THEN "closed" ELSE "succeeded"]
    /\ savers' = [savers EXCEPT ![r] = MaintenanceEnded]
    /\ UNCHANGED <<lock, table>>

-----------------------------------------------------------------------------
MaintenanceStep(r) ==
    \/ FetchMaintenance(r) \/ GetLock(r) \/ ReadSchema(r) \/ ProveOwnership(r)
    \/ AddColumns(r) \/ AddIndex(r) \/ ReplaceSnapshot(r) \/ FinishMaintenance(r)

MaintenanceNext ==
    \E r \in MaintenanceRuns :
        \/ ClaimMaintenance(r) \/ CancelMaintenance(r) \/ AbandonMaintenance(r)
        \/ MaintenanceStep(r) \/ MaintenanceFault(r) \/ InterruptMaintenance(r)
        \/ MaintenanceCrash(r)

\* Statements and requests end by their timeouts.
MaintenanceFairness == \A r \in MaintenanceRuns : WF_maintenanceVars(MaintenanceStep(r))

MaintenanceSpec == MaintenanceInit /\ [][MaintenanceNext]_maintenanceVars

-----------------------------------------------------------------------------
(* Properties *)

MaintenanceTypeOK ==
    /\ saverRow \in [MaintenanceRuns -> {"none", "running", "cancelling", "succeeded", "closed"}]
    /\ lock \in 0 .. MaxMaintenanceRuns
    /\ columns \subseteq Columns(Headers)
    /\ indexed \in BOOLEAN
    /\ DOMAIN registry \subseteq Columns(Headers)
    /\ \A d \in Dates : dateRows[d].files \subseteq Files /\ dateRows[d].headers \subseteq Headers

\* Every value of every date stands in the column that is registered for the
\* header it came under, also when runs that overlap bring new headers.
ColumnsAreFaithful ==
    \A d \in Dates : \A h \in dateRows[d].headers :
        /\ h.column \in columns
        /\ h.column \in DOMAIN registry
        /\ registry[h.column] = h

\* The rows of a date are one whole report: the merged file alone, or each of
\* the branches exactly once.
ReportsAreWhole ==
    \A d \in Dates :
        LET files == dateRows[d].files
        IN  \/ files = {}
            \/ \E f \in files : f.branch = "merged" /\ files = {f}
            \/ /\ \A b \in Branches : Cardinality(Of(files, b)) = 1
               /\ \A f \in files : f.branch \in Branches

\* What a run is about to add is not there: no DDL statement of two runs that
\* have read the same schema, a zombie and its successor, meets the other's.
SchemaIsAsRead ==
    \A r \in MaintenanceRuns :
        /\ savers[r].pc \in {"prove", "columns"} => savers[r].missing \cap columns = {}
        /\ savers[r].pc \in {"proveIndex", "index"} => ~indexed

\* Every date of a run recorded as a success has rows.
SuccessIsWhole ==
    \A r \in MaintenanceRuns :
        saverRow[r] = "succeeded" => \A d \in Dates : dateRows[d] # NoSnapshot

\* ingestionstore/maintenance.go saveSnapshot, of DDL and rows that commit apart:
\* columns, registry and rows agree, and the rows of a date are a whole report.
MaintenanceSafety ==
    MaintenanceTypeOK /\ ColumnsAreFaithful /\ ReportsAreWhole /\ SchemaIsAsRead /\ SuccessIsWhole

\* ingestionstore/maintenance.go saveSnapshot: the named lock is released on every
\* way out, again and again.
LockIsFreed == []<>(lock = 0)
=============================================================================
