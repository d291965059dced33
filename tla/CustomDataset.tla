--------------------------- MODULE CustomDataset ----------------------------
(***************************************************************************)
(* Custom datasets (internal/customdataset and its pages): CSV files are   *)
(* uploaded, submitted as imports of a dataset, staged row by row in the   *)
(* dataset's table by whichever worker holds the claim, and published by   *)
(* one transaction that readers see through a view.                        *)
(*                                                                         *)
(* One action is one transaction, one statement outside a transaction or   *)
(* one local step of a worker.  A worker may be delayed at any point while *)
(* its claim is given to another one: rows are inserted and the table is   *)
(* rebuilt without asking who owns the import.  Every statement of Ensure  *)
(* is a step; taking the DDL lock is one with the first read under it, and *)
(* giving it back one with the last statement before, since others can     *)
(* only wait in between.                                                   *)
(*                                                                         *)
(* One dataset: datasets share nothing but the queue.  A form that was     *)
(* opened before the dataset's revision changed is refused and changes     *)
(* nothing, so Submit and Archive are the accepted ones.  UploadStore has  *)
(* the files; an attempt that cannot open its file ends as a Fault.        *)
(***************************************************************************)
EXTENDS Integers, FiniteSets

CONSTANTS
    Workers,      \* goroutines running claimLoop
    Processes,    \* application processes: the owner id of a claim is the process's
    Home,         \* the process of each worker
    MaxImports,   \* bound: imports submitted
    MaxAttempts,  \* bound: no claim is lost or left behind at this attempt
    FileRows,     \* bound: data rows of a file, staged one per batch
    MaxDataRows   \* rows a dataset may show

ASSUME DatasetAssumption ==
    /\ Home \in [Workers -> Processes] /\ "none" \notin Workers
    /\ \A n \in {MaxImports, MaxAttempts, FileRows, MaxDataRows} : n \in Nat \ {0}
    /\ FileRows <= MaxDataRows

VARIABLES
    dataset,   \* the row of custom_datasets
    imports,   \* the rows of custom_dataset_imports
    table,     \* the dataset's table and view: the schema revision each was built for
    rows,      \* rows of the table: [import, attempt, record]
    lock,      \* the worker holding the dataset's DDL lock
    exec,      \* what each worker is doing
    cleaner    \* what the cleanup has listed and not yet acted on

vars == <<dataset, imports, table, rows, lock, exec, cleaner>>

Imports == 1 .. MaxImports
Records == 1 .. FileRows
None == 0
NoWorker == "none"
Missing == 0    \* the schema of a table or view that does not exist
Stripped == -1  \* the view does not exist; whoever dropped it had lost its claim

Idle == [pc |-> "idle", job |-> None, attempt |-> 0, status |-> "none", schema |-> 0,
         shown |-> 0, staged |-> 0]

NoImport == [status |-> "none", mode |-> "replace", schema |-> 0, generation |-> None,
             attempt |-> 0, owner |-> NoWorker, published |-> None, fresh |-> FALSE,
             size |-> 0]

Init ==
    /\ dataset = [status |-> "none", schema |-> 0, generation |-> None, rows |-> 0]
    /\ imports = [i \in Imports |-> NoImport]
    /\ table = [schema |-> Missing, view |-> Missing]
    /\ rows = {}
    /\ lock = NoWorker
    /\ exec = [w \in Workers |-> Idle]
    /\ cleaner = {}

Active == {"queued", "running"}
Submitted == {i \in Imports : imports[i].status # "none"}
ActiveImports == {i \in Imports : imports[i].status \in Active}
Succeeded == {i \in Imports : imports[i].status = "succeeded"}
RowsOf(i) == {r \in rows : r.import = i}

-----------------------------------------------------------------------------
(* Submission: Handler.Submit, Repository.Submit, Archive *)

\* uq_custom_dataset_imports_active, and the count before a schema is revised.
NoActiveImport == ActiveImports = {}

\* The dataset is created with its first import; until it has published, a
\* submission replaces its columns; afterwards its schema is frozen.
Submit(mode, size) ==
    LET i == Cardinality(Submitted) + 1
        schema == IF dataset.status = "active" THEN dataset.schema ELSE dataset.schema + 1
    IN  /\ i \in Imports
        /\ dataset.status \in {"none", "provisioning", "active"}
        /\ mode = "append" => dataset.status = "active"
        /\ NoActiveImport
        /\ dataset.status = "provisioning" => Succeeded = {} /\ dataset.generation = None
        /\ dataset' = [dataset EXCEPT
               !.status = IF @ = "active" THEN @ ELSE "provisioning", !.schema = schema]
        /\ imports' = [imports EXCEPT ![i] = [NoImport EXCEPT
               !.status = "queued", !.mode = mode, !.schema = schema, !.size = size,
               !.generation = IF mode = "append" THEN dataset.generation ELSE i]]
        /\ UNCHANGED <<table, rows, lock, exec, cleaner>>

Archive ==
    /\ dataset.status \in {"provisioning", "active"}
    /\ ActiveImports = {}
    /\ dataset' = [dataset EXCEPT !.status = "archived"]
    /\ UNCHANGED <<imports, table, rows, lock, exec, cleaner>>

-----------------------------------------------------------------------------
(* The claim: Claim, Heartbeat, Progress, RequeueStale *)

\* Mutant: the attempt is left out of the WHERE clause.
OwnedByProcess(w) ==
    LET i == exec[w].job
    IN  imports[i].status = "running" /\ imports[i].owner = Home[w]

\* status='running' AND owner_id=? AND attempt=?
Owned(w) ==
    LET i == exec[w].job
    IN  /\ imports[i].status = "running"
        /\ imports[i].owner = Home[w]
        /\ imports[i].attempt = exec[w].attempt

Claimed(i, p) ==
    [imports EXCEPT ![i].status = "running", ![i].attempt = @ + 1, ![i].owner = p,
                    ![i].fresh = TRUE]

Claim(w, i) ==
    /\ exec[w].pc = "idle"
    /\ imports[i].status = "queued"
    /\ imports' = Claimed(i, Home[w])
    /\ exec' = [exec EXCEPT ![w] =
           [Idle EXCEPT !.pc = "find", !.job = i, !.attempt = imports[i].attempt + 1]]
    /\ UNCHANGED <<dataset, table, rows, lock, cleaner>>

\* The commit of a claim is applied but its answer is lost: nobody works.
ClaimUnanswered(w, i) ==
    /\ exec[w].pc = "idle"
    /\ imports[i].status = "queued"
    /\ imports[i].attempt + 1 < MaxAttempts
    /\ imports' = Claimed(i, Home[w])
    /\ UNCHANGED <<dataset, table, rows, lock, exec, cleaner>>

\* No heartbeat is written for StaleAfter: the worker is slow, cut off from
\* the database, or gone.
GoesStale(i) ==
    /\ imports[i].status = "running"
    /\ imports[i].fresh
    /\ imports[i].attempt < MaxAttempts
    /\ imports' = [imports EXCEPT ![i].fresh = FALSE]
    /\ UNCHANGED <<dataset, table, rows, lock, exec, cleaner>>

\* Mutant: only claims that were never confirmed are given back.
RequeueUnowned(i) ==
    /\ imports[i].status = "running"
    /\ imports[i].owner = NoWorker
    /\ imports' = [imports EXCEPT ![i].status = "queued", ![i].owner = NoWorker]
    /\ UNCHANGED <<dataset, table, rows, lock, exec, cleaner>>

RequeueStale(i) ==
    /\ imports[i].status = "running"
    /\ ~imports[i].fresh
    /\ imports' = [imports EXCEPT ![i].status = "queued", ![i].owner = NoWorker]
    /\ UNCHANGED <<dataset, table, rows, lock, exec, cleaner>>

Release(w) == IF lock = w THEN NoWorker ELSE lock

\* What execute still knows when it goes on to record a failure.
Failing(w) == [Idle EXCEPT !.pc = "failing", !.job = exec[w].job, !.attempt = exec[w].attempt]

Becomes(w, e) == exec' = [exec EXCEPT ![w] = e]
Goto(w, pc) == Becomes(w, [exec[w] EXCEPT !.pc = pc])
GotoOrFail(w, pc) == IF pc = "failing" THEN Becomes(w, Failing(w)) ELSE Goto(w, pc)

\* heartbeatLoop: the claim is renewed, or found lost and the work cancelled.
Heartbeat(w) ==
    /\ exec[w].pc \notin {"idle", "failing"}
    /\ \/ /\ Owned(w)
          /\ ~imports[exec[w].job].fresh
          /\ imports' = [imports EXCEPT ![exec[w].job].fresh = TRUE]
          /\ UNCHANGED <<exec, lock>>
       \/ /\ ~Owned(w)
          /\ Becomes(w, Idle)
          /\ lock' = Release(w)
          /\ UNCHANGED imports
    /\ UNCHANGED <<dataset, table, rows, cleaner>>

-----------------------------------------------------------------------------
(* Execution: Worker.execute, DDL.Ensure, inserter.Flush, Publish, Fail *)

\* Find: what the rest of the attempt believes.
FindDataset(w) ==
    LET i == exec[w].job
        fits == /\ dataset.status # "archived"
                /\ dataset.schema = imports[i].schema
    IN  /\ exec[w].pc = "find"
        /\ Becomes(w, IF fits THEN [exec[w] EXCEPT !.pc = "lock", !.status = dataset.status,
                                        !.schema = dataset.schema, !.shown = dataset.rows]
                      ELSE Failing(w))
        /\ UNCHANGED <<dataset, imports, table, rows, lock, cleaner>>

\* Mutant: the objects are reset on the word of the copy read at the start.
resetAllowedAlways(i) == TRUE

\* Read under the DDL lock, but not in one transaction with what follows.
resetAllowed(i) ==
    /\ dataset.status = "provisioning"
    /\ dataset.generation = None
    /\ Succeeded = {}
    /\ ActiveImports \subseteq {i}

\* GET_LOCK, on the connection that runs the statements, then tableIsExact.
EnsureLock(w) ==
    LET pc == IF table.schema = exec[w].schema THEN "exact"
              ELSE IF table.schema = Missing THEN "create"
              ELSE IF exec[w].status = "provisioning" /\ resetAllowed(exec[w].job)
                   THEN "dropView" ELSE "failing"
    IN  /\ exec[w].pc = "lock"
        /\ lock = NoWorker
        /\ GotoOrFail(w, pc)
        /\ lock' = IF pc = "failing" THEN NoWorker ELSE w
        /\ UNCHANGED <<dataset, imports, table, rows, cleaner>>

\* DROP VIEW IF EXISTS.  The statement does not ask for the claim; that it was
\* lost is kept for ViewMatchesCount.
DropView(w, from, to) ==
    /\ exec[w].pc = from
    /\ table' = [table EXCEPT !.view = IF Owned(w) THEN Missing ELSE Stripped]
    /\ Goto(w, to)
    /\ UNCHANGED <<dataset, imports, rows, lock, cleaner>>

\* Objects of an earlier schema go, the view first.
EnsureDropView(w) == DropView(w, "dropView", "dropTable")

EnsureDropTable(w) ==
    /\ exec[w].pc = "dropTable"
    /\ table' = [table EXCEPT !.schema = Missing]
    /\ rows' = {}
    /\ Goto(w, "create")
    /\ UNCHANGED <<dataset, imports, lock, cleaner>>

EnsureCreate(w) ==
    /\ exec[w].pc = "create"
    /\ table' = [table EXCEPT !.schema = exec[w].schema]
    /\ Goto(w, "exact")
    /\ UNCHANGED <<dataset, imports, rows, lock, cleaner>>

\* The table is right: the view of a dataset that was never published is
\* rebuilt, that of any other is verified.
EnsureExact(w) ==
    LET pc == IF exec[w].status = "provisioning"
              THEN IF resetAllowed(exec[w].job) THEN "oldView" ELSE "failing"
              ELSE IF table.view = exec[w].schema THEN "stage" ELSE "failing"
    IN  /\ exec[w].pc = "exact"
        /\ GotoOrFail(w, pc)
        /\ lock' = IF pc = "oldView" THEN w ELSE NoWorker
        /\ UNCHANGED <<dataset, imports, table, rows, cleaner>>

EnsureOldView(w) == DropView(w, "oldView", "newView")

EnsureNewView(w) ==
    /\ exec[w].pc = "newView"
    /\ table' = [table EXCEPT !.view = exec[w].schema]
    /\ lock' = NoWorker
    /\ Goto(w, "stage")
    /\ UNCHANGED <<dataset, imports, rows, cleaner>>

Staged(w, n) == [import |-> exec[w].job, attempt |-> exec[w].attempt, record |-> n]

\* One batch of Stream: an append is refused against the count read at the
\* start, the insert asks nobody.  Without the table it fails (Fault).
Insert(w) ==
    LET n == exec[w].staged + 1
        full == /\ imports[exec[w].job].mode = "append"
                /\ exec[w].shown + n > MaxDataRows
    IN  /\ exec[w].pc = "stage"
        /\ n <= imports[exec[w].job].size
        /\ full \/ table.schema # Missing
        /\ rows' = IF full THEN rows ELSE rows \cup {Staged(w, n)}
        /\ Becomes(w, IF full THEN Failing(w)
                      ELSE [exec[w] EXCEPT !.pc = "progress", !.staged = n])
        /\ UNCHANGED <<dataset, imports, table, lock, cleaner>>

\* Progress with the rows staged so far, the last time as "publishing"; a file
\* that is all header has no batch before.
Progress(w) ==
    /\ \/ exec[w].pc = "progress"
       \/ exec[w].pc = "stage" /\ imports[exec[w].job].size = 0
    /\ LET all == exec[w].staged = imports[exec[w].job].size
       IN  IF Owned(w) THEN Goto(w, IF all THEN "publish" ELSE "stage") ELSE Becomes(w, Idle)
    /\ UNCHANGED <<dataset, imports, table, rows, lock, cleaner>>

\* Under the locks of the import and of the dataset.
mayPublish(w) ==
    /\ Owned(w)
    /\ imports[exec[w].job].schema = dataset.schema
    /\ dataset.status # "archived"

\* A replacement starts a generation of its own, an append joins the current.
PublishedDataset(i) ==
    [dataset EXCEPT !.status = "active", !.generation = imports[i].generation,
        !.rows = (IF imports[i].mode = "replace" THEN 0 ELSE @) + imports[i].size]

\* One transaction.  Its commit may be applied and not answered: reading the
\* import back shows it, unless that fails too and the attempt goes on to Fail.
Publish(w) ==
    LET i == exec[w].job
        append == imports[i].mode = "append"
        conflict == append /\ (dataset.generation # imports[i].generation
                               \/ dataset.status # "active")
        full == append /\ dataset.rows > MaxDataRows - imports[i].size
    IN  /\ exec[w].pc = "publish"
        /\ IF mayPublish(w) /\ ~conflict /\ ~full
           THEN /\ imports' = [imports EXCEPT ![i].status = "succeeded", ![i].fresh = TRUE,
                                              ![i].published = imports[i].attempt]
                /\ dataset' = PublishedDataset(i)
                /\ \E e \in {Idle, Failing(w)} : Becomes(w, e)
           ELSE /\ Becomes(w, IF mayPublish(w) THEN Failing(w) ELSE Idle)
                /\ UNCHANGED <<dataset, imports>>
        /\ UNCHANGED <<table, rows, lock, cleaner>>

\* Any other way an attempt ends: invalid records, a refused statement, a
\* packet limit, ErrLeaseUnproven after heartbeats that were not answered.
Fault(w) ==
    /\ exec[w].pc \notin {"idle", "failing"}
    /\ Becomes(w, Failing(w))
    /\ lock' = Release(w)
    /\ UNCHANGED <<dataset, imports, table, rows, cleaner>>

\* The failure is recorded by the owner only.
Fail(w) ==
    LET i == exec[w].job
    IN  /\ exec[w].pc = "failing"
        /\ imports' = IF Owned(w)
                      THEN [imports EXCEPT ![i].status = "failed", ![i].fresh = TRUE]
                      ELSE imports
        /\ Becomes(w, Idle)
        /\ UNCHANGED <<dataset, table, rows, lock, cleaner>>

\* The failure is not recorded: the import is left running without a worker.
FailUnanswered(w) ==
    /\ exec[w].pc = "failing"
    /\ Owned(w)
    /\ exec[w].attempt < MaxAttempts
    /\ Becomes(w, Idle)
    /\ UNCHANGED <<dataset, imports, table, rows, lock, cleaner>>

\* A process ends: its workers and its connection holding the DDL lock with
\* it.  The process that replaces it has an owner id of its own, which tells
\* apart less than the attempt does.
Crash(p) ==
    LET lost == {w \in Workers : Home[w] = p /\ exec[w].pc # "idle"}
    IN  /\ lost # {}
        /\ \A w \in lost : Owned(w) => exec[w].attempt < MaxAttempts
        /\ exec' = [w \in Workers |-> IF w \in lost THEN Idle ELSE exec[w]]
        /\ lock' = IF lock \in lost THEN NoWorker ELSE lock
        /\ UNCHANGED <<dataset, imports, table, rows, cleaner>>

-----------------------------------------------------------------------------
(* Cleanup: Worker.cleanup and CleanupRows.  A pass lists imports and works *)
(* through the list.  The entries share nothing, so the model takes one     *)
(* entry and acts on it at any later time.                                  *)

\* CleanupCandidates: imports that are over; retired, when the dataset moved on.
candidates ==
    {[import |-> i, published |-> imports[i].published,
      retired |-> imports[i].status = "succeeded"
                  /\ imports[i].generation # dataset.generation] :
        i \in {j \in Submitted : imports[j].status \notin Active}}

\* An import that ended more than the grace period ago.
CleanupCandidates(item) ==
    /\ cleaner = {}
    /\ item \in candidates
    /\ cleaner' = {item}
    /\ UNCHANGED <<dataset, imports, table, rows, lock, exec>>

\* All rows of the import, or all but those of the attempt it published.
CleanupRows(item) ==
    /\ item \in cleaner
    /\ rows' = {r \in rows : r.import = item.import =>
                    ~item.retired /\ item.published # None /\ r.attempt = item.published}
    /\ cleaner' = {}
    /\ UNCHANGED <<dataset, imports, table, lock, exec>>

\* An error ends the pass; the next one starts from nothing.
CleanupFails ==
    /\ cleaner # {}
    /\ cleaner' = {}
    /\ UNCHANGED <<dataset, imports, table, rows, lock, exec>>

-----------------------------------------------------------------------------
Work(w) ==
    \/ FindDataset(w) \/ EnsureLock(w) \/ EnsureDropView(w) \/ EnsureDropTable(w)
    \/ EnsureCreate(w) \/ EnsureExact(w) \/ EnsureOldView(w) \/ EnsureNewView(w)
    \/ Insert(w) \/ Progress(w) \/ Publish(w) \/ Fail(w)

Cleanup ==
    \/ \E item \in candidates : CleanupCandidates(item)
    \/ \E item \in cleaner : CleanupRows(item)

Next ==
    \/ \E mode \in {"replace", "append"}, size \in 0 .. FileRows : Submit(mode, size)
    \/ Archive
    \/ \E i \in Imports : GoesStale(i) \/ RequeueStale(i)
    \/ \E w \in Workers, i \in Imports : Claim(w, i) \/ ClaimUnanswered(w, i)
    \/ \E w \in Workers : Work(w) \/ Heartbeat(w) \/ Fault(w) \/ FailUnanswered(w)
    \/ \E p \in Processes : Crash(p)
    \/ Cleanup \/ CleanupFails

Spec == Init /\ [][Next]_vars

\* Nobody sends heartbeats for the import any more.
Abandoned(i) == ~\E w \in Workers : exec[w].job = i /\ exec[w].pc # "idle" /\ Owned(w)

\* Every worker keeps working and claiming, staleLoop keeps running.  What is
\* left behind goes stale with time, which nothing prevents when nobody sends
\* heartbeats any more.
Fairness ==
    /\ \A w \in Workers : WF_vars(Work(w)) /\ SF_vars(EnsureLock(w))
    /\ \A i \in Imports :
           /\ WF_vars(\E w \in Workers : Claim(w, i))
           /\ WF_vars(Abandoned(i) /\ GoesStale(i))
           /\ WF_vars(RequeueStale(i))

FairSpec == Spec /\ Fairness

-----------------------------------------------------------------------------
(* Properties *)

TypeOK ==
    /\ dataset \in [status : {"none", "provisioning", "active", "archived"},
                    schema : 0 .. MaxImports, generation : 0 .. MaxImports,
                    rows : 0 .. MaxDataRows]
    /\ imports \in [Imports -> [status : Active \cup {"none", "succeeded", "failed"},
           mode : {"replace", "append"}, schema : 0 .. MaxImports,
           generation : 0 .. MaxImports, attempt : Nat, owner : Processes \cup {NoWorker},
           published : Nat, fresh : BOOLEAN,
           size : 0 .. FileRows]]
    /\ table \in [schema : 0 .. MaxImports, view : Stripped .. MaxImports]
    /\ \A r \in rows : r.import \in Submitted /\ r.record \in Records
    /\ lock \in Workers \cup {NoWorker}

\* What the view selects: rows of the published attempt of the imports of the
\* current generation.
View ==
    {r \in rows :
        /\ imports[r.import].status = "succeeded"
        /\ imports[r.import].generation = dataset.generation
        /\ r.attempt = imports[r.import].published}

\* The rows the view selects are as many as the dataset says, and once it has
\* published, the table and the view are those of its schema.  The view may be
\* gone only by the hand of a worker that had lost its claim.
ViewMatchesCount ==
    /\ Cardinality(View) = dataset.rows
    /\ dataset.generation # None =>
           /\ table.schema = dataset.schema
           /\ table.view \in {dataset.schema, Stripped}

\* jobs.go Publish, ddl.go Ensure: whatever attempts overlap, the published
\* attempts have as many rows in the table as the dataset states, the table and
\* the view have the columns of the published schema, and no owner publishes
\* without the view or takes a published one away.
DatasetSafety == TypeOK /\ ViewMatchesCount

\* docs/PRODUCTION.md:137: "active dataset objects are never altered or dropped."
\* The table of an active dataset stays, and so does its view while it has one.
ActiveObjectsKept ==
    [][dataset.status = "active" =>
           /\ table'.schema = table.schema
           /\ table.view = dataset.schema => table'.view = table.view]_vars

Ledger == INSTANCE DatasetLedger WITH
    size <- [i \in Imports |->
                 IF imports[i].status = "none" THEN -1 ELSE imports[i].size],
    done <- {i \in Submitted : imports[i].status \notin Active},
    published <- Succeeded,
    content <- {<<r.import, r.record>> : r \in View}

\* Readers see whole files: nothing but the publication of an import, of all
\* its rows and once, ever changes the rows the view selects.
ImplementsDataset == Ledger!Spec

\* A submitted import ends, whatever happens to the workers that held it.
ImportsSettle ==
    \A i \in Imports : []<>(imports[i].status \notin Active)
=============================================================================
