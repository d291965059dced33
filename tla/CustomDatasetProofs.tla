------------------------- MODULE CustomDatasetProofs -------------------------
(***************************************************************************)
(* DatasetSafety, and that CustomDataset implements DatasetLedger, for any *)
(* workers, processes, imports and files; FilesKept of the upload store.   *)
(*                                                                         *)
(* The invariant has two halves.  TablesOK is about the rows of the        *)
(* database.  WorkersOK is about what a worker may rely on: everybody who  *)
(* ever claimed an import has an attempt of his own, a worker that still   *)
(* owns his import and is past Ensure has a table of the right schema and  *)
(* every row he staged, and nobody is about to drop it.  A worker that has *)
(* lost the claim relies on nothing, and whatever he inserts stays out of  *)
(* the view.  The view itself is dropped by whoever rebuilds it: an owner  *)
(* does so only before anything is published (LockOK), a worker that has   *)
(* lost the claim at any time, and then it is Stripped.                    *)
(***************************************************************************)
EXTENDS CustomDataset, UploadStore, FiniteSetTheorems, FunctionTheorems, TLAPS

Rebuilding == {"dropView", "dropTable", "create"}
Held == Rebuilding \cup {"exact", "oldView", "newView"}
Staging == {"stage", "progress", "publish"}

ExecRecords ==
    [pc : {"idle", "find", "lock", "failing"} \cup Held \cup Staging,
     job : 0 .. MaxImports, attempt : Nat,
     status : {"none", "provisioning", "active", "archived"}, schema : 0 .. MaxImports,
     shown : 0 .. MaxDataRows, staged : 0 .. FileRows]

ImportRecords ==
    [status : Active \cup {"none", "succeeded", "failed"},
     mode : {"replace", "append"}, schema : 0 .. MaxImports,
     generation : 0 .. MaxImports, attempt : Nat, owner : Processes \cup {NoWorker},
     published : Nat, fresh : BOOLEAN, size : 0 .. FileRows]

DatasetRecords ==
    [status : {"none", "provisioning", "active", "archived"}, schema : 0 .. MaxImports,
     generation : 0 .. MaxImports, rows : 0 .. MaxDataRows]

Types ==
    /\ dataset \in DatasetRecords
    /\ imports \in [Imports -> ImportRecords]
    /\ rows \subseteq [import : Imports, attempt : Nat, record : Records]
    /\ cleaner \subseteq [import : Imports, published : Nat, retired : BOOLEAN]

-----------------------------------------------------------------------------
(* The database *)

\* Imports are numbered in order, and every schema was made for one of them.
Numbered == \E k \in 0 .. MaxImports : Submitted = 1 .. k /\ dataset.schema <= k

\* An append belongs to a generation that has been published, a replacement to
\* its own; an import under way is for the present schema.
ImportOK(i) ==
    /\ imports[i].status = "none" => imports[i] = NoImport
    /\ imports[i].status # "none" => imports[i].schema >= 1
    /\ imports[i].status \in Active =>
           imports[i].schema = dataset.schema /\ dataset.status \in {"provisioning", "active"}
    /\ imports[i].status # "none" /\ imports[i].mode = "replace" => imports[i].generation = i
    /\ imports[i].status # "none" /\ imports[i].mode = "append" =>
           imports[i].generation \in Succeeded
    /\ imports[i].status = "succeeded" => imports[i].published \in 1 .. imports[i].attempt
    /\ imports[i].status # "succeeded" => imports[i].published = None

OneActive == \A i, j \in ActiveImports : i = j

\* The dataset shows a generation from the first publication on.
GenerationOK ==
    /\ dataset.generation # None =>
           /\ dataset.generation \in Succeeded
           /\ dataset.status \in {"active", "archived"}
    /\ dataset.status = "active" \/ Succeeded # {} => dataset.generation # None
    /\ dataset.status = "none" => Submitted = {}
    /\ dataset.status # "none" => dataset.schema >= 1

RowsOK == \A r \in rows : r.import \in Submitted /\ r.attempt \in 1 .. imports[r.import].attempt

\* What the cleanup has listed stays true: imports that are over stay over.
CleanerOK ==
    \A item \in cleaner :
        /\ item.import \in Submitted \ ActiveImports
        /\ item.published = imports[item.import].published
        /\ item.retired => imports[item.import].generation # dataset.generation

TablesOK ==
    /\ Types /\ Numbered /\ (\A i \in Imports : ImportOK(i)) /\ OneActive
    /\ GenerationOK /\ RowsOK /\ CleanerOK

ViewOK ==
    /\ table \in [schema : 0 .. MaxImports, view : Stripped .. MaxImports]
    /\ IsFiniteSet(View) /\ ViewMatchesCount

-----------------------------------------------------------------------------
(* The workers *)

\* A claimed attempt, whether or not the claim is still his.
AttemptOK(w) ==
    LET e == exec[w] IN
    e.pc # "idle" =>
        /\ e.job \in Submitted /\ e.attempt \in 1 .. imports[e.job].attempt
        /\ e.pc \notin {"find", "failing"} =>
               /\ e.schema = imports[e.job].schema
               /\ e.status \in {"provisioning", "active"}
               /\ e.status = "active" => dataset.generation # None
        /\ e.pc \in {"find", "lock"} \cup Held => e.staged = 0
        /\ e.staged <= imports[e.job].size
        /\ e.pc = "publish" => e.staged = imports[e.job].size
        /\ imports[e.job].status = "succeeded" /\ imports[e.job].published = e.attempt =>
               e.pc = "failing"
        /\ e.pc # "failing" => \A r \in rows :
               r.import = e.job /\ r.attempt = e.attempt => r.record <= e.staged

\* Ensure works under the lock.  The table is dropped only if nothing was ever
\* published, and so is the view by a worker that still owns his import.
LockOK(w) ==
    /\ exec[w].pc \in Held => lock = w
    /\ exec[w].pc \in Held \ Rebuilding => table.schema = exec[w].schema
    /\ exec[w].pc \in {"oldView", "newView"} => exec[w].status = "provisioning"
    /\ exec[w].pc \in Rebuilding => dataset.generation = None
    /\ exec[w].pc \in {"lock"} \cup Held /\ exec[w].status = "provisioning" /\ Owned(w) =>
           dataset.generation = None

StagingOK(w) ==
    exec[w].pc \in Staging /\ Owned(w) =>
        /\ table.schema = dataset.schema /\ table.view \in {dataset.schema, Stripped}
        /\ \A n \in 1 .. exec[w].staged : Staged(w, n) \in rows
        /\ \A v \in Workers : exec[v].pc \notin Rebuilding

OneWorker ==
    \A v, w \in Workers :
        /\ exec[v].pc # "idle" /\ exec[w].pc # "idle"
        /\ exec[v].job = exec[w].job /\ exec[v].attempt = exec[w].attempt
        => v = w

WorkersOK ==
    /\ exec \in [Workers -> ExecRecords] /\ lock \in Workers \cup {NoWorker} /\ OneWorker
    /\ \A w \in Workers : AttemptOK(w) /\ LockOK(w) /\ StagingOK(w)

IInv == TablesOK /\ ViewOK /\ WorkersOK

-----------------------------------------------------------------------------
(* Types *)

LEMMA Bounds ==
    /\ \A n \in {MaxImports, MaxAttempts, FileRows, MaxDataRows} : n \in Nat \ {0}
    /\ FileRows <= MaxDataRows /\ NoWorker \notin Workers
BY DatasetAssumption DEF NoWorker

LEMMA CountedUp ==
    ASSUME NEW k \in Nat PROVE IsFiniteSet(1 .. k) /\ Cardinality(1 .. k) = k
<1>1. /\ IsFiniteSet(1 .. k)
      /\ Cardinality(1 .. k) = IF 1 > k THEN 0 ELSE k - 1 + 1
    BY FS_Interval
<1> QED BY <1>1

LEMMA IdleType == Idle \in ExecRecords /\ Idle.pc = "idle" /\ Idle.staged = 0
BY Bounds DEF Idle, ExecRecords, None

LEMMA FailingType ==
    ASSUME exec \in [Workers -> ExecRecords], NEW w \in Workers
    PROVE  /\ Failing(w) \in ExecRecords /\ Failing(w).pc = "failing" /\ Failing(w).staged = 0
           /\ Failing(w).job = exec[w].job /\ Failing(w).attempt = exec[w].attempt
<1>1. exec[w].job \in 0 .. MaxImports /\ exec[w].attempt \in Nat
    BY DEF ExecRecords
<1> QED BY <1>1, IdleType DEF Failing, ExecRecords

LEMMA NoImportType ==
    NoImport \in ImportRecords /\ NoImport.status = "none" /\ NoImport.attempt = 0
BY Bounds DEF NoImport, ImportRecords, NoWorker, None

LEMMA TypesMean ==
    ASSUME TablesOK, ViewOK, WorkersOK PROVE DatasetSafety
<1>1. \A r \in rows : r.import \in Submitted /\ r.record \in Records
    BY DEF TablesOK, Types, RowsOK
<1> QED BY <1>1 DEF TablesOK, Types, ViewOK, WorkersOK, DatasetSafety, TypeOK, DatasetRecords,
            ImportRecords

-----------------------------------------------------------------------------
(* Steps that leave tables alone *)

LEMMA TablesStay ==
    ASSUME TablesOK, UNCHANGED <<dataset, imports>>, rows' \subseteq rows,
           cleaner' \subseteq cleaner
    PROVE  TablesOK'
BY DEF TablesOK, Types, Numbered, ImportOK, OneActive, GenerationOK, RowsOK, CleanerOK,
       Submitted, ActiveImports, Succeeded

LEMMA ViewStays ==
    ASSUME ViewOK, UNCHANGED <<dataset, imports, rows, table>> PROVE ViewOK' /\ View' = View
<1>1. View' = View
    BY DEF View
<1> QED BY <1>1 DEF ViewOK, ViewMatchesCount

SameFile(i, new) ==
    /\ new.mode = imports[i].mode /\ new.schema = imports[i].schema
    /\ new.generation = imports[i].generation /\ new.size = imports[i].size
    /\ new.published = imports[i].published

\* The import i moves on without being published: it is claimed, given back,
\* renewed or failed.
Moves(i, new) ==
    /\ imports[i].status \in Active
    /\ imports' = [imports EXCEPT ![i] = new]
    /\ new \in ImportRecords /\ new.status \in Active \cup {"failed"}
    /\ SameFile(i, new) /\ new.attempt >= imports[i].attempt

LEMMA ImportMoves ==
    ASSUME TablesOK, NEW i \in Imports, NEW new, Moves(i, new), UNCHANGED <<dataset, rows, cleaner>>
    PROVE  /\ TablesOK' /\ View' = View
           /\ Submitted' = Submitted /\ Succeeded' = Succeeded
           /\ \A j \in Imports : imports'[j] = IF j = i THEN new ELSE imports[j]
<1>1. \A j \in Imports : imports'[j] = IF j = i THEN new ELSE imports[j]
    BY DEF TablesOK, Types, Moves
<1>2. Submitted' = Submitted /\ Succeeded' = Succeeded /\ ActiveImports' \subseteq ActiveImports
    BY <1>1 DEF Submitted, Succeeded, ActiveImports, Moves, Active
<1>3. Types'
    BY DEF TablesOK, Types, Moves
<1>4. Numbered' /\ OneActive' /\ GenerationOK'
    BY <1>2 DEF TablesOK, Numbered, OneActive, GenerationOK
<1>5. \A j \in Imports : ImportOK(j)'
    <2> SUFFICES ASSUME NEW j \in Imports PROVE ImportOK(j)'
        OBVIOUS
    <2>1. ImportOK(j)
        BY DEF TablesOK
    <2>2. CASE j = i
        BY <1>1, <1>2, <2>1, <2>2 DEF ImportOK, Moves, SameFile, Active
    <2>3. CASE j # i
        BY <1>1, <1>2, <2>1, <2>3 DEF ImportOK
    <2> QED BY <2>2, <2>3
<1>6. RowsOK'
    <2> SUFFICES ASSUME NEW r \in rows
                 PROVE  r.import \in Submitted' /\ r.attempt \in 1 .. imports'[r.import].attempt
        BY DEF RowsOK
    <2>1. /\ r.import \in Imports /\ r.import \in Submitted /\ r.attempt \in Nat
          /\ r.attempt \in 1 .. imports[r.import].attempt
        BY DEF TablesOK, Types, RowsOK
    <2>2. imports'[r.import].attempt \in Nat /\ imports[r.import].attempt \in Nat
        BY <1>3, <2>1 DEF TablesOK, Types, ImportRecords
    <2>3. imports'[r.import].attempt >= imports[r.import].attempt
        BY <1>1, <2>1, <2>2 DEF Moves
    <2> QED BY <1>2, <2>1, <2>2, <2>3
<1>7. CleanerOK'
    <2> SUFFICES ASSUME NEW item \in cleaner
                 PROVE  /\ item.import \in Submitted' \ ActiveImports'
                        /\ item.published = imports'[item.import].published
                        /\ item.retired => imports'[item.import].generation # dataset'.generation
        BY DEF CleanerOK
    <2>1. item.import \in Imports /\ item.import # i
        BY DEF TablesOK, CleanerOK, Moves, ActiveImports, Submitted
    <2> QED BY <1>1, <1>2, <2>1 DEF TablesOK, CleanerOK
<1>8. View' = View
    <2>1. \A r \in rows : r.import \in Imports
        BY DEF TablesOK, Types
    <2>2. imports[i].status # "succeeded" /\ new.status # "succeeded"
        BY DEF Moves, Active
    <2> QED BY <1>1, <2>1, <2>2 DEF View
<1> QED BY <1>1, <1>2, <1>3, <1>4, <1>5, <1>6, <1>7, <1>8 DEF TablesOK

\* What the worker v relies on is not taken from him.
Undisturbed(v) ==
    LET e == exec[v] IN
    /\ exec'[v] = e
    /\ e.pc # "idle" =>
        /\ e.job \in Submitted' /\ imports'[e.job].schema = imports[e.job].schema
        /\ imports'[e.job].size = imports[e.job].size
        /\ imports'[e.job].attempt >= imports[e.job].attempt
        /\ imports'[e.job].status = "succeeded" /\ imports'[e.job].published = e.attempt =>
               imports[e.job].status = "succeeded" /\ imports[e.job].published = e.attempt
        /\ \A r \in rows' \ rows : ~(r.import = e.job /\ r.attempt = e.attempt)
    /\ dataset.generation # None => dataset'.generation # None
    /\ e.pc \in Held => lock' = lock
    /\ e.pc \in Held \ Rebuilding => table'.schema = table.schema
    /\ e.pc \in Rebuilding => dataset'.generation = None
    /\ e.pc # "idle" /\ Owned(v)' =>
        Owned(v) /\ (dataset.generation = None => dataset'.generation = None)
    /\ e.pc \in Staging /\ Owned(v)' =>
        /\ dataset'.schema = dataset.schema /\ table'.schema = table.schema
        /\ table'.view \in {table.view, dataset.schema, Stripped}
        /\ \A n \in 1 .. e.staged : Staged(v, n) \in rows => Staged(v, n) \in rows'
        /\ \A u \in Workers : exec'[u].pc \in Rebuilding =>
               exec[u].pc \in Rebuilding

LEMMA WorkerStays ==
    ASSUME TablesOK, Types', WorkersOK, NEW v \in Workers, Undisturbed(v)
    PROVE  AttemptOK(v)' /\ LockOK(v)' /\ StagingOK(v)'
<1>1. AttemptOK(v) /\ LockOK(v) /\ StagingOK(v) /\ exec'[v] = exec[v]
    BY DEF WorkersOK, Undisturbed
<1>2. AttemptOK(v)'
    <2> SUFFICES ASSUME exec[v].pc # "idle" PROVE AttemptOK(v)'
        BY <1>1 DEF AttemptOK
    <2>1. /\ exec[v].job \in Imports /\ exec[v].attempt \in Nat
          /\ imports[exec[v].job].attempt \in Nat /\ imports'[exec[v].job].attempt \in Nat
        BY <1>1 DEF AttemptOK, Submitted, WorkersOK, ExecRecords, TablesOK, Types, ImportRecords
    <2>2. exec[v].attempt \in 1 .. imports'[exec[v].job].attempt
        BY <1>1, <2>1 DEF AttemptOK, Undisturbed
    <2> QED BY <1>1, <2>2 DEF AttemptOK, Undisturbed
<1>3. LockOK(v)'
    BY <1>1 DEF LockOK, Undisturbed, Held
<1>4. StagingOK(v)'
    <2>1. \A n : Staged(v, n)' = Staged(v, n)
        BY <1>1 DEF Staged
    <2> QED BY <1>1, <2>1 DEF StagingOK, Undisturbed, Staging
<1> QED BY <1>2, <1>3, <1>4

\* A worker goes on with his attempt, or is idle.
Continues(v) ==
    \/ exec'[v].pc = "idle"
    \/ /\ exec[v].pc # "idle"
       /\ exec'[v].job = exec[v].job /\ exec'[v].attempt = exec[v].attempt

LEMMA OneWorkerStays ==
    ASSUME OneWorker, \A v \in Workers : Continues(v) PROVE OneWorker'
BY DEF OneWorker, Continues

\* One worker makes a step, the others are undisturbed.
LEMMA OneWorks ==
    ASSUME TablesOK, Types', WorkersOK, NEW w \in Workers, NEW e \in ExecRecords,
           exec' = [exec EXCEPT ![w] = e], Continues(w), lock' \in Workers \cup {NoWorker},
           AttemptOK(w)' /\ LockOK(w)' /\ StagingOK(w)',
           \A v \in Workers \ {w} : exec'[v] = exec[v] => Undisturbed(v)
    PROVE  WorkersOK'
<1>1. exec' \in [Workers -> ExecRecords] /\ \A v \in Workers \ {w} : exec'[v] = exec[v]
    BY DEF WorkersOK
<1>2. \A v \in Workers : Continues(v)
    BY <1>1 DEF Continues
<1>3. OneWorker'
    BY <1>2, OneWorkerStays DEF WorkersOK
<1>4. \A v \in Workers \ {w} : AttemptOK(v)' /\ LockOK(v)' /\ StagingOK(v)'
    BY <1>1, WorkerStays
<1> QED BY <1>1, <1>3, <1>4 DEF WorkersOK

LEMMA NobodyWorks ==
    ASSUME TablesOK, Types', WorkersOK, UNCHANGED <<exec, lock>>, \A v \in Workers : Undisturbed(v)
    PROVE  WorkersOK'
BY WorkerStays DEF WorkersOK, OneWorker

\* A worker becomes idle, or is about to record a failure: he relies on little.
LEMMA Resting ==
    ASSUME NEW w \in Workers, exec'[w].pc \in {"idle", "failing"}
    PROVE  LockOK(w)' /\ StagingOK(w)' /\ (exec'[w].pc = "idle" => AttemptOK(w)')
BY DEF LockOK, StagingOK, AttemptOK, Held, Rebuilding, Staging

-----------------------------------------------------------------------------
(* The claim *)

\* Imports move on; nobody comes to own what he did not own before.
LEMMA MovesUndisturbed ==
    ASSUME TablesOK, WorkersOK, NEW i \in Imports, NEW new, Moves(i, new),
           UNCHANGED <<dataset, rows, cleaner, table>>, NEW v \in Workers, exec'[v] = exec[v],
           exec[v].pc \in Held => lock' = lock,
           exec[v].pc # "idle" /\ exec[v].job = i /\ new.status = "running" /\ new.owner = Home[v]
               /\ new.attempt = exec[v].attempt => Owned(v),
           \A u \in Workers : exec'[u].pc \in Rebuilding =>
               exec[u].pc \in Rebuilding
    PROVE  Undisturbed(v)
<1>1. /\ \A j \in Imports : imports'[j] = IF j = i THEN new ELSE imports[j]
      /\ Submitted' = Submitted /\ TablesOK'
    BY ImportMoves
<1>2. exec[v].pc # "idle" => exec[v].job \in Submitted /\ exec[v].job \in Imports
    BY DEF WorkersOK, AttemptOK, Submitted
<1>3. \A j \in Imports : imports[j].attempt \in Nat
    BY DEF TablesOK, Types, ImportRecords
<1>4. exec[v].pc # "idle" => imports'[exec[v].job].attempt >= imports[exec[v].job].attempt
    BY <1>1, <1>2, <1>3 DEF Moves
<1>5. exec[v].pc # "idle" /\ Owned(v)' => Owned(v)
    BY <1>1, <1>2 DEF Owned
<1>6. exec[v].pc \in Staging => exec[v].pc # "idle"
    BY DEF Staging
<1>7. exec[v].pc \in Rebuilding => dataset.generation = None
    BY DEF WorkersOK, LockOK
<1>8. exec[v].pc # "idle" =>
          /\ imports'[exec[v].job].schema = imports[exec[v].job].schema
          /\ imports'[exec[v].job].size = imports[exec[v].job].size
          /\ imports'[exec[v].job].status = "succeeded" =>
                 imports'[exec[v].job] = imports[exec[v].job]
    BY <1>1, <1>2 DEF Moves, SameFile, Active
<1> QED BY <1>1, <1>2, <1>4, <1>5, <1>6, <1>7, <1>8 DEF Undisturbed

LEMMA MovesView ==
    ASSUME TablesOK, ViewOK, NEW i \in Imports, NEW new, Moves(i, new),
           UNCHANGED <<dataset, rows, cleaner, table>>
    PROVE  TablesOK' /\ ViewOK' /\ View' = View
<1>1. TablesOK' /\ View' = View
    BY ImportMoves
<1> QED BY <1>1 DEF ViewOK, ViewMatchesCount

LEMMA ImportOnly ==
    ASSUME IInv, NEW i \in Imports, NEW new, Moves(i, new),
           new.status = "running" => imports[i].status = "running" /\ new.owner = imports[i].owner
               /\ new.attempt = imports[i].attempt,
           UNCHANGED <<dataset, rows, cleaner, table, lock, exec>>
    PROVE  IInv'
<1>1. TablesOK' /\ ViewOK'
    BY MovesView DEF IInv
<1>2. ASSUME NEW v \in Workers PROVE Undisturbed(v)
    <2>1. exec[v].job = i /\ new.status = "running" /\ new.owner = Home[v]
               /\ new.attempt = exec[v].attempt => Owned(v)
        BY DEF Owned
    <2> QED BY <2>1, MovesUndisturbed DEF IInv
<1> QED BY <1>1, <1>2, NobodyWorks DEF IInv, TablesOK

\* A heartbeat, or none for too long.
LEMMA RenewedMoves ==
    ASSUME TablesOK, NEW i \in Imports, imports[i].status = "running", NEW b \in BOOLEAN,
           imports' = [imports EXCEPT ![i].fresh = b]
    PROVE  \E new : /\ Moves(i, new) /\ new.status = "running"
                    /\ new.owner = imports[i].owner /\ new.attempt = imports[i].attempt
<1> DEFINE new == [imports[i] EXCEPT !.fresh = b]
<1>1. imports[i] \in ImportRecords
    BY DEF TablesOK, Types
<1>2. /\ new \in ImportRecords /\ new.status = imports[i].status /\ new.owner = imports[i].owner
      /\ SameFile(i, new) /\ new.attempt = imports[i].attempt
    BY <1>1 DEF ImportRecords, SameFile
<1>3. imports' = [imports EXCEPT ![i] = new]
    OBVIOUS
<1> HIDE DEF new
<1>4. new.attempt >= imports[i].attempt
    BY <1>1, <1>2 DEF ImportRecords
<1>5. Moves(i, new)
    BY <1>2, <1>3, <1>4 DEF Moves, Active
<1> QED BY <1>2, <1>5

LEMMA RequeuedMoves ==
    ASSUME TablesOK, NEW i \in Imports, imports[i].status = "running",
           imports' = [imports EXCEPT ![i].status = "queued", ![i].owner = NoWorker]
    PROVE  \E new : Moves(i, new) /\ new.status = "queued"
<1> DEFINE new == [imports[i] EXCEPT !.status = "queued", !.owner = NoWorker]
<1>1. imports[i] \in ImportRecords
    BY DEF TablesOK, Types
<1>2. /\ new \in ImportRecords /\ new.status = "queued"
      /\ SameFile(i, new) /\ new.attempt = imports[i].attempt
    BY <1>1 DEF ImportRecords, SameFile, Active
<1>3. imports' = [imports EXCEPT ![i] = new]
    OBVIOUS
<1> HIDE DEF new
<1>4. new.attempt >= imports[i].attempt
    BY <1>1, <1>2 DEF ImportRecords
<1>5. Moves(i, new)
    BY <1>2, <1>3, <1>4 DEF Moves, Active
<1> QED BY <1>2, <1>5

LEMMA FailedMoves ==
    ASSUME TablesOK, NEW i \in Imports, imports[i].status = "running",
           imports' = [imports EXCEPT ![i].status = "failed", ![i].fresh = TRUE]
    PROVE  \E new : Moves(i, new) /\ new.status = "failed"
<1> DEFINE new == [imports[i] EXCEPT !.status = "failed", !.fresh = TRUE]
<1>1. imports[i] \in ImportRecords
    BY DEF TablesOK, Types
<1>2. /\ new \in ImportRecords /\ new.status = "failed"
      /\ SameFile(i, new) /\ new.attempt = imports[i].attempt
    BY <1>1 DEF ImportRecords, SameFile
<1>3. imports' = [imports EXCEPT ![i] = new]
    OBVIOUS
<1> HIDE DEF new
<1>4. new.attempt >= imports[i].attempt
    BY <1>1, <1>2 DEF ImportRecords
<1>5. Moves(i, new)
    BY <1>2, <1>3, <1>4 DEF Moves, Active
<1> QED BY <1>2, <1>5

LEMMA GoesStaleStep ==
    ASSUME IInv, NEW i \in Imports, GoesStale(i) PROVE IInv'
<1>1. PICK new : /\ Moves(i, new) /\ new.status = "running"
                 /\ new.owner = imports[i].owner /\ new.attempt = imports[i].attempt
    BY RenewedMoves DEF GoesStale, IInv
<1> QED BY <1>1, ImportOnly DEF GoesStale

LEMMA RequeueStaleStep ==
    ASSUME IInv, NEW i \in Imports, RequeueStale(i) PROVE IInv'
<1>1. PICK new : Moves(i, new) /\ new.status = "queued"
    BY RequeuedMoves DEF RequeueStale, IInv
<1> QED BY <1>1, ImportOnly DEF RequeueStale

\* A claim makes an attempt that nobody had.
LEMMA ClaimedMoves ==
    ASSUME TablesOK, NEW i \in Imports, NEW p \in Processes, imports[i].status = "queued",
           imports' = Claimed(i, p)
    PROVE  \E new : /\ Moves(i, new) /\ new.status = "running"
                    /\ new.attempt = imports[i].attempt + 1
<1>1. PICK a : a = imports[i].attempt + 1
    OBVIOUS
<1> DEFINE new == [imports[i] EXCEPT !.status = "running", !.attempt = a, !.owner = p,
                                     !.fresh = TRUE]
<1>2. imports[i] \in ImportRecords /\ imports[i].attempt \in Nat /\ a \in Nat
    BY <1>1 DEF TablesOK, Types, ImportRecords
<1>3. imports' = [imports EXCEPT ![i] = new]
    BY <1>1 DEF Claimed
<1>4. new \in ImportRecords /\ new.status = "running" /\ new.attempt = a /\ SameFile(i, new)
    BY <1>2 DEF ImportRecords, Active, SameFile
<1> HIDE DEF new
<1>5. Moves(i, new)
    BY <1>1, <1>2, <1>3, <1>4 DEF Moves, Active
<1> QED BY <1>1, <1>4, <1>5

LEMMA NobodyHasNext ==
    ASSUME TablesOK, WorkersOK, NEW v \in Workers, exec[v].pc # "idle"
    PROVE  exec[v].attempt # imports[exec[v].job].attempt + 1
<1>1. imports[exec[v].job].attempt \in Nat /\ exec[v].attempt \in 1 .. imports[exec[v].job].attempt
    BY DEF TablesOK, Types, ImportRecords, WorkersOK, AttemptOK, Submitted
<1> QED BY <1>1

LEMMA ClaimUnansweredStep ==
    ASSUME IInv, NEW w \in Workers, NEW i \in Imports, ClaimUnanswered(w, i) PROVE IInv'
<1>1. PICK new : Moves(i, new) /\ new.status = "running" /\ new.attempt = imports[i].attempt + 1
    BY ClaimedMoves, DatasetAssumption DEF ClaimUnanswered, IInv
<1>2. UNCHANGED <<dataset, rows, cleaner, table, lock, exec>>
    BY DEF ClaimUnanswered
<1>3. TablesOK' /\ ViewOK'
    BY <1>1, <1>2, MovesView DEF IInv
<1>4. \A v \in Workers : Undisturbed(v)
    BY <1>1, <1>2, NobodyHasNext, MovesUndisturbed DEF IInv
<1> QED BY <1>2, <1>3, <1>4, NobodyWorks DEF IInv, TablesOK

LEMMA ClaimStep ==
    ASSUME IInv, NEW w \in Workers, NEW i \in Imports, Claim(w, i) PROVE IInv'
<1>1. PICK new : Moves(i, new) /\ new.status = "running" /\ new.attempt = imports[i].attempt + 1
    BY ClaimedMoves, DatasetAssumption DEF Claim, IInv
<1>2. PICK a : a = imports[i].attempt + 1
    OBVIOUS
<1> DEFINE e == [Idle EXCEPT !.pc = "find", !.job = i, !.attempt = a]
<1>3. /\ UNCHANGED <<dataset, rows, cleaner, table, lock>>
      /\ exec[w].pc = "idle" /\ exec' = [exec EXCEPT ![w] = e]
    BY <1>2 DEF Claim
<1>4. TablesOK' /\ ViewOK'
    BY <1>1, <1>3, MovesView DEF IInv
<1>5. a \in Nat \ {0} /\ i \in 0 .. MaxImports
    BY <1>2, Bounds DEF IInv, TablesOK, Types, ImportRecords, Imports
<1>6. e \in ExecRecords /\ e.pc = "find" /\ e.job = i /\ e.attempt = a /\ e.staged = 0
    BY <1>5, IdleType DEF ExecRecords
<1> HIDE DEF e
<1>7. exec' \in [Workers -> ExecRecords] /\ exec'[w] = e /\
          \A v \in Workers : v # w => exec'[v] = exec[v]
    BY <1>3, <1>6 DEF IInv, WorkersOK
<1>8. \A u \in Workers : exec'[u].pc \in Rebuilding => exec[u].pc \in Rebuilding
    BY <1>6, <1>7 DEF Rebuilding
<1>9. \A v \in Workers : v # w => Undisturbed(v)
    BY <1>1, <1>3, <1>7, <1>8, NobodyHasNext, MovesUndisturbed DEF IInv
<1>10. \A v \in Workers : v # w => AttemptOK(v)' /\ LockOK(v)' /\ StagingOK(v)'
    BY <1>4, <1>9, WorkerStays DEF IInv, TablesOK
<1>11. OneWorker'
    BY <1>2, <1>6, <1>7, NobodyHasNext DEF IInv, WorkersOK, OneWorker
<1>12. AttemptOK(w)'
    <2>1. i \in Submitted' /\ imports'[i] = new /\ new.size >= 0
        <3>1. imports'[i] = new /\ Submitted' = Submitted
            BY <1>1, <1>3, ImportMoves DEF IInv
        <3>2. i \in Submitted /\ new.size \in 0 .. FileRows
            BY <1>1 DEF Moves, Active, Submitted, ImportRecords
        <3> QED BY <3>1, <3>2
    <2>2. ~(imports'[i].status = "succeeded")
        BY <1>1, <2>1
    <2>3. \A r \in rows' : ~(r.import = i /\ r.attempt = a)
        BY <1>2, <1>3, <1>5 DEF IInv, TablesOK, Types, RowsOK, ImportRecords
    <2> QED BY <1>1, <1>2, <1>5, <1>6, <1>7, <2>1, <2>2, <2>3 DEF AttemptOK
<1>13. LockOK(w)' /\ StagingOK(w)'
    BY <1>6, <1>7 DEF LockOK, StagingOK, Held, Rebuilding, Staging
<1> QED BY <1>3, <1>4, <1>7, <1>10, <1>11, <1>12, <1>13 DEF IInv, WorkersOK

-----------------------------------------------------------------------------
(* Steps of a worker that leave the tables alone *)

LEMMA OthersUndisturbed ==
    ASSUME TablesOK, WorkersOK, UNCHANGED <<dataset, imports, table, rows>>,
           NEW v \in Workers, exec'[v] = exec[v], exec[v].pc \in Held => lock' = lock,
           exec[v].pc \in Staging /\ Owned(v) =>
               \A u \in Workers : exec'[u].pc \in Rebuilding =>
                   exec[u].pc \in Rebuilding
    PROVE  Undisturbed(v)
<1>1. Submitted' = Submitted /\ (Owned(v)' <=> Owned(v))
    BY DEF Submitted, Owned
<1>2. exec[v].pc # "idle" => exec[v].job \in Submitted /\ imports[exec[v].job].attempt \in Nat
    BY DEF WorkersOK, AttemptOK, Submitted, TablesOK, Types, ImportRecords
<1>3. exec[v].pc \in Rebuilding => dataset.generation = None
    BY DEF WorkersOK, LockOK
<1> QED BY <1>1, <1>2, <1>3 DEF Undisturbed

\* The worker w takes up e; before he rebuilds the table, nobody stages in it.
LEMMA ExecOnly ==
    ASSUME IInv, NEW w \in Workers, NEW e \in ExecRecords, exec' = [exec EXCEPT ![w] = e],
           e.pc \in Rebuilding =>
               \A v \in Workers : ~(exec[v].pc \in Staging /\ Owned(v)),
           lock' \in Workers \cup {NoWorker},
           \A v \in Workers \ {w} : lock = v => lock' = lock,
           UNCHANGED <<dataset, imports, table, rows, cleaner>>,
           e.pc = "idle" \/ (exec[w].pc # "idle" /\ e.job = exec[w].job
                                 /\ e.attempt = exec[w].attempt),
           AttemptOK(w)' /\ LockOK(w)' /\ StagingOK(w)'
    PROVE  IInv'
<1>1. TablesOK' /\ ViewOK'
    BY TablesStay, ViewStays DEF IInv
<1>2. exec'[w] = e /\ \A v \in Workers \ {w} : exec'[v] = exec[v]
    BY DEF IInv, WorkersOK
<1>3. Continues(w)
    BY <1>2 DEF Continues
<1>4. \A v \in Workers : exec[v].pc \in Held => lock = v
    BY DEF IInv, WorkersOK, LockOK
<1>5. \A v \in Workers : exec[v].pc \in Staging /\ Owned(v) =>
          \A u \in Workers : exec'[u].pc \in Rebuilding =>
              exec[u].pc \in Rebuilding
    BY <1>2
<1>6. \A v \in Workers \ {w} : Undisturbed(v)
    BY <1>2, <1>4, <1>5, OthersUndisturbed DEF IInv
<1>7. WorkersOK'
    BY <1>1, <1>3, <1>6, OneWorks DEF IInv, TablesOK
<1> QED BY <1>1, <1>7 DEF IInv

\* The attempt is over, or it is about to be recorded as failed.
LEMMA GivesUp ==
    ASSUME IInv, NEW w \in Workers, exec[w].pc # "idle",
           NEW e \in {Idle, Failing(w)},
           exec' = [exec EXCEPT ![w] = e], lock' \in Workers \cup {NoWorker},
           \A v \in Workers \ {w} : lock = v => lock' = lock,
           UNCHANGED <<dataset, imports, table, rows, cleaner>>
    PROVE  IInv'
<1>1. exec[w] \in ExecRecords /\ exec \in [Workers -> ExecRecords] /\ AttemptOK(w)
    BY DEF IInv, WorkersOK
<1>2. /\ e \in ExecRecords
      /\ \/ e.pc = "idle"
         \/ /\ e.pc = "failing" /\ e.job = exec[w].job /\ e.attempt = exec[w].attempt
            /\ e.staged = 0
    BY <1>1, IdleType, FailingType
<1>3. exec'[w] = e
    BY <1>1
<1>4. LockOK(w)' /\ StagingOK(w)'
    BY <1>2, <1>3, Resting
<1>5. AttemptOK(w)'
    <2>1. exec[w].job \in Submitted /\ imports[exec[w].job].size >= 0
        BY <1>1 DEF AttemptOK, Submitted, IInv, TablesOK, Types, ImportRecords
    <2> QED BY <1>1, <1>2, <1>3, <2>1 DEF AttemptOK, Submitted, Held, Rebuilding
<1>6. e.pc \notin Rebuilding
    BY <1>2 DEF Rebuilding
<1> QED BY <1>2, <1>4, <1>5, <1>6, ExecOnly

LEMMA ReleaseType ==
    ASSUME IInv, NEW w \in Workers, lock' = Release(w)
    PROVE  /\ lock' \in Workers \cup {NoWorker}
           /\ \A v \in Workers \ {w} : lock = v => lock' = lock
BY DEF IInv, WorkersOK, Release

LEMMA FaultStep ==
    ASSUME IInv, NEW w \in Workers, Fault(w) PROVE IInv'
<1>1. exec' = [exec EXCEPT ![w] = Failing(w)] /\ exec[w].pc # "idle"
    BY DEF Fault, Becomes
<1> QED BY <1>1, ReleaseType, GivesUp DEF Fault

LEMMA HeartbeatStep ==
    ASSUME IInv, NEW w \in Workers, Heartbeat(w) PROVE IInv'
<1>1. CASE ~Owned(w)
    BY <1>1, ReleaseType, GivesUp DEF Heartbeat, Becomes
<1>2. CASE Owned(w)
    <2>1. PICK i : i = exec[w].job
        OBVIOUS
    <2>2. i \in Imports /\ imports[i].status = "running"
        BY <1>2, <2>1 DEF Heartbeat, Owned, IInv, WorkersOK, AttemptOK, Submitted
    <2>3. PICK new : /\ Moves(i, new) /\ new.status = "running"
                     /\ new.owner = imports[i].owner /\ new.attempt = imports[i].attempt
        BY <1>2, <2>1, <2>2, RenewedMoves DEF Heartbeat, IInv
    <2> QED BY <1>2, <2>2, <2>3, ImportOnly DEF Heartbeat
<1> QED BY <1>1, <1>2

LEMMA FailUnansweredStep ==
    ASSUME IInv, NEW w \in Workers, FailUnanswered(w) PROVE IInv'
BY GivesUp DEF FailUnanswered, Becomes, IInv, WorkersOK

LEMMA FailStep ==
    ASSUME IInv, NEW w \in Workers, Fail(w) PROVE IInv'
<1>1. CASE ~Owned(w)
    BY <1>1, GivesUp DEF Fail, Becomes, IInv, WorkersOK
<1>2. CASE Owned(w)
    <2>1. PICK i : i = exec[w].job
        OBVIOUS
    <2>2. i \in Imports /\ imports[i].status = "running"
        BY <1>2, <2>1 DEF Fail, Owned, IInv, WorkersOK, AttemptOK, Submitted
    <2>4. /\ imports' = [imports EXCEPT ![i].status = "failed", ![i].fresh = TRUE]
          /\ exec' = [exec EXCEPT ![w] = Idle]
          /\ UNCHANGED <<dataset, rows, cleaner, table, lock>>
        BY <1>2, <2>1 DEF Fail, Becomes
    <2>5. PICK new : Moves(i, new) /\ new.status = "failed"
        BY <2>2, <2>4, FailedMoves DEF IInv
    <2>6. TablesOK' /\ ViewOK'
        BY <2>2, <2>4, <2>5, MovesView DEF IInv
    <2>7. exec'[w].pc = "idle" /\ \A v \in Workers \ {w} : exec'[v] = exec[v]
        BY <2>4, IdleType DEF IInv, WorkersOK
    <2>8. \A v \in Workers \ {w} : Undisturbed(v)
        BY <2>2, <2>4, <2>5, <2>7, MovesUndisturbed DEF IInv, Rebuilding
    <2>9. Continues(w) /\ AttemptOK(w)' /\ LockOK(w)' /\ StagingOK(w)'
        BY <2>7, Resting DEF Continues
    <2>10. lock' \in Workers \cup {NoWorker}
        BY <2>4 DEF IInv, WorkersOK
    <2>11. WorkersOK'
        BY <2>4, <2>6, <2>8, <2>9, <2>10, IdleType, OneWorks DEF IInv, TablesOK
    <2> QED BY <2>6, <2>11 DEF IInv
<1> QED BY <1>1, <1>2

LEMMA CrashStep ==
    ASSUME IInv, NEW p \in Processes, Crash(p) PROVE IInv'
<1> DEFINE lost == {w \in Workers : Home[w] = p /\ exec[w].pc # "idle"}
<1>1. /\ exec' = [w \in Workers |-> IF w \in lost THEN Idle ELSE exec[w]]
      /\ lock' = IF lock \in lost THEN NoWorker ELSE lock
      /\ UNCHANGED <<dataset, imports, table, rows, cleaner>>
    BY DEF Crash
<1> HIDE DEF lost
<1>2. TablesOK' /\ ViewOK'
    BY <1>1, TablesStay, ViewStays DEF IInv
<1>3. /\ exec' \in [Workers -> ExecRecords] /\ lock' \in Workers \cup {NoWorker}
      /\ \A v \in Workers : IF v \in lost THEN exec'[v].pc = "idle" ELSE exec'[v] = exec[v]
    BY <1>1, IdleType DEF IInv, WorkersOK
<1>4. OneWorker'
    BY <1>3, OneWorkerStays DEF IInv, WorkersOK, Continues
<1>5. ASSUME NEW v \in Workers PROVE AttemptOK(v)' /\ LockOK(v)' /\ StagingOK(v)'
    <2>1. CASE v \in lost
        BY <1>3, <2>1, Resting
    <2>2. CASE v \notin lost
        <3>1. exec[v].pc \in Held => lock' = lock
            BY <1>1, <2>2 DEF IInv, WorkersOK, LockOK
        <3>2. \A u \in Workers : exec'[u].pc \in Rebuilding =>
                  exec[u].pc \in Rebuilding
            BY <1>3 DEF Rebuilding
        <3>3. Undisturbed(v)
            BY <1>1, <1>3, <2>2, <3>1, <3>2, OthersUndisturbed DEF IInv
        <3> QED BY <1>2, <3>3, WorkerStays DEF IInv, TablesOK
    <2> QED BY <2>1, <2>2
<1> QED BY <1>2, <1>3, <1>4, <1>5 DEF IInv, WorkersOK

LEMMA FindDatasetStep ==
    ASSUME IInv, NEW w \in Workers, FindDataset(w) PROVE IInv'
<1>1. PICK i : i = exec[w].job
    OBVIOUS
<1>2. PICK fits \in BOOLEAN :
          fits <=> dataset.status # "archived" /\ dataset.schema = imports[i].schema
    OBVIOUS
<1> DEFINE e == [exec[w] EXCEPT !.pc = "lock", !.status = dataset.status,
                    !.schema = dataset.schema, !.shown = dataset.rows]
<1>3. /\ exec[w].pc = "find" /\ exec' = [exec EXCEPT ![w] = IF fits THEN e ELSE Failing(w)]
      /\ UNCHANGED <<dataset, imports, table, rows, lock, cleaner>>
    BY <1>1, <1>2 DEF FindDataset, Becomes
<1>4. exec[w] \in ExecRecords /\ exec \in [Workers -> ExecRecords] /\ AttemptOK(w)
    BY DEF IInv, WorkersOK
<1>5. dataset \in DatasetRecords
    BY DEF IInv, TablesOK, Types
<1>6. /\ e \in ExecRecords /\ e.pc = "lock" /\ e.job = exec[w].job
      /\ e.attempt = exec[w].attempt /\ e.status = dataset.status
      /\ e.schema = dataset.schema /\ e.staged = exec[w].staged
    BY <1>4, <1>5 DEF ExecRecords, DatasetRecords
<1> HIDE DEF e
<1>7. CASE ~fits
    BY <1>3, <1>7, GivesUp DEF IInv, WorkersOK
<1>8. CASE fits
    <2>1. exec' = [exec EXCEPT ![w] = e] /\ exec'[w] = e
        BY <1>3, <1>4, <1>8
    <2>2. /\ dataset.schema = imports[i].schema
          /\ dataset.status \in {"provisioning", "active"}
          /\ dataset.status = "active" => dataset.generation # None
          /\ dataset.status = "provisioning" => dataset.generation = None
        <3>1. i \in Submitted
            BY <1>1, <1>3, <1>4 DEF AttemptOK
        <3>2. dataset.status # "none"
            BY <3>1 DEF IInv, TablesOK, ImportOK, GenerationOK
        <3> QED BY <1>2, <1>5, <1>8, <3>2 DEF DatasetRecords, IInv, TablesOK, GenerationOK
    <2>3. LockOK(w)' /\ StagingOK(w)'
        BY <1>3, <1>6, <2>1, <2>2 DEF LockOK, StagingOK, Held, Rebuilding, Staging
    <2>4. AttemptOK(w)'
        BY <1>1, <1>3, <1>4, <1>6, <2>1, <2>2 DEF AttemptOK, Submitted, Held, Rebuilding
    <2>5. e.pc \notin Rebuilding
        BY <1>6 DEF Rebuilding
    <2> QED BY <1>3, <1>6, <2>1, <2>3, <2>4, <2>5, ExecOnly DEF IInv, WorkersOK
<1> QED BY <1>7, <1>8

-----------------------------------------------------------------------------
(* Ensure *)

\* A worker goes on with pc.
GoesOn(w, e, pc) ==
    /\ exec' = [exec EXCEPT ![w] = e] /\ exec'[w] = e
    /\ e.pc = pc /\ e.job = exec[w].job /\ e.attempt = exec[w].attempt
    /\ e.status = exec[w].status /\ e.schema = exec[w].schema
    /\ e.staged = exec[w].staged
    /\ \A v \in Workers : v # w => exec'[v] = exec[v]

LEMMA GotoType ==
    ASSUME WorkersOK, NEW w \in Workers, NEW pc \in Held \cup Staging, Goto(w, pc)
    PROVE  \E e \in ExecRecords : GoesOn(w, e, pc)
<1> DEFINE e == [exec[w] EXCEPT !.pc = pc]
<1>1. exec' = [exec EXCEPT ![w] = e] /\ exec[w] \in ExecRecords
    BY DEF Goto, Becomes, WorkersOK
<1>2. /\ e \in ExecRecords /\ e.pc = pc /\ e.job = exec[w].job /\ e.attempt = exec[w].attempt
      /\ e.status = exec[w].status /\ e.schema = exec[w].schema /\ e.staged = exec[w].staged
    BY <1>1 DEF ExecRecords, Held, Rebuilding, Staging
<1> HIDE DEF e
<1>3. exec'[w] = e /\ \A v \in Workers : v # w => exec'[v] = exec[v]
    BY <1>1 DEF WorkersOK
<1> QED BY <1>1, <1>2, <1>3 DEF GoesOn

\* What a worker between Find and the end of Ensure knows.
LEMMA Ensuring ==
    ASSUME TablesOK, WorkersOK, NEW w \in Workers, exec[w].pc \in {"lock"} \cup Held
    PROVE  /\ exec[w].job \in Submitted /\ exec[w].job \in Imports
           /\ exec[w].schema = imports[exec[w].job].schema /\ exec[w].schema >= 1
           /\ exec[w].status \in {"provisioning", "active"} /\ exec[w].staged = 0
           /\ exec[w].status = "active" => dataset.generation # None
           /\ exec[w].status = "provisioning" /\ Owned(w) => dataset.generation = None
BY DEF WorkersOK, AttemptOK, LockOK, Held, Rebuilding, TablesOK, ImportOK, Submitted

\* While the claim is his own, the table is for the dataset's schema.
LEMMA OwnerHasTable ==
    ASSUME TablesOK, WorkersOK, NEW v \in Workers, exec[v].pc \in Staging, Owned(v)
    PROVE  /\ exec[v].job \in ActiveImports /\ table.schema = dataset.schema
           /\ table.view \in {dataset.schema, Stripped}
           /\ imports[exec[v].job].schema = dataset.schema
           /\ table.schema >= 1 /\ \A u \in Workers : exec[u].pc \notin Rebuilding
<1>1. exec[v].job \in Imports /\ imports[exec[v].job].status = "running"
    BY DEF WorkersOK, AttemptOK, Staging, Submitted, Owned
<1>2. ImportOK(exec[v].job) /\ StagingOK(v)
    BY <1>1 DEF TablesOK, WorkersOK
<1> QED BY <1>1, <1>2 DEF ImportOK, StagingOK, ActiveImports, Active

\* A worker that goes on in Ensure, or past it, still knows what he knew.
LEMMA StillEnsuring ==
    ASSUME IInv, NEW w \in Workers, exec[w].pc \in {"lock"} \cup Held,
           NEW e, NEW pc \in Held \cup {"stage"}, GoesOn(w, e, pc),
           UNCHANGED <<dataset, imports>>, rows' \subseteq rows
    PROVE  AttemptOK(w)' /\ Continues(w) /\ (Owned(w)' <=> Owned(w))
<1>1. /\ exec'[w] = e /\ e.pc = pc /\ e.job = exec[w].job /\ e.attempt = exec[w].attempt
      /\ e.status = exec[w].status /\ e.schema = exec[w].schema
      /\ e.staged = exec[w].staged
    BY DEF GoesOn
<1>2. /\ pc \notin {"idle", "find", "failing", "publish"}
      /\ exec[w].pc \notin {"idle", "find", "failing"} /\ Submitted' = Submitted
    BY DEF Held, Rebuilding, Submitted
<1>3. AttemptOK(w)
    BY DEF IInv, WorkersOK
<1>4. AttemptOK(w)'
    BY <1>1, <1>2, <1>3 DEF AttemptOK
<1>5. Continues(w)
    BY <1>1, <1>2 DEF Continues
<1> QED BY <1>1, <1>4, <1>5 DEF Owned

\* Past Ensure, with a table and a view of the right schema.
LEMMA StartsStaging ==
    ASSUME IInv, NEW w \in Workers, exec[w].pc \in Held, NEW e, GoesOn(w, e, "stage"),
           exec[w].pc \notin Rebuilding, UNCHANGED <<dataset, imports>>,
           Owned(w) => table'.schema = dataset.schema /\ table'.view \in {dataset.schema, Stripped}
    PROVE  LockOK(w)' /\ StagingOK(w)'
<1>1. exec'[w].pc = "stage" /\ exec'[w].staged = 0 /\ (Owned(w)' <=> Owned(w))
    BY Ensuring DEF GoesOn, Owned, IInv
<1>2. \A v \in Workers : exec'[v].pc \notin Rebuilding
    <2>1. \A v \in Workers : v # w => exec[v].pc \notin Held
        BY DEF IInv, WorkersOK, LockOK
    <2> QED BY <1>1, <2>1 DEF GoesOn, Held, Rebuilding
<1>3. \A n \in 1 .. exec'[w].staged : FALSE
    BY <1>1
<1>4. LockOK(w)'
    BY <1>1 DEF LockOK, Held, Rebuilding
<1> QED BY <1>1, <1>2, <1>3, <1>4 DEF StagingOK

LEMMA EnsureLockStep ==
    ASSUME IInv, NEW w \in Workers, EnsureLock(w) PROVE IInv'
<1>1. PICK pc \in {"failing", "exact", "create", "dropView"} :
          pc = IF table.schema = exec[w].schema THEN "exact"
               ELSE IF table.schema = Missing THEN "create"
               ELSE IF exec[w].status = "provisioning" /\ resetAllowed(exec[w].job)
                    THEN "dropView" ELSE "failing"
    OBVIOUS
<1>2. /\ exec[w].pc = "lock" /\ lock = NoWorker /\ GotoOrFail(w, pc)
      /\ lock' = IF pc = "failing" THEN NoWorker ELSE w
      /\ UNCHANGED <<dataset, imports, table, rows, cleaner>>
    BY <1>1 DEF EnsureLock
<1>3. lock' \in Workers \cup {NoWorker} /\ \A v \in Workers : lock = v => lock' = lock
    BY <1>2, Bounds
<1>4. CASE pc = "failing"
    BY <1>2, <1>3, <1>4, GivesUp DEF GotoOrFail, Becomes
<1>5. CASE pc # "failing"
    <2>1. Goto(w, pc) /\ pc \in Held /\ lock' = w
        BY <1>1, <1>2, <1>5 DEF GotoOrFail, Held, Rebuilding
    <2>2. PICK e \in ExecRecords : GoesOn(w, e, pc)
        BY <2>1, GotoType DEF IInv
    <2>3. AttemptOK(w)' /\ Continues(w) /\ (Owned(w)' <=> Owned(w))
        BY <1>2, <2>1, <2>2, StillEnsuring
    <2>4. /\ exec[w].job \in Imports
          /\ exec[w].schema = imports[exec[w].job].schema
          /\ exec[w].status = "provisioning" /\ Owned(w) => dataset.generation = None
        BY <1>2, Ensuring DEF IInv
    <2>5. pc \in Rebuilding =>
              /\ dataset.generation = None
              /\ \A v \in Workers : ~(exec[v].pc \in Staging /\ Owned(v))
        <3>1. CASE pc = "dropView"
            <4>1. resetAllowed(exec[w].job) /\ table.schema # exec[w].schema
                BY <1>1, <3>1
            <4>2. \A v \in Workers : ~(exec[v].pc \in Staging /\ Owned(v))
                BY <2>4, <4>1, OwnerHasTable DEF resetAllowed, IInv
            <4> QED BY <4>1, <4>2 DEF resetAllowed
        <3>2. CASE pc = "create"
            <4>1. table.schema = 0
                BY <1>1, <3>2 DEF Missing
            <4>2. \A v \in Workers : ~(exec[v].pc \in Staging /\ Owned(v))
                BY <4>1, OwnerHasTable DEF IInv
            <4>3. dataset.generation = None
                BY <4>1 DEF IInv, TablesOK, GenerationOK, ViewOK, ViewMatchesCount
            <4> QED BY <4>2, <4>3
        <3> QED BY <1>1, <3>1, <3>2 DEF Rebuilding
    <2>6. LockOK(w)'
        <3>1. pc = "exact" => table.schema = exec[w].schema
            BY <1>1
        <3>2. pc \in Held \ Rebuilding => pc = "exact"
            BY <1>1 DEF Held, Rebuilding
        <3>3. /\ exec'[w].pc = pc /\ exec'[w].schema = exec[w].schema
              /\ exec'[w].status = exec[w].status
            BY <2>2 DEF GoesOn
        <3> QED BY <1>1, <1>2, <2>1, <2>3, <2>4, <2>5, <3>1, <3>2, <3>3 DEF LockOK
    <2>7. StagingOK(w)'
        BY <1>1, <2>2 DEF GoesOn, StagingOK, Staging
    <2>8. /\ e.pc = pc /\ exec' = [exec EXCEPT ![w] = e] /\ exec[w].pc # "idle"
          /\ e.job = exec[w].job /\ e.attempt = exec[w].attempt
        BY <1>2, <2>2 DEF GoesOn
    <2> QED BY <1>2, <1>3, <2>3, <2>5, <2>6, <2>7, <2>8, ExecOnly
<1> QED BY <1>4, <1>5

LEMMA NothingShown ==
    ASSUME TablesOK, dataset.generation = None PROVE View = {}
BY DEF TablesOK, Types, GenerationOK, Succeeded, View

\* Two workers do not own imports at the same time.
LEMMA OneOwner ==
    ASSUME TablesOK, WorkersOK, NEW v \in Workers, NEW w \in Workers,
           exec[v].pc # "idle", exec[w].pc # "idle", Owned(v), Owned(w)
    PROVE  v = w
<1>1. exec[v].job \in ActiveImports /\ exec[w].job \in ActiveImports
    BY DEF WorkersOK, AttemptOK, Submitted, Owned, ActiveImports, Active
<1>2. exec[v].job = exec[w].job
    BY <1>1 DEF TablesOK, OneActive
<1> QED BY <1>2 DEF WorkersOK, OneWorker, Owned

\* While a worker rebuilds the table, nobody else holds the lock, and nobody
\* who owns his import stages in it.
LEMMA RebuildsAlone ==
    ASSUME TablesOK, WorkersOK, NEW w \in Workers, exec[w].pc \in Held,
           NEW v \in Workers, v # w, exec'[v] = exec[v], UNCHANGED <<dataset, imports>>,
           rows' \subseteq rows,
           exec[w].pc \notin Rebuilding /\ exec[v].pc \in Staging /\ Owned(v) =>
               /\ UNCHANGED rows /\ table'.schema = table.schema
               /\ table'.view \in {table.view, dataset.schema, Stripped}
               /\ exec'[w].pc \notin Rebuilding
               /\ \A u \in Workers : u # w => exec'[u] = exec[u]
    PROVE  Undisturbed(v)
<1>1. exec[v].pc \notin Held /\ exec[v].pc \notin Rebuilding
    BY DEF WorkersOK, LockOK, Held
<1>2. exec[v].pc # "idle" => exec[v].job \in Submitted /\ imports[exec[v].job].attempt \in Nat
    BY DEF WorkersOK, AttemptOK, Submitted, TablesOK, Types, ImportRecords
<1>3. Submitted' = Submitted /\ (Owned(v)' <=> Owned(v))
    BY DEF Submitted, Owned
<1>4. exec[v].pc \in Staging /\ Owned(v) => exec[w].pc \notin Rebuilding
    BY OwnerHasTable
<1> QED BY <1>1, <1>2, <1>3, <1>4 DEF Undisturbed

\* A statement of Ensure: what is left to show of it.
LEMMA Statement ==
    ASSUME IInv, NEW w \in Workers, exec[w].pc \in Held,
           NEW e \in ExecRecords, NEW pc \in Held \cup {"stage"}, GoesOn(w, e, pc),
           UNCHANGED <<dataset, imports, cleaner>>, rows' \subseteq rows,
           lock' \in Workers \cup {NoWorker},
           ViewOK', LockOK(w)', StagingOK(w)',
           \A v \in Workers : v # w /\ exec[w].pc \notin Rebuilding
                               /\ exec[v].pc \in Staging /\ Owned(v) =>
               /\ UNCHANGED rows /\ table'.schema = table.schema
               /\ table'.view \in {table.view, dataset.schema, Stripped}
               /\ pc \notin Rebuilding
    PROVE  IInv'
<1>1. TablesOK'
    BY TablesStay DEF IInv
<1>2. AttemptOK(w)' /\ Continues(w)
    BY StillEnsuring
<1>3. /\ exec' = [exec EXCEPT ![w] = e] /\ exec'[w].pc = pc
      /\ \A v \in Workers : v # w => exec'[v] = exec[v]
    BY DEF GoesOn
<1>4. ASSUME NEW v \in Workers \ {w} PROVE Undisturbed(v)
    BY <1>3, RebuildsAlone DEF IInv
<1>5. WorkersOK'
    BY <1>1, <1>2, <1>3, <1>4, OneWorks DEF IInv, TablesOK
<1> QED BY <1>1, <1>5 DEF IInv

\* What the holder of the lock knows and keeps while he goes on under it.
LEMMA StillLocked ==
    ASSUME IInv, NEW w \in Workers, exec[w].pc \in Held,
           NEW e, NEW pc \in Held, GoesOn(w, e, pc), UNCHANGED <<dataset, imports>>, lock' = w,
           pc \in Rebuilding => exec[w].pc \in Rebuilding,
           pc \notin Rebuilding => table'.schema = exec[w].schema,
           pc \in {"oldView", "newView"} => exec[w].status = "provisioning"
    PROVE  LockOK(w)' /\ StagingOK(w)'
<1>1. /\ exec'[w].pc = pc /\ exec'[w].schema = exec[w].schema
      /\ exec'[w].status = exec[w].status /\ (Owned(w)' <=> Owned(w))
    BY DEF GoesOn, Owned
<1>2. exec[w].status = "provisioning" /\ Owned(w) => dataset.generation = None
    BY Ensuring DEF IInv
<1>3. exec[w].pc \in Rebuilding => dataset.generation = None
    BY DEF IInv, WorkersOK, LockOK
<1>4. pc \notin Staging
    BY DEF Held, Rebuilding, Staging
<1> QED BY <1>1, <1>2, <1>3, <1>4 DEF LockOK, StagingOK

\* A view that is dropped is nobody's, or the dropper has lost his claim.
LEMMA ViewDropped ==
    ASSUME IInv, NEW w \in Workers, exec[w].pc \in Held, NEW from, NEW to, DropView(w, from, to),
           exec[w].pc \in Rebuilding \/ exec[w].status = "provisioning"
    PROVE  /\ ViewOK' /\ table'.schema = table.schema
           /\ \A v \in Workers : v # w /\ exec[v].pc \in Staging /\ Owned(v) =>
                  table'.view = Stripped
<1>1. PICK view : view = IF Owned(w) THEN Missing ELSE Stripped
    OBVIOUS
<1>2. table' = [table EXCEPT !.view = view] /\ UNCHANGED <<dataset, imports, rows>>
    BY <1>1 DEF DropView
<1>3. view \in Stripped .. MaxImports
    BY <1>1, Bounds DEF Missing, Stripped
<1>4. /\ table' \in [schema : 0 .. MaxImports, view : Stripped .. MaxImports]
      /\ table'.schema = table.schema /\ table'.view = view
    BY <1>2, <1>3 DEF IInv, ViewOK
<1>5. dataset.generation # None => view = Stripped
    <2>1. exec[w].pc \in Rebuilding => dataset.generation = None
        BY DEF IInv, WorkersOK, LockOK
    <2> QED BY <1>1, <2>1, Ensuring DEF IInv
<1>6. View' = View
    BY <1>2 DEF View
<1>7. ViewOK'
    BY <1>2, <1>4, <1>5, <1>6 DEF IInv, ViewOK, ViewMatchesCount
<1>8. ASSUME NEW v \in Workers, v # w, exec[v].pc \in Staging, Owned(v) PROVE view = Stripped
    <2>1. exec[v].pc # "idle" /\ exec[w].pc # "idle"
        BY <1>8 DEF Staging, Held, Rebuilding
    <2> QED BY <1>1, <1>8, <2>1, OneOwner DEF IInv
<1> QED BY <1>4, <1>7, <1>8

LEMMA EnsureDropViewStep ==
    ASSUME IInv, NEW w \in Workers, EnsureDropView(w) PROVE IInv'
<1>1. exec[w].pc = "dropView" /\ exec[w].pc \in Rebuilding /\ exec[w].pc \in Held
    BY DEF EnsureDropView, DropView, Held, Rebuilding
<1>2. Goto(w, "dropTable") /\ UNCHANGED <<dataset, imports, rows, lock, cleaner>>
    BY DEF EnsureDropView, DropView
<1>3. "dropTable" \in Rebuilding /\ "dropTable" \in Held
    BY DEF Rebuilding, Held
<1>4. PICK e \in ExecRecords : GoesOn(w, e, "dropTable")
    BY <1>2, <1>3, GotoType DEF IInv
<1>5. lock = w
    BY <1>1 DEF IInv, WorkersOK, LockOK
<1>6. ViewOK'
    BY <1>1, ViewDropped DEF EnsureDropView
<1>7. LockOK(w)' /\ StagingOK(w)'
    BY <1>1, <1>2, <1>3, <1>4, <1>5, StillLocked
<1> QED BY <1>1, <1>2, <1>3, <1>4, <1>5, <1>6, <1>7, Statement

LEMMA EnsureDropTableStep ==
    ASSUME IInv, NEW w \in Workers, EnsureDropTable(w) PROVE IInv'
<1>1. exec[w].pc = "dropTable" /\ exec[w].pc \in Rebuilding /\ exec[w].pc \in Held
    BY DEF EnsureDropTable, Held, Rebuilding
<1>2. /\ Goto(w, "create") /\ table' = [table EXCEPT !.schema = Missing] /\ rows' = {}
      /\ UNCHANGED <<dataset, imports, lock, cleaner>>
    BY DEF EnsureDropTable
<1>3. "create" \in Rebuilding /\ "create" \in Held
    BY DEF Rebuilding, Held
<1>4. PICK e \in ExecRecords : GoesOn(w, e, "create")
    BY <1>2, <1>3, GotoType DEF IInv
<1>5. lock = w /\ dataset.generation = None
    BY <1>1 DEF IInv, WorkersOK, LockOK
<1>6. ViewOK'
    <2>1. View = {} /\ View' = {}
        BY <1>2, <1>5, NothingShown DEF IInv, View
    <2>2. table' \in [schema : 0 .. MaxImports, view : Stripped .. MaxImports]
        BY <1>2, Bounds DEF IInv, ViewOK, Missing
    <2> QED BY <1>2, <1>5, <2>1, <2>2 DEF IInv, ViewOK, ViewMatchesCount
<1>7. LockOK(w)' /\ StagingOK(w)'
    BY <1>1, <1>2, <1>3, <1>4, <1>5, StillLocked
<1> QED BY <1>1, <1>2, <1>3, <1>4, <1>5, <1>6, <1>7, Statement

LEMMA EnsureCreateStep ==
    ASSUME IInv, NEW w \in Workers, EnsureCreate(w) PROVE IInv'
<1>1. exec[w].pc = "create" /\ exec[w].pc \in Rebuilding /\ exec[w].pc \in Held
    BY DEF EnsureCreate, Held, Rebuilding
<1>2. PICK sch : sch = exec[w].schema
    OBVIOUS
<1>3. /\ Goto(w, "exact") /\ table' = [table EXCEPT !.schema = sch]
      /\ UNCHANGED <<dataset, imports, rows, lock, cleaner>>
    BY <1>2 DEF EnsureCreate
<1>4. "exact" \notin Rebuilding /\ "exact" \in Held
    BY DEF Rebuilding, Held
<1>5. PICK e \in ExecRecords : GoesOn(w, e, "exact")
    BY <1>3, <1>4, GotoType DEF IInv
<1>6. lock = w /\ dataset.generation = None
    BY <1>1 DEF IInv, WorkersOK, LockOK
<1>7. /\ table' \in [schema : 0 .. MaxImports, view : Stripped .. MaxImports]
      /\ table'.schema = sch
    BY <1>2, <1>3 DEF IInv, ViewOK, WorkersOK, ExecRecords
<1>8. ViewOK'
    <2>1. View' = View
        BY <1>3 DEF View
    <2> QED BY <1>3, <1>6, <1>7, <2>1 DEF IInv, ViewOK, ViewMatchesCount
<1>9. LockOK(w)' /\ StagingOK(w)'
    BY <1>1, <1>2, <1>3, <1>4, <1>5, <1>6, <1>7, StillLocked
<1> QED BY <1>1, <1>3, <1>4, <1>5, <1>6, <1>8, <1>9, Statement

LEMMA EnsureExactStep ==
    ASSUME IInv, NEW w \in Workers, EnsureExact(w) PROVE IInv'
<1>1. PICK pc \in {"oldView", "stage", "failing"} :
          pc = IF exec[w].status = "provisioning"
               THEN IF resetAllowed(exec[w].job) THEN "oldView" ELSE "failing"
               ELSE IF table.view = exec[w].schema THEN "stage" ELSE "failing"
    OBVIOUS
<1>2. /\ exec[w].pc = "exact" /\ GotoOrFail(w, pc)
      /\ lock' = IF pc = "oldView" THEN w ELSE NoWorker
      /\ UNCHANGED <<dataset, imports, table, rows, cleaner>>
    BY <1>1 DEF EnsureExact
<1>3. exec[w].pc \in Held /\ exec[w].pc \notin Rebuilding
    BY <1>2 DEF Held, Rebuilding
<1>4. lock = w /\ table.schema = exec[w].schema
    BY <1>3 DEF IInv, WorkersOK, LockOK
<1>5. lock' \in Workers \cup {NoWorker} /\ \A v \in Workers \ {w} : lock = v => lock' = lock
    BY <1>2, <1>4
<1>6. CASE pc = "failing"
    BY <1>2, <1>5, <1>6, GivesUp DEF GotoOrFail, Becomes
<1>7. CASE pc # "failing"
    <2>1. /\ Goto(w, pc) /\ pc \in Held \cup {"stage"} /\ pc \in Held \cup Staging
          /\ pc \notin Rebuilding
        BY <1>1, <1>2, <1>7 DEF GotoOrFail, Held, Rebuilding, Staging
    <2>2. PICK e \in ExecRecords : GoesOn(w, e, pc)
        BY <2>1, GotoType DEF IInv
    <2>3. ViewOK'
        BY <1>2, ViewStays DEF IInv
    <2>4. LockOK(w)' /\ StagingOK(w)'
        <3>1. CASE pc = "oldView"
            <4>1. exec[w].status = "provisioning" /\ lock' = w /\ pc \in Held
                BY <1>1, <1>2, <3>1 DEF Held
            <4> QED BY <1>2, <1>3, <1>4, <2>1, <2>2, <4>1, StillLocked
        <3>2. CASE pc = "stage"
            <4>1. dataset.generation # None
                BY <1>1, <1>3, <3>2, Ensuring DEF IInv
            <4>2. table.schema = dataset.schema /\ table.view \in {dataset.schema, Stripped}
                BY <4>1 DEF IInv, ViewOK, ViewMatchesCount
            <4> QED BY <1>2, <1>3, <2>2, <3>2, <4>2, StartsStaging
        <3> QED BY <1>1, <1>7, <3>1, <3>2
    <2> QED BY <1>2, <1>3, <1>5, <2>1, <2>2, <2>3, <2>4, Statement
<1> QED BY <1>6, <1>7

LEMMA EnsureOldViewStep ==
    ASSUME IInv, NEW w \in Workers, EnsureOldView(w) PROVE IInv'
<1>1. exec[w].pc = "oldView" /\ exec[w].pc \notin Rebuilding /\ exec[w].pc \in Held
    BY DEF EnsureOldView, DropView, Held, Rebuilding
<1>2. Goto(w, "newView") /\ UNCHANGED <<dataset, imports, rows, lock, cleaner>>
    BY DEF EnsureOldView, DropView
<1>3. "newView" \notin Rebuilding /\ "newView" \in Held
    BY DEF Rebuilding, Held
<1>4. PICK e \in ExecRecords : GoesOn(w, e, "newView")
    BY <1>2, <1>3, GotoType DEF IInv
<1>5. lock = w /\ table.schema = exec[w].schema /\ exec[w].status = "provisioning"
    BY <1>1 DEF IInv, WorkersOK, LockOK
<1>6. /\ ViewOK' /\ table'.schema = table.schema
      /\ \A v \in Workers : v # w /\ exec[v].pc \in Staging /\ Owned(v) => table'.view = Stripped
    BY <1>1, <1>5, ViewDropped DEF EnsureOldView
<1>7. LockOK(w)' /\ StagingOK(w)'
    BY <1>1, <1>2, <1>3, <1>4, <1>5, <1>6, StillLocked
<1> QED BY <1>1, <1>2, <1>3, <1>4, <1>5, <1>6, <1>7, Statement

LEMMA EnsureNewViewStep ==
    ASSUME IInv, NEW w \in Workers, EnsureNewView(w) PROVE IInv'
<1>1. exec[w].pc = "newView" /\ exec[w].pc \notin Rebuilding /\ exec[w].pc \in Held
    BY DEF EnsureNewView, Held, Rebuilding
<1>2. PICK sch : sch = exec[w].schema
    OBVIOUS
<1>3. /\ Goto(w, "stage") /\ table' = [table EXCEPT !.view = sch] /\ lock' = NoWorker
      /\ UNCHANGED <<dataset, imports, rows, cleaner>>
    BY <1>2 DEF EnsureNewView
<1>4. "stage" \in Staging /\ "stage" \notin Rebuilding
    BY DEF Staging, Rebuilding
<1>5. PICK e \in ExecRecords : GoesOn(w, e, "stage")
    BY <1>3, <1>4, GotoType DEF IInv
<1>6. table.schema = sch
    BY <1>1, <1>2 DEF IInv, WorkersOK, LockOK
<1>7. /\ table' \in [schema : 0 .. MaxImports, view : Stripped .. MaxImports]
      /\ table'.schema = sch /\ table'.view = sch
    BY <1>3, <1>6 DEF IInv, ViewOK, Stripped
<1>8. ViewOK'
    <2>1. View' = View
        BY <1>3 DEF View
    <2> QED BY <1>3, <1>6, <1>7, <2>1 DEF IInv, ViewOK, ViewMatchesCount
<1>9. Owned(w) => sch = dataset.schema
    <2>1. exec[w].job \in Imports /\ exec[w].schema = imports[exec[w].job].schema
        BY <1>1, Ensuring DEF IInv
    <2> QED BY <1>2, <2>1 DEF Owned, IInv, TablesOK, ImportOK, Active
<1>10. LockOK(w)' /\ StagingOK(w)'
    BY <1>1, <1>3, <1>5, <1>7, <1>9, StartsStaging
<1>11. \A v \in Workers : exec[v].pc \in Staging /\ Owned(v) => sch = dataset.schema
    BY <1>6, OwnerHasTable DEF IInv
<1> QED BY <1>1, <1>3, <1>4, <1>5, <1>6, <1>7, <1>8, <1>10, <1>11, Statement

-----------------------------------------------------------------------------
(* Staging *)

\* A row of an attempt that is not the published one is not shown.
LEMMA InsertedUnseen ==
    ASSUME IInv, NEW w \in Workers, Insert(w) PROVE View' = View
<1>1. PICK n : n = exec[w].staged + 1
    OBVIOUS
<1>2. /\ exec[w].pc = "stage" /\ UNCHANGED <<dataset, imports>>
      /\ rows' = rows \/ rows' = rows \cup {Staged(w, n)}
    BY <1>1 DEF Insert
<1>3. ~(imports[exec[w].job].status = "succeeded"
        /\ imports[exec[w].job].published = exec[w].attempt)
    BY <1>2 DEF IInv, WorkersOK, AttemptOK
<1>4. Staged(w, n).import = exec[w].job /\ Staged(w, n).attempt = exec[w].attempt
    BY DEF Staged
<1> QED BY <1>2, <1>3, <1>4 DEF View

LEMMA InsertStep ==
    ASSUME IInv, NEW w \in Workers, Insert(w) PROVE IInv'
<1>1. PICK n : n = exec[w].staged + 1
    OBVIOUS
<1>2. PICK full \in BOOLEAN : full <=> /\ imports[exec[w].job].mode = "append"
                                      /\ exec[w].shown + n > MaxDataRows
    OBVIOUS
<1>3. /\ exec[w].pc = "stage" /\ n <= imports[exec[w].job].size
      /\ rows' = IF full THEN rows ELSE rows \cup {Staged(w, n)}
      /\ exec' = [exec EXCEPT ![w] =
             IF full THEN Failing(w) ELSE [exec[w] EXCEPT !.pc = "progress", !.staged = n]]
      /\ UNCHANGED <<dataset, imports, table, lock, cleaner>>
    BY <1>1, <1>2 DEF Insert, Becomes
<1>4. CASE full
    BY <1>3, <1>4, GivesUp DEF IInv, WorkersOK
<1>5. CASE ~full
    <2>1. PICK r : r = Staged(w, n)
        OBVIOUS
    <2>2. exec[w] \in ExecRecords /\ exec \in [Workers -> ExecRecords] /\ AttemptOK(w)
        BY DEF IInv, WorkersOK
    <2>3. /\ exec[w].job \in Submitted /\ exec[w].job \in Imports
          /\ exec[w].attempt \in 1 .. imports[exec[w].job].attempt
          /\ ~(imports[exec[w].job].status = "succeeded"
                /\ imports[exec[w].job].published = exec[w].attempt)
        BY <1>3, <2>2 DEF AttemptOK, Submitted
    <2>4. imports[exec[w].job] \in ImportRecords /\ exec[w].attempt \in Nat
        BY <2>2, <2>3 DEF IInv, TablesOK, Types, ExecRecords
    <2>5. n \in 1 .. FileRows /\ n \in 0 .. FileRows /\ exec[w].staged \in Nat
        BY <1>1, <1>3, <2>2, <2>4, Bounds DEF ExecRecords, ImportRecords
    <2>6. /\ r \in [import : Imports, attempt : Nat, record : Records]
          /\ r.import = exec[w].job /\ r.attempt = exec[w].attempt /\ r.record = n
        BY <2>1, <2>3, <2>4, <2>5 DEF Staged, Records
    <2>7. rows' = rows \cup {r}
        BY <1>3, <1>5, <2>1
    <2>8. TablesOK'
        <3>1. Types'
            BY <1>3, <2>6, <2>7 DEF IInv, TablesOK, Types
        <3>2. RowsOK'
            BY <1>3, <2>3, <2>6, <2>7 DEF IInv, TablesOK, RowsOK, Submitted
        <3> QED BY <1>3, <3>1, <3>2 DEF IInv, TablesOK, Numbered, ImportOK, OneActive,
                GenerationOK, CleanerOK, Submitted, ActiveImports, Succeeded
    <2>9. View' = View
        BY InsertedUnseen
    <2>10. ViewOK'
        BY <1>3, <2>9 DEF IInv, ViewOK, ViewMatchesCount
    <2> DEFINE e == [exec[w] EXCEPT !.pc = "progress", !.staged = n]
    <2>11. exec' = [exec EXCEPT ![w] = e]
        BY <1>3, <1>5
    <2>12. /\ e \in ExecRecords /\ e.pc = "progress" /\ e.job = exec[w].job /\ e.staged = n
           /\ e.attempt = exec[w].attempt /\ e.status = exec[w].status
           /\ e.schema = exec[w].schema
        BY <2>2, <2>5 DEF ExecRecords, Staging
    <2> HIDE DEF e
    <2>13. exec'[w] = e /\ \A v \in Workers \ {w} : exec'[v] = exec[v]
        BY <2>2, <2>11
    <2>14. AttemptOK(w)'
        <3>1. \A q \in rows' : q.import = exec[w].job /\ q.attempt = exec[w].attempt =>
                  q.record <= n
            <4> SUFFICES ASSUME NEW q \in rows, q.import = exec[w].job, q.attempt = exec[w].attempt
                         PROVE  q.record <= n
                BY <2>5, <2>6, <2>7
            <4>1. q.record <= exec[w].staged /\ q.record \in Nat
                BY <1>3, <2>2 DEF AttemptOK, IInv, TablesOK, Types, Records
            <4> QED BY <1>1, <2>5, <4>1
        <3> QED BY <1>3, <2>2, <2>3, <2>12, <2>13, <3>1 DEF AttemptOK, Submitted, Held, Rebuilding
    <2>15. LockOK(w)'
        BY <2>12, <2>13 DEF LockOK, Held, Rebuilding
    <2>16. StagingOK(w)'
        <3> SUFFICES ASSUME Owned(w)' PROVE StagingOK(w)'
            BY DEF StagingOK
        <3>1. Owned(w)
            BY <1>3, <2>12, <2>13 DEF Owned
        <3>2. StagingOK(w) /\ exec[w].pc \in Staging
            BY <1>3 DEF IInv, WorkersOK, Staging
        <3>3. \A m : Staged(w, m)' = Staged(w, m)
            BY <2>12, <2>13 DEF Staged
        <3>4. \A m \in 1 .. n : m \in 1 .. exec[w].staged \/ m = n
            BY <1>1, <2>5
        <3>5. \A m \in 1 .. n : Staged(w, m) \in rows'
            BY <2>1, <2>7, <3>1, <3>2, <3>4 DEF StagingOK
        <3>6. \A u \in Workers : exec'[u].pc \notin Rebuilding
            BY <2>12, <2>13, <3>1, <3>2 DEF StagingOK, Rebuilding
        <3> QED BY <1>3, <2>12, <2>13, <3>1, <3>2, <3>3, <3>5, <3>6 DEF StagingOK
    <2>17. \A v \in Workers \ {w} : Undisturbed(v)
        <3> SUFFICES ASSUME NEW v \in Workers \ {w} PROVE Undisturbed(v)
            OBVIOUS
        <3>1. exec[v].pc # "idle" => exec[v].job \in Submitted /\
                  imports[exec[v].job].attempt \in Nat
            BY DEF IInv, WorkersOK, AttemptOK, Submitted, TablesOK, Types, ImportRecords
        <3>2. Submitted' = Submitted /\ (Owned(v)' <=> Owned(v))
            BY <1>3, <2>13 DEF Submitted, Owned
        <3>3. exec[v].pc \in Rebuilding => dataset.generation = None
            BY DEF IInv, WorkersOK, LockOK
        <3>4. exec[v].pc # "idle" =>
                  ~(exec[v].job = exec[w].job /\ exec[v].attempt = exec[w].attempt)
            BY <1>3 DEF IInv, WorkersOK, OneWorker
        <3>5. \A u \in Workers : exec'[u].pc \in Rebuilding =>
                  exec[u].pc \in Rebuilding
            BY <2>12, <2>13 DEF Rebuilding
        <3> QED BY <1>3, <2>6, <2>7, <2>13, <3>1, <3>2, <3>3, <3>4, <3>5 DEF Undisturbed
    <2>18. Continues(w) /\ lock' \in Workers \cup {NoWorker}
        BY <1>3, <2>12, <2>13 DEF Continues, IInv, WorkersOK
    <2>19. WorkersOK'
        BY <2>8, <2>11, <2>12, <2>14, <2>15, <2>16, <2>17, <2>18, OneWorks DEF IInv, TablesOK
    <2> QED BY <2>8, <2>10, <2>19 DEF IInv
<1> QED BY <1>4, <1>5

LEMMA ProgressStep ==
    ASSUME IInv, NEW w \in Workers, Progress(w) PROVE IInv'
<1>1. PICK all \in BOOLEAN : all <=> exec[w].staged = imports[exec[w].job].size
    OBVIOUS
<1>2. PICK pc \in {"publish", "stage"} : pc = IF all THEN "publish" ELSE "stage"
    OBVIOUS
<1>3. /\ exec[w].pc \in {"progress", "stage"}
      /\ UNCHANGED <<dataset, imports, table, rows, lock, cleaner>>
      /\ exec' = [exec EXCEPT ![w] = IF ~Owned(w) THEN Idle ELSE [exec[w] EXCEPT !.pc = pc]]
    BY <1>1, <1>2 DEF Progress, Goto, Becomes
<1>4. CASE ~Owned(w)
    BY <1>3, <1>4, GivesUp DEF IInv, WorkersOK
<1>5. CASE Owned(w)
    <2>1. Goto(w, pc)
        BY <1>3, <1>5 DEF Goto, Becomes
    <2>2. PICK e \in ExecRecords :
               /\ exec' = [exec EXCEPT ![w] = e] /\ exec'[w] = e
               /\ e.pc = pc /\ e.job = exec[w].job /\ e.attempt = exec[w].attempt
               /\ e.status = exec[w].status /\ e.schema = exec[w].schema
               /\ e.staged = exec[w].staged
               /\ \A v \in Workers : v # w => exec'[v] = exec[v]
        BY <2>1, GotoType DEF IInv, Staging, GoesOn
    <2>3. AttemptOK(w)'
        BY <1>1, <1>2, <1>3, <2>2 DEF IInv, WorkersOK, AttemptOK, Held,
           Rebuilding, Submitted
    <2>4. LockOK(w)'
        BY <2>2 DEF LockOK, Held, Rebuilding
    <2>5. StagingOK(w)'
        <3>1. StagingOK(w) /\ exec[w].pc \in Staging /\ \A n : Staged(w, n)' = Staged(w, n)
            BY <1>3, <2>2 DEF IInv, WorkersOK, Staging, Staged
        <3>2. \A u \in Workers : exec'[u].pc \notin Rebuilding
            BY <1>5, <2>2, <3>1 DEF StagingOK, Rebuilding
        <3> QED BY <1>3, <1>5, <2>2, <3>1, <3>2 DEF StagingOK
    <2>6. lock' \in Workers \cup {NoWorker}
        BY <1>3 DEF IInv, WorkersOK
    <2> QED BY <1>3, <2>2, <2>3, <2>4, <2>5, <2>6, ExecOnly DEF Rebuilding
<1> QED BY <1>4, <1>5

-----------------------------------------------------------------------------
(* Publication *)

\* The transaction of Publish that goes through.
Publishes(w) ==
    LET i == exec[w].job IN
    /\ exec[w].pc = "publish" /\ Owned(w) /\ imports[i].schema = dataset.schema
    /\ imports[i].mode = "append" =>
           /\ dataset.generation = imports[i].generation /\ dataset.status = "active"
           /\ dataset.rows <= MaxDataRows - imports[i].size
    /\ imports' = [imports EXCEPT ![i].status = "succeeded", ![i].fresh = TRUE,
                                  ![i].published = imports[i].attempt]
    /\ dataset' = PublishedDataset(i)
    /\ UNCHANGED <<table, rows, lock, cleaner>>

LEMMA PublishCases ==
    ASSUME IInv, NEW w \in Workers, Publish(w)
    PROVE  \E e \in {Idle, Failing(w)} :
               /\ exec' = [exec EXCEPT ![w] = e] /\ exec[w].pc = "publish"
               /\ \/ Publishes(w)
                  \/ UNCHANGED <<dataset, imports, table, rows, lock, cleaner>>
<1>1. exec[w].job \in Imports
    BY DEF Publish, IInv, WorkersOK, AttemptOK, Submitted
<1>2. dataset.rows \in Int /\ MaxDataRows - imports[exec[w].job].size \in Int
    BY <1>1, Bounds DEF IInv, TablesOK, Types, DatasetRecords, ImportRecords
<1>3. ~(dataset.rows > MaxDataRows - imports[exec[w].job].size) =>
          dataset.rows <= MaxDataRows - imports[exec[w].job].size
    BY <1>2
<1> QED BY <1>3 DEF Publish, Publishes, mayPublish, Becomes

\* What the import becomes.
LEMMA PublishedImport ==
    ASSUME IInv, NEW w \in Workers, Publishes(w), NEW i, i = exec[w].job
    PROVE  /\ i \in Submitted /\ i \in Imports /\ ActiveImports = {i}
           /\ imports' \in [Imports -> ImportRecords]
           /\ imports'[i].status = "succeeded" /\ imports'[i].published = exec[w].attempt
           /\ imports'[i].attempt = imports[i].attempt /\ imports'[i].mode = imports[i].mode
           /\ imports'[i].schema = imports[i].schema /\ imports'[i].size = imports[i].size
           /\ imports'[i].generation = imports[i].generation
           /\ exec[w].attempt \in 1 .. imports[i].attempt /\ imports[i].status = "running"
           /\ \A j \in Imports : j # i => imports'[j] = imports[j]
<1>1. /\ i \in Submitted /\ i \in Imports /\ imports[i].status = "running"
      /\ imports[i].attempt = exec[w].attempt /\ exec[w].attempt \in 1 .. imports[i].attempt
    BY DEF Publishes, Owned, IInv, WorkersOK, AttemptOK, Submitted
<1>2. PICK a : a = imports[i].attempt
    OBVIOUS
<1> DEFINE new == [imports[i] EXCEPT !.status = "succeeded", !.fresh = TRUE, !.published = a]
<1>3. imports[i] \in ImportRecords /\ imports \in [Imports -> ImportRecords] /\ a \in Nat
    BY <1>1, <1>2 DEF IInv, TablesOK, Types, ImportRecords
<1>4. /\ new \in ImportRecords /\ new.status = "succeeded" /\ new.published = a
      /\ new.attempt = imports[i].attempt /\ new.mode = imports[i].mode
      /\ new.schema = imports[i].schema /\ new.size = imports[i].size
      /\ new.generation = imports[i].generation
    BY <1>3 DEF ImportRecords
<1>5. imports' = [imports EXCEPT ![i] = new]
    BY <1>2 DEF Publishes
<1> HIDE DEF new
<1>6. /\ imports' \in [Imports -> ImportRecords] /\ imports'[i] = new
      /\ \A j \in Imports : j # i => imports'[j] = imports[j]
    BY <1>1, <1>3, <1>4, <1>5
<1>7. ActiveImports = {i}
    BY <1>1 DEF IInv, TablesOK, OneActive, ActiveImports, Active
<1> QED BY <1>1, <1>2, <1>4, <1>6, <1>7

LEMMA DatasetPublished ==
    ASSUME IInv, NEW w \in Workers, Publishes(w), NEW i, i = exec[w].job
    PROVE  /\ dataset' \in DatasetRecords /\ dataset'.status = "active"
           /\ dataset'.schema = dataset.schema
           /\ dataset'.generation = imports[i].generation
           /\ dataset'.rows = IF imports[i].mode = "replace" THEN imports[i].size
                              ELSE dataset.rows + imports[i].size
           /\ dataset.schema >= 1
<1>1. /\ i \in Imports /\ i \in Submitted /\ ImportOK(i) /\ dataset \in DatasetRecords
      /\ imports[i] \in ImportRecords
    BY PublishedImport DEF IInv, TablesOK, Types
<1>2. PICK n : n = IF imports[i].mode = "replace" THEN imports[i].size
                   ELSE dataset.rows + imports[i].size
    OBVIOUS
<1>3. PICK g : g = imports[i].generation
    OBVIOUS
<1>4. imports[i].mode \in {"replace", "append"} /\ imports[i].size \in 0 .. FileRows
    BY <1>1 DEF ImportOK, Submitted, ImportRecords
<1>5. n \in 0 .. MaxDataRows
    BY <1>1, <1>2, <1>4, Bounds DEF Publishes, DatasetRecords
<1>6. (IF imports[i].mode = "replace" THEN 0 ELSE dataset.rows) + imports[i].size = n
    BY <1>2, <1>4
<1> DEFINE new == [dataset EXCEPT !.status = "active", !.generation = g, !.rows = n]
<1>7. dataset' = new
    BY <1>3, <1>6 DEF Publishes, PublishedDataset
<1>8. g \in 0 .. MaxImports
    BY <1>1, <1>3 DEF ImportRecords
<1>9. /\ new \in DatasetRecords /\ new.status = "active" /\ new.schema = dataset.schema
      /\ new.generation = g /\ new.rows = n
    BY <1>1, <1>5, <1>8 DEF DatasetRecords
<1>10. dataset.schema >= 1
    BY <1>1 DEF ImportOK, Submitted, Publishes
<1> QED BY <1>2, <1>3, <1>5, <1>7, <1>9, <1>10

\* Nobody else has a generation that is only now beginning.
LEMMA OwnGeneration ==
    ASSUME IInv, NEW i \in Imports, imports[i].status \in Active,
           NEW j \in Submitted, imports[j].generation = i
    PROVE  j = i
<1>1. ImportOK(j) /\ imports[j].mode \in {"replace", "append"} /\ i \notin Succeeded
    BY DEF IInv, TablesOK, Types, ImportRecords, Submitted, Succeeded, Active
<1> QED BY <1>1 DEF ImportOK, Submitted

LEMMA TablesPublished ==
    ASSUME IInv, NEW w \in Workers, Publishes(w) PROVE TablesOK'
<1>1. PICK i : i = exec[w].job
    OBVIOUS
<1>2. /\ i \in Submitted /\ i \in Imports /\ ActiveImports = {i}
      /\ imports' \in [Imports -> ImportRecords]
      /\ imports'[i].status = "succeeded" /\ imports'[i].published = exec[w].attempt
      /\ imports'[i].attempt = imports[i].attempt /\ imports'[i].mode = imports[i].mode
      /\ imports'[i].schema = imports[i].schema /\ imports'[i].size = imports[i].size
      /\ imports'[i].generation = imports[i].generation
      /\ exec[w].attempt \in 1 .. imports[i].attempt /\ imports[i].status = "running"
      /\ \A j \in Imports : j # i => imports'[j] = imports[j]
    BY <1>1, PublishedImport
<1>3. /\ dataset' \in DatasetRecords /\ dataset'.status = "active"
      /\ dataset'.schema = dataset.schema
      /\ dataset'.generation = imports[i].generation
      /\ dataset.schema >= 1
    BY <1>1, DatasetPublished
<1>4. UNCHANGED <<rows, cleaner>>
    BY DEF Publishes
<1>5. /\ Submitted' = Submitted /\ Succeeded' = Succeeded \cup {i} /\ ActiveImports' = {}
    BY <1>2 DEF Submitted, Succeeded, ActiveImports, Active
<1>6. imports[i].generation \in Succeeded'
    BY <1>2, <1>5 DEF IInv, TablesOK, Types, ImportRecords, ImportOK, Submitted
<1>7. Types' /\ Numbered' /\ OneActive'
    BY <1>2, <1>3, <1>4, <1>5 DEF IInv, TablesOK, Types, Numbered, OneActive
<1>8. \A j \in Imports : ImportOK(j)'
    <2> SUFFICES ASSUME NEW j \in Imports PROVE ImportOK(j)'
        OBVIOUS
    <2>1. ImportOK(j)
        BY DEF IInv, TablesOK
    <2>2. CASE j = i
        BY <1>2, <1>5, <2>1, <2>2 DEF ImportOK, Active
    <2>3. CASE j # i
        BY <1>2, <1>5, <2>1, <2>3 DEF ImportOK, ActiveImports
    <2> QED BY <2>2, <2>3
<1>9. GenerationOK'
    <2>1. imports[i].generation # None
        BY <1>6, Bounds DEF Succeeded, Imports, None
    <2> QED BY <1>3, <1>6, <2>1 DEF GenerationOK
<1>10. RowsOK'
    BY <1>2, <1>4, <1>5 DEF IInv, TablesOK, Types, RowsOK
<1>11. CleanerOK'
    <2> SUFFICES ASSUME NEW item \in cleaner
                 PROVE  /\ item.import \in Submitted' \ ActiveImports'
                        /\ item.published = imports'[item.import].published
                        /\ item.retired => imports'[item.import].generation # dataset'.generation
        BY <1>4 DEF CleanerOK
    <2>1. /\ item.import \in Submitted \ ActiveImports
          /\ item.published = imports[item.import].published
          /\ item.retired => imports[item.import].generation # dataset.generation
        BY DEF IInv, TablesOK, CleanerOK
    <2>2. item.import # i /\ item.import \in Imports
        BY <1>2, <2>1 DEF Submitted
    <2>3. item.retired => imports[item.import].generation # imports[i].generation
        <3>1. CASE imports[i].mode = "replace"
            <4>1. imports[i].generation = i
                BY <1>2, <3>1 DEF IInv, TablesOK, ImportOK
            <4> QED BY <1>2, <2>1, <2>2, <4>1, OwnGeneration DEF Active
        <3>2. CASE imports[i].mode = "append"
            BY <1>1, <2>1, <3>2 DEF Publishes
        <3> QED BY <1>2, <3>1, <3>2 DEF IInv, TablesOK, Types, ImportRecords
    <2> QED BY <1>2, <1>3, <1>5, <2>1, <2>2, <2>3
<1> QED BY <1>7, <1>8, <1>9, <1>10, <1>11 DEF TablesOK

\* The file of an import, as its owner has staged it.
FileOf(w) == {r \in rows : r.import = exec[w].job /\ r.attempt = exec[w].attempt}

LEMMA FileStaged ==
    ASSUME IInv, NEW w \in Workers, exec[w].pc = "publish", Owned(w),
           NEW k, k = imports[exec[w].job].size
    PROVE  /\ FileOf(w) = {Staged(w, n) : n \in 1 .. k}
           /\ IsFiniteSet(FileOf(w)) /\ Cardinality(FileOf(w)) = k
<1>1. /\ exec[w].job \in Imports /\ exec[w].staged = k
      /\ \A r \in FileOf(w) : r.record <= k
    BY DEF IInv, WorkersOK, AttemptOK, Submitted, FileOf
<1>2. k \in 0 .. FileRows
    BY <1>1 DEF IInv, TablesOK, Types, ImportRecords
<1>3. \A n \in 1 .. k : Staged(w, n) \in rows
    BY <1>1 DEF IInv, WorkersOK, StagingOK, Staging
<1>4. \A n : /\ Staged(w, n).import = exec[w].job /\ Staged(w, n).attempt = exec[w].attempt
             /\ Staged(w, n).record = n
    BY DEF Staged
<1>5. \A r \in FileOf(w) : r.record \in 1 .. k /\ r = Staged(w, r.record)
    <2> SUFFICES ASSUME NEW r \in FileOf(w) PROVE r.record \in 1 .. k /\ r = Staged(w, r.record)
        OBVIOUS
    <2>1. r \in [import : Imports, attempt : Nat, record : Records]
        BY DEF FileOf, IInv, TablesOK, Types
    <2>2. r.record \in 1 .. k
        BY <1>1, <1>2, <2>1, Bounds DEF Records
    <2> QED BY <2>1, <2>2 DEF FileOf, Staged
<1>6. FileOf(w) = {Staged(w, n) : n \in 1 .. k}
    BY <1>3, <1>4, <1>5 DEF FileOf
<1> DEFINE f == [n \in 1 .. k |-> Staged(w, n)]
<1>7. f \in Bijection(1 .. k, FileOf(w))
    <2>1. f \in [1 .. k -> FileOf(w)]
        BY <1>6
    <2>2. \A m, n \in 1 .. k : f[m] = f[n] => m = n
        BY <1>4
    <2>3. \A r \in FileOf(w) : \E n \in 1 .. k : f[n] = r
        BY <1>6
    <2> QED BY <2>1, <2>2, <2>3, Fun_IsBij
<1>8. IsFiniteSet(1 .. k) /\ Cardinality(1 .. k) = k
    BY <1>2, CountedUp
<1>9. ExistsBijection(1 .. k, FileOf(w))
    BY <1>7 DEF ExistsBijection
<1> QED BY <1>6, <1>8, <1>9, FS_Bijection

\* A replacement shows its own file and nothing else; an append adds its file.
LEMMA ViewPublished ==
    ASSUME IInv, NEW w \in Workers, Publishes(w), NEW i, i = exec[w].job
    PROVE  /\ imports[i].mode = "replace" => View' = FileOf(w)
           /\ imports[i].mode = "append" => View' = View \cup FileOf(w)
           /\ View \cap FileOf(w) = {}
<1>2. /\ i \in Submitted /\ i \in Imports
      /\ imports'[i].status = "succeeded" /\ imports'[i].published = exec[w].attempt
      /\ imports'[i].generation = imports[i].generation /\ imports[i].status = "running"
      /\ \A j \in Imports : j # i => imports'[j] = imports[j]
    BY PublishedImport
<1>3. dataset'.generation = imports[i].generation
    BY DatasetPublished
<1>4. UNCHANGED rows /\ \A r \in rows : r.import \in Imports /\ r.import \in Submitted
    BY DEF Publishes, IInv, TablesOK, Types, RowsOK
<1>5. imports[i].mode = "replace" => View' = FileOf(w)
    <2> SUFFICES ASSUME imports[i].mode = "replace" PROVE View' = FileOf(w)
        OBVIOUS
    <2>1. imports[i].generation = i
        BY <1>2 DEF IInv, TablesOK, ImportOK
    <2>2. \A r \in rows : imports'[r.import].generation = i => r.import = i
        BY <1>2, <1>4, <2>1, OwnGeneration DEF Active
    <2> QED BY <1>2, <1>3, <1>4, <2>1, <2>2 DEF View, FileOf
<1>6. imports[i].mode = "append" => View' = View \cup FileOf(w)
    <2> SUFFICES ASSUME imports[i].mode = "append" PROVE View' = View \cup FileOf(w)
        OBVIOUS
    <2>1. dataset.generation = imports[i].generation
        BY DEF Publishes
    <2> QED BY <1>2, <1>3, <1>4, <2>1 DEF View, FileOf
<1>7. View \cap FileOf(w) = {}
    BY <1>2 DEF View, FileOf
<1> QED BY <1>5, <1>6, <1>7

LEMMA PublishStep ==
    ASSUME IInv, NEW w \in Workers, Publish(w) PROVE IInv'
<1>1. PICK e \in {Idle, Failing(w)} :
          /\ exec' = [exec EXCEPT ![w] = e] /\ exec[w].pc = "publish"
          /\ \/ Publishes(w)
             \/ UNCHANGED <<dataset, imports, table, rows, lock, cleaner>>
    BY PublishCases
<1>2. CASE UNCHANGED <<dataset, imports, table, rows, lock, cleaner>>
    BY <1>1, <1>2, GivesUp DEF IInv, WorkersOK
<1>3. CASE Publishes(w)
    <2>1. PICK i : i = exec[w].job
        OBVIOUS
    <2>2. /\ i \in Submitted /\ i \in Imports /\ ActiveImports = {i}
          /\ imports' \in [Imports -> ImportRecords]
          /\ imports'[i].status = "succeeded" /\ imports'[i].published = exec[w].attempt
          /\ imports'[i].attempt = imports[i].attempt
          /\ imports'[i].schema = imports[i].schema /\ imports'[i].size = imports[i].size
          /\ \A j \in Imports : j # i => imports'[j] = imports[j]
        BY <1>3, <2>1, PublishedImport
    <2>3. /\ dataset'.schema = dataset.schema
          /\ dataset'.rows = IF imports[i].mode = "replace" THEN imports[i].size
                             ELSE dataset.rows + imports[i].size
        BY <1>3, <2>1, DatasetPublished
    <2>4. TablesOK' /\ UNCHANGED <<table, rows, lock, cleaner>> /\ Owned(w)
        BY <1>3, TablesPublished DEF Publishes
    <2>5. /\ table.schema = dataset.schema /\ table.view \in {dataset.schema, Stripped}
          /\ \A u \in Workers : exec[u].pc \notin Rebuilding
        BY <1>1, <2>4, OwnerHasTable DEF IInv, Staging
    <2>6. ViewOK'
        <3>1. IsFiniteSet(FileOf(w)) /\ Cardinality(FileOf(w)) = imports[i].size
            BY <1>1, <2>1, <2>4, FileStaged
        <3>2. /\ IsFiniteSet(View) /\ Cardinality(View) = dataset.rows /\ View \cap FileOf(w) = {}
            BY <1>3, <2>1, ViewPublished DEF IInv, ViewOK, ViewMatchesCount
        <3>3. /\ IsFiniteSet(View \cup FileOf(w))
              /\ Cardinality(View \cup FileOf(w)) = dataset.rows + imports[i].size
            <4>1. dataset.rows \in Nat /\ imports[i].size \in Nat
                BY <2>2 DEF IInv, TablesOK, Types, DatasetRecords, ImportRecords
            <4>2. /\ IsFiniteSet(View \cup FileOf(w))
                  /\ Cardinality(View \cup FileOf(w)) = Cardinality(View)
                         + Cardinality(FileOf(w)) - Cardinality(View \cap FileOf(w))
                BY <3>1, <3>2, FS_Union
            <4>3. Cardinality(View \cap FileOf(w)) = 0
                BY <3>2, FS_EmptySet
            <4> QED BY <3>1, <3>2, <4>1, <4>2, <4>3
        <3>4. IsFiniteSet(View') /\ Cardinality(View') = dataset'.rows
            <4>1. imports[i].mode \in {"replace", "append"}
                BY <2>2 DEF IInv, TablesOK, Types, ImportRecords
            <4> QED BY <1>3, <2>1, <2>3, <3>1, <3>3, <4>1, ViewPublished
        <3> QED BY <2>3, <2>4, <2>5, <3>4 DEF IInv, ViewOK, ViewMatchesCount
    <2>7. exec[w] \in ExecRecords /\ exec \in [Workers -> ExecRecords] /\ AttemptOK(w)
        BY DEF IInv, WorkersOK
    <2>8. /\ e \in ExecRecords
          /\ \/ e.pc = "idle"
             \/ /\ e.pc = "failing" /\ e.job = exec[w].job /\ e.attempt = exec[w].attempt
                /\ e.staged = 0
        BY <2>7, IdleType, FailingType
    <2>9. exec'[w] = e /\ \A v \in Workers \ {w} : exec'[v] = exec[v]
        BY <1>1, <2>7
    <2>10. LockOK(w)' /\ StagingOK(w)'
        BY <2>8, <2>9, Resting
    <2>11. Submitted' = Submitted
        BY <2>2 DEF Submitted
    <2>12. AttemptOK(w)'
        <3>1. imports[i].size >= 0
            BY <2>2 DEF IInv, TablesOK, Types, ImportRecords
        <3> QED BY <1>1, <2>1, <2>2, <2>7, <2>8, <2>9, <2>11, <3>1 DEF AttemptOK, Held, Rebuilding
    <2>13. Continues(w) /\ lock' \in Workers \cup {NoWorker}
        BY <1>1, <2>4, <2>8, <2>9 DEF Continues, IInv, WorkersOK
    <2>14. \A v \in Workers \ {w} : Undisturbed(v)
        <3> SUFFICES ASSUME NEW v \in Workers \ {w} PROVE Undisturbed(v)
            OBVIOUS
        <3>1. exec[v].pc # "idle" => /\ exec[v].job \in Submitted /\ exec[v].job \in Imports
                                     /\ imports[exec[v].job].attempt \in Nat
            BY DEF IInv, WorkersOK, AttemptOK, Submitted, TablesOK, Types, ImportRecords
        <3>2. exec[v].pc # "idle" /\ exec[v].job = i => exec[v].attempt # exec[w].attempt
            BY <1>1, <2>1 DEF IInv, WorkersOK, OneWorker
        <3>3. exec[v].pc # "idle" => ~Owned(v)'
            BY <2>2, <2>9, <3>1 DEF Owned, ActiveImports, Active
        <3>4. dataset'.generation # None
            BY <2>4, <1>3, DatasetPublished DEF TablesOK, GenerationOK
        <3>5. exec[v].pc # "idle" =>
                  /\ imports'[exec[v].job].schema = imports[exec[v].job].schema
                  /\ imports'[exec[v].job].size = imports[exec[v].job].size
                  /\ imports'[exec[v].job].attempt >= imports[exec[v].job].attempt
            BY <2>2, <3>1
        <3>6. exec[v].pc # "idle" /\ imports'[exec[v].job].published = exec[v].attempt =>
                  imports'[exec[v].job] = imports[exec[v].job]
            BY <2>2, <3>1, <3>2
        <3> QED BY <2>4, <2>5, <2>9, <2>11, <3>1, <3>3, <3>4, <3>5, <3>6 DEF Undisturbed, Staging
    <2>15. WorkersOK'
        BY <1>1, <2>4, <2>8, <2>10, <2>12, <2>13, <2>14, OneWorks DEF IInv, TablesOK
    <2> QED BY <2>4, <2>6, <2>15 DEF IInv
<1> QED BY <1>1, <1>2, <1>3

-----------------------------------------------------------------------------
(* Submission *)

\* While no import is under way, the dataset may move on.
LEMMA NobodyOwns ==
    ASSUME IInv, ActiveImports = {}, NEW v \in Workers, UNCHANGED <<rows, table, lock, exec>>,
           Submitted \subseteq Submitted', \A j \in Submitted : imports'[j] = imports[j],
           dataset'.generation = dataset.generation
    PROVE  Undisturbed(v)
<1>1. exec[v].pc # "idle" =>
          /\ exec[v].job \in Submitted /\ imports'[exec[v].job] = imports[exec[v].job]
          /\ exec[v].job \in Imports /\ imports[exec[v].job].attempt \in Nat
    BY DEF IInv, WorkersOK, AttemptOK, Submitted, TablesOK, Types, ImportRecords
<1>2. exec[v].pc # "idle" => ~Owned(v)'
    BY <1>1 DEF Owned, ActiveImports, Active
<1>3. exec[v].pc \in Rebuilding => dataset.generation = None
    BY DEF IInv, WorkersOK, LockOK
<1> QED BY <1>1, <1>2, <1>3 DEF Undisturbed, Staging

LEMMA Generations ==
    ASSUME TablesOK
    PROVE  /\ dataset.generation # None => dataset.generation \in Succeeded
           /\ dataset.status \in {"none", "provisioning"} =>
                  dataset.generation = None /\ Succeeded = {}
           /\ dataset.status = "active" => dataset.generation # None /\ dataset.schema >= 1
BY DEF TablesOK, GenerationOK

LEMMA SubmitStep ==
    ASSUME IInv, NEW mode \in {"replace", "append"}, NEW size \in 0 .. FileRows,
           Submit(mode, size)
    PROVE  /\ IInv' /\ View' = View
           /\ \E i \in Imports \ Submitted :
                  /\ imports' = [imports EXCEPT ![i] = imports'[i]] /\ imports'[i].size = size
                  /\ imports'[i].status = "queued"
<1>1. PICK k \in 0 .. MaxImports : Submitted = 1 .. k /\ dataset.schema <= k
    BY DEF IInv, TablesOK, Numbered
<1>2. PICK i : i = k + 1
    OBVIOUS
<1>3. Cardinality(Submitted) + 1 = i
    BY <1>1, <1>2, CountedUp
<1>4. PICK schema :
          schema = IF dataset.status = "active" THEN dataset.schema ELSE dataset.schema + 1
    OBVIOUS
<1>5. PICK newStatus :
          newStatus = IF dataset.status = "active" THEN dataset.status ELSE "provisioning"
    OBVIOUS
<1>6. PICK generation : generation = IF mode = "append" THEN dataset.generation ELSE i
    OBVIOUS
<1> DEFINE d == [dataset EXCEPT !.status = newStatus, !.schema = schema]
<1> DEFINE new == [NoImport EXCEPT !.status = "queued", !.mode = mode, !.schema = schema,
                      !.size = size, !.generation = generation]
<1>7. /\ i \in Imports /\ dataset.status \in {"none", "provisioning", "active"}
      /\ mode = "append" => dataset.status = "active"
      /\ ActiveImports = {}
      /\ dataset' = d /\ imports' = [imports EXCEPT ![i] = new]
      /\ UNCHANGED <<table, rows, lock, exec, cleaner>>
    BY <1>3, <1>4, <1>5, <1>6 DEF Submit, NoActiveImport
<1>8. dataset \in DatasetRecords /\ imports \in [Imports -> ImportRecords]
    BY DEF IInv, TablesOK, Types
<1>9. /\ schema \in 1 .. MaxImports /\ schema \in 0 .. MaxImports /\ schema <= i
      /\ i \in Nat \ {0} /\ i \notin Submitted /\ 1 .. i = (1 .. k) \cup {i}
      /\ i \in 0 .. MaxImports
    BY <1>1, <1>2, <1>4, <1>7, <1>8, Bounds, Generations DEF DatasetRecords, Imports, IInv
<1>10. /\ dataset.status # "active" => dataset.generation = None /\ Succeeded = {}
       /\ dataset.status = "active" => dataset.generation \in Succeeded
                                       /\ dataset.generation # None
    BY <1>7, Generations DEF IInv
<1>11. generation \in 0 .. MaxImports /\ (mode = "append" => generation \in Succeeded)
    BY <1>6, <1>7, <1>8, <1>9, <1>10 DEF DatasetRecords
<1>12. /\ new \in ImportRecords /\ new.status = "queued" /\ new.mode = mode
       /\ new.schema = schema /\ new.size = size /\ new.generation = generation
       /\ new.published = None
    <2>1. size \in 0 .. FileRows
        BY Bounds
    <2>2. NoImport \in ImportRecords /\ NoImport.published = None
        BY NoImportType DEF NoImport
    <2> QED BY <1>9, <1>11, <2>1, <2>2 DEF ImportRecords, Active
<1>13. /\ d \in DatasetRecords /\ d.status = newStatus /\ d.schema = schema
       /\ d.generation = dataset.generation /\ d.rows = dataset.rows
    BY <1>5, <1>8, <1>9 DEF DatasetRecords
<1> HIDE DEF d, new
<1>14. /\ imports' \in [Imports -> ImportRecords] /\ imports'[i] = new
       /\ \A j \in Imports : j # i => imports'[j] = imports[j]
    BY <1>7, <1>8, <1>12
<1>15. /\ Submitted' = Submitted \cup {i} /\ ActiveImports' = {i} /\ Succeeded' = Succeeded
    <2>1. imports[i].status = "none"
        BY <1>7, <1>9 DEF Submitted
    <2> QED BY <1>7, <1>12, <1>14, <2>1 DEF Submitted, ActiveImports, Succeeded, Active
<1>16. TablesOK'
    <2>1. Types' /\ OneActive'
        BY <1>7, <1>13, <1>14, <1>15 DEF IInv, TablesOK, Types, OneActive
    <2>2. Numbered'
        BY <1>1, <1>7, <1>9, <1>13, <1>15 DEF Numbered
    <2>3. \A j \in Imports : ImportOK(j)'
        <3> SUFFICES ASSUME NEW j \in Imports PROVE ImportOK(j)'
            OBVIOUS
        <3>1. CASE j = i
            BY <1>5, <1>6, <1>7, <1>9, <1>11, <1>12, <1>13, <1>14, <1>15, <3>1 DEF ImportOK, Active
        <3>2. CASE j # i
            BY <1>7, <1>14, <1>15, <3>2 DEF ImportOK, ActiveImports, IInv, TablesOK
        <3> QED BY <3>1, <3>2
    <2>4. GenerationOK'
        BY <1>5, <1>7, <1>9, <1>10, <1>13, <1>15 DEF GenerationOK, IInv, TablesOK
    <2>5. RowsOK'
        BY <1>7, <1>9, <1>14, <1>15 DEF RowsOK, IInv, TablesOK, Types
    <2>6. CleanerOK'
        BY <1>7, <1>9, <1>13, <1>14, <1>15 DEF CleanerOK, IInv, TablesOK, Types
    <2> QED BY <2>1, <2>2, <2>3, <2>4, <2>5, <2>6 DEF TablesOK
<1>17. View' = View
    BY <1>7, <1>9, <1>13, <1>14 DEF View, IInv, TablesOK, Types, RowsOK
<1>18. ViewOK'
    BY <1>4, <1>7, <1>10, <1>13, <1>17 DEF ViewOK, ViewMatchesCount, IInv
<1>19. \A v \in Workers : Undisturbed(v)
    <2>1. \A j \in Submitted : imports'[j] = imports[j]
        BY <1>9, <1>14 DEF Submitted
    <2> QED BY <1>7, <1>13, <1>15, <2>1, NobodyOwns
<1>20. WorkersOK'
    BY <1>7, <1>16, <1>19, NobodyWorks DEF IInv, TablesOK
<1>21. imports' = [imports EXCEPT ![i] = imports'[i]]
    BY <1>7, <1>14
<1> QED BY <1>7, <1>9, <1>12, <1>14, <1>16, <1>17, <1>18, <1>20, <1>21 DEF IInv

LEMMA ArchiveStep ==
    ASSUME IInv, Archive PROVE IInv' /\ View' = View
<1>1. /\ dataset.status \in {"provisioning", "active"} /\ ActiveImports = {}
      /\ dataset' = [dataset EXCEPT !.status = "archived"]
      /\ UNCHANGED <<imports, table, rows, lock, exec, cleaner>>
    BY DEF Archive
<1>2. /\ dataset' \in DatasetRecords /\ dataset'.status = "archived"
      /\ dataset'.schema = dataset.schema /\ dataset'.generation = dataset.generation
      /\ dataset'.rows = dataset.rows
    BY <1>1 DEF IInv, TablesOK, Types, DatasetRecords
<1>3. Submitted' = Submitted /\ ActiveImports' = {} /\ Succeeded' = Succeeded
    BY <1>1 DEF Submitted, ActiveImports, Succeeded
<1>4. TablesOK'
    <2>1. Types' /\ OneActive' /\ Numbered'
        BY <1>1, <1>2, <1>3 DEF IInv, TablesOK, Types, OneActive, Numbered
    <2>2. \A j \in Imports : ImportOK(j)'
        BY <1>1, <1>2, <1>3 DEF IInv, TablesOK, ImportOK, ActiveImports
    <2>3. GenerationOK'
        BY <1>1, <1>2, <1>3 DEF IInv, TablesOK, GenerationOK
    <2>4. RowsOK' /\ CleanerOK'
        BY <1>1, <1>2, <1>3 DEF IInv, TablesOK, RowsOK, CleanerOK
    <2> QED BY <2>1, <2>2, <2>3, <2>4 DEF TablesOK
<1>5. View' = View
    BY <1>1, <1>2 DEF View
<1>6. ViewOK'
    BY <1>1, <1>2, <1>5 DEF IInv, ViewOK, ViewMatchesCount
<1>7. \A v \in Workers : Undisturbed(v)
    BY <1>1, <1>2, <1>3, NobodyOwns
<1>8. WorkersOK'
    BY <1>1, <1>4, <1>7, NobodyWorks DEF IInv, TablesOK
<1> QED BY <1>4, <1>5, <1>6, <1>8 DEF IInv

-----------------------------------------------------------------------------
(* Cleanup *)

\* Rows of imports that are over may go, except those that are shown.
LEMMA CleanupKeeps ==
    ASSUME IInv, TablesOK', UNCHANGED <<dataset, imports, table, lock, exec>>,
           rows' \subseteq rows, View \subseteq rows',
           \A r \in rows : r.import \in ActiveImports => r \in rows'
    PROVE  IInv' /\ View' = View
<1>1. View' = View
    BY DEF View
<1>2. ViewOK'
    BY <1>1 DEF IInv, ViewOK, ViewMatchesCount
<1>3. ASSUME NEW v \in Workers PROVE Undisturbed(v)
    <2>1. exec[v].pc # "idle" => exec[v].job \in Submitted /\ imports[exec[v].job].attempt \in Nat
        BY DEF IInv, WorkersOK, AttemptOK, Submitted, TablesOK, Types, ImportRecords
    <2>2. Submitted' = Submitted /\ (Owned(v)' <=> Owned(v))
        BY DEF Submitted, Owned
    <2>3. exec[v].pc \in Rebuilding => dataset.generation = None
        BY DEF IInv, WorkersOK, LockOK
    <2>4. exec[v].pc \in Staging /\ Owned(v) =>
              \A n : Staged(v, n) \in rows => Staged(v, n) \in rows'
        BY OwnerHasTable DEF Staged, IInv
    <2> QED BY <2>1, <2>2, <2>3, <2>4 DEF Undisturbed
<1>4. WorkersOK'
    BY <1>3, NobodyWorks DEF IInv, TablesOK
<1> QED BY <1>1, <1>2, <1>4 DEF IInv

LEMMA CleanupCandidatesStep ==
    ASSUME IInv, NEW item, CleanupCandidates(item) PROVE IInv' /\ View' = View
<1>1. /\ item \in candidates /\ cleaner' = {item}
      /\ UNCHANGED <<dataset, imports, table, rows, lock, exec>>
    BY DEF CleanupCandidates
<1>2. PICK i \in Submitted :
          /\ imports[i].status \notin Active
          /\ item = [import |-> i, published |-> imports[i].published,
                     retired |-> imports[i].status = "succeeded"
                                 /\ imports[i].generation # dataset.generation]
    BY <1>1 DEF candidates
<1>3. i \in Imports /\ i \notin ActiveImports /\ imports[i].published \in Nat
    BY <1>2 DEF Submitted, ActiveImports, IInv, TablesOK, Types, ImportRecords
<1>4. /\ item.import = i /\ item.published = imports[i].published
      /\ item.retired => imports[i].generation # dataset.generation
      /\ item \in [import : Imports, published : Nat, retired : BOOLEAN]
    BY <1>2, <1>3
<1>5. TablesOK'
    <2>1. Types'
        BY <1>1, <1>4 DEF IInv, TablesOK, Types
    <2>2. CleanerOK'
        BY <1>1, <1>2, <1>3, <1>4 DEF CleanerOK, Submitted, ActiveImports
    <2> QED BY <1>1, <2>1, <2>2 DEF IInv, TablesOK, Numbered, ImportOK, OneActive,
                GenerationOK, RowsOK, Submitted, ActiveImports, Succeeded
<1> QED BY <1>1, <1>5, CleanupKeeps DEF View

LEMMA CleanupRowsStep ==
    ASSUME IInv, NEW item \in cleaner, CleanupRows(item) PROVE IInv' /\ View' = View
<1>1. /\ rows' = {r \in rows : r.import = item.import =>
                    ~item.retired /\ item.published # None /\ r.attempt = item.published}
      /\ cleaner' = {} /\ UNCHANGED <<dataset, imports, table, lock, exec>>
    BY DEF CleanupRows
<1>2. /\ item.import \notin ActiveImports /\ item.published = imports[item.import].published
      /\ item.retired => imports[item.import].generation # dataset.generation
    BY DEF IInv, TablesOK, CleanerOK
<1>3. \A r \in rows : r.attempt # None
    BY DEF IInv, TablesOK, Types, RowsOK, None, ImportRecords
<1>4. View \subseteq rows'
    BY <1>1, <1>2, <1>3 DEF View
<1>5. TablesOK'
    BY <1>1, TablesStay DEF IInv
<1> QED BY <1>1, <1>2, <1>4, <1>5, CleanupKeeps

LEMMA CleanupFailsStep ==
    ASSUME IInv, CleanupFails PROVE IInv' /\ View' = View
<1>1. TablesOK' /\ UNCHANGED <<dataset, imports, table, rows, lock, exec>>
    BY TablesStay DEF CleanupFails, IInv
<1> QED BY <1>1, CleanupKeeps DEF View

-----------------------------------------------------------------------------
(* The theorem *)

LEMMA InitHolds == Init => IInv
<1> SUFFICES ASSUME Init PROVE IInv
    OBVIOUS
<1>1. /\ dataset = [status |-> "none", schema |-> 0, generation |-> None, rows |-> 0]
      /\ imports = [i \in Imports |-> NoImport] /\ rows = {} /\ lock = NoWorker
      /\ table = [schema |-> Missing, view |-> Missing]
      /\ exec = [w \in Workers |-> Idle] /\ cleaner = {}
    BY DEF Init
<1>2. Submitted = {} /\ ActiveImports = {} /\ Succeeded = {} /\ View = {}
    BY <1>1, NoImportType DEF Submitted, ActiveImports, Succeeded, View, Active
<1>3. TablesOK
    <2>1. Types
        BY <1>1, NoImportType, Bounds DEF Types, DatasetRecords, None
    <2>2. Numbered
        <3>1. Submitted = 1 .. 0 /\ dataset.schema <= 0 /\ 0 \in 0 .. MaxImports
            BY <1>1, <1>2, Bounds
        <3> QED BY <3>1 DEF Numbered
    <2>3. \A i \in Imports : ImportOK(i)
        BY <1>1 DEF ImportOK, NoImport, Active, None
    <2>4. OneActive /\ RowsOK /\ CleanerOK /\ GenerationOK
        BY <1>1, <1>2 DEF OneActive, RowsOK, CleanerOK, GenerationOK
    <2> QED BY <2>1, <2>2, <2>3, <2>4 DEF TablesOK
<1>4. ViewOK
    BY <1>1, <1>2, FS_EmptySet, Bounds DEF ViewOK, ViewMatchesCount, Missing, Stripped,
       None
<1>5. WorkersOK
    BY <1>1, IdleType DEF WorkersOK, OneWorker, AttemptOK, LockOK, StagingOK, Held,
       Rebuilding, Staging
<1> QED BY <1>3, <1>4, <1>5 DEF IInv

LEMMA NextPreserves == IInv /\ [Next]_vars => IInv'
<1> SUFFICES ASSUME IInv, [Next]_vars PROVE IInv'
    OBVIOUS
<1>1. CASE UNCHANGED vars
    <2>1. TablesOK'
        BY <1>1, TablesStay DEF IInv, vars
    <2>2. UNCHANGED <<dataset, imports, table, rows, lock, exec>> /\ View' = View
        BY <1>1 DEF vars, View
    <2> QED BY <2>1, <2>2, CleanupKeeps DEF View
<1>2. ASSUME NEW w \in Workers, Work(w) PROVE IInv'
    BY <1>2, FindDatasetStep, EnsureLockStep, EnsureDropViewStep, EnsureDropTableStep,
       EnsureCreateStep, EnsureExactStep, EnsureOldViewStep, EnsureNewViewStep,
       InsertStep, ProgressStep, PublishStep, FailStep DEF Work
<1>3. CASE Cleanup
    BY <1>3, CleanupCandidatesStep, CleanupRowsStep DEF Cleanup
<1> QED BY <1>1, <1>2, <1>3, SubmitStep, ArchiveStep, GoesStaleStep, RequeueStaleStep, ClaimStep,
        ClaimUnansweredStep, HeartbeatStep, FaultStep, FailUnansweredStep, CrashStep,
        CleanupFailsStep DEF Next

\* The inductive invariant holds in every reachable state of Spec, which has
\* one action per transaction, statement or local step of the package.
THEOREM Invariance == Spec => []IInv
BY InitHolds, NextPreserves, PTL DEF Spec

\* jobs.go Publish and CleanupRows, ddl.go Ensure: whatever attempts overlap, crash
\* or come too late, the published attempts have as many rows in the table as
\* the dataset states, the table and the view have the columns of the published
\* schema, and the view of a published dataset is missing only if a worker that
\* had lost its claim dropped it (the run dataset_view shows that it can).
THEOREM DatasetSafetyHolds == Spec => []DatasetSafety
<1>1. IInv => DatasetSafety
    BY TypesMean DEF IInv
<1> QED BY <1>1, Invariance, PTL

-----------------------------------------------------------------------------
(* Refinement of DatasetLedger *)

Sizes == [i \in Imports |-> IF imports[i].status = "none" THEN -1 ELSE imports[i].size]
Done == {i \in Submitted : imports[i].status \notin Active}
Shown == {<<r.import, r.record>> : r \in View}

\* What leaves the rows of the database alone leaves the ledger alone.
LEMMA LedgerStays ==
    ASSUME UNCHANGED imports, View' = View
    PROVE  UNCHANGED <<Sizes, Done, Succeeded, Shown>>
BY DEF Sizes, Done, Shown, Submitted, Succeeded

LEMMA MovesLedger ==
    ASSUME TablesOK, NEW i \in Imports, NEW new, Moves(i, new), UNCHANGED <<dataset, rows, cleaner>>
    PROVE  /\ UNCHANGED <<Sizes, Succeeded, Shown>>
           /\ Done' = IF new.status = "failed" THEN Done \cup {i} ELSE Done
<1>1. /\ View' = View /\ Submitted' = Submitted /\ Succeeded' = Succeeded
      /\ \A j \in Imports : imports'[j] = IF j = i THEN new ELSE imports[j]
    BY ImportMoves
<1>2. imports[i].status \in Active /\ new.status \in Active \cup {"failed"}
          /\ new.size = imports[i].size
    BY DEF Moves, SameFile
<1>3. UNCHANGED <<Sizes, Succeeded, Shown>>
    BY <1>1, <1>2 DEF Sizes, Shown, Active
<1>4. i \in Submitted /\ Submitted \subseteq Imports
    BY <1>2 DEF Submitted, Active
<1>5. Done' = {j \in Submitted : imports'[j].status \notin Active}
    BY <1>1 DEF Done
<1>6. Done' = IF new.status = "failed" THEN Done \cup {i} ELSE Done
    BY <1>1, <1>2, <1>4, <1>5 DEF Done, Active
<1> QED BY <1>3, <1>6

LEMMA PendingIs ==
    ASSUME IInv, NEW i \in Imports, imports[i].status \in Active
    PROVE  i \in Imports \ Done /\ Sizes[i] # -1 /\ Sizes[i] = imports[i].size
<1>1. imports[i].size \in Nat /\ Sizes[i] = imports[i].size
    BY DEF IInv, TablesOK, Types, ImportRecords, Sizes, Active
<1> QED BY <1>1 DEF Done

LEMMA PublishRefines ==
    ASSUME IInv, NEW w \in Workers, Publishes(w) PROVE Ledger!Next
<1>1. PICK i : i = exec[w].job
    OBVIOUS
<1>2. /\ i \in Submitted /\ i \in Imports
      /\ imports'[i].status = "succeeded" /\ imports'[i].size = imports[i].size
      /\ imports[i].status = "running"
      /\ \A j \in Imports : j # i => imports'[j] = imports[j]
    BY <1>1, PublishedImport
<1>3. UNCHANGED Sizes /\ Done' = Done \cup {i} /\ Succeeded' = Succeeded \cup {i}
    <2>1. Submitted' = Submitted
        BY <1>2 DEF Submitted
    <2>2. \A j \in Imports : /\ imports'[j].size = imports[j].size
                             /\ imports'[j].status = "none" <=> imports[j].status = "none"
        BY <1>2
    <2>3. UNCHANGED Sizes
        BY <2>2 DEF Sizes
    <2> QED BY <1>2, <2>1, <2>3 DEF Done, Submitted, Succeeded, Active
<1>4. i \in Imports \ Done /\ Sizes[i] # -1 /\ Sizes[i] = imports[i].size
    BY <1>2, PendingIs DEF Active
<1>5. {<<r.import, r.record>> : r \in FileOf(w)} = {i} \X (1 .. Sizes[i])
    <2>1. FileOf(w) = {Staged(w, n) : n \in 1 .. Sizes[i]}
        BY <1>1, <1>4, FileStaged DEF Publishes
    <2>2. \A n : Staged(w, n).import = i /\ Staged(w, n).record = n
        BY <1>1 DEF Staged
    <2>3. {<<r.import, r.record>> : r \in FileOf(w)} = {<<i, n>> : n \in 1 .. Sizes[i]}
        BY <2>1, <2>2
    <2> QED BY <2>3
<1>6. CASE imports[i].mode = "replace"
    <2>1. Shown' = {i} \X (1 .. Sizes[i])
        BY <1>1, <1>5, <1>6, ViewPublished DEF Shown
    <2>2. Ledger!Replace(i)
        BY <1>3, <1>4, <2>1 DEF Ledger!Replace, Ledger!Publish, Ledger!Pending, Ledger!File,
           Ledger!NotSubmitted, Sizes, Done, Shown
    <2> QED BY <1>2, <2>2 DEF Ledger!Next
<1>7. CASE imports[i].mode = "append"
    <2>1. Shown' = Shown \cup ({i} \X (1 .. Sizes[i]))
        BY <1>1, <1>5, <1>7, ViewPublished DEF Shown
    <2>2. Succeeded # {}
        BY <1>2, <1>7 DEF IInv, TablesOK, ImportOK, Submitted
    <2>3. Ledger!Append(i)
        BY <1>3, <1>4, <2>1, <2>2 DEF Ledger!Append, Ledger!Publish, Ledger!Pending, Ledger!File,
           Ledger!NotSubmitted, Sizes, Done, Shown
    <2> QED BY <1>2, <2>3 DEF Ledger!Next
<1> QED BY <1>2, <1>6, <1>7 DEF IInv, TablesOK, Types, ImportRecords

LEMMA SubmitRefines ==
    ASSUME IInv, NEW mode \in {"replace", "append"}, NEW size \in 0 .. FileRows,
           Submit(mode, size)
    PROVE  Ledger!Next
<1>1. PICK i \in Imports \ Submitted :
          /\ imports' = [imports EXCEPT ![i] = imports'[i]] /\ imports'[i].size = size
          /\ imports'[i].status = "queued"
    BY SubmitStep
<1>2. imports \in [Imports -> ImportRecords] /\ imports[i] = NoImport
    BY DEF IInv, TablesOK, Types, ImportOK, Submitted
<1>3. \A j \in Imports : j # i => imports'[j] = imports[j]
    BY <1>1, <1>2
<1>4. Sizes[i] = -1 /\ Sizes' = [Sizes EXCEPT ![i] = size]
    <2>1. \A j \in Imports : Sizes'[j] = IF j = i THEN size ELSE Sizes[j]
        BY <1>1, <1>3 DEF Sizes
    <2> QED BY <1>2, <2>1, NoImportType DEF Sizes
<1>5. Done' = Done /\ Succeeded' = Succeeded
    BY <1>1, <1>2, <1>3, NoImportType DEF Done, Submitted, Succeeded, Active
<1>6. Shown' = Shown
    BY SubmitStep DEF Shown
<1>7. Ledger!Submit(i, size)
    BY <1>4, <1>5, <1>6 DEF Ledger!Submit, Ledger!NotSubmitted, Sizes, Done, Shown
<1> QED BY <1>7 DEF Ledger!Next

LEMMA FailRefines ==
    ASSUME IInv, NEW w \in Workers, Fail(w), Owned(w) PROVE Ledger!Next
<1>1. PICK i : i = exec[w].job
    OBVIOUS
<1>2. i \in Imports /\ imports[i].status = "running"
    BY <1>1 DEF Fail, Owned, IInv, WorkersOK, AttemptOK, Submitted
<1>3. PICK new : Moves(i, new) /\ new.status = "failed"
    BY <1>1, <1>2, FailedMoves DEF IInv, Fail
<1>4. UNCHANGED <<Sizes, Succeeded, Shown>> /\ Done' = Done \cup {i}
    BY <1>2, <1>3, MovesLedger DEF IInv, Fail
<1>5. i \in Imports \ Done /\ Sizes[i] # -1
    BY <1>2, PendingIs DEF Active
<1>6. Ledger!Reject(i)
    BY <1>4, <1>5 DEF Ledger!Reject, Ledger!Pending, Ledger!NotSubmitted, Sizes, Done, Shown
<1> QED BY <1>2, <1>6 DEF Ledger!Next

\* Every other step of a worker leaves what readers see alone.
LEMMA WorkRefines ==
    ASSUME IInv, NEW w \in Workers, Work(w)
    PROVE  Ledger!Next \/ UNCHANGED <<Sizes, Done, Succeeded, Shown>>
<1>1. CASE \/ FindDataset(w) \/ EnsureLock(w) \/ EnsureDropView(w) \/ EnsureCreate(w)
           \/ EnsureExact(w) \/ EnsureOldView(w) \/ EnsureNewView(w) \/ Progress(w)
    <2>1. UNCHANGED <<dataset, imports, rows>>
        BY <1>1 DEF FindDataset, EnsureLock, EnsureDropView, EnsureCreate, EnsureExact,
           EnsureOldView, EnsureNewView, DropView, Progress
    <2>2. View' = View
        BY <2>1 DEF View
    <2> QED BY <2>1, <2>2, LedgerStays
<1>2. CASE EnsureDropTable(w)
    <2>1. dataset.generation = None
        BY <1>2 DEF EnsureDropTable, IInv, WorkersOK, LockOK, Rebuilding
    <2>2. View' = View
        BY <1>2, <2>1, NothingShown DEF EnsureDropTable, View, IInv
    <2> QED BY <1>2, <2>2, LedgerStays DEF EnsureDropTable
<1>3. CASE Insert(w)
    <2>1. View' = View
        BY <1>3, InsertedUnseen
    <2> QED BY <1>3, <2>1, LedgerStays DEF Insert
<1>4. CASE Publish(w)
    <2>1. CASE UNCHANGED <<dataset, imports, rows>>
        <3>1. View' = View
            BY <2>1 DEF View
        <3> QED BY <2>1, <3>1, LedgerStays
    <2> QED BY <1>4, <2>1, PublishCases, PublishRefines
<1>5. CASE Fail(w)
    <2>1. CASE ~Owned(w)
        <3>1. UNCHANGED <<dataset, imports, rows>>
            BY <1>5, <2>1 DEF Fail
        <3>2. View' = View
            BY <3>1 DEF View
        <3> QED BY <3>1, <3>2, LedgerStays
    <2> QED BY <1>5, <2>1, FailRefines
<1> QED BY <1>1, <1>2, <1>3, <1>4, <1>5 DEF Work

LEMMA NextRefines ==
    IInv /\ [Next]_vars => Ledger!Next \/ UNCHANGED <<Sizes, Done, Succeeded, Shown>>
<1> SUFFICES ASSUME IInv, [Next]_vars
             PROVE  Ledger!Next \/ UNCHANGED <<Sizes, Done, Succeeded, Shown>>
    OBVIOUS
<1>1. ASSUME NEW i \in Imports, NEW new, Moves(i, new), new.status \in Active,
             UNCHANGED <<dataset, rows, cleaner>>
      PROVE  UNCHANGED <<Sizes, Done, Succeeded, Shown>>
    BY <1>1, MovesLedger DEF IInv, Active
<1>2. CASE UNCHANGED <<dataset, imports, rows>>
    <2>1. View' = View
        BY <1>2 DEF View
    <2> QED BY <1>2, <2>1, LedgerStays
<1>3. ASSUME NEW i \in Imports, GoesStale(i) \/ RequeueStale(i)
      PROVE  UNCHANGED <<Sizes, Done, Succeeded, Shown>>
    <2>1. PICK new : Moves(i, new) /\ new.status \in Active
        BY <1>3, RenewedMoves, RequeuedMoves DEF GoesStale, RequeueStale, IInv, Active
    <2> QED BY <1>1, <1>3, <2>1 DEF GoesStale, RequeueStale
<1>4. ASSUME NEW w \in Workers, NEW i \in Imports, Claim(w, i) \/ ClaimUnanswered(w, i)
      PROVE  UNCHANGED <<Sizes, Done, Succeeded, Shown>>
    <2>1. PICK new : Moves(i, new) /\ new.status \in Active
        BY <1>4, ClaimedMoves, DatasetAssumption DEF Claim, ClaimUnanswered, IInv, Active
    <2> QED BY <1>1, <1>4, <2>1 DEF Claim, ClaimUnanswered
<1>5. ASSUME NEW w \in Workers, Heartbeat(w), Owned(w)
      PROVE  UNCHANGED <<Sizes, Done, Succeeded, Shown>>
    <2>1. PICK i : i = exec[w].job
        OBVIOUS
    <2>2. i \in Imports /\ imports[i].status = "running"
        BY <1>5, <2>1 DEF Heartbeat, Owned, IInv, WorkersOK, AttemptOK, Submitted
    <2>3. PICK new : Moves(i, new) /\ new.status \in Active
        BY <1>5, <2>1, <2>2, RenewedMoves DEF Heartbeat, IInv, Active
    <2> QED BY <1>1, <1>5, <2>2, <2>3 DEF Heartbeat
<1>6. ASSUME NEW w \in Workers, (Heartbeat(w) /\ ~Owned(w)) \/ Fault(w) \/ FailUnanswered(w)
      PROVE  UNCHANGED <<dataset, imports, rows>>
    BY <1>6 DEF Heartbeat, Fault, FailUnanswered
<1>7. CASE Archive
    <2>1. View' = View /\ UNCHANGED imports
        BY <1>7, ArchiveStep DEF Archive
    <2> QED BY <2>1, LedgerStays
<1>8. CASE Cleanup
    <2>1. View' = View
        BY <1>8, CleanupCandidatesStep, CleanupRowsStep DEF Cleanup
    <2>2. UNCHANGED <<dataset, imports>>
        BY <1>8 DEF Cleanup, CleanupCandidates, CleanupRows
    <2> QED BY <2>1, <2>2, LedgerStays
<1>9. CASE (\E p \in Processes : Crash(p)) \/ CleanupFails \/ UNCHANGED vars
    BY <1>2, <1>9 DEF Crash, CleanupFails, vars
<1> QED BY <1>2, <1>3, <1>4, <1>5, <1>6, <1>7, <1>8, <1>9, SubmitRefines, WorkRefines DEF Next

\* Readers see whole files: with attempts that overlap, rows that are left
\* behind, tables that are rebuilt and rows that are cleaned up, nothing but the
\* publication of an import, of all its rows and once, changes what the view
\* selects (jobs.go Publish and CleanupRows, ddl.go Ensure, worker.go Flush).
THEOREM DatasetRefinement == Spec => ImplementsDataset
<1>1. Init => Ledger!Init
    <2> SUFFICES ASSUME Init PROVE Ledger!Init
        OBVIOUS
    <2>1. /\ imports = [i \in Imports |-> NoImport] /\ rows = {}
        BY DEF Init
    <2>2. Sizes = [i \in Imports |-> -1] /\ Done = {} /\ Succeeded = {} /\ Shown = {}
        BY <2>1 DEF Sizes, Done, Shown, View, Submitted, Succeeded, NoImport
    <2> QED BY <2>2 DEF Ledger!Init, Ledger!NotSubmitted, Sizes, Done, Shown
<1>2. IInv /\ [Next]_vars => [Ledger!Next]_<<Sizes, Done, Succeeded, Shown>>
    BY NextRefines
<1> QED BY <1>1, <1>2, Invariance, PTL DEF Spec, ImplementsDataset, Ledger!Spec, Sizes, Done, Shown

-----------------------------------------------------------------------------
(***************************************************************************)
(* Uploads.  What the cleanup lists by its key is no upload any more: it   *)
(* was given up or has expired, and neither comes back.  A key older than  *)
(* the grace period belongs to no request under way.                       *)
(***************************************************************************)
UploadStatuses == {"none", "saved", "orphan", "uploaded", "retained", "expired"}

UploadInv ==
    /\ status \in [Uploads -> UploadStatuses]
    /\ file \in [Uploads -> BOOLEAN]
    /\ age \in [Uploads -> 0 .. 2]
    /\ listed \in [kind : {"none", "expired", "files"}, uploads : SUBSET Uploads]
    /\ \A u \in Uploads : status[u] \in {"none", "saved"} => age[u] = 0
    /\ \A u \in Uploads : status[u] \in {"saved", "uploaded", "retained"} => file[u]
    /\ listed.kind = "files" =>
           \A u \in listed.uploads : status[u] \in {"orphan", "expired"}

LEMMA UploadStep == UploadInv /\ UploadNext => UploadInv'
  <1> SUFFICES ASSUME UploadInv, UploadNext PROVE UploadInv'
    OBVIOUS
  <1> USE DEF UploadInv, UploadStatuses
  <1>1. ASSUME NEW u \in Uploads, Save(u) PROVE UploadInv'
    BY <1>1 DEF Save
  <1>2. ASSUME NEW u \in Uploads, CreateUpload(u) PROVE UploadInv'
    BY <1>2 DEF CreateUpload
  <1>3. ASSUME NEW u \in Uploads, UploadFails(u) PROVE UploadInv'
    BY <1>3 DEF UploadFails
  <1>4. ASSUME NEW u \in Uploads, Age(u) PROVE UploadInv'
    BY <1>4 DEF Age
  <1>5. ASSUME NEW u \in Uploads, Preview(u) PROVE UploadInv'
    BY <1>5 DEF Preview
  <1>6. ASSUME NEW u \in Uploads, SubmitUpload(u) PROVE UploadInv'
    BY <1>6 DEF SubmitUpload, Usable
  <1>7. ASSUME NEW u \in Uploads, Execute(u) PROVE UploadInv'
    BY <1>7 DEF Execute
  <1>8. ASSUME NEW u \in Uploads, ExpiredUploads(u) PROVE UploadInv'
    BY <1>8 DEF ExpiredUploads
  <1>9. ASSUME NEW u \in Uploads, ExpireUpload(u) PROVE UploadInv'
    BY <1>9 DEF ExpireUpload, Nothing
  <1>10. CASE ReferencedUploadKeys
    <2>1. \A u \in listed'.uploads : u \in Uploads /\ age[u] > 0
                                     /\ status[u] \notin {"uploaded", "retained"}
      BY <1>10 DEF ReferencedUploadKeys, referenced
    <2> QED
      BY <1>10, <2>1 DEF ReferencedUploadKeys
  <1>11. CASE Reconcile
    BY <1>11 DEF Reconcile, Nothing
  <1> QED
    BY <1>1, <1>2, <1>3, <1>4, <1>5, <1>6, <1>7, <1>8, <1>9, <1>10, <1>11 DEF UploadNext

\* customdataset/storage.go Reconcile, worker.go cleanup: for any number of
\* uploads, the file of one that was retained or may still be submitted is
\* kept, however long ago the cleanup made its list.
THEOREM FilesKeptHolds == UploadSpec => []FilesKept
  <1>1. UploadInit => UploadInv
    BY DEF UploadInit, UploadInv, UploadStatuses, Nothing
  <1>2. UploadInv /\ [UploadNext]_uploadVars => UploadInv'
    BY UploadStep DEF uploadVars, UploadInv
  <1>3. UploadInv => FilesKept
    BY DEF UploadInv, FilesKept
  <1> QED
    BY <1>1, <1>2, <1>3, PTL DEF UploadSpec

=============================================================================
