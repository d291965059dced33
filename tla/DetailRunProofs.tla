-------------------------- MODULE DetailRunProofs ---------------------------
(***************************************************************************)
(* The stores of details, reference data and maintenance reports.          *)
(* DetailSafety for any identifiers, answers, jobs and number of runs;     *)
(* MasterSafety and MaintenanceSafety below, for any sources, domains,     *)
(* listings, headers, tables and number of runs.                           *)
(*                                                                         *)
(* The publication counts what was staged and never compares it with what  *)
(* Fincloud answered.  That the two agree is the invariant of the pool:    *)
(* whatever makes them differ is a fetch whose result is not staged yet, a *)
(* write without an answer whose result is still to be counted, or has     *)
(* stopped the run.                                                        *)
(***************************************************************************)
EXTENDS DetailRun, MasterRun, MaintenanceStore, FiniteSetTheorems, TLAPS

SomeRecord == Records \cup {NoRecord}
Answers == [Ids -> SomeRecord]
Outcomes == {"ok", "persist", "fetch", "map", "canceled"}

ExecRecords ==
    [pc : {"none", "prepare", "list", "pool", "publish", "clean", "failed", "ended"},
     ctx : {"live", "cancelled", "lost"}, listed : SUBSET Ids, todo : SUBSET Ids,
     open : BOOLEAN, concurrency : Nat, started : Nat, rows : Nat, fatal : BOOLEAN,
     local : BOOLEAN, got : Answers]
ItemRecords ==
    [at : {"none", "fetch", "stage", "send"}, record : SomeRecord, result : Outcomes \cup {"none"}]
PoolItems == [Ids -> ItemRecords]
ResultRecords == [result : Outcomes \cup {"none"}, record : SomeRecord]

Types ==
    /\ job \in Jobs
    /\ row \in [Runs -> {"none", "running", "cancelling", "succeeded", "closed"}]
    /\ exec \in [Runs -> ExecRecords]
    /\ item \in [Runs -> PoolItems]
    /\ results \in [Runs -> Seq(ResultRecords)]
    /\ staged \in [Runs -> Answers]
    /\ current \in [listed : SUBSET Ids, got : Answers]
    /\ \A p \in parents : p[1] \in Ids

-----------------------------------------------------------------------------
(* One run: its status s, its execution e with the pool's items and results, *)
(* and what it has staged.                                                    *)

BusyIn(items) == {i \in Ids : items[i].at # "none"}

\* The pool holds what its channels hold, and nothing before and after it runs.
Bounded(e, items, queue) ==
    /\ Len(queue) <= e.concurrency
    /\ Cardinality(BusyIn(items)) <= e.concurrency
    /\ e.pc # "pool" => BusyIn(items) = {} /\ queue = <<>> /\ ~e.open

\* An identifier is handed out once, of those listed.
HandedOut(e, items) ==
    /\ e.todo \subseteq e.listed
    /\ \A i \in e.todo : items[i].at = "none"
    /\ BusyIn(items) \subseteq e.listed
    /\ \A i \in Ids : items[i].at = "stage" => items[i].record = e.got[i]
    /\ \A i \in Ids : items[i].result = "persist" => items[i].at = "send"

\* Where the execution stands.
Stands(s, e, rows) ==
    /\ s = "none" => e.pc = "none"
    /\ e.pc \in {"none", "prepare", "list"} => e.got = Nothing
    /\ e.pc = "list" => rows = Nothing
    /\ e.pc = "publish" => ~e.fatal
    /\ e.pc \in {"pool", "publish"} => \A i \in Ids : rows[i] # NoRecord => i \in e.listed

\* A write without an answer has not been counted yet.
Pending(items, queue) ==
    \/ \E i \in Ids : items[i].result = "persist"
    \/ \E n \in 1 .. Len(queue) : queue[n].result = "persist"

\* The run can still be published.
Sound(s, e, items, queue) ==
    /\ e.pc \in {"pool", "publish"} /\ s \notin {"succeeded", "closed"}
    /\ e.ctx = "live" /\ ~e.fatal /\ ~Pending(items, queue)

\* Then what is staged is what was answered.
Agrees(s, e, items, queue, rows) ==
    Sound(s, e, items, queue) => \A i \in Ids : items[i].at = "stage" \/ rows[i] = e.got[i]

RunOK(s, e, items, queue, rows) ==
    /\ Bounded(e, items, queue)
    /\ HandedOut(e, items)
    /\ Stands(s, e, rows)
    /\ Agrees(s, e, items, queue, rows)

RunsOK == \A r \in Runs : RunOK(row[r], exec[r], item[r], results[r], staged[r])

IInv == Types /\ RunsOK /\ TablesAreOneCandidate

-----------------------------------------------------------------------------
LEMMA RecordType ==
    ASSUME NEW record \in SomeRecord
    PROVE  /\ record.body \in Nat /\ record.items \in Nat
           /\ record = NoRecord => record.items = 0
BY DetailAssumption DEF SomeRecord, NoRecord

LEMMA NothingType == Nothing \in Answers /\ \A i \in Ids : Nothing[i] = NoRecord
BY DEF Nothing, Answers, SomeRecord

LEMMA NoItemsType ==
    /\ NoItems \in PoolItems /\ Free \in ItemRecords
    /\ \A i \in Ids : NoItems[i] = Free
BY DEF NoItems, PoolItems, Free, ItemRecords, SomeRecord, Outcomes

LEMMA UnstartedType == Unstarted \in ExecRecords /\ Ended \in ExecRecords
BY NothingType DEF Unstarted, Ended, ExecRecords

LEMMA BusyFinite ==
    ASSUME NEW items
    PROVE  IsFiniteSet(BusyIn(items)) /\ Cardinality(BusyIn(items)) \in Nat
<1>1. BusyIn(items) \subseteq Ids
    BY DEF BusyIn
<1> QED BY <1>1, DetailAssumption, FS_Subset, FS_CardinalityType

\* The execution is over.
LEMMA EndedOK ==
    ASSUME NEW s, s # "none", NEW items \in PoolItems, BusyIn(items) = {}, NEW rows,
           \A i \in Ids : items[i].result = "persist" => items[i].at = "send"
    PROVE  RunOK(s, Ended, items, <<>>, rows)
<1>1. Ended.pc = "ended" /\ ~Ended.open /\ Ended.todo = {} /\ Ended.concurrency = 0
    BY DEF Ended, Unstarted
<1>2. Bounded(Ended, items, <<>>)
    BY <1>1, FS_EmptySet DEF Bounded
<1>3. HandedOut(Ended, items)
    BY <1>1 DEF HandedOut, BusyIn
<1>4. Stands(s, Ended, rows) /\ Agrees(s, Ended, items, <<>>, rows)
    BY <1>1 DEF Stands, Agrees, Sound
<1> QED BY <1>2, <1>3, <1>4 DEF RunOK

\* A step of one run.
LEMMA OtherRuns ==
    ASSUME IInv, NEW r \in Runs,
           \A q \in Runs : q # r =>
               /\ row'[q] = row[q] /\ exec'[q] = exec[q] /\ item'[q] = item[q]
               /\ results'[q] = results[q] /\ staged'[q] = staged[q],
           RunOK(row'[r], exec'[r], item'[r], results'[r], staged'[r])
    PROVE  RunsOK'
<1>1. \A q \in Runs : RunOK(row'[q], exec'[q], item'[q], results'[q], staged'[q])
    BY DEF IInv, RunsOK
<1> QED BY <1>1 DEF RunsOK, RunOK, Bounded, HandedOut, Stands, Agrees, Sound, Pending, BusyIn,
                    Nothing, NoRecord

\* A step of one run that leaves the published tables alone.
LEMMA RunStep ==
    ASSUME IInv, NEW r \in Runs, Types', UNCHANGED <<job, tables>>,
           \A q \in Runs : q # r =>
               /\ row'[q] = row[q] /\ exec'[q] = exec[q] /\ item'[q] = item[q]
               /\ results'[q] = results[q] /\ staged'[q] = staged[q],
           RunOK(row'[r], exec'[r], item'[r], results'[r], staged'[r])
    PROVE  IInv'
<1>1. TablesAreOneCandidate'
    BY DEF IInv, TablesAreOneCandidate, tables, ChildrenOf
<1> QED BY <1>1, OtherRuns DEF IInv

-----------------------------------------------------------------------------
(* The run's row *)

\* What holds of a run before a step.
LEMMA Parts ==
    ASSUME IInv, NEW r \in Runs
    PROVE  /\ row[r] \in {"none", "running", "cancelling", "succeeded", "closed"}
           /\ exec[r] \in ExecRecords /\ item[r] \in PoolItems
           /\ results[r] \in Seq(ResultRecords) /\ staged[r] \in Answers
           /\ Bounded(exec[r], item[r], results[r])
           /\ HandedOut(exec[r], item[r])
           /\ Stands(row[r], exec[r], staged[r])
           /\ Agrees(row[r], exec[r], item[r], results[r], staged[r])
BY DEF IInv, Types, RunsOK, RunOK

LEMMA ClaimStep == ASSUME IInv, NEW r \in Runs, Claim(r) PROVE IInv'
<1> DEFINE e == [exec[r] EXCEPT !.pc = "prepare"]
<1>1. /\ row' = [row EXCEPT ![r] = "running"] /\ exec' = [exec EXCEPT ![r] = e]
      /\ UNCHANGED <<job, item, results, staged, tables>>
    BY DEF Claim, Goto, IInv, Types
<1>2. e \in ExecRecords
    BY Parts DEF ExecRecords
<1>3. Types'
    BY <1>1, <1>2 DEF IInv, Types, tables
<1>4. exec[r].pc = "none"
    BY Parts DEF Claim, Stands
<1>5. RunOK("running", e, item[r], results[r], staged[r])
    <2>1. e.pc = "prepare" /\ e.got = exec[r].got /\ e.todo = exec[r].todo
          /\ e.listed = exec[r].listed /\ e.open = exec[r].open
          /\ e.concurrency = exec[r].concurrency
        BY Parts DEF ExecRecords
    <2> HIDE DEF e
    <2>2. Bounded(e, item[r], results[r])
        BY <1>4, <2>1, Parts DEF Bounded
    <2>3. HandedOut(e, item[r])
        BY <1>4, <2>1, Parts DEF HandedOut
    <2>4. Stands("running", e, staged[r])
          /\ Agrees("running", e, item[r], results[r], staged[r])
        BY <1>4, <2>1, Parts DEF Stands, Agrees, Sound
    <2> QED BY <2>2, <2>3, <2>4 DEF RunOK
<1> HIDE DEF e
<1>6. row'[r] = "running" /\ exec'[r] = e
    BY <1>1 DEF IInv, Types
<1> QED BY <1>1, <1>3, <1>5, <1>6, RunStep DEF IInv, Types

\* The status changes, and the run stays an active or becomes a closed one.
LEMMA StatusStep ==
    ASSUME IInv, NEW r \in Runs, row[r] \in {"running", "cancelling"},
           NEW s \in {"cancelling", "closed"}, row' = [row EXCEPT ![r] = s],
           UNCHANGED <<job, exec, item, results, staged, tables>>
    PROVE  IInv'
<1>1. Types'
    BY DEF IInv, Types, tables
<1>2. RunOK(s, exec[r], item[r], results[r], staged[r])
    BY Parts DEF RunOK, Stands, Agrees, Sound
<1>3. row'[r] = s
    BY DEF IInv, Types
<1> QED BY <1>1, <1>2, <1>3, RunStep DEF IInv, Types

LEMMA RequestCancellationStep ==
    ASSUME IInv, NEW r \in Runs, RequestCancellation(r) PROVE IInv'
BY StatusStep DEF RequestCancellation

LEMMA AbandonStep == ASSUME IInv, NEW r \in Runs, Abandon(r) PROVE IInv'
BY StatusStep DEF Abandon, Owned

LEMMA CrashStep == ASSUME IInv, NEW r \in Runs, Crash(r) PROVE IInv'
<1>1. Types'
    BY UnstartedType, NoItemsType DEF IInv, Types, Crash, tables
<1>2. row[r] # "none"
    BY Parts DEF Crash, Active, Stands
<1>3. RunOK(row[r], Ended, NoItems, <<>>, staged[r])
    BY <1>2, NoItemsType, EndedOK DEF BusyIn, Free
<1>4. /\ row'[r] = row[r] /\ exec'[r] = Ended /\ item'[r] = NoItems
      /\ results'[r] = <<>> /\ staged'[r] = staged[r]
    BY DEF IInv, Types, Crash
<1> QED BY <1>1, <1>3, <1>4, RunStep DEF IInv, Types, Crash

\* The execution alone moves on.
LEMMA ExecStep ==
    ASSUME IInv, NEW r \in Runs, NEW e \in ExecRecords, exec' = [exec EXCEPT ![r] = e],
           UNCHANGED <<job, row, item, results, staged, tables>>,
           RunOK(row[r], e, item[r], results[r], staged[r])
    PROVE  IInv'
<1>1. Types'
    BY DEF IInv, Types, tables
<1>2. exec'[r] = e
    BY DEF IInv, Types
<1> QED BY <1>1, <1>2, RunStep DEF IInv, Types

LEMMA InterruptStep ==
    ASSUME IInv, NEW r \in Runs, NEW cause \in {"cancelled", "lost"}, Interrupt(r, cause)
    PROVE  IInv'
<1> DEFINE e == [exec[r] EXCEPT !.ctx = cause]
<1>1. exec' = [exec EXCEPT ![r] = e] /\ UNCHANGED <<job, row, item, results, staged, tables>>
    BY DEF Interrupt, IInv, Types
<1>2. e \in ExecRecords
    BY Parts DEF ExecRecords
<1>3. /\ e.pc = exec[r].pc /\ e.got = exec[r].got /\ e.todo = exec[r].todo
      /\ e.listed = exec[r].listed /\ e.open = exec[r].open /\ e.fatal = exec[r].fatal
      /\ e.concurrency = exec[r].concurrency /\ e.ctx # "live"
    BY Parts DEF ExecRecords
<1> HIDE DEF e
<1>4. RunOK(row[r], e, item[r], results[r], staged[r])
    <2>1. Bounded(e, item[r], results[r])
        BY <1>3, Parts DEF Bounded
    <2>2. HandedOut(e, item[r])
        BY <1>3, Parts DEF HandedOut
    <2>3. Stands(row[r], e, staged[r]) /\ Agrees(row[r], e, item[r], results[r], staged[r])
        BY <1>3, Parts DEF Stands, Agrees, Sound
    <2> QED BY <2>1, <2>2, <2>3 DEF RunOK
<1> QED BY <1>1, <1>2, <1>4, ExecStep

\* The execution has failed before or after its pool.
LEMMA FailedStep ==
    ASSUME IInv, NEW r \in Runs, exec[r].pc \in {"prepare", "list", "publish"},
           Goto(r, "failed"), UNCHANGED <<job, row, item, results, staged, tables>>
    PROVE  IInv'
<1> DEFINE e == [exec[r] EXCEPT !.pc = "failed"]
<1>1. exec' = [exec EXCEPT ![r] = e]
    BY DEF Goto, IInv, Types
<1>2. e \in ExecRecords
    BY Parts DEF ExecRecords
<1>3. /\ e.pc = "failed" /\ e.got = exec[r].got /\ e.todo = exec[r].todo
      /\ e.listed = exec[r].listed /\ e.open = exec[r].open
      /\ e.concurrency = exec[r].concurrency
    BY Parts DEF ExecRecords
<1> HIDE DEF e
<1>4. RunOK(row[r], e, item[r], results[r], staged[r])
    BY <1>3, Parts DEF RunOK, Bounded, HandedOut, Stands, Agrees, Sound
<1> QED BY <1>1, <1>2, <1>4, ExecStep

LEMMA FaultStep == ASSUME IInv, NEW r \in Runs, Fault(r) PROVE IInv'
BY FailedStep DEF Fault

-----------------------------------------------------------------------------
(* executeDetail up to the pool *)

LEMMA PrepareRunStep == ASSUME IInv, NEW r \in Runs, PrepareRun(r) PROVE IInv'
<1> DEFINE e == [exec[r] EXCEPT !.pc = IF Owned(r) THEN "list" ELSE "failed"]
<1>1. /\ exec' = [exec EXCEPT ![r] = e] /\ staged' = [staged EXCEPT ![r] = Nothing]
      /\ UNCHANGED <<job, row, item, results, tables>>
    BY DEF PrepareRun, Goto, IInv, Types
<1>2. e \in ExecRecords
    BY Parts DEF ExecRecords
<1>3. /\ e.pc \in {"list", "failed"} /\ e.got = exec[r].got /\ e.todo = exec[r].todo
      /\ e.listed = exec[r].listed /\ e.open = exec[r].open
      /\ e.concurrency = exec[r].concurrency
    BY Parts DEF ExecRecords
<1> HIDE DEF e
<1>4. exec[r].pc = "prepare"
    BY DEF PrepareRun
<1>5. Types'
    BY <1>1, <1>2, NothingType DEF IInv, Types, tables
<1>6. RunOK(row[r], e, item[r], results[r], Nothing)
    <2>1. Bounded(e, item[r], results[r])
        BY <1>3, <1>4, Parts DEF Bounded
    <2>2. HandedOut(e, item[r])
        BY <1>3, Parts DEF HandedOut
    <2>3. Stands(row[r], e, Nothing) /\ Agrees(row[r], e, item[r], results[r], Nothing)
        BY <1>3, <1>4, Parts DEF Stands, Agrees, Sound
    <2> QED BY <2>1, <2>2, <2>3 DEF RunOK
<1>7. exec'[r] = e /\ staged'[r] = Nothing
    BY <1>1 DEF IInv, Types
<1> QED BY <1>1, <1>5, <1>6, <1>7, RunStep DEF IInv, Types

LEMMA EnumerateStep ==
    ASSUME IInv, NEW r \in Runs, NEW listed \in SUBSET job.ids, Enumerate(r, listed)
    PROVE  IInv'
<1>1. exec[r].pc = "list" /\ UNCHANGED <<job, row, item, results, staged, tables>>
    BY DEF Enumerate
<1>2. CASE Goto(r, "failed")
    BY <1>1, <1>2, FailedStep
<1>3. CASE ~Goto(r, "failed")
    <2>1. PICK n \in 1 .. job.concurrency :
              exec' = [exec EXCEPT ![r] =
                  [@ EXCEPT !.pc = "pool", !.listed = listed, !.todo = listed, !.open = TRUE,
                            !.concurrency = n]]
        BY <1>3 DEF Enumerate
    <2> DEFINE e == [exec[r] EXCEPT !.pc = "pool", !.listed = listed, !.todo = listed,
                                    !.open = TRUE, !.concurrency = n]
    <2>2. listed \in SUBSET Ids /\ n \in Nat
        BY DetailAssumption DEF IInv, Types
    <2>3. exec' = [exec EXCEPT ![r] = e]
        BY <2>1 DEF IInv, Types
    <2>4. e \in ExecRecords
        BY <2>2, Parts DEF ExecRecords
    <2>5. /\ e.pc = "pool" /\ e.listed = listed /\ e.todo = listed /\ e.concurrency = n
          /\ e.got = exec[r].got
        BY Parts DEF ExecRecords
    <2> HIDE DEF e
    <2>6. BusyIn(item[r]) = {} /\ results[r] = <<>>
        BY <1>1, Parts DEF Bounded
    <2>7. Bounded(e, item[r], results[r])
        BY <2>2, <2>5, <2>6, FS_EmptySet DEF Bounded
    <2>8. HandedOut(e, item[r])
        BY <2>2, <2>5, <2>6, Parts DEF HandedOut, BusyIn
    <2>9. staged[r] = Nothing /\ exec[r].got = Nothing /\ row[r] # "none"
        BY <1>1, Parts DEF Stands
    <2>10. Stands(row[r], e, staged[r]) /\ Agrees(row[r], e, item[r], results[r], staged[r])
        BY <2>5, <2>9, NothingType DEF Stands, Agrees
    <2> QED BY <1>1, <2>3, <2>4, <2>7, <2>8, <2>10, ExecStep DEF RunOK
<1> QED BY <1>2, <1>3

-----------------------------------------------------------------------------
(* The pool *)

\* Whoever is busy, or has a result, or is fed, works in a pool.
LEMMA InPool ==
    ASSUME IInv, NEW r \in Runs,
           \/ exec[r].open \/ results[r] # <<>>
           \/ \E i \in Ids : item[r][i].at # "none"
    PROVE  exec[r].pc = "pool" /\ row[r] # "none"
BY Parts DEF Bounded, Stands, BusyIn

LEMMA CloseJobsStep == ASSUME IInv, NEW r \in Runs, CloseJobs(r) PROVE IInv'
<1> DEFINE e == [exec[r] EXCEPT !.open = FALSE]
<1>1. exec' = [exec EXCEPT ![r] = e] /\ UNCHANGED <<job, row, item, results, staged, tables>>
    BY DEF CloseJobs, IInv, Types
<1>2. e \in ExecRecords
    BY Parts DEF ExecRecords
<1>3. /\ e.pc = exec[r].pc /\ e.got = exec[r].got /\ e.todo = exec[r].todo
      /\ e.listed = exec[r].listed /\ ~e.open /\ e.fatal = exec[r].fatal
      /\ e.concurrency = exec[r].concurrency /\ e.ctx = exec[r].ctx
    BY Parts DEF ExecRecords
<1> HIDE DEF e
<1>4. Bounded(e, item[r], results[r])
    BY <1>3, Parts DEF Bounded
<1>5. HandedOut(e, item[r])
    BY <1>3, Parts DEF HandedOut
<1>6. Stands(row[r], e, staged[r]) /\ Agrees(row[r], e, item[r], results[r], staged[r])
    BY <1>3, Parts DEF Stands, Agrees, Sound
<1> QED BY <1>1, <1>2, <1>4, <1>5, <1>6, ExecStep DEF RunOK

\* One step of a goroutine: with one identifier, and perhaps with its row.
LEMMA WorkStep ==
    ASSUME IInv, NEW r \in Runs, NEW i \in Ids, NEW it \in ItemRecords,
           NEW e \in ExecRecords, NEW queue \in Seq(ResultRecords), NEW rows \in Answers,
           exec' = [exec EXCEPT ![r] = e], item' = [item EXCEPT ![r][i] = it],
           results' = [results EXCEPT ![r] = queue], staged' = [staged EXCEPT ![r] = rows],
           UNCHANGED <<job, row, tables>>,
           RunOK(row[r], e, [item[r] EXCEPT ![i] = it], queue, rows)
    PROVE  IInv'
<1> DEFINE items == [item[r] EXCEPT ![i] = it]
<1>1. items \in PoolItems
    BY Parts DEF PoolItems
<1>2. item' = [item EXCEPT ![r] = items]
    BY DEF IInv, Types
<1> HIDE DEF items
<1>3. Types'
    BY <1>1, <1>2 DEF IInv, Types, tables
<1>4. exec'[r] = e /\ item'[r] = items /\ results'[r] = queue /\ staged'[r] = rows
      /\ row'[r] = row[r]
    BY <1>2 DEF IInv, Types
<1>5. RunOK(row'[r], exec'[r], item'[r], results'[r], staged'[r])
    BY <1>4 DEF items
<1> QED BY <1>2, <1>3, <1>5, RunStep DEF IInv, Types

\* What changes when the item of one identifier does.
LEMMA ItemChange ==
    ASSUME NEW items \in PoolItems, NEW i \in Ids, NEW it \in ItemRecords
    PROVE  LET new == [items EXCEPT ![i] = it] IN
           /\ new[i] = it /\ \A k \in Ids : k # i => new[k] = items[k]
           /\ items[i].at # "none" /\ it.at # "none" => BusyIn(new) = BusyIn(items)
           /\ items[i].at = "none" /\ it.at # "none" => BusyIn(new) = BusyIn(items) \cup {i}
           /\ it.at = "none" => BusyIn(new) = BusyIn(items) \ {i}
<1> DEFINE new == [items EXCEPT ![i] = it]
<1>1. new[i] = it /\ \A k \in Ids : k # i => new[k] = items[k]
    BY DEF PoolItems
<1> HIDE DEF new
<1>2. /\ items[i].at # "none" /\ it.at # "none" => BusyIn(new) = BusyIn(items)
      /\ items[i].at = "none" /\ it.at # "none" => BusyIn(new) = BusyIn(items) \cup {i}
      /\ it.at = "none" => BusyIn(new) = BusyIn(items) \ {i}
    BY <1>1 DEF BusyIn
<1> QED BY <1>1, <1>2 DEF new

LEMMA FeedStep == ASSUME IInv, NEW r \in Runs, NEW i \in Ids, Feed(r, i) PROVE IInv'
<1> DEFINE e == [exec[r] EXCEPT !.todo = @ \ {i}]
           it == [item[r][i] EXCEPT !.at = "fetch"]
           items == [item[r] EXCEPT ![i] = it]
<1>1. /\ exec' = [exec EXCEPT ![r] = e] /\ item' = [item EXCEPT ![r][i] = it]
      /\ results' = [results EXCEPT ![r] = results[r]]
      /\ staged' = [staged EXCEPT ![r] = staged[r]]
      /\ UNCHANGED <<job, row, tables>>
    BY DEF Feed, IInv, Types, PoolItems
<1>2. e \in ExecRecords
    BY Parts DEF ExecRecords
<1>3. /\ e.pc = exec[r].pc /\ e.got = exec[r].got /\ e.todo = exec[r].todo \ {i}
      /\ e.listed = exec[r].listed /\ e.open = exec[r].open /\ e.fatal = exec[r].fatal
      /\ e.concurrency = exec[r].concurrency /\ e.ctx = exec[r].ctx
    BY Parts DEF ExecRecords
<1>4. item[r][i] \in ItemRecords
    BY Parts DEF PoolItems
<1>5. it \in ItemRecords /\ it.at = "fetch" /\ it.result = item[r][i].result
    BY <1>4 DEF ItemRecords
<1>6. i \in exec[r].listed /\ item[r][i].at = "none" /\ exec[r].pc = "pool"
      /\ Cardinality(BusyIn(item[r])) < exec[r].concurrency
    BY Parts, InPool DEF Feed, HandedOut, Busy, BusyIn
<1> HIDE DEF e, it
<1>7. /\ items[i] = it /\ \A k \in Ids : k # i => items[k] = item[r][k]
      /\ BusyIn(items) = BusyIn(item[r]) \cup {i}
    BY <1>5, <1>6, Parts, ItemChange
<1> HIDE DEF items
<1>8. Bounded(e, items, results[r])
    <2>1. i \notin BusyIn(item[r])
        BY <1>6 DEF BusyIn
    <2>2. Cardinality(BusyIn(items)) = Cardinality(BusyIn(item[r])) + 1
        BY <1>7, <2>1, BusyFinite, FS_AddElement
    <2>3. exec[r].concurrency \in Nat /\ Cardinality(BusyIn(item[r])) \in Nat
        BY Parts, BusyFinite DEF ExecRecords
    <2> QED BY <1>3, <1>6, <2>2, <2>3, Parts DEF Bounded
<1>9. HandedOut(e, items)
    BY <1>3, <1>5, <1>6, <1>7, Parts DEF HandedOut, ExecRecords
<1>10. Stands(row[r], e, staged[r])
    BY <1>3, Parts DEF Stands
<1>11. Agrees(row[r], e, items, results[r], staged[r])
    <2>1. \A k \in Ids : items[k].result = item[r][k].result
                         /\ (items[k].at = "stage" <=> item[r][k].at = "stage")
        BY <1>5, <1>6, <1>7
    <2>2. Pending(items, results[r]) <=> Pending(item[r], results[r])
        BY <2>1 DEF Pending
    <2>3. Sound(row[r], e, items, results[r]) => Sound(row[r], exec[r], item[r], results[r])
        BY <1>3, <2>2 DEF Sound
    <2> QED BY <1>3, <2>1, <2>3, Parts DEF Agrees
<1>12. RunOK(row[r], e, items, results[r], staged[r])
    BY <1>8, <1>9, <1>10, <1>11 DEF RunOK
<1> QED BY <1>1, <1>2, <1>5, <1>12, Parts, WorkStep DEF items

\* A goroutine goes on with its identifier.
LEMMA BusyItem ==
    ASSUME IInv, NEW r \in Runs, NEW i \in Ids, item[r][i].at # "none",
           NEW it \in ItemRecords, it.at # "none",
           it.result = "persist" => it.at = "send",
           NEW e, e.pc = exec[r].pc, e.todo = exec[r].todo, e.listed = exec[r].listed,
           e.concurrency = exec[r].concurrency, e.open = exec[r].open,
           \A k \in Ids : k # i => e.got[k] = exec[r].got[k],
           it.at = "stage" => it.record = e.got[i]
    PROVE  LET items == [item[r] EXCEPT ![i] = it] IN
           Bounded(e, items, results[r]) /\ HandedOut(e, items)
<1> DEFINE items == [item[r] EXCEPT ![i] = it]
<1>1. /\ items[i] = it /\ \A k \in Ids : k # i => items[k] = item[r][k]
      /\ BusyIn(items) = BusyIn(item[r])
    BY Parts, ItemChange
<1> HIDE DEF items
<1>2. Bounded(e, items, results[r])
    BY <1>1, Parts DEF Bounded
<1>3. HandedOut(e, items)
    <2>1. \A k \in e.todo : items[k].at = "none" /\ k \in Ids
        BY <1>1, Parts DEF HandedOut, ExecRecords
    <2> QED BY <1>1, <2>1, Parts DEF HandedOut
<1> QED BY <1>2, <1>3 DEF items

LEMMA FetchStep == ASSUME IInv, NEW r \in Runs, NEW i \in Ids, Fetch(r, i) PROVE IInv'
<1>1. /\ item[r][i].at = "fetch" /\ item[r][i] \in ItemRecords
      /\ results' = [results EXCEPT ![r] = results[r]]
      /\ staged' = [staged EXCEPT ![r] = staged[r]]
      /\ UNCHANGED <<job, row, tables>>
    BY Parts DEF Fetch, IInv, Types, PoolItems
<1>2. exec[r].pc = "pool" /\ row[r] # "none" /\ item[r][i].result # "persist"
    BY <1>1, InPool, Parts DEF HandedOut
<1>3. ASSUME NEW record \in Records,
             item' = [item EXCEPT ![r][i] = [@ EXCEPT !.at = "stage", !.record = record]],
             exec' = [exec EXCEPT ![r].got[i] = record]
      PROVE  IInv'
    <2> DEFINE it == [item[r][i] EXCEPT !.at = "stage", !.record = record]
               got == [exec[r].got EXCEPT ![i] = record]
               e == [exec[r] EXCEPT !.got = got]
               items == [item[r] EXCEPT ![i] = it]
    <2>1. got \in Answers /\ got[i] = record /\ \A k \in Ids : k # i => got[k] = exec[r].got[k]
        BY Parts DEF ExecRecords, Answers, SomeRecord
    <2>2. exec' = [exec EXCEPT ![r] = e]
        BY <1>3, Parts DEF IInv, Types, ExecRecords
    <2> HIDE DEF got
    <2>3. e \in ExecRecords
        BY <2>1, Parts DEF ExecRecords
    <2>4. /\ e.pc = exec[r].pc /\ e.got = got /\ e.todo = exec[r].todo
          /\ e.listed = exec[r].listed /\ e.open = exec[r].open /\ e.fatal = exec[r].fatal
          /\ e.concurrency = exec[r].concurrency /\ e.ctx = exec[r].ctx
        BY Parts DEF ExecRecords
    <2>5. /\ it \in ItemRecords /\ it.at = "stage" /\ it.record = record
          /\ it.result = item[r][i].result
        BY <1>1 DEF ItemRecords, SomeRecord
    <2>6. item' = [item EXCEPT ![r][i] = it]
        BY <1>3 DEF IInv, Types, PoolItems
    <2> HIDE DEF e, it
    <2>7. Bounded(e, items, results[r]) /\ HandedOut(e, items)
        BY <1>1, <1>2, <2>1, <2>4, <2>5, BusyItem
    <2>8. items[i] = it /\ \A k \in Ids : k # i => items[k] = item[r][k]
        BY Parts DEF PoolItems
    <2> HIDE DEF items
    <2>9. Stands(row[r], e, staged[r])
        BY <1>2, <2>4, Parts DEF Stands
    <2>10. Agrees(row[r], e, items, results[r], staged[r])
        <3>1. \A k \in Ids : items[k].result = item[r][k].result
            BY <2>5, <2>8
        <3>2. Pending(items, results[r]) <=> Pending(item[r], results[r])
            BY <3>1 DEF Pending
        <3>3. Sound(row[r], e, items, results[r]) => Sound(row[r], exec[r], item[r], results[r])
            BY <2>4, <3>2 DEF Sound
        <3> QED BY <2>1, <2>4, <2>5, <2>8, <3>3, Parts DEF Agrees
    <2>11. RunOK(row[r], e, items, results[r], staged[r])
        BY <2>7, <2>9, <2>10 DEF RunOK
    <2> QED BY <1>1, <2>2, <2>3, <2>5, <2>6, <2>11, Parts, WorkStep DEF items
<1>4. ASSUME NEW result \in {"fetch", "map", "canceled"}, Sends(r, i, result), UNCHANGED exec
      PROVE  IInv'
    <2> DEFINE it == [item[r][i] EXCEPT !.at = "send", !.result = result]
               items == [item[r] EXCEPT ![i] = it]
    <2>1. /\ it \in ItemRecords /\ it.at = "send" /\ it.result = result
        BY <1>1 DEF ItemRecords, Outcomes
    <2>2. item' = [item EXCEPT ![r][i] = it] /\ exec' = [exec EXCEPT ![r] = exec[r]]
        BY <1>4 DEF Sends, IInv, Types, PoolItems
    <2> HIDE DEF it
    <2>3. Bounded(exec[r], items, results[r]) /\ HandedOut(exec[r], items)
        BY <1>1, <1>2, <2>1, BusyItem
    <2>4. items[i] = it /\ \A k \in Ids : k # i => items[k] = item[r][k]
        BY Parts DEF PoolItems
    <2> HIDE DEF items
    <2>5. Agrees(row[r], exec[r], items, results[r], staged[r])
        <3>1. \A k \in Ids : items[k].result = "persist" <=> item[r][k].result = "persist"
            BY <1>2, <2>1, <2>4
        <3>2. Pending(items, results[r]) <=> Pending(item[r], results[r])
            BY <3>1 DEF Pending
        <3>3. Sound(row[r], exec[r], items, results[r]) =>
                  Sound(row[r], exec[r], item[r], results[r])
            BY <3>2 DEF Sound
        <3> QED BY <1>1, <2>4, <3>3, Parts DEF Agrees
    <2>6. RunOK(row[r], exec[r], items, results[r], staged[r])
        BY <2>3, <2>5, Parts DEF RunOK
    <2> QED BY <1>1, <2>1, <2>2, <2>6, Parts, WorkStep DEF items
<1> QED BY <1>3, <1>4 DEF Fetch

LEMMA StageStep == ASSUME IInv, NEW r \in Runs, NEW i \in Ids, Stage(r, i) PROVE IInv'
<1> DEFINE written == [staged[r] EXCEPT ![i] = item[r][i].record]
<1>1. /\ item[r][i].at = "stage" /\ item[r][i] \in ItemRecords
      /\ exec' = [exec EXCEPT ![r] = exec[r]] /\ results' = [results EXCEPT ![r] = results[r]]
      /\ UNCHANGED <<job, row, tables>>
    BY Parts DEF Stage, IInv, Types, PoolItems
<1>2. exec[r].pc = "pool" /\ row[r] # "none" /\ i \in exec[r].listed
      /\ item[r][i].record = exec[r].got[i]
    BY <1>1, InPool, Parts DEF HandedOut, BusyIn
<1>3. /\ written \in Answers /\ written[i] = item[r][i].record
      /\ \A k \in Ids : k # i => written[k] = staged[r][k]
    BY <1>1, Parts DEF Answers, ItemRecords
<1>4. PICK result \in {"ok", "persist", "canceled"}, rows \in {staged[r], written} :
          /\ Sends(r, i, result) /\ staged' = [staged EXCEPT ![r] = rows]
          /\ result = "ok" => rows = written
          /\ result = "canceled" => Done(r)
    <2>1. [staged EXCEPT ![r][i] = item[r][i].record] = [staged EXCEPT ![r] = written]
          /\ staged = [staged EXCEPT ![r] = staged[r]]
        BY DEF IInv, Types
    <2> HIDE DEF written
    <2> QED BY <2>1 DEF Stage
<1> HIDE DEF written
<1> DEFINE it == [item[r][i] EXCEPT !.at = "send", !.result = result]
           items == [item[r] EXCEPT ![i] = it]
<1>5. it \in ItemRecords /\ it.at = "send" /\ it.result = result
    BY <1>1 DEF ItemRecords, Outcomes
<1>6. item' = [item EXCEPT ![r][i] = it]
    BY <1>4 DEF Sends, IInv, Types, PoolItems
<1> HIDE DEF it
<1>7. Bounded(exec[r], items, results[r]) /\ HandedOut(exec[r], items)
    BY <1>1, <1>5, BusyItem
<1>8. items[i] = it /\ \A k \in Ids : k # i => items[k] = item[r][k]
    BY Parts DEF PoolItems
<1> HIDE DEF items
<1>9. rows \in Answers /\ \A k \in Ids : k # i => rows[k] = staged[r][k]
    BY <1>3, <1>4, Parts
<1>10. Stands(row[r], exec[r], rows)
    BY <1>2, <1>9, Parts DEF Stands
<1>11. Agrees(row[r], exec[r], items, results[r], rows)
    <2> SUFFICES ASSUME Sound(row[r], exec[r], items, results[r]), NEW k \in Ids
                 PROVE  items[k].at = "stage" \/ rows[k] = exec[r].got[k]
        BY DEF Agrees
    <2>1. result = "ok"
        BY <1>4, <1>5, <1>8 DEF Sound, Pending, Done
    <2>2. \A n \in Ids : item[r][n].result = "persist" => items[n].result = "persist"
        BY <1>1, <1>8, Parts DEF HandedOut
    <2>3. Sound(row[r], exec[r], item[r], results[r])
        BY <2>2 DEF Sound, Pending
    <2>4. CASE k = i
        BY <1>2, <1>3, <1>4, <2>1, <2>4
    <2>5. CASE k # i
        BY <1>8, <1>9, <2>3, <2>5, Parts DEF Agrees
    <2> QED BY <2>4, <2>5
<1>12. RunOK(row[r], exec[r], items, results[r], rows)
    BY <1>7, <1>10, <1>11 DEF RunOK
<1> QED BY <1>1, <1>4, <1>5, <1>6, <1>9, <1>12, Parts, WorkStep DEF items

LEMMA SendStep == ASSUME IInv, NEW r \in Runs, NEW i \in Ids, Send(r, i) PROVE IInv'
<1> DEFINE entry == [result |-> item[r][i].result, record |-> item[r][i].record]
           queue == Append(results[r], entry)
           items == [item[r] EXCEPT ![i] = Free]
<1>1. /\ item[r][i].at = "send" /\ item[r][i] \in ItemRecords
      /\ Len(results[r]) < exec[r].concurrency
      /\ exec' = [exec EXCEPT ![r] = exec[r]] /\ results' = [results EXCEPT ![r] = queue]
      /\ staged' = [staged EXCEPT ![r] = staged[r]]
      /\ item' = [item EXCEPT ![r][i] = Free]
      /\ UNCHANGED <<job, row, tables>>
    BY Parts DEF Send, IInv, Types, PoolItems
<1>2. exec[r].pc = "pool"
    BY <1>1, InPool
<1>3. entry \in ResultRecords /\ entry.result = item[r][i].result
    BY <1>1 DEF ItemRecords, ResultRecords
<1> HIDE DEF entry
<1>4. /\ queue \in Seq(ResultRecords) /\ Len(queue) = Len(results[r]) + 1
      /\ queue[Len(queue)] = entry
      /\ \A n \in 1 .. Len(results[r]) : queue[n] = results[r][n]
    BY <1>3, Parts
<1> HIDE DEF queue
<1>5. Free \in ItemRecords /\ Free.at = "none" /\ Free.result = "none"
    BY NoItemsType DEF Free
<1>6. /\ items[i] = Free /\ (\A k \in Ids : k # i => items[k] = item[r][k])
      /\ BusyIn(items) = BusyIn(item[r]) \ {i}
    BY <1>5, Parts, ItemChange
<1> HIDE DEF items
<1>7. Len(queue) <= exec[r].concurrency /\ Len(queue) \in 1 .. Len(queue)
    BY <1>1, <1>4, Parts DEF ExecRecords
<1>8. Bounded(exec[r], items, queue)
    <2>1. Cardinality(BusyIn(items)) <= Cardinality(BusyIn(item[r]))
        BY <1>6, BusyFinite, FS_Subset
    <2>2. /\ exec[r].concurrency \in Nat /\ Cardinality(BusyIn(items)) \in Nat
          /\ Cardinality(BusyIn(item[r])) \in Nat
        BY Parts, BusyFinite DEF ExecRecords
    <2> QED BY <1>2, <1>7, <2>1, <2>2, Parts DEF Bounded
<1>9. HandedOut(exec[r], items)
    <2>1. \A k \in exec[r].todo : items[k].at = "none"
        BY <1>5, <1>6, Parts DEF HandedOut, ExecRecords
    <2> QED BY <1>5, <1>6, <2>1, Parts DEF HandedOut
<1>10. Agrees(row[r], exec[r], items, queue, staged[r])
    <2> SUFFICES ASSUME Sound(row[r], exec[r], items, queue)
                 PROVE  \A k \in Ids : items[k].at = "stage" \/ staged[r][k] = exec[r].got[k]
        BY DEF Agrees
    <2>1. ~Pending(item[r], results[r])
        <3>1. \A n \in 1 .. Len(queue) : queue[n].result # "persist"
            BY DEF Sound, Pending
        <3>2. item[r][i].result # "persist"
            BY <1>3, <1>4, <1>7, <3>1
        <3>3. \A n \in 1 .. Len(results[r]) : n \in 1 .. Len(queue)
            BY <1>4, Parts
        <3>4. \A n \in 1 .. Len(results[r]) : results[r][n].result # "persist"
            BY <1>4, <3>1, <3>3
        <3>5. \A k \in Ids : item[r][k].result # "persist"
            BY <1>6, <3>2 DEF Sound, Pending
        <3> QED BY <3>4, <3>5 DEF Pending
    <2>2. Sound(row[r], exec[r], item[r], results[r])
        BY <2>1 DEF Sound
    <2> QED BY <1>1, <1>6, <2>2, Parts DEF Agrees
<1>11. RunOK(row[r], exec[r], items, queue, staged[r])
    BY <1>8, <1>9, <1>10, Parts DEF RunOK
<1> QED BY <1>1, <1>4, <1>5, <1>11, Parts, WorkStep DEF items

\* A result leaves the channel; one that was not answered has stopped the run.
LEMMA ResultStep ==
    ASSUME IInv, NEW r \in Runs, results[r] # <<>>, NEW e \in ExecRecords,
           e.pc = exec[r].pc, e.got = exec[r].got, e.todo = exec[r].todo,
           e.listed = exec[r].listed, e.open = exec[r].open,
           e.concurrency = exec[r].concurrency, e.ctx = exec[r].ctx,
           exec[r].fatal => e.fatal,
           Head(results[r]).result = "persist" => e.fatal,
           exec' = [exec EXCEPT ![r] = e], results' = [results EXCEPT ![r] = Tail(@)],
           UNCHANGED <<job, row, item, staged, tables>>
    PROVE  IInv'
<1> DEFINE queue == Tail(results[r])
<1>1. /\ queue \in Seq(ResultRecords) /\ Len(queue) + 1 = Len(results[r])
      /\ Len(queue) \in Nat
      /\ \A n \in 1 .. Len(queue) : queue[n] = results[r][n + 1]
    BY Parts
<1>2. results' = [results EXCEPT ![r] = queue]
    BY DEF IInv, Types
<1> HIDE DEF queue
<1>3. Types'
    BY <1>1, <1>2 DEF IInv, Types, tables
<1>4. exec[r].pc = "pool" /\ row[r] # "none"
    BY InPool
<1>5. Bounded(e, item[r], queue)
    <2>1. exec[r].concurrency \in Nat
        BY Parts DEF ExecRecords
    <2> QED BY <1>1, <1>4, <2>1, Parts DEF Bounded
<1>6. HandedOut(e, item[r])
    BY Parts DEF HandedOut
<1>7. Stands(row[r], e, staged[r])
    BY <1>4, Parts DEF Stands
<1>8. Agrees(row[r], e, item[r], queue, staged[r])
    <2> SUFFICES ASSUME Sound(row[r], e, item[r], queue)
                 PROVE  \A k \in Ids : item[r][k].at = "stage" \/ staged[r][k] = e.got[k]
        BY DEF Agrees
    <2>1. ~e.fatal /\ ~exec[r].fatal /\ Head(results[r]).result # "persist"
        BY DEF Sound
    <2>2. \A n \in 1 .. Len(results[r]) : results[r][n].result # "persist"
        <3> SUFFICES ASSUME NEW n \in 1 .. Len(results[r])
                     PROVE  results[r][n].result # "persist"
            OBVIOUS
        <3>1. CASE n = 1
            BY <2>1, <3>1, Parts
        <3>2. CASE n # 1
            <4>1. n - 1 \in 1 .. Len(queue) /\ (n - 1) + 1 = n
                BY <1>1, <3>2
            <4> QED BY <1>1, <4>1 DEF Sound, Pending
        <3> QED BY <3>1, <3>2
    <2>3. Sound(row[r], exec[r], item[r], results[r])
        BY <2>1, <2>2 DEF Sound, Pending
    <2> QED BY <2>3, Parts DEF Agrees
<1>9. RunOK(row[r], e, item[r], queue, staged[r])
    BY <1>5, <1>6, <1>7, <1>8 DEF RunOK
<1>10. exec'[r] = e /\ results'[r] = queue
    BY <1>2 DEF IInv, Types
<1> QED BY <1>2, <1>3, <1>9, <1>10, RunStep DEF IInv, Types

\* What counting a result does to the execution.
LEMMA CountedType ==
    ASSUME IInv, NEW r \in Runs, NEW head \in ResultRecords
    PROVE  LET e == Counted(r, head) IN
           /\ e \in ExecRecords
           /\ e.pc = exec[r].pc /\ e.got = exec[r].got /\ e.todo = exec[r].todo
           /\ e.listed = exec[r].listed /\ e.open = exec[r].open
           /\ e.concurrency = exec[r].concurrency /\ e.ctx = exec[r].ctx
           /\ exec[r].fatal => e.fatal
           /\ head.result = "persist" => e.fatal
<1>1. exec[r] \in ExecRecords /\ exec[r].started + 1 \in Nat /\ exec[r].rows \in Nat
    BY Parts DEF ExecRecords
<1>2. RowsOf(head.record) \in Nat
    BY RecordType DEF RowsOf, ResultRecords
<1> DEFINE rows == IF head.result = "ok" THEN exec[r].rows + RowsOf(head.record)
                   ELSE exec[r].rows
           local == exec[r].local \/ head.result = "map"
           fatal == exec[r].fatal \/ head.result \in {"fetch", "persist", "canceled"}
<1>3. rows \in Nat /\ local \in BOOLEAN /\ fatal \in BOOLEAN
    BY <1>1, <1>2
<1> DEFINE e == [exec[r] EXCEPT !.started = exec[r].started + 1, !.rows = rows,
                                !.local = local, !.fatal = fatal]
<1>4. Counted(r, head) = e
    BY DEF Counted
<1>5. (exec[r].fatal => fatal) /\ (head.result = "persist" => fatal)
    OBVIOUS
<1> HIDE DEF rows, local, fatal
<1>6. /\ e \in ExecRecords
      /\ e.pc = exec[r].pc /\ e.got = exec[r].got /\ e.todo = exec[r].todo
      /\ e.listed = exec[r].listed /\ e.open = exec[r].open
      /\ e.concurrency = exec[r].concurrency /\ e.ctx = exec[r].ctx /\ e.fatal = fatal
    BY <1>1, <1>3 DEF ExecRecords
<1> HIDE DEF e
<1> QED BY <1>4, <1>5, <1>6

LEMMA ConsumeStep == ASSUME IInv, NEW r \in Runs, Consume(r) PROVE IInv'
<1> DEFINE head == Head(results[r])
           counted == Counted(r, head)
<1>1. /\ results[r] # <<>> /\ results' = [results EXCEPT ![r] = Tail(@)]
      /\ UNCHANGED <<job, row, item, staged, tables>>
    BY DEF Consume
<1>2. head \in ResultRecords
    BY <1>1, Parts
<1>3. /\ counted \in ExecRecords
      /\ counted.pc = exec[r].pc /\ counted.got = exec[r].got /\ counted.todo = exec[r].todo
      /\ counted.listed = exec[r].listed /\ counted.open = exec[r].open
      /\ counted.concurrency = exec[r].concurrency /\ counted.ctx = exec[r].ctx
      /\ exec[r].fatal => counted.fatal
      /\ head.result = "persist" => counted.fatal
    BY <1>2, CountedType
<1>4. \/ /\ suppressed(r, head.result)
         /\ exec' = [exec EXCEPT ![r].started = @ + 1]
      \/ exec' = [exec EXCEPT ![r] = counted]
      \/ exec' = [exec EXCEPT ![r] = [counted EXCEPT !.fatal = TRUE]]
    BY DEF Consume
<1> HIDE DEF counted
<1>5. CASE exec' = [exec EXCEPT ![r] = counted]
    BY <1>1, <1>3, <1>5, ResultStep
<1>6. CASE exec' = [exec EXCEPT ![r] = [counted EXCEPT !.fatal = TRUE]]
    <2> DEFINE e == [counted EXCEPT !.fatal = TRUE]
    <2>1. /\ e \in ExecRecords
          /\ e.pc = counted.pc /\ e.got = counted.got /\ e.todo = counted.todo
          /\ e.listed = counted.listed /\ e.open = counted.open
          /\ e.concurrency = counted.concurrency /\ e.ctx = counted.ctx /\ e.fatal
        BY <1>3 DEF ExecRecords
    <2> HIDE DEF e
    <2>2. exec' = [exec EXCEPT ![r] = e]
        BY <1>6 DEF e
    <2> QED BY <1>1, <1>3, <2>1, <2>2, ResultStep
<1>7. CASE suppressed(r, head.result) /\ exec' = [exec EXCEPT ![r].started = @ + 1]
    <2> DEFINE e == [exec[r] EXCEPT !.started = @ + 1]
    <2>1. /\ e \in ExecRecords
          /\ e.pc = exec[r].pc /\ e.got = exec[r].got /\ e.todo = exec[r].todo
          /\ e.listed = exec[r].listed /\ e.open = exec[r].open
          /\ e.concurrency = exec[r].concurrency /\ e.ctx = exec[r].ctx
          /\ e.fatal = exec[r].fatal
        BY Parts DEF ExecRecords
    <2>2. exec' = [exec EXCEPT ![r] = e]
        BY <1>7 DEF IInv, Types
    <2> HIDE DEF e
    <2>3. head.result # "persist"
        BY <1>7 DEF suppressed
    <2> QED BY <1>1, <2>1, <2>2, <2>3, ResultStep
<1> QED BY <1>4, <1>5, <1>6, <1>7

LEMMA JudgeStep == ASSUME IInv, NEW r \in Runs, Judge(r) PROVE IInv'
<1>1. /\ exec[r].pc = "pool" /\ ~exec[r].open /\ BusyIn(item[r]) = {} /\ results[r] = <<>>
      /\ UNCHANGED <<job, row, item, results, staged, tables>>
    BY DEF Judge, Drained, Busy, BusyIn
<1>2. PICK pc \in {"publish", "failed"} :
          /\ exec' = [exec EXCEPT ![r] =
                 [exec[r] EXCEPT !.todo = {}, !.concurrency = 0, !.started = 0, !.pc = pc]]
          /\ pc = "publish" => ~exec[r].fatal
    <2>1. \A pc \in {"publish", "failed"} :
              [[exec[r] EXCEPT !.todo = {}, !.concurrency = 0, !.started = 0] EXCEPT !.pc = pc]
              = [exec[r] EXCEPT !.todo = {}, !.concurrency = 0, !.started = 0, !.pc = pc]
        BY Parts DEF ExecRecords
    <2> QED BY <2>1 DEF Judge
<1> DEFINE e == [exec[r] EXCEPT !.todo = {}, !.concurrency = 0, !.started = 0, !.pc = pc]
<1>3. e \in ExecRecords
    BY Parts DEF ExecRecords
<1>4. /\ e.pc = pc /\ e.got = exec[r].got /\ e.todo = {} /\ e.concurrency = 0
      /\ e.listed = exec[r].listed /\ e.open = exec[r].open /\ e.fatal = exec[r].fatal
      /\ e.ctx = exec[r].ctx
    BY Parts DEF ExecRecords
<1>5. exec' = [exec EXCEPT ![r] = e]
    BY <1>2
<1> HIDE DEF e
<1>6. Bounded(e, item[r], results[r])
    BY <1>1, <1>4, FS_EmptySet DEF Bounded
<1>7. HandedOut(e, item[r])
    BY <1>4, Parts DEF HandedOut
<1>8. Stands(row[r], e, staged[r])
    BY <1>1, <1>2, <1>4, Parts DEF Stands
<1>9. Agrees(row[r], e, item[r], results[r], staged[r])
    <2>1. Sound(row[r], e, item[r], results[r]) => Sound(row[r], exec[r], item[r], results[r])
        BY <1>1, <1>4 DEF Sound
    <2> QED BY <1>4, <2>1, Parts DEF Agrees
<1> QED BY <1>1, <1>3, <1>5, <1>6, <1>7, <1>8, <1>9, ExecStep DEF RunOK

-----------------------------------------------------------------------------
(* Publication *)

\* The parent table becomes the staged parents.
LEMMA ReconciledParents ==
    ASSUME NEW r \in Runs
    PROVE  reconcileParents(r) = {<<i, staged[r][i].body>> : i \in StagedIds(r)}
BY DEF reconcileParents

\* The child table becomes the staged children.
LEMMA ReconciledChildren ==
    ASSUME NEW r \in Runs, staged[r] \in Answers,
           \A c \in children : c = <<c[1], c[2], c[3]>> /\ c[1] \in Ids /\ c[2] \in Nat \ {0}
    PROVE  reconcileChildren(r) = ChildrenOf(staged[r], Ids)
<1>1. ASSUME NEW i \in Ids PROVE staged[r][i].items \in Nat
    BY RecordType DEF Answers
<1>2. \A c : c \in ChildrenOf(staged[r], Ids) <=>
          \E i \in Ids : \E n \in 1 .. staged[r][i].items : c = <<i, n, staged[r][i].body>>
    BY DEF ChildrenOf
<1>3. ASSUME NEW c \in reconcileChildren(r) PROVE c \in ChildrenOf(staged[r], Ids)
    <2>1. CASE \E k \in keptChildren(r) : c = <<k[1], k[2], staged[r][k[1]].body>>
        <3>1. PICK k \in keptChildren(r) : c = <<k[1], k[2], staged[r][k[1]].body>>
            BY <2>1
        <3>2. k[1] \in Ids /\ k[2] \in 1 .. staged[r][k[1]].items
            BY <1>1 DEF keptChildren, StagedIds
        <3> QED BY <1>2, <3>1, <3>2
    <2>2. CASE c \in ChildrenOf(staged[r], Ids)
        BY <2>2
    <2> QED BY <1>3, <2>1, <2>2 DEF reconcileChildren
<1>4. ASSUME NEW c \in ChildrenOf(staged[r], Ids) PROVE c \in reconcileChildren(r)
    <2>1. PICK i \in Ids :
              \E n \in 1 .. staged[r][i].items : c = <<i, n, staged[r][i].body>>
        BY <1>2
    <2>2. PICK n \in 1 .. staged[r][i].items : c = <<i, n, staged[r][i].body>>
        BY <2>1
    <2>3. CASE \E k \in keptChildren(r) : k[1] = i /\ k[2] = n
        BY <2>2, <2>3 DEF reconcileChildren
    <2>4. CASE ~\E k \in keptChildren(r) : k[1] = i /\ k[2] = n
        <3>1. c[1] = i /\ c[2] = n
            BY <2>2
        <3> QED BY <2>4, <3>1 DEF reconcileChildren
    <2> QED BY <2>3, <2>4
<1> QED BY <1>3, <1>4

\* The rows of the child table, by the run published last.
LEMMA ChildRows ==
    ASSUME IInv
    PROVE  \A c \in children : c = <<c[1], c[2], c[3]>> /\ c[1] \in Ids /\ c[2] \in Nat \ {0}
<1> SUFFICES ASSUME NEW c \in children
             PROVE  c = <<c[1], c[2], c[3]>> /\ c[1] \in Ids /\ c[2] \in Nat \ {0}
    OBVIOUS
<1>1. current.listed \subseteq Ids /\ current.got \in Answers
    BY DEF IInv, Types
<1>2. PICK i \in current.listed :
          \E n \in 1 .. current.got[i].items : c = <<i, n, current.got[i].body>>
    BY DEF IInv, TablesAreOneCandidate, ChildrenOf
<1>3. PICK n \in 1 .. current.got[i].items : c = <<i, n, current.got[i].body>>
    BY <1>2
<1>4. current.got[i].items \in Nat
    BY <1>1, RecordType DEF Answers
<1> QED BY <1>1, <1>3, <1>4

\* A run that may publish has staged what it was answered.
LEMMA PublishedAsAnswered ==
    ASSUME IInv, NEW r \in Runs, exec[r].pc = "publish", row[r] = "running",
           exec[r].ctx = "live"
    PROVE  /\ \A i \in Ids : staged[r][i] = exec[r].got[i]
           /\ StagedIds(r) \subseteq exec[r].listed
<1>1. BusyIn(item[r]) = {} /\ results[r] = <<>> /\ ~exec[r].fatal
    BY Parts DEF Bounded, Stands
<1>2. \A i \in Ids : item[r][i].at = "none" /\ item[r][i].result # "persist"
    BY <1>1, Parts DEF BusyIn, HandedOut
<1>3. Sound(row[r], exec[r], item[r], results[r])
    BY <1>1, <1>2 DEF Sound, Pending
<1>4. \A i \in Ids : staged[r][i] = exec[r].got[i]
    BY <1>2, <1>3, Parts DEF Agrees
<1>5. StagedIds(r) \subseteq exec[r].listed
    BY Parts DEF Stands, StagedIds
<1> QED BY <1>4, <1>5

LEMMA PublishedTables ==
    ASSUME IInv, NEW r \in Runs, exec[r].pc = "publish", row[r] = "running",
           exec[r].ctx = "live", complete(r), UNCHANGED job,
           parents' = IF job.kind = "parented" THEN reconcileParents(r) ELSE parents,
           children' = reconcileChildren(r),
           current' = [listed |-> exec[r].listed, got |-> exec[r].got]
    PROVE  TablesAreOneCandidate'
<1> DEFINE listed == exec[r].listed
           got == exec[r].got
<1>1. /\ \A i \in Ids : staged[r][i] = got[i]
      /\ StagedIds(r) \subseteq listed
    BY PublishedAsAnswered
<1>2. listed \subseteq Ids /\ got \in Answers /\ staged[r] \in Answers
    BY Parts DEF ExecRecords
<1>3. ASSUME job.kind = "parented" PROVE parents' = {<<i, got[i].body>> : i \in listed}
    <2>1. IsFiniteSet(listed)
        BY <1>2, DetailAssumption, FS_Subset
    <2>2. Cardinality(StagedIds(r)) = Cardinality(listed)
        BY <1>3 DEF complete
    <2>3. StagedIds(r) = listed
        BY <1>1, <2>1, <2>2, FS_Subset
    <2>4. parents' = {<<i, staged[r][i].body>> : i \in listed}
        BY <1>3, <2>3, ReconciledParents
    <2> HIDE DEF listed, got
    <2> QED BY <1>1, <1>2, <2>4
<1>4. children' = ChildrenOf(got, listed)
    <2>1. children' = ChildrenOf(staged[r], Ids)
        BY <1>2, ChildRows, ReconciledChildren
    <2>2. ASSUME NEW i \in Ids, i \notin listed PROVE staged[r][i].items = 0
        BY <1>1, <2>2 DEF StagedIds, NoRecord
    <2> HIDE DEF listed, got
    <2>3. ChildrenOf(staged[r], Ids) \subseteq ChildrenOf(got, listed)
        BY <1>1, <2>2 DEF ChildrenOf
    <2>4. ChildrenOf(got, listed) \subseteq ChildrenOf(staged[r], Ids)
        BY <1>1, <1>2 DEF ChildrenOf
    <2> QED BY <2>1, <2>3, <2>4
<1>5. current'.listed = listed /\ current'.got = got
    OBVIOUS
<1> HIDE DEF listed, got
<1>6. job.kind = "parented" => parents' = {<<i, current'.got[i].body>> : i \in current'.listed}
    BY <1>3, <1>5
<1>7. children' = ChildrenOf(current'.got, current'.listed)
    BY <1>4, <1>5
<1> QED BY <1>6, <1>7 DEF TablesAreOneCandidate, ChildrenOf

LEMMA PublishStep == ASSUME IInv, NEW r \in Runs, Publish(r) PROVE IInv'
<1>1. exec[r].pc = "publish" /\ UNCHANGED <<job, item, results, staged>>
    BY DEF Publish
<1>2. CASE Goto(r, "failed") /\ UNCHANGED <<row, tables>>
    BY <1>1, <1>2, FailedStep
<1>3. ASSUME row[r] = "running", exec[r].ctx = "live", complete(r),
             row' = [row EXCEPT ![r] = "succeeded"],
             parents' = IF job.kind = "parented" THEN reconcileParents(r) ELSE parents,
             children' = reconcileChildren(r),
             current' = [listed |-> exec[r].listed, got |-> exec[r].got],
             NEW pc \in {"clean", "failed"}, Goto(r, pc)
      PROVE  IInv'
    <2> DEFINE e == [exec[r] EXCEPT !.pc = pc]
    <2>1. exec' = [exec EXCEPT ![r] = e]
        BY <1>3 DEF Goto, IInv, Types
    <2>2. e \in ExecRecords
        BY Parts DEF ExecRecords
    <2>3. /\ e.pc = pc /\ e.got = exec[r].got /\ e.todo = exec[r].todo
          /\ e.listed = exec[r].listed /\ e.open = exec[r].open
          /\ e.concurrency = exec[r].concurrency
        BY Parts DEF ExecRecords
    <2> HIDE DEF e
    <2>4. Types'
        <3>1. current' \in [listed : SUBSET Ids, got : Answers]
            BY <1>3, Parts DEF ExecRecords
        <3>2. \A p \in parents' : p[1] \in Ids
            BY <1>3, ReconciledParents DEF IInv, Types, StagedIds
        <3> QED BY <1>1, <1>3, <2>1, <2>2, <3>1, <3>2 DEF IInv, Types
    <2>5. RunOK("succeeded", e, item[r], results[r], staged[r])
        <3>1. Bounded(e, item[r], results[r])
            BY <1>1, <2>3, Parts DEF Bounded
        <3>2. HandedOut(e, item[r])
            BY <2>3, Parts DEF HandedOut
        <3>3. Stands("succeeded", e, staged[r])
              /\ Agrees("succeeded", e, item[r], results[r], staged[r])
            BY <2>3 DEF Stands, Agrees, Sound
        <3> QED BY <3>1, <3>2, <3>3 DEF RunOK
    <2>6. row'[r] = "succeeded" /\ exec'[r] = e
        BY <1>3, <2>1 DEF IInv, Types
    <2>7. RunsOK'
        BY <1>1, <1>3, <2>1, <2>5, <2>6, OtherRuns DEF IInv, Types
    <2>8. TablesAreOneCandidate'
        BY <1>1, <1>3, PublishedTables
    <2> QED BY <2>4, <2>7, <2>8 DEF IInv
<1> QED BY <1>1, <1>2, <1>3 DEF Publish

\* The execution ends, with or without its staged rows.
LEMMA EndStep ==
    ASSUME IInv, NEW r \in Runs, exec[r].pc \in {"clean", "failed"},
           NEW s, s = row[r] \/ (Owned(r) /\ s = "closed"), row' = [row EXCEPT ![r] = s],
           NEW rows \in Answers, staged' = [staged EXCEPT ![r] = rows],
           exec' = [exec EXCEPT ![r] = Ended], UNCHANGED <<job, item, results, tables>>
    PROVE  IInv'
<1>1. Types'
    BY UnstartedType DEF IInv, Types, tables
<1>2. BusyIn(item[r]) = {} /\ results[r] = <<>> /\ s # "none"
    BY Parts DEF Bounded, Stands
<1>3. RunOK(s, Ended, item[r], <<>>, rows)
    BY <1>2, Parts, EndedOK DEF HandedOut
<1>4. /\ row'[r] = s /\ exec'[r] = Ended /\ item'[r] = item[r]
      /\ results'[r] = <<>> /\ staged'[r] = rows
    BY <1>2 DEF IInv, Types
<1>5. RunOK(row'[r], exec'[r], item'[r], results'[r], staged'[r])
    BY <1>3, <1>4
<1>6. \A q \in Runs : q # r =>
          row'[q] = row[q] /\ exec'[q] = exec[q] /\ staged'[q] = staged[q]
    BY DEF IInv, Types
<1> QED BY <1>1, <1>5, <1>6, RunStep

LEMMA CleanupRunStep == ASSUME IInv, NEW r \in Runs, CleanupRun(r) PROVE IInv'
<1>1. PICK rows \in {Nothing, staged[r]} : staged' = [staged EXCEPT ![r] = rows]
    BY DEF CleanupRun, IInv, Types
<1>2. rows \in Answers /\ row' = [row EXCEPT ![r] = row[r]]
    BY NothingType, Parts DEF CleanupRun, IInv, Types
<1> QED BY <1>1, <1>2, EndStep DEF CleanupRun

LEMMA FinishStep == ASSUME IInv, NEW r \in Runs, Finish(r) PROVE IInv'
<1>1. PICK s : /\ s = row[r] \/ (Owned(r) /\ s = "closed")
               /\ row' = [row EXCEPT ![r] = s]
    BY DEF Finish, IInv, Types
<1>2. staged' = [staged EXCEPT ![r] = staged[r]]
    BY DEF Finish, IInv, Types
<1> QED BY <1>1, <1>2, Parts, EndStep DEF Finish

LEMMA CleanupTerminalStep == ASSUME IInv, NEW r \in Runs, CleanupTerminal(r) PROVE IInv'
<1>1. Types'
    BY NothingType DEF IInv, Types, CleanupTerminal, tables
<1>2. Stands(row[r], exec[r], Nothing)
    BY NothingType, Parts DEF Stands
<1>3. Agrees(row[r], exec[r], item[r], results[r], Nothing)
    BY DEF CleanupTerminal, Terminal, Agrees, Sound
<1>4. RunOK(row[r], exec[r], item[r], results[r], Nothing)
    BY <1>2, <1>3, Parts DEF RunOK
<1>5. /\ row'[r] = row[r] /\ exec'[r] = exec[r] /\ item'[r] = item[r]
      /\ results'[r] = results[r] /\ staged'[r] = Nothing
      /\ \A q \in Runs : q # r => staged'[q] = staged[q]
    BY DEF CleanupTerminal, IInv, Types
<1>6. RunOK(row'[r], exec'[r], item'[r], results'[r], staged'[r])
    BY <1>4, <1>5
<1>7. UNCHANGED <<job, row, exec, item, results, tables>>
    BY DEF CleanupTerminal
<1> QED BY <1>1, <1>5, <1>6, <1>7, RunStep

-----------------------------------------------------------------------------
LEMMA InitHolds == Init => IInv
<1> SUFFICES ASSUME Init PROVE IInv
    OBVIOUS
<1> USE DEF Init
<1>1. Types
    BY UnstartedType, NothingType, NoItemsType DEF Types
<1>2. TablesAreOneCandidate
    BY DEF TablesAreOneCandidate, ChildrenOf
<1>3. ASSUME NEW r \in Runs PROVE RunOK(row[r], exec[r], item[r], results[r], staged[r])
    <2>1. /\ row[r] = "none" /\ exec[r] = Unstarted /\ item[r] = NoItems
          /\ results[r] = <<>> /\ staged[r] = Nothing
        OBVIOUS
    <2>2. /\ Unstarted.pc = "none" /\ ~Unstarted.open /\ Unstarted.todo = {}
          /\ Unstarted.concurrency = 0 /\ Unstarted.got = Nothing
        BY DEF Unstarted
    <2>3. BusyIn(NoItems) = {} /\ \A i \in Ids : NoItems[i].result # "persist"
        BY NoItemsType DEF BusyIn, Free
    <2>4. Bounded(Unstarted, NoItems, <<>>)
        BY <2>2, <2>3, FS_EmptySet DEF Bounded
    <2>5. HandedOut(Unstarted, NoItems)
        BY <2>2, <2>3 DEF HandedOut, BusyIn
    <2>6. Stands("none", Unstarted, Nothing)
          /\ Agrees("none", Unstarted, NoItems, <<>>, Nothing)
        BY <2>2 DEF Stands, Agrees, Sound
    <2> QED BY <2>1, <2>4, <2>5, <2>6 DEF RunOK
<1> QED BY <1>1, <1>2, <1>3 DEF IInv, RunsOK

LEMMA NextPreserves == IInv /\ [Next]_vars => IInv'
<1> SUFFICES ASSUME IInv, [Next]_vars PROVE IInv'
    OBVIOUS
<1>1. ASSUME NEW r \in Runs,
             \/ Claim(r) \/ RequestCancellation(r) \/ Abandon(r) \/ Crash(r) \/ Fault(r)
             \/ \E cause \in {"cancelled", "lost"} : Interrupt(r, cause)
      PROVE  IInv'
    BY <1>1, ClaimStep, RequestCancellationStep, AbandonStep, CrashStep, FaultStep,
       InterruptStep
<1>2. ASSUME NEW r \in Runs, NEW i \in Ids, Work(r, i) PROVE IInv'
    BY <1>2, FeedStep, FetchStep, StageStep, SendStep DEF Work
<1>3. ASSUME NEW r \in Runs, Execute(r) PROVE IInv'
    BY <1>2, <1>3, PrepareRunStep, EnumerateStep, CloseJobsStep, ConsumeStep, JudgeStep,
       PublishStep, CleanupRunStep, FinishStep DEF Execute
<1>4. CASE UNCHANGED vars
    <2>1. Types' /\ TablesAreOneCandidate'
        BY <1>4 DEF vars, tables, IInv, Types, TablesAreOneCandidate, ChildrenOf
    <2>2. RunsOK'
        BY <1>4 DEF vars, IInv, RunsOK, RunOK, Bounded, HandedOut, Stands, Agrees, Sound,
                    Pending, BusyIn, Nothing, NoRecord
    <2> QED BY <2>1, <2>2 DEF IInv
<1> QED BY <1>1, <1>3, <1>4, CleanupTerminalStep DEF Next

LEMMA Invariance == Spec => []IInv
<1> QED BY InitHolds, NextPreserves, PTL DEF Spec

\* ingestionexec runDetailPool, ingestionstore detail.go publishTransaction: whatever the
\* number of runs, identifiers and goroutines, the pool never holds more than its channels
\* do, and the published tables are one listing and the answers one run got for it.
THEOREM DetailSafetyHolds == Spec => []DetailSafety
<1>1. IInv => DetailSafety
    <2> SUFFICES ASSUME IInv PROVE DetailSafety
        OBVIOUS
    <2>1. ASSUME NEW r \in Runs
          PROVE  /\ exec[r].pc \in
                        {"none", "prepare", "list", "pool", "publish", "clean", "failed", "ended"}
                 /\ exec[r].ctx \in {"live", "cancelled", "lost"}
                 /\ Len(results[r]) <= exec[r].concurrency
                 /\ Cardinality(Busy(r)) <= exec[r].concurrency
        <3>1. Busy(r) = BusyIn(item[r])
            BY DEF Busy, BusyIn
        <3> QED BY <3>1, Parts DEF ExecRecords, Bounded
    <2>2. \A c \in children : c[1] \in Ids
        BY ChildRows
    <2> QED BY <2>1, <2>2 DEF DetailSafety, TypeOK, IInv, Types
<1> QED BY <1>1, Invariance, PTL

-----------------------------------------------------------------------------
(***************************************************************************)
(* Master jobs.  Runs of different domains write into the same tables, so  *)
(* the argument is about rows: a row is identified within its domain, and  *)
(* reconciling a domain is replacing its rows by those staged, no more.    *)
(***************************************************************************)
Candidates == {Empty} \cup {NormalizeReference(source) : source \in MasterSources}
MasterPcs == {"none", "prepare", "fetch", "stage", "publish", "clean", "failed", "ended"}

MasterInv ==
    /\ MasterTypeOK
    /\ masters \in [MasterRuns -> [pc : MasterPcs, candidate : Candidates]]
    /\ masterStaged \in [MasterRuns -> Candidates]
    /\ published \in [Domains -> Candidates]
    /\ \A c \in categories : c.id[1] = c.domain
    /\ \A i \in referenceItems : i.id[1] = i.domain
    /\ DomainsAreWhole /\ CountsAreTrue

\* The items of a category are finitely many.
LEMMA CandidateItems ==
    ASSUME NEW c \in Candidates, NEW k
    PROVE  IsFiniteSet({e \in c.items : e[1] = k})
  <1> DEFINE S == {e \in c.items : e[1] = k}
  <1>1. CASE c = Empty
    <2>1. S = {}
      BY <1>1 DEF Empty
    <2> QED
      BY <2>1, FS_EmptySet
  <1>2. ASSUME NEW source \in MasterSources, c = NormalizeReference(source)
        PROVE  IsFiniteSet(S)
    <2>1. CASE k \notin DOMAIN source
      <3>1. S = {}
        BY <1>2, <2>1 DEF NormalizeReference
      <3> QED
        BY <3>1, FS_EmptySet
    <2>2. CASE k \in DOMAIN source
      <3> DEFINE N == Kept(source[k])
                 f == [n \in N |-> <<k, n, source[k][n]>>]
      <3>1. IsFiniteSet(N)
        <4>1. IsFiniteSet(DOMAIN source[k]) /\ N \in SUBSET DOMAIN source[k]
          BY <2>2, MasterAssumption DEF Kept
        <4> QED
          BY <4>1, FS_Subset
      <3>2. S = {<<k, n, source[k][n]>> : n \in N}
        BY <1>2, <2>2 DEF NormalizeReference
      <3> HIDE DEF N, S
      <3>3. f \in Bijection(N, S)
        BY <3>2 DEF Bijection, Injection, Surjection, IsInjective
      <3> QED
        BY <3>1, <3>3, FS_Bijection DEF ExistsBijection
    <2> QED
      BY <2>1, <2>2
  <1> QED
    BY <1>1, <1>2 DEF Candidates

LEMMA RowsOfItems ==
    ASSUME NEW c \in Candidates, NEW d, NEW k
    PROVE  Cardinality({i \in ItemRows(d, c.items) : i.key = k}) =
               Cardinality({e \in c.items : e[1] = k})
  <1> DEFINE S == {e \in c.items : e[1] = k}
             T == {i \in ItemRows(d, c.items) : i.key = k}
             Row(e) == [domain |-> d, key |-> e[1], id |-> <<d, e[1], e[2]>>, value |-> e]
             f == [e \in S |-> Row(e)]
  <1>1. IsFiniteSet(S)
    BY CandidateItems
  <1>2. T = {Row(e) : e \in S}
    BY DEF ItemRows
  <1>3. \A e : Row(e).value = e
    OBVIOUS
  <1> HIDE DEF S, T, Row
  <1>4. f \in Bijection(S, T)
    BY <1>2, <1>3 DEF Bijection, Injection, Surjection, IsInjective
  <1>5. Cardinality(T) = Cardinality(S)
    BY <1>1, <1>4, FS_Bijection DEF ExistsBijection
  <1> QED
    BY <1>5 DEF S, T

\* Reconciling a domain leaves the rows of the others and those staged.
LEMMA ReconciledRows ==
    ASSUME NEW old, NEW new, NEW d,
           \A o \in old : o.id[1] = o.domain,
           \A n \in new : n.id[1] = d
    PROVE  Reconciled(old, new, d) = {o \in old : o.domain # d} \cup new
  BY DEF Reconciled, inDomain

LEMMA StagedRows ==
    ASSUME NEW set, NEW d
    PROVE  /\ \A c \in CategoryRows(d, set) : c.id[1] = d /\ c.domain = d /\ c.key = c.value[1]
           /\ \A i \in ItemRows(d, set) : i.id[1] = d /\ i.domain = d /\ i.key = i.value[1]
           /\ {c.value : c \in CategoryRows(d, set)} = set
           /\ {i.value : i \in ItemRows(d, set)} = set
           /\ \A c \in CategoryRows(d, set) : c.value \in set
  <1>1. ASSUME NEW c \in CategoryRows(d, set)
        PROVE  c.id[1] = d /\ c.domain = d /\ c.key = c.value[1] /\ c.value \in set
    BY DEF CategoryRows
  <1>2. ASSUME NEW i \in ItemRows(d, set)
        PROVE  i.id[1] = d /\ i.domain = d /\ i.key = i.value[1] /\ i.value \in set
    BY DEF ItemRows
  <1>3. ASSUME NEW e \in set
        PROVE  /\ \E c \in CategoryRows(d, set) : c.value = e
               /\ \E i \in ItemRows(d, set) : i.value = e
    <2> DEFINE c == [domain |-> d, key |-> e[1], id |-> <<d, e[1]>>, value |-> e]
               i == [domain |-> d, key |-> e[1], id |-> <<d, e[1], e[2]>>, value |-> e]
    <2>1. c \in CategoryRows(d, set) /\ i \in ItemRows(d, set)
      BY DEF CategoryRows, ItemRows
    <2> QED
      BY <2>1
  <1> QED
    BY <1>1, <1>2, <1>3

LEMMA MasterTypes ==
    ASSUME MasterInv, NEW r \in MasterRuns
    PROVE  /\ masters[r].pc \in MasterPcs /\ masters[r].candidate \in Candidates
           /\ masters[r] \in [pc : MasterPcs, candidate : Candidates]
           /\ Domain[r] \in Domains
  BY DEF MasterInv, Domains

\* Only the publication touches the shared tables.
LEMMA MasterWorks ==
    ASSUME MasterInv, NEW r \in MasterRuns, NEW x \in [pc : MasterPcs, candidate : Candidates],
           masters' = [masters EXCEPT ![r] = x],
           masterRow' \in [MasterRuns -> {"none", "running", "cancelling", "succeeded", "closed"}],
           masterStaged' \in [MasterRuns -> Candidates],
           UNCHANGED referenceTables
    PROVE  MasterInv'
  <1>1. masters' \in [MasterRuns -> [pc : MasterPcs, candidate : Candidates]]
    BY DEF MasterInv
  <1>2. UNCHANGED <<categories, referenceItems, published>>
    BY DEF referenceTables
  <1>3. \A q \in MasterRuns : masters'[q].pc \in MasterPcs
    BY <1>1
  <1>4. MasterTypeOK'
    BY <1>2, <1>3 DEF MasterInv, MasterTypeOK, MasterPcs
  <1>5. DomainsAreWhole' /\ CountsAreTrue'
    BY <1>2 DEF MasterInv, DomainsAreWhole, CountsAreTrue
  <1> QED
    BY <1>1, <1>2, <1>4, <1>5 DEF MasterInv

LEMMA PublishReferenceStep ==
    ASSUME MasterInv, NEW r \in MasterRuns, PublishReference(r),
           masterRow[r] = "running", Verified(r)
    PROVE  MasterInv'
  <1> DEFINE d == Domain[r]
             c == masters[r].candidate
  <1>1. /\ masterStaged[r] = c /\ c \in Candidates /\ d \in Domains
        /\ categories' = Reconciled(categories, CategoryRows(d, c.categories), d)
        /\ referenceItems' = Reconciled(referenceItems, ItemRows(d, c.items), d)
        /\ published' = [published EXCEPT ![d] = c]
        /\ masterRow' = [masterRow EXCEPT ![r] = "succeeded"]
        /\ masterStaged' = masterStaged
    BY MasterTypes DEF PublishReference, Verified
  <1>2. \A e \in c.categories : Cardinality({i \in c.items : i[1] = e[1]}) = e[3]
    BY <1>1 DEF Verified
  <1>3. masters' \in [MasterRuns -> [pc : MasterPcs, candidate : Candidates]]
    <2>1. PICK pc \in MasterPcs : masters' = [masters EXCEPT ![r].pc = pc]
      BY DEF PublishReference, MasterGoto, MasterPcs
    <2> QED
      BY <2>1, MasterTypes DEF MasterInv
  <1> HIDE DEF c, d
  <1>4. /\ categories' = {o \in categories : o.domain # d} \cup CategoryRows(d, c.categories)
        /\ referenceItems' = {o \in referenceItems : o.domain # d} \cup ItemRows(d, c.items)
    BY <1>1, StagedRows, ReconciledRows DEF MasterInv
  <1>5. published' \in [Domains -> Candidates] /\ published'[d] = c
        /\ \A b \in Domains : b # d => published'[b] = published[b]
    BY <1>1 DEF MasterInv
  <1>6. /\ \A e \in categories' : e.id[1] = e.domain /\ e.domain \in Domains
        /\ \A i \in referenceItems' : i.id[1] = i.domain /\ i.domain \in Domains
    BY <1>1, <1>4, StagedRows DEF MasterInv, MasterTypeOK
  <1>7. MasterTypeOK'
    <2>1. \A q \in MasterRuns : masters'[q].pc \in MasterPcs
      BY <1>3
    <2> QED
      BY <1>1, <1>6, <2>1 DEF MasterInv, MasterTypeOK, MasterPcs
  <1>8. DomainsAreWhole'
    <2> SUFFICES ASSUME NEW b \in Domains
                 PROVE  /\ {e.value : e \in {x \in categories' : x.domain = b}} =
                               published'[b].categories
                        /\ {i.value : i \in {x \in referenceItems' : x.domain = b}} =
                               published'[b].items
      BY DEF DomainsAreWhole
    <2>1. CASE b = d
      <3>1. /\ {x \in categories' : x.domain = b} = CategoryRows(d, c.categories)
            /\ {x \in referenceItems' : x.domain = b} = ItemRows(d, c.items)
        BY <1>4, <2>1, StagedRows
      <3> QED
        BY <1>5, <2>1, <3>1, StagedRows
    <2>2. CASE b # d
      <3>1. /\ {x \in categories' : x.domain = b} = {x \in categories : x.domain = b}
            /\ {x \in referenceItems' : x.domain = b} = {x \in referenceItems : x.domain = b}
        BY <1>4, <2>2, StagedRows
      <3> QED
        BY <1>5, <2>2, <3>1 DEF MasterInv, DomainsAreWhole
    <2> QED
      BY <2>1, <2>2
  <1>9. \A k : Cardinality({i \in ItemRows(d, c.items) : i.key = k}) =
                  Cardinality({i \in c.items : i[1] = k})
    <2>1. c \in Candidates
      BY <1>1
    <2> QED
      BY <2>1, RowsOfItems
  <1>10. CountsAreTrue'
    <2> SUFFICES ASSUME NEW e \in categories'
                 PROVE  Cardinality({i \in referenceItems' : i.domain = e.domain /\ i.key = e.key})
                            = e.value[3]
      BY DEF CountsAreTrue
    <2>1. CASE e \in categories /\ e.domain # d
      <3>1. {i \in referenceItems' : i.domain = e.domain /\ i.key = e.key} =
                {i \in referenceItems : i.domain = e.domain /\ i.key = e.key}
        BY <1>4, <2>1, StagedRows
      <3> QED
        BY <2>1, <3>1 DEF MasterInv, CountsAreTrue
    <2>2. CASE e \in CategoryRows(d, c.categories)
      <3>1. e.domain = d /\ e.key = e.value[1] /\ e.value \in c.categories
        BY <2>2, StagedRows
      <3>2. {i \in referenceItems' : i.domain = e.domain /\ i.key = e.key} =
                {i \in ItemRows(d, c.items) : i.key = e.key}
        BY <1>4, <3>1, StagedRows
      <3>3. Cardinality({i \in ItemRows(d, c.items) : i.key = e.key}) =
                Cardinality({i \in c.items : i[1] = e.key})
        BY <1>9
      <3> QED
        BY <1>2, <3>1, <3>2, <3>3
    <2> QED
      BY <1>4, <2>1, <2>2
  <1> QED
    BY <1>1, <1>3, <1>5, <1>6, <1>7, <1>8, <1>10 DEF MasterInv

LEMMA MasterStep == MasterInv /\ [MasterNext]_masterVars => MasterInv'
  <1> SUFFICES ASSUME MasterInv, [MasterNext]_masterVars PROVE MasterInv'
    OBVIOUS
  <1>1. CASE UNCHANGED masterVars
    BY <1>1 DEF MasterInv, MasterTypeOK, DomainsAreWhole, CountsAreTrue, masterVars
  <1>2. ASSUME NEW r \in MasterRuns, PublishReference(r), masterRow[r] = "running", Verified(r)
        PROVE  MasterInv'
    BY <1>2, PublishReferenceStep
  <1>3. ASSUME NEW r \in MasterRuns,
               \/ ClaimMaster(r) \/ CancelMaster(r) \/ AbandonMaster(r) \/ MasterCrash(r)
               \/ PrepareMaster(r) \/ FetchMaster(r) \/ StageReference(r)
               \/ PublishReference(r) /\ ~(masterRow[r] = "running" /\ Verified(r))
               \/ CleanupMaster(r) \/ MasterFault(r) \/ FinishMaster(r)
               \/ CleanupTerminalMaster(r)
        PROVE  MasterInv'
    <2> DEFINE MasterRecords == [pc : MasterPcs, candidate : Candidates]
    <2>1. masters[r] \in MasterRecords /\ Empty \in Candidates
      BY MasterTypes DEF Candidates
    <2>2. UNCHANGED referenceTables
      BY <1>3 DEF ClaimMaster, CancelMaster, AbandonMaster, MasterCrash, PrepareMaster,
                  FetchMaster, StageReference, PublishReference, CleanupMaster, MasterFault,
                  FinishMaster, CleanupTerminalMaster
    <2>3. masterRow' \in [MasterRuns -> {"none", "running", "cancelling", "succeeded", "closed"}]
      BY <1>3 DEF ClaimMaster, CancelMaster, AbandonMaster, MasterCrash, PrepareMaster,
                  FetchMaster, StageReference, PublishReference, CleanupMaster, MasterFault,
                  FinishMaster, CleanupTerminalMaster, MasterInv, MasterTypeOK
    <2>4. masterStaged' \in [MasterRuns -> Candidates]
      BY <1>3, <2>1 DEF ClaimMaster, CancelMaster, AbandonMaster, MasterCrash, PrepareMaster,
                  FetchMaster, StageReference, PublishReference, CleanupMaster, MasterFault,
                  FinishMaster, CleanupTerminalMaster, MasterInv
    <2>5. masters' = [masters EXCEPT ![r] = masters'[r]]
      BY <1>3 DEF ClaimMaster, CancelMaster, AbandonMaster, MasterCrash, PrepareMaster,
                  FetchMaster, StageReference, PublishReference, CleanupMaster, MasterFault,
                  FinishMaster, CleanupTerminalMaster, MasterInv, MasterGoto
    <2>6. masters'[r] \in MasterRecords
      <3>1. CASE \E pc \in MasterPcs : masters' = [masters EXCEPT ![r].pc = pc]
        BY <2>1, <3>1 DEF MasterInv
      <3>2. CASE UNCHANGED masters
        BY <2>1, <3>2
      <3>3. CASE masters' = [masters EXCEPT ![r] = [MasterIdle EXCEPT !.pc = "ended"]]
        BY <2>1, <3>3 DEF MasterInv, MasterIdle, MasterPcs
      <3>4. CASE \E source \in MasterSources : masters' = [masters EXCEPT ![r] =
                     [pc |-> "stage", candidate |-> NormalizeReference(source)]]
        BY <3>4 DEF MasterInv, MasterPcs, Candidates
      <3> QED
        BY <1>3, <3>1, <3>2, <3>3, <3>4 DEF ClaimMaster, CancelMaster, AbandonMaster, MasterCrash,
           PrepareMaster, FetchMaster, StageReference, PublishReference, CleanupMaster,
           MasterFault, FinishMaster, CleanupTerminalMaster, MasterGoto, MasterPcs
    <2> QED
      BY <2>2, <2>3, <2>4, <2>5, <2>6, MasterWorks
  <1> QED
    BY <1>1, <1>2, <1>3 DEF MasterNext

\* ingestionstore/master.go PublishReference: for any runs, domains and answers,
\* the part of the shared tables that belongs to a domain is the whole candidate
\* of one run of that domain, and its counts are true.
THEOREM MasterSafetyHolds == MasterSpec => []MasterSafety
  <1>1. MasterInit => MasterInv
    <2> SUFFICES ASSUME MasterInit PROVE MasterInv
      OBVIOUS
    <2>1. Empty \in Candidates /\ MasterIdle \in [pc : MasterPcs, candidate : Candidates]
          /\ MasterIdle.pc = "none"
      BY DEF Candidates, MasterIdle, MasterPcs
    <2>2. MasterTypeOK
      BY <2>1 DEF MasterInit, MasterTypeOK
    <2>3. DomainsAreWhole /\ CountsAreTrue
      BY DEF MasterInit, DomainsAreWhole, CountsAreTrue, Empty
    <2> QED
      BY <2>1, <2>2, <2>3 DEF MasterInit, MasterInv
  <1>2. MasterInv => MasterSafety
    BY DEF MasterInv, MasterSafety
  <1> QED
    BY <1>1, <1>2, MasterStep, PTL DEF MasterSpec

-----------------------------------------------------------------------------
(***************************************************************************)
(* Maintenance reports.  The named lock makes what a run has read of the   *)
(* table true until it releases the lock, although its DDL commits by      *)
(* itself and the run may no longer be its own: SaverOK says what it has   *)
(* read.                                                                   *)
(***************************************************************************)
LockedPcs == {"schema", "prove", "proveIndex", "columns", "index", "rows"}
SaverPcs == {"none", "fetch", "lock", "finish", "ended"} \cup LockedPcs
Snapshots == [files : SUBSET Files, headers : SUBSET Headers]
SaverRecords ==
    [pc : SaverPcs, date : Nat, snapshot : Snapshots, missing : SUBSET Columns(Headers),
     failed : BOOLEAN]
SaverStatuses == {"none", "running", "cancelling", "succeeded", "closed"}

\* The files of a report.
WholeReport(files) ==
    \/ \E f \in files : f.branch = "merged" /\ files = {f}
    \/ /\ \A b \in Branches : Cardinality(Of(files, b)) = 1
       /\ \A f \in files : f.branch \in Branches

SnapshotOK(x) ==
    /\ x.snapshot.files # {} /\ WholeReport(x.snapshot.files)
    /\ Distinct(x.snapshot.headers)

\* What a run knows of the table.
SchemaOK(x) ==
    /\ x.pc \in {"prove", "columns"} => x.missing \cap columns = {}
    /\ x.pc \in {"prove", "columns"} => Columns(x.snapshot.headers) \subseteq columns \cup x.missing
    /\ x.pc \in {"proveIndex", "index"} => ~indexed
    /\ x.pc \in {"proveIndex", "index", "rows"} => Columns(x.snapshot.headers) \subseteq columns
    /\ x.pc \in LockedPcs \ {"schema"} => ~Conflict(x.snapshot.headers)

\* How far a series has come.
SeriesOK(x) ==
    /\ x.pc \in {"fetch", "lock"} \cup LockedPcs => x.date \in Dates
    /\ x.pc \notin {"none", "ended"} /\ ~x.failed =>
           \A d \in Dates : d < x.date => dateRows[d] # NoSnapshot
    /\ x.pc = "finish" /\ ~x.failed => x.date > MaxDate

SaverOK(x) ==
    /\ x.pc \in {"lock"} \cup LockedPcs => SnapshotOK(x)
    /\ SchemaOK(x) /\ SeriesOK(x)

MaintenanceInv ==
    /\ MaintenanceTypeOK
    /\ savers \in [MaintenanceRuns -> SaverRecords]
    /\ dateRows \in [Dates -> Snapshots]
    /\ \A r \in MaintenanceRuns : SaverOK(savers[r])
    /\ \A r \in MaintenanceRuns : savers[r].pc \in LockedPcs => lock = r
    /\ ColumnsAreFaithful /\ ReportsAreWhole /\ SuccessIsWhole

\* A step of one run.  Whoever has the lock may change the table.
LEMMA SaverMoves ==
    ASSUME MaintenanceInv, NEW r \in MaintenanceRuns, NEW x \in SaverRecords,
           savers' = [savers EXCEPT ![r] = x], SaverOK(x)',
           saverRow' \in [MaintenanceRuns -> SaverStatuses],
           \A q \in MaintenanceRuns : saverRow'[q] = "succeeded" =>
               saverRow[q] = "succeeded" \/ \A d \in Dates : dateRows'[d] # NoSnapshot,
           lock' = lock \/ (lock = 0 /\ lock' = r) \/ (lock = r /\ lock' = 0),
           x.pc \in LockedPcs => lock' = r,
           UNCHANGED <<columns, indexed, registry, dateRows>> \/ savers[r].pc \in LockedPcs,
           columns' \subseteq Columns(Headers), indexed' \in BOOLEAN,
           DOMAIN registry' \subseteq Columns(Headers),
           dateRows' \in [Dates -> Snapshots],
           \A d \in Dates : dateRows[d] # NoSnapshot => dateRows'[d] # NoSnapshot,
           ColumnsAreFaithful', ReportsAreWhole'
    PROVE  MaintenanceInv'
  <1>1. /\ savers' \in [MaintenanceRuns -> SaverRecords] /\ savers'[r] = x
        /\ \A q \in MaintenanceRuns : q # r => savers'[q] = savers[q]
    BY DEF MaintenanceInv
  <1>2. r \in 1 .. MaxMaintenanceRuns /\ lock \in 0 .. MaxMaintenanceRuns /\ r # 0
    BY MaintenanceAssumption DEF MaintenanceInv, MaintenanceTypeOK, MaintenanceRuns
  <1>3. MaintenanceTypeOK'
    <2>1. lock' \in 0 .. MaxMaintenanceRuns
      BY <1>2, MaintenanceAssumption
    <2>2. \A d \in Dates : dateRows'[d].files \subseteq Files /\ dateRows'[d].headers \subseteq Headers
      BY DEF Snapshots
    <2> QED
      BY <2>1, <2>2 DEF MaintenanceTypeOK, SaverStatuses
  <1>4. ASSUME NEW q \in MaintenanceRuns PROVE SaverOK(savers[q])' /\
            (savers'[q].pc \in LockedPcs => lock' = q)
    <2>1. CASE q = r
      BY <1>1, <2>1
    <2>2. CASE q # r
      <3>1. savers'[q] = savers[q] /\ SaverOK(savers[q])
        BY <1>1, <2>2 DEF MaintenanceInv
      <3>2. SeriesOK(savers[q])'
        BY <3>1 DEF SaverOK, SeriesOK
      <3>3. savers[q].pc \in LockedPcs => lock = q /\ lock' = q
            /\ UNCHANGED <<columns, indexed, registry, dateRows>>
        BY <1>2, <2>2 DEF MaintenanceInv, MaintenanceRuns
      <3>4. SchemaOK(savers[q])'
        BY <3>1, <3>3 DEF SaverOK, SchemaOK, Conflict, LockedPcs
      <3> QED
        BY <3>1, <3>2, <3>3, <3>4 DEF SaverOK, SnapshotOK
    <2> QED
      BY <2>1, <2>2
  <1>5. SuccessIsWhole'
    BY DEF MaintenanceInv, SuccessIsWhole
  <1> QED
    BY <1>1, <1>3, <1>4, <1>5 DEF MaintenanceInv

LEMMA SaverTypes ==
    ASSUME MaintenanceInv, NEW r \in MaintenanceRuns
    PROVE  /\ savers[r] \in SaverRecords /\ SaverOK(savers[r])
           /\ savers[r].pc \in LockedPcs => lock = r
           /\ MaxDate \in Nat \ {0}
  BY MaintenanceAssumption DEF MaintenanceInv

\* A step that leaves the table alone.
LEMMA SaverReads ==
    ASSUME MaintenanceInv, NEW r \in MaintenanceRuns, NEW x \in SaverRecords,
           savers' = [savers EXCEPT ![r] = x], SaverOK(x),
           saverRow' \in [MaintenanceRuns -> SaverStatuses],
           \A q \in MaintenanceRuns : saverRow'[q] = "succeeded" =>
               saverRow[q] = "succeeded" \/ \A d \in Dates : dateRows[d] # NoSnapshot,
           lock' = lock \/ (lock = 0 /\ lock' = r) \/ (lock = r /\ lock' = 0),
           x.pc \in LockedPcs => lock' = r,
           UNCHANGED table
    PROVE  MaintenanceInv'
  <1>1. UNCHANGED <<columns, indexed, registry, dateRows>>
    BY DEF table
  <1>2. SaverOK(x)'
    BY <1>1 DEF SaverOK, SnapshotOK, SchemaOK, SeriesOK, Conflict
  <1>3. ColumnsAreFaithful' /\ ReportsAreWhole'
    BY <1>1 DEF MaintenanceInv, ColumnsAreFaithful, ReportsAreWhole
  <1>4. /\ columns' \subseteq Columns(Headers) /\ indexed' \in BOOLEAN
        /\ DOMAIN registry' \subseteq Columns(Headers) /\ dateRows' \in [Dates -> Snapshots]
    BY <1>1 DEF MaintenanceInv, MaintenanceTypeOK
  <1> QED
    BY <1>1, <1>2, <1>3, <1>4, SaverMoves

LEMMA IdleType == MaintenanceIdle \in SaverRecords
  BY DEF MaintenanceIdle, SaverRecords, SaverPcs, Snapshots, NoSnapshot

\* What NextDate and Stops leave.
LEMMA NextDateRecord ==
    ASSUME MaintenanceInv, NEW r \in MaintenanceRuns, NEW failed \in BOOLEAN,
           savers[r].pc \in {"fetch", "lock"} \cup LockedPcs, NextDate(r, failed)
    PROVE  \E x \in SaverRecords :
               /\ savers' = [savers EXCEPT ![r] = x]
               /\ x.pc = IF savers[r].date < MaxDate THEN "fetch" ELSE "finish"
               /\ x.date = savers[r].date + 1
               /\ x.failed = (savers[r].failed \/ failed)
  <1>1. savers[r] \in SaverRecords /\ savers[r].date \in Nat /\ savers[r].failed \in BOOLEAN
    BY SaverTypes DEF SaverRecords
  <1>2. PICK f \in BOOLEAN : f = (savers[r].failed \/ failed)
    BY <1>1
  <1>3. PICK pc \in {"fetch", "finish"} :
            pc = IF savers[r].date < MaxDate THEN "fetch" ELSE "finish"
    OBVIOUS
  <1>4. PICK n \in Nat : n = savers[r].date + 1
    BY <1>1
  <1>5. PICK x : x = [MaintenanceIdle EXCEPT !.failed = f, !.date = n, !.pc = pc]
    OBVIOUS
  <1>6. x \in SaverRecords /\ x.pc = pc /\ x.date = n /\ x.failed = f
    <2>1. pc \in SaverPcs
      BY <1>3 DEF SaverPcs
    <2>2. f \in BOOLEAN /\ n \in Nat
      BY <1>2, <1>4
    <2>3. x \in SaverRecords
      BY <1>5, <2>1, <2>2, IdleType DEF SaverRecords
    <2>4. x.pc = pc /\ x.date = n
      BY <1>5, IdleType DEF SaverRecords
    <2>5. x.failed = f
      BY <1>5, IdleType DEF SaverRecords
    <2> QED
      BY <2>3, <2>4, <2>5
  <1>7. savers' = [savers EXCEPT ![r] = x]
    BY <1>2, <1>3, <1>4, <1>5 DEF NextDate
  <1> QED
    BY <1>2, <1>3, <1>4, <1>6, <1>7

LEMMA SaverFails ==
    ASSUME MaintenanceInv, NEW r \in MaintenanceRuns,
           savers[r].pc \in {"fetch", "lock"} \cup LockedPcs,
           NextDate(r, TRUE) \/ Stops(r),
           ReleaseLock(r) \/ (lock' = lock), UNCHANGED <<saverRow, table>>
    PROVE  MaintenanceInv'
  <1>1. /\ savers[r] \in SaverRecords /\ SaverOK(savers[r]) /\ MaxDate \in Nat
        /\ savers[r].date \in Nat /\ savers[r].failed \in BOOLEAN
    BY SaverTypes DEF SaverRecords
  <1>2. \E x \in SaverRecords :
            /\ savers' = [savers EXCEPT ![r] = x] /\ x.failed
            /\ x.pc = "finish" \/ (x.pc = "fetch" /\ x.date \in Dates)
    <2>1. CASE NextDate(r, TRUE)
      <3>1. savers[r].date < MaxDate => savers[r].date + 1 \in Dates
        BY <1>1 DEF Dates
      <3>2. PICK x \in SaverRecords :
                /\ savers' = [savers EXCEPT ![r] = x]
                /\ x.pc = IF savers[r].date < MaxDate THEN "fetch" ELSE "finish"
                /\ x.date = savers[r].date + 1
                /\ x.failed = (savers[r].failed \/ TRUE)
        BY <2>1, NextDateRecord
      <3>3. x.failed
        BY <3>2
      <3>4. x.pc = "finish" \/ (x.pc = "fetch" /\ x.date \in Dates)
        BY <3>1, <3>2
      <3> QED
        BY <3>2, <3>3, <3>4
    <2>2. CASE Stops(r)
      <3> DEFINE x == [MaintenanceIdle EXCEPT !.pc = "finish", !.failed = TRUE]
      <3>1. x \in SaverRecords /\ x.failed /\ x.pc = "finish"
        BY DEF MaintenanceIdle, SaverRecords, SaverPcs, Snapshots, NoSnapshot
      <3> QED
        BY <2>2, <3>1 DEF Stops
    <2> QED
      BY <2>1, <2>2
  <1>3. PICK x \in SaverRecords :
            /\ savers' = [savers EXCEPT ![r] = x] /\ x.failed
            /\ x.pc = "finish" \/ (x.pc = "fetch" /\ x.date \in Dates)
    BY <1>2
  <1>4. SaverOK(x) /\ x.pc \notin LockedPcs
    BY <1>3 DEF SaverOK, SchemaOK, SeriesOK, LockedPcs
  <1>5. lock' = lock \/ (lock = r /\ lock' = 0)
    BY DEF ReleaseLock
  <1>6. saverRow' \in [MaintenanceRuns -> SaverStatuses]
    BY DEF MaintenanceInv, MaintenanceTypeOK, SaverStatuses
  <1> QED
    BY <1>3, <1>4, <1>5, <1>6, SaverReads

\* selectSources: one merged file, or every branch once.
LEMMA ChosenFiles ==
    ASSUME NEW listing \in Listings, selectSources(listing) # {}
    PROVE  selectSources(listing) \subseteq Files /\ WholeReport(selectSources(listing))
  <1> DEFINE merged == Of(listing, "merged")
             parts == UNION {Of(listing, b) : b \in Branches}
  <1>1. listing \subseteq Files /\ IsFiniteSet(listing)
    BY MaintenanceAssumption, FS_Subset
  <1>2. \A b : IsFiniteSet(Of(listing, b)) /\ Cardinality(Of(listing, b)) \in Nat
    BY <1>1, FS_Subset, FS_CardinalityType DEF Of
  <1>3. /\ ~(Cardinality(merged) > 1)
        /\ \A b \in Branches : ~(Cardinality(Of(listing, b)) > 1)
        /\ merged # {} => selectSources(listing) = merged
        /\ merged = {} => selectSources(listing) = parts /\ \A b \in Branches : Of(listing, b) # {}
    BY DEF selectSources
  <1>4. \A b : Cardinality(Of(listing, b)) <= 1 /\ Of(listing, b) # {}
            => Cardinality(Of(listing, b)) = 1 /\ \E f : Of(listing, b) = {f}
    BY <1>2, FS_EmptySet, FS_Singleton
  <1>5. CASE merged # {}
    <2>1. PICK f : merged = {f}
      BY <1>2, <1>3, <1>4, <1>5
    <2>2. f \in merged /\ f.branch = "merged" /\ f \in listing
      BY <2>1 DEF Of
    <2> QED
      BY <1>1, <1>3, <1>5, <2>1, <2>2 DEF WholeReport
  <1>6. CASE merged = {}
    <2>1. selectSources(listing) = parts
      BY <1>3, <1>6
    <2>2. \A f \in parts : f \in listing /\ f.branch \in Branches
      BY DEF Of
    <2>3. ASSUME NEW b \in Branches PROVE Cardinality(Of(parts, b)) = 1
      <3>1. Of(parts, b) = Of(listing, b)
        BY DEF Of
      <3> QED
        BY <1>2, <1>3, <1>4, <1>6, <3>1
    <2> QED
      BY <1>1, <2>1, <2>2, <2>3 DEF WholeReport
  <1> QED
    BY <1>5, <1>6

\* What changes of the row of the run alone: claimed, cancelled, abandoned.
LEMMA RowMoves ==
    ASSUME MaintenanceInv, NEW r \in MaintenanceRuns,
           \/ ClaimMaintenance(r) \/ CancelMaintenance(r) \/ AbandonMaintenance(r)
    PROVE  MaintenanceInv'
  <1>1. savers[r] \in SaverRecords /\ SaverOK(savers[r]) /\ MaxDate \in Nat \ {0}
        /\ (savers[r].pc \in LockedPcs => lock = r) /\ savers \in [MaintenanceRuns -> SaverRecords]
        /\ saverRow \in [MaintenanceRuns -> SaverStatuses]
    BY SaverTypes DEF MaintenanceInv, MaintenanceTypeOK, SaverStatuses
  <1>2. /\ saverRow' \in [MaintenanceRuns -> SaverStatuses] /\ lock' = lock /\ UNCHANGED table
        /\ \A q \in MaintenanceRuns : saverRow'[q] = "succeeded" => saverRow[q] = "succeeded"
    BY <1>1 DEF ClaimMaintenance, CancelMaintenance, AbandonMaintenance, SaverStatuses
  <1>3. CASE ClaimMaintenance(r)
    <2>1. PICK x : x = [savers[r] EXCEPT !.pc = "fetch", !.date = 1]
      OBVIOUS
    <2>2. savers' = [savers EXCEPT ![r] = x]
      BY <1>3, <2>1 DEF ClaimMaintenance
    <2>3. x \in SaverRecords /\ x.pc = "fetch" /\ x.date = 1
      BY <1>1, <2>1 DEF SaverRecords, SaverPcs
    <2>4. SaverOK(x) /\ x.pc \notin LockedPcs
      <3>1. 1 \in Dates /\ \A d \in Dates : ~(d < 1)
        BY <1>1 DEF Dates
      <3> QED
        BY <2>3, <3>1 DEF SaverOK, SchemaOK, SeriesOK, LockedPcs
    <2> QED
      BY <1>2, <2>2, <2>3, <2>4, SaverReads
  <1>4. CASE savers' = savers
    <2>1. savers' = [savers EXCEPT ![r] = savers[r]]
      BY <1>1, <1>4
    <2> QED
      BY <1>1, <1>2, <2>1, SaverReads
  <1> QED
    BY <1>3, <1>4 DEF CancelMaintenance, AbandonMaintenance

LEMMA RowIsKept ==
    ASSUME MaintenanceInv, saverRow' = saverRow
    PROVE  /\ saverRow' \in [MaintenanceRuns -> SaverStatuses]
           /\ \A q \in MaintenanceRuns : saverRow'[q] = "succeeded" => saverRow[q] = "succeeded"
  BY DEF MaintenanceInv, MaintenanceTypeOK, SaverStatuses

LEMMA FetchMaintenanceStep ==
    ASSUME MaintenanceInv, NEW r \in MaintenanceRuns, FetchMaintenance(r)
    PROVE  MaintenanceInv'
  <1>1. savers[r] \in SaverRecords /\ SaverOK(savers[r]) /\ savers[r].pc = "fetch"
    BY SaverTypes DEF FetchMaintenance
  <1>2. CASE NextDate(r, TRUE) \/ Stops(r)
    BY <1>1, <1>2, SaverFails DEF FetchMaintenance
  <1>3. CASE \E listing \in Listings, headers \in HeaderRows :
              /\ Distinct(headers)
              /\ selectSources(listing) # {}
              /\ savers' = [savers EXCEPT ![r].pc = "lock",
                      ![r].snapshot = [files |-> selectSources(listing), headers |-> headers]]
    <2>1. PICK listing \in Listings, headers \in HeaderRows :
              /\ Distinct(headers)
              /\ selectSources(listing) # {}
              /\ savers' = [savers EXCEPT ![r].pc = "lock",
                      ![r].snapshot = [files |-> selectSources(listing), headers |-> headers]]
      BY <1>3
    <2>2. PICK w : w = [files |-> selectSources(listing), headers |-> headers]
      OBVIOUS
    <2>3. w \in Snapshots /\ w.files # {} /\ WholeReport(w.files) /\ Distinct(w.headers)
      <3>1. selectSources(listing) \subseteq Files /\ WholeReport(selectSources(listing))
        BY <2>1, ChosenFiles
      <3>2. headers \subseteq Headers
        BY MaintenanceAssumption
      <3> QED
        BY <2>1, <2>2, <3>1, <3>2 DEF Snapshots
    <2>4. PICK x : x = [savers[r] EXCEPT !.pc = "lock", !.snapshot = w]
      OBVIOUS
    <2>5. savers' = [savers EXCEPT ![r] = x]
      BY <2>1, <2>2, <2>4
    <2>6. /\ x \in SaverRecords /\ x.pc = "lock" /\ x.snapshot = w
          /\ x.date = savers[r].date /\ x.failed = savers[r].failed
      <3>1. x \in SaverRecords
        BY <1>1, <2>3, <2>4 DEF SaverRecords, SaverPcs
      <3>2. x.pc = "lock" /\ x.snapshot = w /\ x.date = savers[r].date
        BY <1>1, <2>4 DEF SaverRecords
      <3>3. x.failed = savers[r].failed
        BY <1>1, <2>4 DEF SaverRecords
      <3> QED
        BY <3>1, <3>2, <3>3
    <2>7. SaverOK(x) /\ x.pc \notin LockedPcs
      <3>1. SeriesOK(x)
        BY <1>1, <2>6 DEF SaverOK, SeriesOK
      <3> QED
        BY <2>3, <2>6, <3>1 DEF SaverOK, SnapshotOK, SchemaOK, LockedPcs
    <2> QED
      BY <2>5, <2>6, <2>7, RowIsKept, SaverReads DEF FetchMaintenance
  <1> QED
    BY <1>2, <1>3 DEF FetchMaintenance

\* The run goes on with its date.
StaysIn(r, pc, missing) == savers' = [savers EXCEPT ![r].missing = missing, ![r].pc = pc]

LEMMA SaverStays ==
    ASSUME MaintenanceInv, NEW r \in MaintenanceRuns, NEW pc \in SaverPcs,
           NEW m \in SUBSET Columns(Headers), StaysIn(r, pc, m)
    PROVE  \E x \in SaverRecords :
               /\ savers' = [savers EXCEPT ![r] = x]
               /\ x.pc = pc /\ x.missing = m /\ x.snapshot = savers[r].snapshot
               /\ x.date = savers[r].date /\ x.failed = savers[r].failed
  <1>1. savers[r] \in SaverRecords
    BY SaverTypes
  <1>2. PICK x : x = [savers[r] EXCEPT !.missing = m, !.pc = pc]
    OBVIOUS
  <1>3. savers' = [savers EXCEPT ![r] = x]
    BY <1>2 DEF StaysIn
  <1>4. x \in SaverRecords
    BY <1>1, <1>2 DEF SaverRecords
  <1>5. x.pc = pc /\ x.missing = m /\ x.snapshot = savers[r].snapshot /\ x.date = savers[r].date
    BY <1>1, <1>2 DEF SaverRecords
  <1>6. x.failed = savers[r].failed
    BY <1>1, <1>2 DEF SaverRecords
  <1> QED
    BY <1>3, <1>4, <1>5, <1>6

LEMMA GetLockStep ==
    ASSUME MaintenanceInv, NEW r \in MaintenanceRuns, GetLock(r)
    PROVE  MaintenanceInv'
  <1>1. /\ savers[r] \in SaverRecords /\ SaverOK(savers[r]) /\ savers[r].pc = "lock"
        /\ savers \in [MaintenanceRuns -> SaverRecords]
    BY SaverTypes DEF GetLock, MaintenanceInv
  <1>2. CASE lock # 0 /\ NextDate(r, TRUE) /\ UNCHANGED lock
    BY <1>1, <1>2, SaverFails DEF GetLock
  <1>3. CASE lock = 0 /\ lock' = r /\ savers' = [savers EXCEPT ![r].pc = "schema"]
    <2>1. StaysIn(r, "schema", savers[r].missing)
      BY <1>1, <1>3 DEF StaysIn, SaverRecords
    <2>2. "schema" \in SaverPcs /\ savers[r].missing \in SUBSET Columns(Headers)
      BY <1>1 DEF SaverRecords, SaverPcs, LockedPcs
    <2>3. PICK x \in SaverRecords :
               /\ savers' = [savers EXCEPT ![r] = x]
               /\ x.pc = "schema" /\ x.missing = savers[r].missing
               /\ x.snapshot = savers[r].snapshot
               /\ x.date = savers[r].date /\ x.failed = savers[r].failed
      BY <2>1, <2>2, SaverStays
    <2>4. SeriesOK(x)
      BY <1>1, <2>3 DEF SaverOK, SeriesOK
    <2>5. SaverOK(x)
      BY <1>1, <2>3, <2>4 DEF SaverOK, SnapshotOK, SchemaOK, LockedPcs
    <2> QED
      BY <1>3, <2>3, <2>5, RowIsKept, SaverReads DEF GetLock
  <1> QED
    BY <1>2, <1>3 DEF GetLock

LEMMA ReadSchemaStep ==
    ASSUME MaintenanceInv, NEW r \in MaintenanceRuns, ReadSchema(r)
    PROVE  MaintenanceInv'
  <1>1. /\ savers[r] \in SaverRecords /\ SaverOK(savers[r]) /\ savers[r].pc = "schema"
        /\ lock = r /\ savers[r].snapshot.headers \subseteq Headers
    BY SaverTypes DEF ReadSchema, LockedPcs, SaverRecords, Snapshots
  <1>2. CASE Conflict(savers[r].snapshot.headers)
    BY <1>1, <1>2, SaverFails DEF ReadSchema, Fails, LockedPcs
  <1>3. CASE ~Conflict(savers[r].snapshot.headers)
    <2>1. PICK m : m = Columns(savers[r].snapshot.headers) \ columns
      OBVIOUS
    <2>2. PICK pc : pc = IF m # {} THEN "prove" ELSE IF ~indexed THEN "proveIndex" ELSE "rows"
      OBVIOUS
    <2>3. StaysIn(r, pc, m) /\ UNCHANGED lock
      BY <1>3, <2>1, <2>2 DEF ReadSchema, StaysIn
    <2>4. pc \in SaverPcs /\ m \in SUBSET Columns(Headers)
      BY <1>1, <2>1, <2>2 DEF SaverPcs, LockedPcs, Columns
    <2>5. PICK x \in SaverRecords :
               /\ savers' = [savers EXCEPT ![r] = x]
               /\ x.pc = pc /\ x.missing = m /\ x.snapshot = savers[r].snapshot
               /\ x.date = savers[r].date /\ x.failed = savers[r].failed
      BY <2>3, <2>4, SaverStays
    <2>6. pc \in {"prove", "proveIndex", "rows"} /\ pc \in LockedPcs
      BY <2>2 DEF LockedPcs
    <2>7. SeriesOK(x)
      BY <1>1, <2>5, <2>6 DEF SaverOK, SeriesOK, LockedPcs
    <2>8. SchemaOK(x)
      BY <1>3, <2>1, <2>2, <2>5 DEF SchemaOK
    <2>9. SaverOK(x)
      BY <1>1, <2>5, <2>7, <2>8 DEF SaverOK, SnapshotOK, LockedPcs
    <2> QED
      BY <1>1, <2>3, <2>5, <2>9, RowIsKept, SaverReads DEF ReadSchema
  <1> QED
    BY <1>2, <1>3

LEMMA ProveOwnershipStep ==
    ASSUME MaintenanceInv, NEW r \in MaintenanceRuns, ProveOwnership(r)
    PROVE  MaintenanceInv'
  <1>1. /\ savers[r] \in SaverRecords /\ SaverOK(savers[r])
        /\ savers[r].pc \in {"prove", "proveIndex"} /\ savers[r].pc \in LockedPcs /\ lock = r
        /\ savers[r].missing \in SUBSET Columns(Headers)
        /\ savers \in [MaintenanceRuns -> SaverRecords]
    BY SaverTypes DEF ProveOwnership, LockedPcs, SaverRecords, MaintenanceInv
  <1>2. CASE ~Publishable(r)
    BY <1>1, <1>2, SaverFails DEF ProveOwnership, LosesOwner
  <1>3. CASE Publishable(r)
    <2>1. PICK pc : pc = IF savers[r].pc = "prove" THEN "columns" ELSE "index"
      OBVIOUS
    <2>2. StaysIn(r, pc, savers[r].missing) /\ UNCHANGED lock
      BY <1>1, <1>3, <2>1 DEF ProveOwnership, StaysIn, SaverRecords
    <2>3. pc \in SaverPcs /\ pc \in LockedPcs
      BY <2>1 DEF SaverPcs, LockedPcs
    <2>4. PICK x \in SaverRecords :
               /\ savers' = [savers EXCEPT ![r] = x]
               /\ x.pc = pc /\ x.missing = savers[r].missing /\ x.snapshot = savers[r].snapshot
               /\ x.date = savers[r].date /\ x.failed = savers[r].failed
      BY <1>1, <2>2, <2>3, SaverStays
    <2>5. SeriesOK(x)
      BY <1>1, <2>1, <2>4 DEF SaverOK, SeriesOK, LockedPcs
    <2>6. SchemaOK(x)
      BY <1>1, <2>1, <2>4 DEF SaverOK, SchemaOK, LockedPcs
    <2>7. SaverOK(x)
      BY <1>1, <2>4, <2>5, <2>6 DEF SaverOK, SnapshotOK
    <2> QED
      BY <1>1, <2>2, <2>4, <2>7, RowIsKept, SaverReads DEF ProveOwnership
  <1> QED
    BY <1>2, <1>3

LEMMA TableTypes ==
    ASSUME MaintenanceInv
    PROVE  /\ columns \subseteq Columns(Headers) /\ indexed \in BOOLEAN
           /\ DOMAIN registry \subseteq Columns(Headers) /\ dateRows \in [Dates -> Snapshots]
           /\ ColumnsAreFaithful /\ ReportsAreWhole
  BY DEF MaintenanceInv, MaintenanceTypeOK

\* More columns, or the index: what is registered and the rows stay.
LEMMA TableGrows ==
    ASSUME MaintenanceInv, NEW r \in MaintenanceRuns, NEW x \in SaverRecords,
           savers[r].pc \in LockedPcs, savers' = [savers EXCEPT ![r] = x], SaverOK(x)',
           columns \subseteq columns', columns' \subseteq Columns(Headers), indexed' \in BOOLEAN,
           lock' = lock \/ (lock = r /\ lock' = 0), x.pc \in LockedPcs => lock' = r,
           UNCHANGED <<saverRow, registry, dateRows>>
    PROVE  MaintenanceInv'
  <1>1. DOMAIN registry' \subseteq Columns(Headers) /\ dateRows' \in [Dates -> Snapshots]
    BY TableTypes
  <1>2. ColumnsAreFaithful' /\ ReportsAreWhole'
    BY TableTypes DEF ColumnsAreFaithful, ReportsAreWhole
  <1>3. saverRow' \in [MaintenanceRuns -> SaverStatuses]
    BY RowIsKept
  <1> QED
    BY <1>1, <1>2, <1>3, SaverMoves

LEMMA AddColumnsStep ==
    ASSUME MaintenanceInv, NEW r \in MaintenanceRuns, AddColumns(r)
    PROVE  MaintenanceInv'
  <1>1. /\ savers[r] \in SaverRecords /\ SaverOK(savers[r])
        /\ savers[r].pc = "columns" /\ savers[r].pc \in LockedPcs /\ lock = r
        /\ savers[r].missing \in SUBSET Columns(Headers)
    BY SaverTypes DEF AddColumns, LockedPcs, SaverRecords
  <1>2. /\ columns' = columns \cup savers[r].missing /\ indexed' \in BOOLEAN
        /\ UNCHANGED <<saverRow, lock, registry, dateRows>>
    BY DEF AddColumns
  <1>3. PICK pc : pc = IF indexed' THEN "rows" ELSE "proveIndex"
    OBVIOUS
  <1>4. StaysIn(r, pc, {}) /\ pc \in SaverPcs /\ pc \in LockedPcs
    BY <1>3 DEF AddColumns, StaysIn, SaverPcs, LockedPcs
  <1>5. PICK x \in SaverRecords :
               /\ savers' = [savers EXCEPT ![r] = x]
               /\ x.pc = pc /\ x.missing = {} /\ x.snapshot = savers[r].snapshot
               /\ x.date = savers[r].date /\ x.failed = savers[r].failed
    BY <1>4, SaverStays
  <1>6. SeriesOK(x)'
    BY <1>1, <1>2, <1>3, <1>5 DEF SaverOK, SeriesOK, LockedPcs
  <1>7. SchemaOK(x)'
    BY <1>1, <1>2, <1>3, <1>5 DEF SaverOK, SchemaOK, LockedPcs, Conflict
  <1>8. SaverOK(x)'
    BY <1>1, <1>5, <1>6, <1>7 DEF SaverOK, SnapshotOK
  <1> QED
    BY <1>1, <1>2, <1>5, <1>8, TableTypes, TableGrows

LEMMA AddIndexStep ==
    ASSUME MaintenanceInv, NEW r \in MaintenanceRuns, AddIndex(r)
    PROVE  MaintenanceInv'
  <1>1. /\ savers[r] \in SaverRecords /\ SaverOK(savers[r])
        /\ savers[r].pc = "index" /\ savers[r].pc \in LockedPcs /\ lock = r
        /\ savers[r].missing \in SUBSET Columns(Headers)
        /\ savers \in [MaintenanceRuns -> SaverRecords]
    BY SaverTypes DEF AddIndex, LockedPcs, SaverRecords, MaintenanceInv
  <1>2. indexed' = TRUE /\ UNCHANGED <<saverRow, lock, columns, registry, dateRows>>
    BY DEF AddIndex
  <1>3. StaysIn(r, "rows", savers[r].missing) /\ "rows" \in SaverPcs /\ "rows" \in LockedPcs
    BY <1>1 DEF AddIndex, StaysIn, SaverPcs, LockedPcs, SaverRecords
  <1>4. PICK x \in SaverRecords :
               /\ savers' = [savers EXCEPT ![r] = x]
               /\ x.pc = "rows" /\ x.missing = savers[r].missing
               /\ x.snapshot = savers[r].snapshot
               /\ x.date = savers[r].date /\ x.failed = savers[r].failed
    BY <1>1, <1>3, SaverStays
  <1>5. SeriesOK(x)'
    BY <1>1, <1>2, <1>4 DEF SaverOK, SeriesOK, LockedPcs
  <1>6. SchemaOK(x)'
    BY <1>1, <1>2, <1>4 DEF SaverOK, SchemaOK, LockedPcs, Conflict
  <1>7. SaverOK(x)'
    BY <1>1, <1>4, <1>5, <1>6 DEF SaverOK, SnapshotOK
  <1> QED
    BY <1>1, <1>2, <1>4, <1>7, TableTypes, TableGrows

LEMMA EndedRecord ==
    /\ MaintenanceEnded \in SaverRecords /\ MaintenanceEnded.pc = "ended"
    /\ MaintenanceEnded.pc \notin LockedPcs
  BY IdleType DEF MaintenanceEnded, SaverRecords, SaverPcs, LockedPcs

LEMMA MaintenanceCrashStep ==
    ASSUME MaintenanceInv, NEW r \in MaintenanceRuns, MaintenanceCrash(r)
    PROVE  MaintenanceInv'
  <1>1. PICK x \in SaverRecords : x = MaintenanceEnded /\ x.pc = "ended" /\ x.pc \notin LockedPcs
    BY EndedRecord
  <1>2. savers' = [savers EXCEPT ![r] = x] /\ SaverOK(x) /\ SaverOK(x)'
    <2>1. savers' = [savers EXCEPT ![r] = x]
      BY <1>1 DEF MaintenanceCrash
    <2>2. SaverOK(x)
      BY <1>1 DEF SaverOK, SchemaOK, SeriesOK, LockedPcs
    <2>3. SaverOK(x)'
      BY <1>1 DEF SaverOK, SchemaOK, SeriesOK, LockedPcs
    <2> QED
      BY <2>1, <2>2, <2>3
  <1>3. (lock' = lock \/ (lock = r /\ lock' = 0)) /\ UNCHANGED <<saverRow, registry, dateRows>>
    BY DEF MaintenanceCrash, ReleaseLock
  <1>4. CASE UNCHANGED <<columns, indexed>>
    BY <1>1, <1>2, <1>3, <1>4, RowIsKept, SaverReads DEF table
  <1>5. CASE /\ savers[r].pc = "columns" /\ columns' = columns \cup savers[r].missing
             /\ indexed' = (indexed \/ columns = {})
    <2>1. savers[r].pc \in LockedPcs /\ savers[r].missing \in SUBSET Columns(Headers)
      BY <1>5, SaverTypes DEF LockedPcs, SaverRecords
    <2>2. columns \subseteq columns' /\ columns' \subseteq Columns(Headers) /\ indexed' \in BOOLEAN
      BY <1>5, <2>1, TableTypes
    <2> QED
      BY <1>1, <1>2, <1>3, <2>1, <2>2, TableGrows
  <1> QED
    BY <1>4, <1>5 DEF MaintenanceCrash

LEMMA FinishMaintenanceStep ==
    ASSUME MaintenanceInv, NEW r \in MaintenanceRuns, FinishMaintenance(r)
    PROVE  MaintenanceInv'
  <1>1. PICK x \in SaverRecords : x = MaintenanceEnded /\ x.pc = "ended" /\ x.pc \notin LockedPcs
    BY EndedRecord
  <1>2. savers' = [savers EXCEPT ![r] = x] /\ SaverOK(x)
    <2>1. savers' = [savers EXCEPT ![r] = x]
      BY <1>1 DEF FinishMaintenance
    <2>2. SaverOK(x)
      BY <1>1 DEF SaverOK, SchemaOK, SeriesOK, LockedPcs
    <2> QED
      BY <2>1, <2>2
  <1>3. saverRow \in [MaintenanceRuns -> SaverStatuses]
    BY DEF MaintenanceInv, MaintenanceTypeOK, SaverStatuses
  <1>4. saverRow' \in [MaintenanceRuns -> SaverStatuses]
    BY <1>3 DEF FinishMaintenance, SaverStatuses
  <1>5. ASSUME ~savers[r].failed PROVE \A d \in Dates : dateRows[d] # NoSnapshot
    <2>1. savers[r] \in SaverRecords /\ SeriesOK(savers[r]) /\ savers[r].pc = "finish"
          /\ savers[r].date \in Nat /\ MaxDate \in Nat
      BY SaverTypes DEF FinishMaintenance, SaverOK, SaverRecords
    <2>2. \A d \in Dates : d < savers[r].date
      BY <1>5, <2>1 DEF SeriesOK, Dates
    <2> QED
      BY <1>5, <2>1, <2>2 DEF SeriesOK
  <1>6. \A q \in MaintenanceRuns : saverRow'[q] = "succeeded" =>
            saverRow[q] = "succeeded" \/ ~savers[r].failed
    BY <1>3 DEF FinishMaintenance
  <1>7. lock' = lock /\ UNCHANGED table
    BY DEF FinishMaintenance
  <1> QED
    BY <1>1, <1>2, <1>4, <1>5, <1>6, <1>7, SaverReads

\* The registry after the headers of a report: none of them is in conflict
\* with it, and no two of them share a column.
LEMMA RegisteredHeaders ==
    ASSUME NEW headers, headers \subseteq Headers, ~Conflict(headers), Distinct(headers)
    PROVE  /\ DOMAIN Registered(headers) = DOMAIN registry \cup Columns(headers)
           /\ \A c \in DOMAIN registry : Registered(headers)[c] = registry[c]
           /\ \A h \in headers : Registered(headers)[h.column] = h
  <1>1. /\ DOMAIN Registered(headers) = DOMAIN registry \cup Columns(headers)
        /\ \A c \in DOMAIN registry : Registered(headers)[c] = registry[c]
    BY DEF Registered
  <1>2. ASSUME NEW h \in headers PROVE Registered(headers)[h.column] = h
    <2>1. h.column \in Columns(headers)
      BY DEF Columns
    <2>2. CASE h.column \in DOMAIN registry
      BY <2>2 DEF Registered, Conflict
    <2>3. CASE h.column \notin DOMAIN registry
      <3>1. Registered(headers)[h.column] = CHOOSE k \in headers : k.column = h.column
        BY <2>1, <2>3 DEF Registered
      <3>2. PICK k : k = CHOOSE i \in headers : i.column = h.column
        OBVIOUS
      <3>3. k \in headers /\ k.column = h.column
        BY <3>2
      <3> QED
        BY <3>1, <3>2, <3>3 DEF Distinct
    <2> QED
      BY <2>2, <2>3
  <1> QED
    BY <1>1, <1>2

LEMMA ReplaceSnapshotStep ==
    ASSUME MaintenanceInv, NEW r \in MaintenanceRuns, ReplaceSnapshot(r)
    PROVE  MaintenanceInv'
  <1>1. /\ savers[r] \in SaverRecords /\ SaverOK(savers[r])
        /\ savers[r].pc = "rows" /\ savers[r].pc \in LockedPcs /\ MaxDate \in Nat
    BY SaverTypes DEF ReplaceSnapshot, LockedPcs
  <1>2. CASE ~Publishable(r)
    BY <1>1, <1>2, SaverFails DEF ReplaceSnapshot, LosesOwner, table
  <1>3. CASE Publishable(r)
    <2>1. PICK w : w = savers[r].snapshot
      OBVIOUS
    <2>2. PICK n : n = savers[r].date
      OBVIOUS
    <2>3. /\ w \in Snapshots /\ w.headers \subseteq Headers /\ w.files # {} /\ WholeReport(w.files)
          /\ Distinct(w.headers) /\ ~Conflict(w.headers) /\ Columns(w.headers) \subseteq columns
          /\ n \in Dates /\ n \in Nat
      <3>1. w \in Snapshots /\ w.headers \subseteq Headers
        BY <1>1, <2>1 DEF SaverRecords, Snapshots
      <3>2. SnapshotOK(savers[r]) /\ SchemaOK(savers[r]) /\ SeriesOK(savers[r])
        BY <1>1 DEF SaverOK
      <3>3. n \in Dates /\ n \in Nat
        BY <1>1, <2>2, <3>2 DEF SeriesOK, Dates
      <3> QED
        BY <1>1, <2>1, <3>1, <3>2, <3>3 DEF SnapshotOK, SchemaOK, LockedPcs
    <2>4. /\ dateRows' = [dateRows EXCEPT ![n] = w] /\ registry' = Registered(w.headers)
          /\ lock' = lock \/ (lock = r /\ lock' = 0)
          /\ UNCHANGED <<saverRow, columns, indexed>>
      BY <1>3, <2>1, <2>2 DEF ReplaceSnapshot, ReleaseLock
    <2>5. PICK failed \in BOOLEAN : NextDate(r, failed)
      BY <1>3 DEF ReplaceSnapshot
    <2>6. PICK x \in SaverRecords :
               /\ savers' = [savers EXCEPT ![r] = x]
               /\ x.pc = IF savers[r].date < MaxDate THEN "fetch" ELSE "finish"
               /\ x.date = savers[r].date + 1
               /\ x.failed = (savers[r].failed \/ failed)
      BY <1>1, <2>5, NextDateRecord
    <2>7. dateRows \in [Dates -> Snapshots]
      BY TableTypes
    <2>8. /\ dateRows' \in [Dates -> Snapshots] /\ dateRows'[n] = w
          /\ \A d \in Dates : d # n => dateRows'[d] = dateRows[d]
      BY <2>3, <2>4, <2>7
    <2>9. w # NoSnapshot
      BY <2>3 DEF NoSnapshot
    <2>10. \A d \in Dates : dateRows[d] # NoSnapshot => dateRows'[d] # NoSnapshot
      BY <2>8, <2>9
    <2>11. SaverOK(x)'
      <3>1. /\ x.pc = IF n < MaxDate THEN "fetch" ELSE "finish"
            /\ x.date = n + 1
            /\ ~x.failed => ~savers[r].failed
        BY <2>2, <2>6
      <3>2. ~savers[r].failed => \A d \in Dates : d < n => dateRows[d] # NoSnapshot
        BY <1>1, <2>2 DEF SaverOK, SeriesOK
      <3>3. \A d \in Dates : d < n + 1 => d < n \/ d = n
        BY <2>3 DEF Dates
      <3>4. ~x.failed => \A d \in Dates : d < x.date => dateRows'[d] # NoSnapshot
        BY <2>8, <2>9, <2>10, <3>1, <3>2, <3>3
      <3>5. (x.pc = "fetch" => x.date \in Dates) /\ (x.pc = "finish" => x.date > MaxDate)
        BY <1>1, <2>3, <3>1 DEF Dates
      <3>6. x.pc \in {"fetch", "finish"}
        BY <3>1
      <3>7. SeriesOK(x)'
        BY <3>4, <3>5, <3>6 DEF SeriesOK, LockedPcs
      <3> QED
        BY <3>6, <3>7 DEF SaverOK, SchemaOK, LockedPcs
    <2>12. x.pc \notin LockedPcs
      BY <2>6 DEF LockedPcs
    <2>13. /\ DOMAIN registry' = DOMAIN registry \cup Columns(w.headers)
           /\ \A c \in DOMAIN registry : registry'[c] = registry[c]
           /\ \A h \in w.headers : registry'[h.column] = h
      BY <2>3, <2>4, RegisteredHeaders
    <2>14. DOMAIN registry' \subseteq Columns(Headers)
      BY <2>3, <2>13, TableTypes DEF Columns
    <2>15. ColumnsAreFaithful'
      <3>1. ASSUME NEW d \in Dates, NEW h \in dateRows'[d].headers
            PROVE  h.column \in columns' /\ h.column \in DOMAIN registry' /\ registry'[h.column] = h
        <4>1. CASE d = n
          <5>1. h \in w.headers /\ h.column \in Columns(w.headers)
            BY <2>8, <4>1 DEF Columns
          <5> QED
            BY <2>3, <2>4, <2>13, <5>1
        <4>2. CASE d # n
          BY <2>4, <2>8, <2>13, <4>2, TableTypes DEF ColumnsAreFaithful
        <4> QED
          BY <4>1, <4>2
      <3> QED
        BY <3>1 DEF ColumnsAreFaithful
    <2>16. ReportsAreWhole'
      BY <2>3, <2>8, TableTypes DEF ReportsAreWhole, WholeReport
    <2>17. columns' \subseteq Columns(Headers) /\ indexed' \in BOOLEAN
      BY <2>4, TableTypes
    <2> QED
      BY <1>1, <2>4, <2>6, <2>8, <2>10, <2>11, <2>12, <2>14, <2>15, <2>16, <2>17,
         RowIsKept, SaverMoves
  <1> QED
    BY <1>2, <1>3

LEMMA MaintenanceStepKeepsInv ==
    ASSUME MaintenanceInv, [MaintenanceNext]_maintenanceVars
    PROVE  MaintenanceInv'
  <1>1. CASE UNCHANGED maintenanceVars
    <2>1. UNCHANGED <<saverRow, savers, lock, columns, indexed, registry, dateRows>>
      BY <1>1 DEF maintenanceVars
    <2>2. \A q \in MaintenanceRuns : SaverOK(savers[q])'
      BY <2>1 DEF MaintenanceInv, SaverOK, SnapshotOK, SchemaOK, SeriesOK, Conflict
    <2>3. MaintenanceTypeOK' /\ ColumnsAreFaithful' /\ ReportsAreWhole' /\ SuccessIsWhole'
      BY <2>1 DEF MaintenanceInv, MaintenanceTypeOK, ColumnsAreFaithful, ReportsAreWhole,
         SuccessIsWhole
    <2> QED
      BY <2>1, <2>2, <2>3 DEF MaintenanceInv
  <1>2. CASE MaintenanceNext
    <2>1. PICK r \in MaintenanceRuns :
              \/ ClaimMaintenance(r) \/ CancelMaintenance(r) \/ AbandonMaintenance(r)
              \/ MaintenanceStep(r) \/ MaintenanceFault(r) \/ InterruptMaintenance(r)
              \/ MaintenanceCrash(r)
      BY <1>2 DEF MaintenanceNext
    <2>2. CASE MaintenanceStep(r)
      BY <2>2, FetchMaintenanceStep, GetLockStep, ReadSchemaStep, ProveOwnershipStep,
         AddColumnsStep, AddIndexStep, ReplaceSnapshotStep, FinishMaintenanceStep
         DEF MaintenanceStep
    <2>3. CASE MaintenanceFault(r) \/ InterruptMaintenance(r)
      BY <2>3, SaverFails DEF MaintenanceFault, InterruptMaintenance, Fails, Locked, LockedPcs
    <2> QED
      BY <2>1, <2>2, <2>3, RowMoves, MaintenanceCrashStep
  <1> QED
    BY <1>1, <1>2

LEMMA MaintenanceInitInv ==
    ASSUME MaintenanceInit
    PROVE  MaintenanceInv
  <1>1. /\ savers \in [MaintenanceRuns -> SaverRecords]
        /\ \A r \in MaintenanceRuns : savers[r].pc = "none"
    BY IdleType DEF MaintenanceInit, MaintenanceIdle
  <1>2. \A r \in MaintenanceRuns : SaverOK(savers[r]) /\ savers[r].pc \notin LockedPcs
    BY <1>1 DEF SaverOK, SchemaOK, SeriesOK, LockedPcs
  <1>3. NoSnapshot \in Snapshots /\ NoSnapshot.files = {} /\ NoSnapshot.headers = {}
    BY DEF NoSnapshot, Snapshots
  <1>4. dateRows \in [Dates -> Snapshots] /\ \A d \in Dates : dateRows[d] = NoSnapshot
    BY <1>3 DEF MaintenanceInit
  <1>5. columns \subseteq Columns(Headers)
    BY MaintenanceAssumption DEF MaintenanceInit, Columns
  <1>6. DOMAIN registry = {}
    BY DEF MaintenanceInit
  <1>7. MaintenanceTypeOK
    <2>1. saverRow \in [MaintenanceRuns -> {"none", "running", "cancelling", "succeeded", "closed"}]
      BY DEF MaintenanceInit
    <2>2. lock \in 0 .. MaxMaintenanceRuns
      BY MaintenanceAssumption DEF MaintenanceInit
    <2>3. indexed \in BOOLEAN
      BY DEF MaintenanceInit
    <2>4. \A d \in Dates : dateRows[d].files \subseteq Files /\ dateRows[d].headers \subseteq Headers
      BY <1>3, <1>4
    <2> QED
      BY <1>5, <1>6, <2>1, <2>2, <2>3, <2>4 DEF MaintenanceTypeOK
  <1>8. ColumnsAreFaithful /\ ReportsAreWhole
    BY <1>3, <1>4 DEF ColumnsAreFaithful, ReportsAreWhole
  <1>9. SuccessIsWhole
    BY DEF MaintenanceInit, SuccessIsWhole
  <1> QED
    BY <1>1, <1>2, <1>4, <1>7, <1>8, <1>9 DEF MaintenanceInv

\* ingestionstore/maintenance.go saveSnapshot: whatever runs overlap, fail, are
\* abandoned or die, the columns, the registry and the rows of a maintenance table
\* agree, a date has the rows of one whole report, no run adds what is there, and
\* a success has every date.
THEOREM MaintenanceSafetyHolds == MaintenanceSpec => []MaintenanceSafety
  <1>1. MaintenanceInv => MaintenanceSafety
    <2>1. MaintenanceInv => SchemaIsAsRead
      BY DEF MaintenanceInv, SaverOK, SchemaOK, SchemaIsAsRead
    <2> QED
      BY <2>1 DEF MaintenanceInv, MaintenanceSafety
  <1> QED
    BY <1>1, MaintenanceInitInv, MaintenanceStepKeepsInv, PTL DEF MaintenanceSpec
=============================================================================
