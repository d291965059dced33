----------------------------- MODULE DetailRun ------------------------------
(***************************************************************************)
(* The execution of a Detail job (internal/ingestionexec executeDetail and *)
(* runDetailPool, internal/ingestionstore detail.go and saving_block.go):  *)
(* identifiers are listed, a pool of goroutines fetches and stages each of *)
(* them, and one transaction replaces the tables by what was staged and    *)
(* records the success of the run.  runFixedPool is the same pool.         *)
(*                                                                         *)
(* A run may go on after it was abandoned, so the executions of several    *)
(* runs of the job overlap.  RunLifecycle has the rest of a run's life.    *)
(* What Fincloud answers differs from call to call: every listing and      *)
(* every fetch is a choice.                                                *)
(***************************************************************************)
EXTENDS Integers, Sequences, FiniteSets

CONSTANTS
    Ids,             \* account or customer numbers
    MaxRuns,         \* bound: runs of the job
    Records,         \* what a fetch answers: a body and a number of child items
    Jobs             \* bound: the jobs looked at, each with its kind ("parented", or
                     \* "parentless": saving_block_detail), the ids and the runs it
                     \* has, and the largest detail_concurrency that is set

\* What a fetch answers has a body, and a job is one of the two kinds.
ASSUME DetailAssumption ==
    /\ IsFiniteSet(Ids)
    /\ Records \subseteq [body : Nat \ {0}, items : Nat]
    /\ Jobs \subseteq [kind : {"parented", "parentless"}, ids : SUBSET Ids, runs : Nat,
                      concurrency : Nat]

VARIABLES
    job,       \* the job
    row,       \* the status of each run; "cancelling" has cancel_requested_at
    exec,      \* the execution of each run, and its pool
    item,      \* what a goroutine of the pool is doing with an identifier
    results,   \* the results channel of each pool, of that capacity
    staged,    \* the staging tables, by run and identifier
    parents,   \* rows of the parent table: <<identifier, body>>
    children,  \* rows of the child table: <<identifier, index, body>>
    current    \* the listing and the answers of the run published last (history)

vars == <<job, row, exec, item, results, staged, parents, children, current>>

Runs == 1 .. MaxRuns
NoRecord == [body |-> 0, items |-> 0]
Nothing == [i \in Ids |-> NoRecord]
\* got is history: what the run was answered.
Unstarted == [pc |-> "none", ctx |-> "live", listed |-> {}, todo |-> {}, open |-> FALSE,
              concurrency |-> 0, started |-> 0, rows |-> 0, fatal |-> FALSE, local |-> FALSE,
              got |-> Nothing]
Ended == [Unstarted EXCEPT !.pc = "ended"]
Free == [at |-> "none", record |-> NoRecord, result |-> "none"]
NoItems == [i \in Ids |-> Free]

Init ==
    /\ job \in Jobs
    /\ row = [r \in Runs |-> "none"]
    /\ exec = [r \in Runs |-> Unstarted]
    /\ item = [r \in Runs |-> NoItems]
    /\ results = [r \in Runs |-> <<>>]
    /\ staged = [r \in Runs |-> Nothing]
    /\ parents = {} /\ children = {}
    /\ current = [listed |-> {}, got |-> Nothing]

tables == <<parents, children, current>>

\* status='running' AND owner_id=?
Owned(r) == row[r] \in {"running", "cancelling"}
Terminal(r) == row[r] \in {"succeeded", "closed"}

Goto(r, pc) == exec' = [exec EXCEPT ![r].pc = pc]

-----------------------------------------------------------------------------
(* The run's row, and how the execution learns of it *)

\* A job has one active run at a time.
Claim(r) ==
    /\ row[r] = "none" /\ r <= job.runs
    /\ \A q \in Runs : q < r => Terminal(q)
    /\ row' = [row EXCEPT ![r] = "running"]
    /\ Goto(r, "prepare")
    /\ UNCHANGED <<job, item, results, staged, tables>>

RequestCancellation(r) ==
    /\ row[r] = "running"
    /\ row' = [row EXCEPT ![r] = "cancelling"]
    /\ UNCHANGED <<job, exec, item, results, staged, tables>>

\* The lease lapses: the sweep closes the run, whoever executes it.
Abandon(r) ==
    /\ Owned(r)
    /\ row' = [row EXCEPT ![r] = "closed"]
    /\ UNCHANGED <<job, exec, item, results, staged, tables>>

Active(r) == exec[r].pc \notin {"none", "ended"}

\* A heartbeat reads the row, or the application shuts down.
Interrupt(r, cause) ==
    /\ Active(r)
    /\ exec[r].ctx = "live"
    /\ cause = "lost" => ~Owned(r)
    /\ exec' = [exec EXCEPT ![r].ctx = cause]
    /\ UNCHANGED <<job, row, item, results, staged, tables>>

\* The process ends.
Crash(r) ==
    /\ Active(r)
    /\ exec' = [exec EXCEPT ![r] = Ended]
    /\ item' = [item EXCEPT ![r] = NoItems]
    /\ results' = [results EXCEPT ![r] = <<>>]
    /\ UNCHANGED <<job, row, staged, tables>>

-----------------------------------------------------------------------------
(* executeDetail up to the pool *)

\* PrepareRun, then the frozen date, which only the owner can write.
PrepareRun(r) ==
    /\ exec[r].pc = "prepare"
    /\ staged' = [staged EXCEPT ![r] = Nothing]
    /\ Goto(r, IF Owned(r) THEN "list" ELSE "failed")
    /\ UNCHANGED <<job, row, item, results, tables>>

\* enumerateDetails, the first progress, and the settings frozen for the pool.
\* persistProgress tells that the owner is lost; any other error of it is
\* tolerated, and then the loss goes unnoticed.
Enumerate(r, listed) ==
    /\ exec[r].pc = "list"
    /\ \/ \E n \in 1 .. job.concurrency :
              exec' = [exec EXCEPT ![r] =
                  [@ EXCEPT !.pc = "pool", !.listed = listed, !.todo = listed, !.open = TRUE,
                            !.concurrency = n]]
       \/ ~Owned(r) /\ Goto(r, "failed")
    /\ UNCHANGED <<job, row, item, results, staged, tables>>

\* A refused statement, a failed listing or an answer that did not arrive.
Fault(r) ==
    /\ exec[r].pc \in {"prepare", "list", "publish"}
    /\ Goto(r, "failed")
    /\ UNCHANGED <<job, row, item, results, staged, tables>>

-----------------------------------------------------------------------------
(* runDetailPool *)

\* workCtx.Done(): the run was interrupted, or the pool has called cancel.
Done(r) == exec[r].ctx # "live" \/ exec[r].fatal

Busy(r) == {i \in Ids : item[r][i].at # "none"}

\* The unbuffered jobs channel: the feeder hands an identifier to a goroutine
\* that waits for one.  When the pool is done as well, select takes either.
Feed(r, i) ==
    /\ exec[r].open /\ i \in exec[r].todo
    /\ Cardinality(Busy(r)) < exec[r].concurrency
    /\ exec' = [exec EXCEPT ![r].todo = @ \ {i}]
    /\ item' = [item EXCEPT ![r][i].at = "fetch"]
    /\ UNCHANGED <<job, row, results, staged, tables>>

\* Mutant: the feeder returns without closing the channel.
CloseJobsAtEnd(r) ==
    /\ exec[r].open
    /\ exec[r].todo = {} /\ ~Done(r)
    /\ exec' = [exec EXCEPT ![r].open = FALSE]
    /\ UNCHANGED <<job, row, item, results, staged, tables>>

CloseJobs(r) ==
    /\ exec[r].open
    /\ exec[r].todo = {} \/ Done(r)
    /\ exec' = [exec EXCEPT ![r].open = FALSE]
    /\ UNCHANGED <<job, row, item, results, staged, tables>>

Sends(r, i, result) ==
    item' = [item EXCEPT ![r][i] = [@ EXCEPT !.at = "send", !.result = result]]

\* The answer, or an error of the layer that failed.  context.Canceled is the
\* pool's or the run's own cancellation, or that of the other run whose login
\* this request waited for: the runs of a username share one client.
Fetch(r, i) ==
    /\ item[r][i].at = "fetch"
    /\ \/ \E record \in Records :
              /\ item' = [item EXCEPT ![r][i] = [@ EXCEPT !.at = "stage", !.record = record]]
              /\ exec' = [exec EXCEPT ![r].got[i] = record]
       \/ \E result \in {"fetch", "map", "canceled"} :
              Sends(r, i, result) /\ UNCHANGED exec
    /\ UNCHANGED <<job, row, results, staged, tables>>

\* One transaction replaces what the run had staged for the identifier; it
\* does not ask who owns the run, and its answer may be lost.
Stage(r, i) ==
    /\ item[r][i].at = "stage"
    /\ \/ Sends(r, i, "ok") /\ staged' = [staged EXCEPT ![r][i] = item[r][i].record]
       \/ /\ Sends(r, i, "persist")
          /\ \E applied \in BOOLEAN :
                 staged' = IF applied THEN [staged EXCEPT ![r][i] = item[r][i].record] ELSE staged
       \/ Done(r) /\ Sends(r, i, "canceled") /\ UNCHANGED staged
    /\ UNCHANGED <<job, row, exec, results, tables>>

\* The results channel takes as many results as there are goroutines.
Send(r, i) ==
    /\ item[r][i].at = "send"
    /\ Len(results[r]) < exec[r].concurrency
    /\ results' = [results EXCEPT ![r] =
           Append(@, [result |-> item[r][i].result, record |-> item[r][i].record])]
    /\ item' = [item EXCEPT ![r][i] = Free]
    /\ UNCHANGED <<job, row, exec, staged, tables>>

\* suppressCleanupCancellation: not a failure of the item.
suppressed(r, result) == result = "canceled" /\ exec[r].ctx # "lost"

\* The rows of a record: its parent, if the job has parents, and its items.
RowsOf(record) == record.items + (IF job.kind = "parented" THEN 1 ELSE 0)

Counted(r, head) ==
    LET ok == head.result = "ok"
        fatal == head.result \in {"fetch", "persist", "canceled"}
    IN  [exec[r] EXCEPT !.started = @ + 1,
            !.rows = IF ok THEN @ + RowsOf(head.record) ELSE @,
            !.local = @ \/ head.result = "map",
            !.fatal = @ \/ fatal]

\* One result.  Progress is flushed after it, unless an earlier flush failed:
\* that it finds the owner lost is fatal, any other error is not.
Consume(r) ==
    /\ results[r] # <<>>
    /\ LET head == Head(results[r])
           counted == Counted(r, head)
       IN  IF suppressed(r, head.result)
           THEN exec' = [exec EXCEPT ![r].started = @ + 1]
           ELSE \/ exec' = [exec EXCEPT ![r] = counted]
                \/ ~Owned(r) /\ exec' = [exec EXCEPT ![r] = [counted EXCEPT !.fatal = TRUE]]
    /\ results' = [results EXCEPT ![r] = Tail(@)]
    /\ UNCHANGED <<job, row, item, staged, tables>>

\* The goroutines are gone and the results channel is closed and empty.
Drained(r) == ~exec[r].open /\ Busy(r) = {} /\ results[r] = <<>>

\* What executeDetail makes of the outcome of the pool; the flush before the
\* publication may find the owner lost.
Judge(r) ==
    LET pool == exec[r]
        interrupted == pool.started < Cardinality(pool.listed) /\ pool.ctx # "live"
        judged == [pool EXCEPT !.todo = {}, !.concurrency = 0, !.started = 0]
    IN  /\ pool.pc = "pool"
        /\ Drained(r)
        /\ \/ /\ ~interrupted /\ ~pool.fatal /\ ~pool.local
              /\ exec' = [exec EXCEPT ![r] = [judged EXCEPT !.pc = "publish"]]
           \/ /\ interrupted \/ pool.fatal \/ pool.local \/ ~Owned(r)
              /\ exec' = [exec EXCEPT ![r] = [judged EXCEPT !.pc = "failed"]]
        /\ UNCHANGED <<job, row, item, results, staged, tables>>

-----------------------------------------------------------------------------
(* Publication *)

StagedIds(r) == {i \in Ids : staged[r][i] # NoRecord}

\* The child rows of a set of identifiers.
ChildrenOf(answers, ids) ==
    UNION {{<<i, n, answers[i].body>> : n \in 1 .. answers[i].items} : i \in ids}

\* The staged parents, or without parents the staged items, are counted
\* against what the pool has counted.
complete(r) ==
    IF job.kind = "parented"
    THEN Cardinality(StagedIds(r)) = Cardinality(exec[r].listed)
    ELSE Cardinality(ChildrenOf(staged[r], Ids)) = exec[r].rows

\* Delete what is missing, update what is there, insert what is new.
reconcileParents(r) ==
    LET kept == {p \in parents : p[1] \in StagedIds(r)}
        new == StagedIds(r) \ {p[1] : p \in kept}
    IN  {<<p[1], staged[r][p[1]].body>> : p \in kept} \cup {<<i, staged[r][i].body>> : i \in new}

\* Mutant: items that are gone from a record stay.
keptChildrenAll(r) == {c \in children : c[1] \in StagedIds(r)}

\* Children without a candidate, and by the foreign key those of a parent that
\* was deleted, are gone.
keptChildren(r) ==
    {c \in children : c[1] \in StagedIds(r) /\ c[2] <= staged[r][c[1]].items}

reconcileChildren(r) ==
    LET kept == keptChildren(r)
        new == {c \in ChildrenOf(staged[r], Ids) : ~\E k \in kept : k[1] = c[1] /\ k[2] = c[2]}
    IN  {<<c[1], c[2], staged[r][c[1]].body>> : c \in kept} \cup new

\* The transaction: it asks for a running, uncancelled run of its owner and
\* records the success.  Its commit may not be answered, nor the question
\* what became of it.
Publish(r) ==
    /\ exec[r].pc = "publish"
    /\ \/ /\ row[r] = "running" /\ exec[r].ctx = "live" /\ complete(r)
          /\ row' = [row EXCEPT ![r] = "succeeded"]
          /\ parents' = IF job.kind = "parented" THEN reconcileParents(r) ELSE parents
          /\ children' = reconcileChildren(r)
          /\ current' = [listed |-> exec[r].listed, got |-> exec[r].got]
          /\ \E pc \in {"clean", "failed"} : Goto(r, pc)
       \/ /\ row[r] # "running" \/ exec[r].ctx # "live" \/ ~complete(r)
          /\ Goto(r, "failed")
          /\ UNCHANGED <<row, tables>>
    /\ UNCHANGED <<job, item, results, staged>>

\* CleanupRun; an error is logged.
CleanupRun(r) ==
    /\ exec[r].pc = "clean"
    /\ \E cleaned \in BOOLEAN :
           staged' = IF cleaned THEN [staged EXCEPT ![r] = Nothing] ELSE staged
    /\ exec' = [exec EXCEPT ![r] = Ended]
    /\ UNCHANGED <<job, row, item, results, tables>>

\* The coordinator records the failure of a run it still owns.
Finish(r) ==
    /\ exec[r].pc = "failed"
    /\ row' = IF Owned(r) THEN [row EXCEPT ![r] = "closed"] ELSE row
    /\ exec' = [exec EXCEPT ![r] = Ended]
    /\ UNCHANGED <<job, item, results, staged, tables>>

\* Mutant: only what a success has left behind.
CleanupSucceeded(r) ==
    /\ row[r] = "succeeded"
    /\ staged[r] # Nothing
    /\ staged' = [staged EXCEPT ![r] = Nothing]
    /\ UNCHANGED <<job, row, exec, item, results, tables>>

\* The coordinator's loop: what runs that are over have left behind.
CleanupTerminal(r) ==
    /\ Terminal(r)
    /\ staged[r] # Nothing
    /\ staged' = [staged EXCEPT ![r] = Nothing]
    /\ UNCHANGED <<job, row, exec, item, results, tables>>

-----------------------------------------------------------------------------
Work(r, i) == Feed(r, i) \/ Fetch(r, i) \/ Stage(r, i) \/ Send(r, i)

\* The goroutines of an execution.
Execute(r) ==
    \/ PrepareRun(r) \/ \E listed \in SUBSET job.ids : Enumerate(r, listed)
    \/ \E i \in Ids : Work(r, i)
    \/ CloseJobs(r) \/ Consume(r) \/ Judge(r) \/ Publish(r) \/ CleanupRun(r) \/ Finish(r)

Next ==
    \E r \in Runs :
        \/ Claim(r) \/ RequestCancellation(r) \/ Abandon(r) \/ Crash(r) \/ Fault(r)
        \/ \E cause \in {"cancelled", "lost"} : Interrupt(r, cause)
        \/ Execute(r) \/ CleanupTerminal(r)

Spec == Init /\ [][Next]_vars

\* Some goroutine of an execution that can go on does: calls to Fincloud and
\* to the database end by their timeouts.  The coordinator's cleanup is called
\* again and again.
Fairness ==
    \A r \in Runs : WF_vars(Execute(r)) /\ WF_vars(CleanupTerminal(r))

FairSpec == Spec /\ Fairness

-----------------------------------------------------------------------------
(* Properties *)

TypeOK ==
    /\ job \in Jobs
    /\ row \in [Runs -> {"none", "running", "cancelling", "succeeded", "closed"}]
    /\ \A r \in Runs :
           /\ exec[r].pc \in
                  {"none", "prepare", "list", "pool", "publish", "clean", "failed", "ended"}
           /\ exec[r].ctx \in {"live", "cancelled", "lost"}
           /\ Len(results[r]) <= exec[r].concurrency
           /\ Cardinality(Busy(r)) <= exec[r].concurrency
    /\ \A p \in parents : p[1] \in Ids
    /\ \A c \in children : c[1] \in Ids

\* The tables are what one run listed and was answered, as a whole: no row of
\* an earlier run survives and none is missing.
TablesAreOneCandidate ==
    /\ job.kind = "parented" =>
           parents = {<<i, current.got[i].body>> : i \in current.listed}
    /\ children = ChildrenOf(current.got, current.listed)

\* detail.go publishTransaction, runDetailPool: what holds of the pool and of the
\* published tables in every state.
DetailSafety == TypeOK /\ TablesAreOneCandidate

\* docs/PRODUCTION_VALIDATION.md, of saving_block_detail: "Any account failure
\* publishes nothing."
AccountFailurePublishesNothing ==
    \A i \in current.listed : current.got[i] # NoRecord

\* Every pool ends: nobody waits for ever to hand over an identifier or a
\* result, whichever item failed and whenever the run was interrupted.
PoolEnds == []<>(\A r \in Runs : exec[r].pc # "pool")

\* What a run has staged is deleted after the run is over, also what its
\* goroutines stage later.
StagedIsReclaimed == []<>(\A r \in Runs : Terminal(r) => staged[r] = Nothing)
=============================================================================
