-------------------------- MODULE FixedPublication --------------------------
(***************************************************************************)
(* How the runs of one Fixed report load, stage and publish their rows     *)
(* (internal/ingestionstore/fixed.go, internal/ingestionexec/executor.go)  *)
(* while the coordinators' cleanup deletes the staging rows of runs that   *)
(* are over.                                                               *)
(*                                                                         *)
(* One action is one transaction or one local step of an execution.        *)
(* Promotion is two actions: what it validated under its locks was read    *)
(* before the rows are copied, and the state of the run is tested last.    *)
(* Nothing but that test keeps a worker whose run was taken away from the  *)
(* store: loads are begun and segments staged without asking.              *)
(*                                                                         *)
(* A run begins at most one load, so the load's tables are indexed by run. *)
(***************************************************************************)
EXTENDS Integers, Sequences, FiniteSets

CONSTANTS
    Kinds,         \* the kinds of report definition: a subset of AllKinds
    Locations,     \* locations, account codes or the single member key
    NumDays,       \* calendar dates 1 .. NumDays
    Requests,      \* bound: the ranges <<from, to>> runs are submitted for
    Blank,         \* bound: the dates the source may have no rows for
    MaxChunkDays,  \* FixedDefinition.MaxChunkDays
    Partitions,    \* frozen transaction types of the Journal, a range report
    CleanupLimit,  \* loads per call of CleanupTerminal
    MaxRuns        \* bound: runs of the report

\* "range" and "snapshot" publish by date, "interval" by whole period; a range
\* is fetched in chunks of dates, a snapshot has one member per date.
AllKinds == {"range", "snapshot", "interval"}

ASSUME FixedAssumption ==
    /\ Kinds \subseteq AllKinds
    /\ Requests \subseteq {p \in (1 .. NumDays) \X (1 .. NumDays) : p[1] <= p[2]}
    /\ \A n \in {NumDays, MaxChunkDays, Partitions, CleanupLimit, MaxRuns} :
           n \in Nat \ {0}

VARIABLES
    kind,       \* the report's definition
    \* the rows of ingestion_runs
    status,     \* "cancelling" is running with cancel_requested_at set
    period,     \* the dates the run was submitted for: <<from, to>>
    \* fixed_report_loads, _load_members, _load_segments, by run
    loadId,     \* AUTO_INCREMENT id; 0 before BeginLoad
    nextLoad,   \* the AUTO_INCREMENT counter
    published,  \* the load's status is 'published'
    staged,     \* per member, staged_segment_count
    recorded,   \* the rows that row_count, segment_checksum and
                \* member_checksum vouch for
    complete,   \* members with status 'success'
    \* the data
    staging,    \* staging rows, by run
    final,      \* final rows: <<run, row>>
    active,     \* active_load_id by date or by period; 0 is no row or NULL
    \* executions
    pc,         \* where the execution of each run is
    lock,       \* the run whose transaction holds the publication lock
    todo        \* candidates of the cleanup pass under way

loadVars == <<loadId, nextLoad, published, staged, recorded, complete>>
dataVars == <<staging, final, active>>
execVars == <<pc, lock>>
vars == <<kind, status, period, loadVars, dataVars, execVars, todo>>

Runs == 1 .. MaxRuns
NoRun == 0
NoDate == 0
Days == 1 .. NumDays
Periods == {p \in Days \X Days : p[1] <= p[2]}
NoPeriod == <<0, 0>>

\* Mutant: abandoned runs are forgotten.
fixedTerminalWithoutAbandoned == {"succeeded", "failed", "cancelled"}

\* The statuses whose loads the cleanup may touch.
fixedTerminalStatuses == {"succeeded", "failed", "cancelled", "abandoned"}

Active == {"running", "cancelling"}
Status == {"none", "running", "cancelling", "succeeded", "failed", "cancelled", "abandoned"}
Steps == {"idle", "plan", "fetch", "publish", "readback", "end", "done"}

-----------------------------------------------------------------------------
(* Plans *)

\* What a run may enumerate and freeze: an empty set fails it.
FrozenLocations == SUBSET Locations \ {{}}

\* BuildFixedPlan and BuildFixedDateSeriesPlan: a member is a request for some
\* dates at one location.
Members(p, L) ==
    IF kind = "snapshot"
    THEN {<<d, d, x>> : d \in p[1] .. p[2], x \in L}
    ELSE {<<p[1], p[2], x>> : x \in L}

\* ChunkDateRange: how many chunks it returns, and the dates of the i-th.
Chunks(m) ==
    IF kind = "range" THEN (m[2] - m[1]) \div MaxChunkDays + 1 ELSE 1

ChunkDays(m, i) ==
    {d \in m[1] .. m[2] :
        kind = "range" => (d - m[1]) \div MaxChunkDays = i}

\* Only the Journal asks once per chunk and transaction type.
PerChunk == IF kind = "range" THEN Partitions ELSE 1

ExpectedSegments(m) == Chunks(m) * PerChunk

\* Segment i fetches chunk i \div PerChunk; every row has a date in it, or
\* none when the report is not addressed by date (ValidateFixedCoverage).
SourceRows(m, i, D) ==
    {<<m, i, d>> : d \in IF kind = "interval" THEN {e \in {NoDate} : D # {}} ELSE D}

\* The dates, or the one period, that a publication of run r covers.
Covered(r) ==
    IF kind = "interval" THEN {period[r]}
    ELSE {<<d, d>> : d \in period[r][1] .. period[r][2]}

KeyOf(r, row) == IF kind = "interval" THEN period[r] ELSE <<row[3], row[3]>>

-----------------------------------------------------------------------------

MemberSet == Days \X Days \X Locations
RowSet == MemberSet \X Nat \X (Days \cup {NoDate})

TablesOK ==
    /\ kind \in Kinds
    /\ status \in [Runs -> Status]
    /\ period \in [Runs -> Periods \cup {NoPeriod}]
    /\ loadId \in [Runs -> Nat]
    /\ nextLoad \in Nat \ {0}
    /\ published \in [Runs -> BOOLEAN]
    /\ DOMAIN staged = Runs
    /\ recorded \in [Runs -> SUBSET RowSet]
    /\ complete \in [Runs -> SUBSET MemberSet]
    /\ staging \in [Runs -> SUBSET RowSet]
    /\ final \subseteq Runs \X RowSet
    /\ active \in [Periods -> Nat]
    /\ pc \in [Runs -> Steps]
    /\ lock \in Runs \cup {NoRun}
    /\ todo \subseteq Runs

\* No member has more segments than its frozen plan, and a member is complete
\* only with all of them.
MembersOK ==
    \A r \in Runs :
        /\ DOMAIN staged[r] \subseteq MemberSet
        /\ staged[r] \in [DOMAIN staged[r] -> Nat]
        /\ complete[r] \subseteq DOMAIN staged[r]
        /\ \A m \in DOMAIN staged[r] :
             /\ staged[r][m] <= ExpectedSegments(m)
             /\ m \in complete[r] => staged[r][m] = ExpectedSegments(m)

\* The type invariant: the tables have their shape and the members of a load
\* stay within the plan that was frozen with it.
TypeOK == TablesOK /\ MembersOK

NoMembers == [m \in {} |-> 0]

Init ==
    /\ kind \in Kinds
    /\ status = [r \in Runs |-> "none"]
    /\ period = [r \in Runs |-> NoPeriod]
    /\ loadId = [r \in Runs |-> 0]
    /\ nextLoad = 1
    /\ published = [r \in Runs |-> FALSE]
    /\ staged = [r \in Runs |-> NoMembers]
    /\ recorded = [r \in Runs |-> {}]
    /\ complete = [r \in Runs |-> {}]
    /\ staging = [r \in Runs |-> {}]
    /\ final = {}
    /\ active = [k \in Periods |-> 0]
    /\ pc = [r \in Runs |-> "idle"]
    /\ lock = NoRun
    /\ todo = {}

-----------------------------------------------------------------------------
(* Runs, as module RunLifecycle has them *)

Terminal(r) == status[r] \in fixedTerminalStatuses

\* Mutant: publication asks for the owner only, not for the run's state.
PublishableByToken(r) == status[r] # "none"

\* FinishSucceededInTx: status='running', the owner's token, no cancellation.
Publishable(r) == status[r] = "running"

\* A run is submitted for its dates and claimed: one active run per job.
Claim(r, p) ==
    /\ status[r] = "none"
    /\ \A s \in Runs : s < r => status[s] \notin Active \cup {"none"}
    /\ status' = [status EXCEPT ![r] = "running"]
    /\ period' = [period EXCEPT ![r] = p]
    /\ pc' = [pc EXCEPT ![r] = "plan"]
    /\ UNCHANGED <<kind, loadVars, dataVars, lock, todo>>

RequestCancellation(r) ==
    /\ status[r] = "running"
    /\ status' = [status EXCEPT ![r] = "cancelling"]
    /\ UNCHANGED <<kind, period, loadVars, dataVars, execVars, todo>>

\* Lease recovery or an operator takes the run away; its worker may live on.
Abandon(r) ==
    /\ status[r] \in Active
    /\ status' = [status EXCEPT ![r] = "abandoned"]
    /\ UNCHANGED <<kind, period, loadVars, dataVars, execVars, todo>>

\* The execution goes on to another step; a transaction it has open ends.
Goto(r, step) ==
    /\ pc' = [pc EXCEPT ![r] = step]
    /\ lock' = IF lock = r THEN NoRun ELSE lock

\* A download, a file, a validation or a statement fails, an answer is lost or
\* the context is cancelled, anywhere before the commit: the member pool
\* drains and Execute returns.  What was in flight has happened before.
Fail(r) ==
    /\ pc[r] \in {"plan", "fetch", "publish"}
    /\ Goto(r, "end")
    /\ UNCHANGED <<kind, status, period, loadVars, dataVars, todo>>

Crash(r) ==
    /\ pc[r] \notin {"idle", "done"}
    /\ Goto(r, "done")
    /\ UNCHANGED <<kind, status, period, loadVars, dataVars, todo>>

\* Finish with a failure or, after a request or at a shutdown, a cancellation:
\* fenced like a success.  One that does not reach the database is a Crash.
Finish(r, outcome) ==
    /\ pc[r] = "end"
    /\ Goto(r, "done")
    /\ status' = [status EXCEPT ![r] = IF @ \in Active THEN outcome ELSE @]
    /\ UNCHANGED <<kind, period, loadVars, dataVars, todo>>

-----------------------------------------------------------------------------
(* Loading: executeFixed up to the promotion *)

\* The load and its members are inserted in one transaction, for the locations
\* L that were enumerated for this run.  The state of the run is not tested.
BeginLoad(r, L) ==
    /\ pc[r] = "plan"
    /\ loadId' = [loadId EXCEPT ![r] = nextLoad]
    /\ nextLoad' = nextLoad + 1
    /\ staged' = [staged EXCEPT ![r] = [m \in Members(period[r], L) |-> 0]]
    /\ pc' = [pc EXCEPT ![r] = "fetch"]
    /\ UNCHANGED <<kind, status, period, published, recorded, complete, dataVars, lock, todo>>

\* stageMemberSegmentTransaction: the member and its load are pending, and the
\* next segment is one of the frozen plan.
MayStage(r, m) ==
    /\ m \notin complete[r]
    /\ ~published[r]
    /\ staged[r][m] < ExpectedSegments(m)

\* The rows, the segment with its checksum and the member's counters are
\* written in one transaction.
InsertSegment(r, m, rows) ==
    /\ staging' = [staging EXCEPT ![r] = @ \cup rows]
    /\ recorded' = [recorded EXCEPT ![r] = @ \cup rows]
    /\ staged' = [staged EXCEPT ![r][m] = @ + 1]

\* A goroutine of the member pool downloads and validates the next segment of
\* its member, with rows on the dates D, and stages it.  Members advance
\* independently; the state of the run is not tested.
StageMemberSegment(r, m, D) ==
    /\ pc[r] = "fetch"
    /\ MayStage(r, m)
    /\ D \subseteq ChunkDays(m, staged[r][m] \div PerChunk)
    /\ ChunkDays(m, staged[r][m] \div PerChunk) \subseteq D \cup Blank
    /\ InsertSegment(r, m, SourceRows(m, staged[r][m], D))
    /\ UNCHANGED <<kind, status, period, loadId, nextLoad, published, complete, final,
                   active, execVars, todo>>

FinalizeMemberCandidate(r, m) ==
    /\ pc[r] = "fetch"
    /\ m \notin complete[r]
    /\ ~published[r]
    /\ staged[r][m] = ExpectedSegments(m)
    /\ complete' = [complete EXCEPT ![r] = @ \cup {m}]
    /\ UNCHANGED <<kind, status, period, loadId, nextLoad, published, staged, recorded, dataVars,
                   execVars, todo>>

-----------------------------------------------------------------------------
(* Publication: promote and promoteTransaction *)

\* ErrFixedStale: a newer load already holds a date or the period.
Stale(r) == \E k \in Covered(r) : active[k] > loadId[r]

\* validateFixedSegments, and the status of the members: all are complete, with
\* every segment of the frozen plan.
SegmentsComplete(r) ==
    /\ complete[r] = DOMAIN staged[r]
    /\ \A m \in DOMAIN staged[r] : staged[r][m] = ExpectedSegments(m)

\* validateStagedMembers: the staging rows are the recorded ones, by count and
\* checksum.
StagingIntact(r) == staging[r] = recorded[r]

\* When the pool has finished every member, the job's row of
\* fixed_report_publication_locks, the load and its members are locked, and
\* everything is validated.  A load that is refused fails.
PromoteValidates(r) ==
    /\ pc[r] = "fetch"
    /\ lock = NoRun
    /\ ~Stale(r) /\ SegmentsComplete(r) /\ StagingIntact(r)
    /\ lock' = r
    /\ pc' = [pc EXCEPT ![r] = "publish"]
    /\ UNCHANGED <<kind, status, period, loadVars, dataVars, todo>>

\* Mutant: by date too, only rows of exactly this period are replaced.
ReplacedSamePeriod(r) == {x \in final : period[x[1]] = period[r]}

\* The final rows that the DELETE of promoteTransaction removes.
Replaced(r) == {x \in final : KeyOf(x[1], x[2]) \in Covered(r)}

\* The staging rows, read again, replace the final rows; the publication rows
\* name the new load.
PublishRows(r) ==
    /\ final' = (final \ Replaced(r)) \cup {<<r, row>> : row \in staging[r]}
    /\ active' = [k \in Periods |-> IF k \in Covered(r) THEN loadId[r] ELSE active[k]]
    /\ published' = [published EXCEPT ![r] = TRUE]

\* FinishSucceededInTx is the last statement: the run succeeds with its rows,
\* or everything is rolled back.  The answer of the commit may be lost.
PromoteCommits(r, answered) ==
    /\ pc[r] = "publish"
    /\ Publishable(r)
    /\ PublishRows(r)
    /\ status' = [status EXCEPT ![r] = "succeeded"]
    /\ Goto(r, IF answered THEN "done" ELSE "readback")
    /\ UNCHANGED <<kind, period, loadId, nextLoad, staged, recorded, complete, staging,
                   todo>>

\* retryReplaySafeTx: a deadlock or a lock timeout rolls the transaction back
\* and promotion starts again; the bound on the attempts is left out.
PromoteRetries(r) ==
    /\ pc[r] = "publish"
    /\ Goto(r, "fetch")
    /\ UNCHANGED <<kind, status, period, loadVars, dataVars, todo>>

\* After an error promote asks whether run and load say it was committed; if
\* that fails too, it reports the failure, which the fence of Finish absorbs.
ReadBack(r, readable) ==
    /\ pc[r] = "readback"
    /\ Goto(r, IF readable /\ status[r] = "succeeded" /\ published[r] THEN "done" ELSE "end")
    /\ UNCHANGED <<kind, status, period, loadVars, dataVars, todo>>

-----------------------------------------------------------------------------
(* Cleanup: cleanupFixedStaging and CleanupTerminal *)

\* Loads of terminal runs with staging rows, the lowest ids first.
Candidates == {r \in Runs : staging[r] # {} /\ Terminal(r)}

fixedCleanupCandidates ==
    /\ todo = {} /\ Candidates # {}
    /\ todo' = {r \in Candidates :
                    Cardinality({s \in Candidates : loadId[s] < loadId[r]}) < CleanupLimit}
    /\ UNCHANGED <<kind, status, period, loadVars, dataVars, execVars>>

\* One transaction per load; it tests the status of the run once more.
cleanupFixedCandidate(r) ==
    /\ r \in todo
    /\ todo' = todo \ {r}
    /\ staging' = [staging EXCEPT ![r] = IF Terminal(r) THEN {} ELSE @]
    /\ UNCHANGED <<kind, status, period, loadVars, final, active, execVars>>

\* It fails, or the pass runs out of time, and the load waits for another.
CleanupFails(r) ==
    /\ r \in todo
    /\ todo' = todo \ {r}
    /\ UNCHANGED <<kind, status, period, loadVars, dataVars, execVars>>

-----------------------------------------------------------------------------

Execute(r) ==
    \/ \E L \in FrozenLocations : BeginLoad(r, L)
    \/ \E m \in DOMAIN staged[r] :
          \/ \E D \in SUBSET Days : StageMemberSegment(r, m, D)
          \/ FinalizeMemberCandidate(r, m)
    \/ PromoteValidates(r)
    \/ \E answered \in BOOLEAN : PromoteCommits(r, answered)
    \/ \E readable \in BOOLEAN : ReadBack(r, readable)
    \/ Fail(r)
    \/ \E outcome \in {"failed", "cancelled"} : Finish(r, outcome)

Environment(r) ==
    \/ \E p \in Requests : Claim(r, p)
    \/ RequestCancellation(r)
    \/ Abandon(r)
    \/ PromoteRetries(r)
    \/ Crash(r)

Cleanup == fixedCleanupCandidates \/ \E r \in Runs : cleanupFixedCandidate(r) \/ CleanupFails(r)

Next == Cleanup \/ \E r \in Runs : Execute(r) \/ Environment(r)

Spec == Init /\ [][Next]_vars

\* Executions run on, bounded by request timeouts; the cleanup comes round
\* every hour and does not fail for ever.
Fairness ==
    /\ \A r \in Runs : WF_vars(Execute(r))
    /\ WF_vars(fixedCleanupCandidates)
    /\ \A r \in Runs : SF_vars(cleanupFixedCandidate(r))

FairSpec == Spec /\ Fairness

-----------------------------------------------------------------------------
(* Properties *)

\* What readers see is what the publications say: the final rows are, for each
\* date or period, all the rows recorded for the load that is active there and
\* no other, whatever ranges overlapped and whatever was deleted meanwhile.
FinalMatchesPublications ==
    \A r \in Runs :
        {x \in final : x[1] = r} =
        {<<r, row>> : row \in {w \in recorded[r] :
                                 published[r] /\ active[KeyOf(r, w)] = loadId[r]}}

\* A run has succeeded exactly if its load is published, and then no member
\* and no segment of the frozen plan is missing.
SucceededMeansPublished ==
    \A r \in Runs :
        /\ status[r] = "succeeded" <=> published[r]
        /\ published[r] => SegmentsComplete(r)

\* The load of the run that holds the job passes the tests of a promotion: no
\* load of a worker that lost its run is ahead of it, and the cleanup has
\* taken none of its staging rows.
OwnerIsNeverRefused ==
    \A r \in Runs :
        status[r] = "running" /\ loadId[r] # 0 => ~Stale(r) /\ StagingIntact(r)

\* fixed.go promoteTransaction: what holds of fixed runs, their staging and the
\* final table in every state.
PublicationSafety ==
    TypeOK /\ FinalMatchesPublications /\ SucceededMeansPublished /\ OwnerIsNeverRefused

\* The mapping to the ledger: the run each key shows, and the rows with keys.
Holder ==
    [k \in Periods |-> IF active[k] = 0 THEN NoRun ELSE CHOOSE r \in Runs : loadId[r] = active[k]]

Succeeded == {r \in Runs : status[r] = "succeeded"}

Data ==
    {<<IF kind = "interval" THEN period[x[1]] ELSE <<x[2][3], x[2][3]>>, x[1], x[2]>> : x \in final}

Ledger == INSTANCE CoverageLedger WITH
    Keys <- Periods, holder <- Holder, published <- Succeeded, data <- Data

\* Loads, pools, staging and cleanup implement the ledger: each key shows the
\* newest successful run that covers it, changed in one step.
ImplementsLedger == Ledger!LedgerSpec

\* The staging rows of a run that is over are deleted, also those that a
\* worker which does not know it yet stages after a first cleanup.
StagingReclaimed ==
    \A r \in Runs :
        status[r] \notin Active \cup {"none"} ~> [](staging[r] = {})
=============================================================================
