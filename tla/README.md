# Verification of dwh-v2

dwh-v2 pulls data from Fincloud into a MySQL warehouse and reports on it. This
directory holds TLA+ models of the parts of the program that are hard to get
right by testing, the TLC configurations that check them on small instances,
and TLAPS proofs of the central properties for instances of any size.

`PROJECT.json` is the index: components, runs, the source lines of every
definition (`map`), a plausible bug per property that the run must notice
(`mutants`), hazards and theorems.

    tlc -workers 2 -config RunLifecycle.cfg MCRunLifecycle
    tlapm RunLifecycleProofs.tla

## 1. Inventory

### How the system works

Everything goes through one database. A **submission** (a user, the scheduler,
or a Run All) inserts a row into `ingestion_runs`; a unique key over a
generated column admits one active row per job. Several **coordinator**
processes may share the database. The dispatcher of each claims queued rows up
to `max_running_jobs`, runs each in a goroutine with a heartbeat, and records
how it ended. Rows whose heartbeat is older than the lease are recovered by
anybody's sweep; an operator may recover one by hand. The **executor** waits
for the Fincloud **session lane** of its username, fetches through a shared
**client**, stages rows and publishes them in a transaction that is fenced by
the state of the run row. **Run All** is a parent row whose children are
activated one after the other by the process that holds the parent's ownership
token. The **scheduler** sweeps schedules, opens an occurrence per due time and
submits attempts until one succeeds. There are no messages between processes:
they meet in rows, row locks, unique keys and compare-and-set updates.
Goroutines of one process also meet in mutexes, channels and contexts.

| Component | State | Operations | Hard because | What makes it correct |
|---|---|---|---|---|
| ingestion runs, coordinator | run rows, settings row, local attempts and contexts | submit, claim, heartbeat, finish, cancel, recover, shutdown | several processes, leases, lost answers, crashes, operators with old pages | admission limit; a fenced-off worker writes nothing; data, row and log agree; every run settles |
| executor, ingestion store | staging and final rows, publications | execute, stage, publish, clean up | publication races cancellation and recovery; ambiguous commits; partial series | published means succeeded; succeeded means complete |
| Run All | parent and child rows, token map per process | create, register, reconcile, cancel, recover | snapshot reads mixed with locking reads; tokens replaced under their holders | one child at a time; nothing stranded; cancellation wins; it ends |
| scheduler | schedules, occurrences, attempts | create, edit, enable, stop, bulk, sweep | old clock readings, edits against sweeps, backlog, retry | no date skipped or repeated; one live attempt; due work is settled |
| session lane | epoch, lease count, queue | acquire, test, cancel, release, invalidate, close | grants racing cancellations; shutdown with leases out | one session per username; no lease lost; nobody starves |
| Fincloud client | session generation, login in flight | ensureSession, do | late 401s, shared logins, leaders that give up | one login per expired session; every call returns |
| Detail, Master and maintenance jobs | staging and final tables, worker pool, table schema and its registry, named lock | list, fetch, stage, publish, alter, clean up | pools interrupted half-way, zombies beside successors, DDL that commits by itself | a table is one candidate; columns hold what is registered for them; pools end, staging and locks are freed |
| custom datasets | dataset and import rows with owner and attempt, table, view, staged rows | submit, claim, stage, publish, requeue, archive, clean up | requeue while the first worker lives; DDL; lost answers | readers see whole files; every import ends |
| uploads, report export | rows, workspaces, files | save, submit, expire; claim, publish, succeed, expire, reconcile | files and rows change apart; cleanups work from old lists | referenced files stay, others go |
| login, MFA, browser sessions | users, factors, challenges, sessions | log in, enroll, verify, rotate, reset, log out | verification racing reset, replayed codes | sessions stand on current credentials; codes are used once |
| users, roles, impersonation | rows, session tokens | create, assign, (de)activate, grant, impersonate | checks on rows read before the transaction | an administrator remains; no administrator is impersonated; nobody raises himself |
| reporting | datasources, templates, access, connection pool, folders | edit, test, activate, run, file | tests without locks, forms with old revisions, stale pool entries | an active report has the query that was validated; a datasource was activated with the settings that were tested; queries use the settings that were read |
| Fincloud auth profiles | profiles with revisions, assignments, the copy in a run | edit, test, activate, assign, freeze | edits while a run freezes or a test logs in | the revision in a run names the secret it uses |

The remaining parts (SQL scanner and parameters of reports, parsing of payloads
and CSV files, audit, configuration, rendering, migrations, tools) keep no
protocol state; `PROJECT.json` lists each with the reason.

### Hazards

`PROJECT.json` lists every hazard at its line with the properties that would
catch it. Three have none and say why: the order of the stale sweep, locals that
survive a replayed transaction, and lock orders that MySQL resolves by failing a
request.

## 2. Plan

Done, in this order:

1. `RunLedger`, `RunLifecycle`, `RunLifecycleProofs`: runs, coordinator,
   publication; the abstract ledger they implement.
2. `RunAll`: parents, tokens, reconciliation.
3. `Scheduler`: schedules, occurrences, attempts. `CoordinatorProofs` has the
   theorems about `RunAll` and `Scheduler`.
4. `SessionLane`, `FincloudClient`, `FincloudProofs`: what an execution
   shares with others.
5. `CoverageLedger`, `FixedPublication`, `FixedPublicationProofs`: loads with
   overlapping ranges, staleness, ambiguous commits, cleanup of staging against
   workers that lost their run; the abstract ledger says that a date shows the
   newest successful run that covers it.

6. `DatasetLedger`, `CustomDataset`, `CustomDatasetProofs`, `UploadStore`,
   `ReportExport`: the queues of background jobs and their files.
7. `DetailRun`, `MasterRun`, `MaintenanceStore`: the executions below the level
   of `RunLifecycle`, with the worker pool. `DetailRunProofs` has the theorems
   about all three.
8. `AccountAdmin`, `BrowserAuth`: users, roles, impersonation, login and MFA.
9. `AuthProfiles`: administration of Fincloud profiles. `AdministrationProofs`
   has the theorems about `AccountAdmin`, `AuthProfiles` and `BrowserAuth`.
10. `ReportCatalog`, `ReportShelf`, `ReportPages`: administration of reports and
   folders. `ReportingProofs` has the theorems about them and `ReportExport`.

Every safety and action property of a passing run is proved. What could still be
added are executions of Fixed jobs below the level of `FixedPublication`, and
theorems that compose modules the runs only check side by side.

## 3. Modules

### RunLifecycle

One action is one committed transaction or one local step of a process.

| Variables | Code |
|---|---|
| `status`, `job`, `cancelReq`, `owner`, `age` | columns of `ingestion_runs`; `age` counts ticks since `heartbeat_at` |
| `limit` | `ingestion_runtime_settings.max_running_jobs` |
| `final` | the final tables: per job and date, the run whose rows are there |
| `seen` | runs whose owner and heartbeat an operator's page shows unchanged |
| `proc`, `counted` | a coordinator process; its count inside an open `Claim` transaction |
| `worker`, `pc`, `cause`, `proof`, `result`, `date`, `flawed` | the goroutines of `executeClaimedRun`: step, context cause, `lastProof`, result of `Execute`, position in a maintenance series |
| `logged` | the terminal log record |

`Claim` is two actions because its count and its update are apart and only the
lock on the settings row keeps other claims out. Fixed, Detail and Master jobs
publish in one transaction with the run's success (`PublishCandidate`); EOD and
CBR jobs publish date by date (`SaveDate`) and are finished separately. A lost
answer is a parameter (`answered`, `applied`): the effect happened, the caller
does not know. Final data is abstracted to the run it came from, which is what
the properties compare.

### RunLedger

What all of it promises: a job has at most one open run, data changes only
through an open run, a run closes once, and success requires all dates. It
knows nothing of processes, owners, leases or cancellations. The mapping
is `phase <- Phase` (queued and running are both open), `jobOf <- job`,
`data <- final`.

### RunAll

`parent`, `parentCancelReq`, `parentOwner`, `expired`, `child`, `flagged` are
rows; `parents` is `Coordinator.parents` of each process; `step`, `callee`,
`token`, `snapshot`, `sawCancel` belong to a call of `reconcileParent`. The transaction is two
actions, `LockParent` (row lock and snapshot) and `Commit`, because MySQL's
REPEATABLE READ gives its plain reads the snapshot and its locking read of the
planned child the latest rows. A child's cancellation and its closing do not
take the parent's lock and happen in between. Tokens are recycled once nobody
holds a copy, so that the random owner ids need no bound.

### Scheduler

`state`, `def`, `cursor`, `held`, ... are columns of `schedules`; `occ` and
`work` are `schedule_occurrences` and the latest attempt; `run` is the active
run per job. An operator's request is two actions because the code reads
`UTC_TIMESTAMP` before it locks a row (`asOf` is that reading). A cron
expression is the set of times it fires at; the next action relation is called
`Steps` because `Next` is cron's Next. `Deploy` changes the catalog under
existing schedules, which is what the rejections of the sweep are for. `done`
and `since` are history variables: times with a successful run, and the first
time an enabled schedule owes.

### SessionLane

One lane, the one of a username. `current`, `active`, `waiters` are the lane's
fields; `place` is where a call of `Acquire` or `Test` is, `granted` and `refused`
being answers in its channel that it has not received. `GrantLocked` is the
whole loop: what it grants is the first waiter of an idle lane and the longest
compatible run at the head of the queue. Client objects are recycled.
`newClient` does not fail at this point: `Validate` and
`NewSessionCoordinator` have checked all it checks.

### FincloudClient

`generation`, `login` are the client's fields; `pc`, `stale`, `using` a call of
`do`. A login call and its leader are identified, since there is one at a time
(which is checked). The server is external and answers 401 exactly to sessions
it has dropped. `Authenticate` is `ensureSession` alone and is not a
separate kind of call here; `SessionLane` has it.

### FixedPublication

The runs of one Fixed report, below the level of `RunLifecycle`: there a
publication is one step that replaces a job's data, here it has dates, loads,
members, segments and rows.

| Variables | Code |
|---|---|
| `status`, `period` | `ingestion_runs`; "cancelling" is running with `cancel_requested_at` set |
| `loadId`, `nextLoad`, `published` | `fixed_report_loads`; a run begins at most one load, so tables are indexed by run |
| `staged`, `complete`, `recorded` | members and segments: counters, status, and the rows their counts and checksums vouch for |
| `staging`, `final` | the staging and final tables |
| `active` | `active_load_id` of `fixed_report_date_publications` (a date is the period from itself to itself) or `fixed_report_publications` |
| `pc`, `lock`, `todo` | executions, the publication lock, candidates of a cleanup pass |

A report is of one of three kinds: `range` reports publish by date and are
fetched in chunks, the Balance Sheet is a `snapshot` with a member per date and
location, the Profit and Loss Statement is published by whole `interval`. The
source may have rows for any of the dates in `Blank` or none.

Loads and segments are written without asking for the state of the run: a
worker that lost its run goes on until a heartbeat or a progress update stops
it, and `persistProgress` gives up asking after an error. Only promotion is
fenced. It is two actions: `PromoteValidates` takes the lock and validates,
`PromoteCommits` copies the rows with a second read and tests the run last.
Between the two the model lets the cleanup delete staging rows of a terminal
run, although the row locks of a promotion may prevent it: safety does not rest
on them. Nor does it rest on the publication lock; the fence and the one active
run per job suffice.

A lost answer of `BeginLoad`, `StageMemberSegment` or
`FinalizeMemberCandidate` is the action followed by `Fail`. The lost answer of
a promotion is `PromoteCommits` with `answered = FALSE`, followed by `ReadBack`.
Promotion is called once per run, so the branch of `promoteTransaction` for a
load that is already published is reached by no execution and has no action.
The members of a load advance independently, which covers every order of the
goroutines of `runFixedPool`; its channels are those of `DetailRun`.

### CoverageLedger

What readers of a Fixed report get: a run publishes at most once, replaces all
rows at the keys it covers and none elsewhere, in one step, and runs publish in
the order of their ids. The mapping takes the holder of a key from the load
that is active there.

### DetailRun

One Detail job: `parented` (a table of accounts or customers with a child table)
or `parentless` (`saving_block_detail`, child rows only).

| Variables | Code |
|---|---|
| `row` | `ingestion_runs`; "cancelling" is running with `cancel_requested_at` set |
| `exec` | `executeDetail` of each run: step, context, listing, counters, `open` (the jobs channel), `fatal` and `local` (the outcome of the pool); `got` is history |
| `item`, `results` | the goroutines of `runDetailPool` and its results channel with its capacity |
| `staged`, `parents`, `children` | the staging and final tables |

The channels are as in the code: identifiers are handed over only to a goroutine
that waits, results wait for room, the feeder stops when it is out of
identifiers or the context is done, the results channel closes after the last
goroutine. Staging asks for no ownership; publication does, in the transaction
that replaces the tables. An item's `context.Canceled` may stem from the pool, from
the run, or from another run of the username whose login it waited for.

### MasterRun

Reference jobs of several domains share two tables. `Kept` and
`NormalizeReference` are what `NormalizeReference` does to a payload (blank items
are dropped, counts are those of the rest); publication verifies the staged
candidate against its counts and reconciles the rows of its domain. `masterRow`,
`masters` and `masterStaged` are the rows, executions and staging of the runs,
`categories` and `referenceItems` the shared tables; `published` is history.

### MaintenanceStore

`columns`, `indexed`, `registry` and `dateRows` are a maintenance table, its
secondary index, its registered headers and the rows of each date; `lock` is the
named lock, `saverRow` and `savers` are the rows and executions of the runs. `saveSnapshot` is seven actions because DDL commits by itself and
ownership is asked before each DDL statement and in the last transaction. An
error of the source or a lost owner ends the series, other errors only the date.
`selectSources` is `selectMaintenanceSources`: one merged file, or one for each
branch.

### CustomDataset, DatasetLedger

`dataset`, `imports` are rows; `table` is the schema of the table and the view,
`rows` its rows with import, attempt and record; `exec` a worker. Rows are
inserted and the table is rebuilt without asking who owns the import; only
publication asks. A lost answer of `Publish` is followed by the read-back of the
code. Every statement of `Ensure` is an action, since DDL commits by itself:
`EnsureLock` (`GET_LOCK` and the first look at the table), `EnsureDropView`,
`EnsureDropTable`, `EnsureCreate`, `EnsureExact` (`resetAllowed` again, or
`verifyView`), `EnsureOldView` and `EnsureNewView`; an error, a lost claim or a
crash may come between any two. What `resetAllowed` answered is old when the
statements after it run. A view that was dropped is `Missing`, or `Stripped` if
the worker that dropped it had lost its claim: the properties tell the two apart,
the code does not. A file may be all header and have no rows.
`DatasetLedger` is what the view selects: whole files, which only
the publication of an import, once, replaces or appends to. `MaxAttempts`
stops losing claims at the last attempt; the code has no such bound.

### UploadStore, ReportExport

Files and rows change in separate steps, and cleanups act on lists they made
earlier (`listed`, `listing`). In `UploadStore` a file is saved, recorded, previewed,
retained or expired; in `ReportExport` an attempt has a workspace and then a
final file, and `final`, `work`, `old` are the directories. An attempt is shorter
than the grace period, which `config.go` demands, so files of a live attempt are
not old. `doubtful` is history: successes that were recorded and not answered.
`ArtifactKept` speaks of the others, the finding of section 7 of all.

### AccountAdmin

A request is resolved to a principal, checked by its service against rows read
without locks, and carried out by one transaction (`ResolveSession`, `Serve`,
then the action named after the repository's method), which checks again what
the code checks again. Impersonation changes the session's token, so a request
with the old one is lost.

### BrowserAuth

Passwords, TOTP secrets and recovery codes are numbered as they are made, codes
belong to a secret and a period. `calls` is what a request has read before its
transaction. Leaving out freshness, expiry by time and the throttle only lets
more requests through.

### ReportCatalog, ReportShelf, ReportPages

`visits` is a request between its reads, tests and the final write;
`pool` is `PoolManager.entries`. `checked` is history: the request that activated
a row had tested or validated exactly this row. In `ReportShelf` a transaction
that touches a folder is two steps, lock and commit; the foreign key is left
out, and the property says nothing ever runs into it. `ReportPages` states what
the two promise together.

### AuthProfiles

`profiles`, `settings`, `bound` are rows, `held` is what a worker logs in with,
`managers` a request of an administrator, `versions` (history) the secret of each
revision.

## 4. Runs and bounds

| Run | Instance | Shows |
|---|---|---|
| `run_lifecycle` | 2 processes, 2 jobs, 2 runs, lease 1, limit 1..2 | a worker of an old run beside a new run of the same job, with every order of crash, recovery, cancellation and lost answer; no claim passes the limit |
| `coordinator` | series: 1 process, 2 dates, 2 runs; parent: 2 processes, 1 parent, 3 children | partial series, a second run over the first, refinement of the ledger; two holders of tokens, cancellation of parent and child in the middle of a reconciliation |
| `progress` | 1 process, a fixed and a maintenance job, 2 runs | every run settles after any loss |
| `scheduler` | long: 1 schedule, 2 times, 1 operator; race: 2 operators, 1 time; wide: 2 schedules, 2 jobs, bulk | old clock readings, edits, backlog, catalog changes, competition for a job; due work is settled |
| `waiting` | lane: 3 callers, 2 contexts; client: 3 callers, 4 logins; export: 1 job, 2 workers, 2 attempts; parent: 1 process, 1 parent, 2 children | a holder and two waiters of every kind; late 401s over several generations; two attempts of one export at once, cleanup from old lists; every Run All ends after any loss |
| `fixed_publication` | 2 runs, each kind of report, periods 1..2 and 2..2, chunks of one day | partly overlapping publications, workers that lost their run, cleanup one load at a time, lost commits |
| `jobs` | 2 imports, 2 workers, files of 0 to 2 rows; 2 uploads | two attempts of one import at once, at every statement; a second import over the first; cleanup from old lists |
| `dataset_view` | 1 import, 2 workers, 2 attempts | finding: the view of a published dataset is dropped |
| `export_answer` | 1 export | finding: the artifact of a recorded success is removed |
| `accounts` | 2 users, 3 roles, 1 session, 2 requests; 1 user with 2 sessions, 2 challenges, 2 browsers; 1 datasource and template with 2 settings, 2 queries, 2 requests, saved 5 times in all; 2 users, 2 folders, 2 requests; 1 profile, 2 secrets, 2 requests, 1 run | every overlap of two requests, with rows that change up to twice in between |
| `stores` | 2 accounts in one pool of 1 or 2, or 1 account and 2 runs; 3 runs of 2 domains; 2 runs, 2 dates, 2 branches, clashing headers | interrupted pools, zombies beside successors, columns that appear between runs |
| `detail_block` | 1 run, 2 accounts | finding: a table published without an account |

Several runs check parts that share no state side by side (`part` in the MC
module, `shape` in `MCScheduler`): a behaviour is of one part, the others rest,
with nothing enabled that fairness speaks of. What must end is stated as `[]<>`
(again and again it is over), which says the same as "whenever it has begun, it
ends" and is far cheaper for TLC. The parts do not see each other;
a run of several parts is the union of their state spaces, no more.

Why the bounds are enough: the protocols fence with equality tests on one row,
so two runs of a job (the old and the new) and two processes give every
conflict; a lease of one tick separates fresh, old and stale; a third run or
process only repeats a pair. In `FixedPublication` the two periods share a date
and differ in one, and a day per chunk gives a member two segments; one
partition is checked, any number proved. The requests of `accounts` are
optimistic (read, work, compare, write), so two of them and a row that is
written twice show every lost update; datasources, templates, profiles and users
meet only through the rows a request names, of which one each is enough, except
administrators, who need two. Two attempts of a job, the late and the current
one, are what owner and attempt tell apart. In a pool two items over one or two
goroutines reach a full and an empty channel; `concurrency` 1 leaves one waiting.
The proofs remove the bounds of the modules they are about (section 6). `Requests`, `Blank`,
`MaxRuns`, `MaxMaintenanceRuns`, `MaxDate`, `MaxParents`, `MaxTime`, `MaxAttempts`, `MaxExportAttempts`, `MaxGeneration`, `MaxImports`,
`FileRows`, `MaxTokens`, `MaxPeriod`, `MaxSerial`, `MaxPassword`, `MaxRevision` and
`MaxVersions` bound what is otherwise unbounded and appear in guards.

Deadlock checking is off where the system really may stop: a lane after `Close`
and the last call, runs, imports and exports that are all over and cleaned up,
and pages whose bounded rows have no revision left.

Symmetry is used in safety runs only, over jobs and processes in
`run_lifecycle` and `coordinator` and over requests, settings, secrets and ids in `accounts`, none of
which is ordered or chosen from by the modules (`NewOwnerID` chooses
from tokens, which are not permuted). `coordinator` also has a `VIEW`: of
ownership tokens, which are only compared, it keeps which places have the same.

## 5. Fairness

Only what goes on by itself is fair. `RunLifecycle`: dispatchers poll and not
all their claims fail (strong fairness, since each may be refused again and
again), executions end because every source and database call has a deadline,
sweeps run on a ticker, the supervisor restarts a process, the clock moves.
Liveness is stated for the case that some coordinator stays up. `RunAll` takes
`RunsSettle` for its children. `Scheduler`: the sweep, run ends and delays;
deliveries are strongly fair because a busy job may refuse them repeatedly, and
the property excludes users who keep the job busy for ever, and `MaxAttempts`
makes the last attempt succeed (a job that fails for ever is retried for ever). `SessionLane`
and `FincloudClient`: calls proceed. `FixedPublication`: executions proceed
(requests and statements have deadlines), a cleanup pass starts when there is
something to delete (hourly), and the deletion of a load, which may fail in one
pass, does not fail in all of them (strong fairness). `DetailRun`: some goroutine
of an execution that can go on does (weak fairness of the execution as a whole,
since calls have deadlines), and the hourly cleanup. `MaintenanceStore`: the next
statement of a run ends. `CustomDataset`, `ReportExport`: workers go on and claim,
what nobody heartbeats goes stale, stale jobs are requeued, the cleanup lists and
removes; waiting for the dataset's DDL lock is strongly fair, as other workers
hold it again and again. Users, operators, cancellations, crashes
and shutdowns are never fair.

## 6. Proofs

`RunLifecycleProofs` proves, for any number of jobs, processes, runs, dates and
any lease and limit (`ConstantsAssumption`):

| Theorem | Statement |
|---|---|
| `RunSafetyHolds` | `Spec => []RunSafety`, the conjunction of the invariants below |
| `TypeCorrect` | `Spec => []TypeOK` |
| `AtomicPublication` | `Spec => []PublishedMeansSucceeded` |
| `CompleteSuccess` | `Spec => []SucceededMeansComplete` |
| `CancellationHolds` | `Spec => []CancelledNeverSucceeds` |
| `CanonicalLog` | `Spec => []CompletedLogIsCanonical` |
| `NoZombieOverwrites` | `Spec => NoStaleOverwrite` |
| `FencedWrites` | `Spec => OnlyPublishableRunsWrite` |
| `AdmissionControl` | `Spec => ClaimsRespectLimit` |
| `Refinement` | `Spec => ImplementsLedger` |

The argument. None of the properties is inductive. Why can a zombie not
overwrite later data? It writes only while its row is running, and data of a
job never stems from a row younger than the job's active one. So `IInv` adds to
the types:

* rows are inserted in order and have a job, the active row of a job is the
  youngest of that job, and data of a job stems from rows of that job
  (`RowsInOrder`, `JobsKnown`, `ActiveIsLatest`, `FinalOfJob`);
* only claimed rows have a local attempt, a
  detached one has no local state left, and one that is saving has a date left
  to save (`WorkedOn`, `IdleAttempt`, `SavingDate`);
* an unflawed series has put the dates it has done in place
  (`SeriesProgress`), which carries success from the executor's local result to
  the row.

Admission rests on a separate invariant: while a process holds the lock, the
running count it read is at least the present one (`CountIsFresh`), because
rows only leave the running state meanwhile. The refinement follows from `IInv`
action by action: every step of `RunLifecycle` opens or closes a run, writes a
date, or leaves the ledger alone.

`FincloudProofs` proves `ClientSafetyHolds` with its parts
`ClientTypeCorrect`, `OneLogin`, `FreshRetry` and `LoginsAreNeeded` for any set
of callers. The strengthening is `StaleIsDead`: a
generation a call remembers as refused is unknown to the server, so a
login that starts because the current generation is the refused one replaces a
dead session.

It also proves `LaneSafetyHolds`, `LaneSpec => []LaneSafety`, for any number of
callers, contexts and client objects (`LaneAssumption`: there are more objects
than references to them, so `newClient` always finds one). Every critical
section of the lane ends in `grantLocked`, so one lemma carries the proof:
`Granting` says that whatever the call did before (`Carried`: it left the queue,
returned its lease, ended the exclusive epoch), `grantLocked` restores the
invariant. It rests on who is granted, a head of the queue (`GrantedHead`), and
on the epoch they get (`GrantedEpoch`): unless nobody holds a lease it is the
present one, and a test gets a new client and is alone. The invariant says more
than `LaneSafety` in three places. Every lease is of the current epoch unless
its test has failed and the epoch is forgotten (`SessionOK`); a rejected client
is held by the test that saw it fail, and by nobody else (`TestsOK`); and only
the current client has idle connections. A closed lane has an empty queue, and
no client once the last lease is back (`ClosedOK`, `Refusing`).

`FixedPublicationProofs` proves, for any set of kinds, locations and periods and
any number of dates, runs, partitions and days per chunk (`FixedAssumption`):

| Theorem | Statement |
|---|---|
| `PublicationSafetyHolds` | `Spec => []PublicationSafety`, the conjunction of the invariants below |
| `FixedTypeCorrect` | `Spec => []TypeOK` |
| `ReadersSeePublications` | `Spec => []FinalMatchesPublications` |
| `SuccessIsPublication` | `Spec => []SucceededMeansPublished` |
| `OwnerPublishes` | `Spec => []OwnerIsNeverRefused` |
| `CoverageRefinement` | `Spec => ImplementsLedger` |

Load ids do not order runs: a worker that lost its run may begin a load after
its successor has. The argument therefore goes through published loads only. A
run starts when all earlier ones are over (`Turns`), so when it begins its load
every earlier publication has been made and has a smaller id (`Ids`). What
the publication tables name is always published (`Named`), hence older than the
owner's load (`OpenIsAhead`): the owner is never stale, and it publishes after
all it replaces. `Kept` says that staging rows go only once the run is over,
which is why the second read of a promotion that passes its fence copies exactly
what was validated. `Within` keeps rows inside the period that the deletion
covers. The refinement needs one more fact: beginning a load changes no holder,
since no key names its id yet (`BeginLoadHolder`).

`CoordinatorProofs` proves, for any number of processes, parents and jobs
(`RunAllAssumption`):

| Theorem | Statement |
|---|---|
| `RunAllSafetyHolds` | `RunAllSpec => []RunAllSafety` |
| `NothingStartsHolds` | `RunAllSpec => NothingStartsAfterCancellation` |

A process reconciles a parent from a snapshot that other transactions may have
overtaken. The invariant says by how much (`SnapshotHolds`): while the process
holds the row lock the parent is running and the cancellation flag is the one it
read, and once it saw no active child, none has become active; children can
only have been cancelled since. The tokens of reconcilers play no part in
safety: they decide who may try, the row lock keeps two that may from acting on
one snapshot (`LockIsExclusive`). An applied cancellation leaves running
children only, which are all flagged (`CancellationApplied`), so nothing is left
that could start.

and, for any schedules, jobs, operators and cron tables
that have a next time (`SchedulerAssumption`):

| Theorem | Statement |
|---|---|
| `OccurrenceSafetyHolds` | `Spec => []OccurrenceSafety` |
| `NoDateSkippedHolds` | `Spec => []NoDateSkipped` |
| `NeverDeliveredAgainHolds` | `Spec => NeverDeliveredAgain` |

The inductive invariant speaks of one schedule at a time. Its open occurrence is
the one the cursor points at (`OpenIsCurrent`); the active run of its job, if it
is for that occurrence, is the attempt that waits for it, and runs of closed
occurrences, which may go on after the schedule was changed, are told apart by
schedule, time and number (`RunsOK`); what has succeeded has an occurrence that
is resolved or about to be (`DoneOK`); and every time before the cursor has been
resolved by a run (`Gapless`), which holds because the next time is the least
later one (`NextTime`) and only `resolveSuccess` moves the cursor.

`AdministrationProofs` proves, for any users, roles, sessions and requests
(`AccountAssumption`), for any profiles, and for any challenges and secrets:

| Theorem | Statement |
|---|---|
| `AccountSafetyHolds` | `AccountSpec => []AccountSafety` |
| `NoSelfEscalationHolds` | `AccountSpec => NoSelfEscalation` |
| `ProfileSafetyHolds` | `ProfileSpec => []ProfileSafety` |
| `LoginSafetyHolds` | `AuthSpec => []LoginSafety` |
| `CodesUsedOnceHolds` | `AuthSpec => []CodesUsedOnce` |

A request acts on a principal resolved when it arrived. Of what it read then
only this is still true when it commits: its user has a row, and an
impersonation its session (`RequestsOK`). Everything else comes from what the
transactions read again under their locks: the count of active administrators,
the role and activity of a user to be impersonated, and the requester's role.

Profiles are independent of this: their actions are `AuthProfiles` and the
statement is for any profiles, secrets, sources, runs and requests and any
number of revisions (`ProfileAssumption`). A revision is written once: `Current` says that
the history knows the secret of the row as it stands, so the next revision never
touches an entry that a form or a run refers to (`Grows`, `PastStays`). What a
run was bound to thus stays what it was (`RunsArePast`). `RequestsOK` follows an
activation through its steps: it goes on from the revision of the form to the
one it found only if they are equal, the secret it read is that revision's, and
the locked write takes place only if the row still has the revision; so the
secret it activates is the one that was tested.

The login is proved for any users, sessions, challenges and requests, any number
of secrets and any limit of failures (`AuthAssumption`, which also says that ids
are not 0, the value of a column that is null). Two invariants. `LoginInv`: an
open login challenge still has the password of its active user, and one for an
enrollment is open only while its user has no factor (`TicketCurrent`). The
first holds because whoever changes a password or switches a user off deletes
the challenges in the same transaction, the second because a user has one
challenge without a session. So the session that a verification makes is current,
and giving a user the first secret leaves no session behind. `CodeInv`: a secret
and a batch of recovery codes are in one place, a challenge or the factor of one
user (`SecretsApart`), and an accepted code belongs to no open challenge, is not
newer than the last counter of the factor that has its secret, and is not that
factor's recovery code (`UsedBehind`). Deleting a factor loses `last_counter`;
this is harmless because the next enrollment brings a secret nobody has used.

`ReportingProofs` proves `ReportSafetyHolds`,
`CatalogSpec /\ ShelfSpec => []ReportSafety`, for any datasources, settings,
templates, readers and requests (`CatalogAssumption`) and any owners, folders and
transactions (`ShelfAssumption`). A request works on a row that it read without a
lock. Such a row is a past row of the table, or the present one, and all who have
the same revision of it (another request, an entry of the pool, the table) have
the same settings (`VisitsSource`, `EntryOK`, `EntryAgrees`, `RowsAgree`). So an
entry whose revision fits is the connection the request asked for, even when it
was put there by somebody else. A form is never ahead of its row; an activation
whose form is still current has connected with, or validated, what the row has
(`VisitsSource`, `VisitsTemplate`), and the write asks for that revision. In the
shelf a locked folder belongs to the user of the transaction and is locked by no
other (`EditOK`, `ShelfInv`), so no folder disappears below a report that is
being filed in it.

It also proves `ExportSafetyHolds`, `ExportSpec => []ExportSafety`, for any
workers, jobs and attempts (`ExportAssumption`: there is an attempt to make). An
attempt is known by its file, and a claim makes a file nobody has: no row, no
directory and no list of the cleanup knows its number yet (`ExportFilesOK`,
`NewAttempt`), so no two attempts under way share one (`Apart`). What the cleanup
lists is old, and files of attempts under way are not (`ExporterOK`); a file that
was nobody's when it was listed stays so, because an artifact stems from an
attempt that was under way (`ListingOK`). `ArtifactOver` says who may still
remove the artifact of a success: only an attempt that was not told of it, which
is the exception in `ArtifactKept` and the subject of `export_answer`.

`CustomDatasetProofs` proves, for any workers, processes, imports and files
(`DatasetAssumption`, which also says that no worker is called "none", the value
of a free lock):

| Theorem | Statement |
|---|---|
| `DatasetSafetyHolds` | `Spec => []DatasetSafety` |
| `DatasetRefinement` | `Spec => ImplementsDataset` |
| `FilesKeptHolds` | `UploadSpec => []FilesKept` |

Rows are inserted and tables rebuilt without asking who owns the import, so the
argument is about what an owner may rely on (`WorkersOK`). Everybody who ever
claimed has an attempt of his own (`OneWorker`), hence rows of his own. While he
owns the import and is past `Ensure`, the table has the dataset's schema, his
rows are all there and nobody is about to drop the table (`StagingOK`). Whoever
has begun to rebuild (`Rebuilding`) holds the lock (`LockOK`), and while the
table is not the one it wants nothing has been published, because a successor
would have to go through `Ensure` first and waits for the lock. If the owner of
the same import were staging already, the table would have the schema the
rebuilder wants, and it would not drop it. The view is different: it is rebuilt
even when the table is right, so a worker that lost its claim may be at `DROP
VIEW` while its successor, past `Ensure`, stages and publishes. An owner who
rebuilds is alone (`OneOwner`, `RebuildsAlone`) and does so before anything is
published, hence a view that is gone after a publication was dropped without the
claim (`Stripped`); that it is dropped at all is the subject of `dataset_view`.
A worker that has lost the claim relies on nothing, and what it inserts carries
an attempt that is not the published one (`AttemptOK`). On the side of the
database (`TablesOK`) one import is active, an append belongs to a generation
that succeeded and a replacement to its own, so a publication either shows its
file alone or adds it, and what the cleanup has listed stays true (`CleanerOK`).
That the view selects the number of rows stated is a bijection between `1 ..
size` and the rows of the owner's attempt (`FileStaged`); the refinement maps a
publication to `Replace` or `Append`, a recorded failure to `Reject`, and every
other step to a stutter.

`FilesKeptHolds` is about the files behind the imports and any number of uploads.
What the cleanup lists by its key was given up or has expired, and neither comes
back (`UploadInv`): a key that is older than the grace period belongs to no
request that is still saving, and the row of an upload that expired was changed
before its file went.

`DetailRunProofs` proves `DetailSafetyHolds`, `Spec => []DetailSafety`, for any
runs, identifiers, answers and numbers of goroutines (`DetailAssumption`).
An identifier is handed to one goroutine and only once: those still to do are
listed and untouched, those in a goroutine are listed, and the record a goroutine
is about to stage is the answer the run got (`HandedOut`); goroutines and results
never exceed the concurrency and are gone when the pool is over (`Bounded`).
Staging starts empty and holds listed items only (`Stands`). The core is
`Agrees`: as long as the run can still publish (it is in the pool or about to
publish, its context is live, nothing was fatal and no write of it is
unanswered) the staged rows are the answers it got, for every item that is not
just being staged. A failed item, a cancellation, a lost run or a cleanup breaks
this only together with what a publication requires, so a publication copies one
whole candidate.

`MasterSafetyHolds`, in the same module, is about any number of reference runs,
domains and answers (`MasterAssumption`: a category has finitely many items). Runs of
different domains write into the same two tables and only the run of a domain
fences another run of it, so the argument is about rows: a row carries its domain
in its identity (`MasterInv`), the rows of a candidate are in one-to-one
correspondence with what was staged (`RowsOfItems`, `StagedRows`), and reconciling a
domain leaves the staged rows of that domain and the rows of all the others
(`ReconciledRows`). That counts are true rests on the verification before the
publication, which compares the staged candidate with its counts, and on the rows
of a category being as many as its staged items (`CandidateItems`: finitely many).

`MaintenanceSafetyHolds` is about any runs, dates, listings, headers and earlier
tables (`MaintenanceAssumption`: finitely many files, and listings and headers made of
the files and headers there are). `MaintenanceInv` says what an execution knows
of the table when it is past reading the schema (`SchemaOK`: the missing columns are
missing, the others are there, no header is in conflict with the registry), and that
an execution in these steps holds the named lock. Ownership is not part of it:
an abandoned run may still add columns, and what it has read stays true only because
nobody changes a table without the lock (`SaverMoves`). `SnapshotOK` says that the
files chosen are a whole report (`ChosenFiles`, from cardinalities), and `SeriesOK` that an
execution without a failure has written every date before its current one, from
which a success has them all.

Each of these invariants was also checked with TLC, on the instance of the module's
run.

Only model-checked: liveness (`RunAllEnds`, `ImportsSettle` and the other
leads-to properties: fairness and ENABLED are out of the prover's reach).

## 7. Findings and observations

Three runs show the code doing what the repository says it does not:

* `export_answer` (`reportexport/worker.go:186`). The success of an export is one
  UPDATE. If it is applied and its answer is lost, or the heartbeat sees the row
  already succeeded and cancels the attempt, `execute` goes on as after a failure
  and removes the artifact. The job then offers a download that does not exist.
  `docs/REPORTING.md:21` lets only expiry remove referenced artifacts.
  `customdataset` reads the row back in the same place.
* `detail_block` (`ingestionexec/executor.go:777`). Runs of a username share a
  client and wait for one login; if the run that leads it is cancelled, the
  others get its `context.Canceled`. `suppressCleanupCancellation` then drops the
  item without counting it as failed. Jobs with parents notice the missing
  parent when they publish; `saving_block_detail` compares rows it has counted with
  rows it has staged and publishes without the account.
  `docs/PRODUCTION_VALIDATION.md:54`: "Any account failure publishes nothing."

* `dataset_view` (`customdataset/ddl.go:67`). `Ensure` asks `resetAllowed`, then
  drops and creates the view of a dataset it read as provisioning. A worker that
  lost its claim may come to `Ensure` while its successor stages: the table is
  right, nothing is published, the one active import is its own. If the successor
  publishes now, the `DROP VIEW` comes after. The active dataset has no view until the old worker
  creates it again, and none at all if that worker fails, is cancelled by its
  heartbeat or dies first; `verifyView` then fails every later import.
  `docs/PRODUCTION.md:137`: "active dataset objects are never altered or dropped."
  The rows are not touched, which `DatasetSafety` and `ImplementsDataset` show.

Behaviour met while modelling that contradicts no statement of the repository:

* The verdict of a Run All is computed from the snapshot of the transaction. A
  planned last child that is cancelled by itself between the snapshot and the
  locking read is missed: the parent ends as completed with a cancelled child.
  `VerdictCoversFailures` therefore speaks of failed, abandoned and skipped
  children.
* An operator's request that waits for a row lock computes the new cursor from
  a clock reading older than the wait. The cursor may then point at an
  occurrence that is closed. Its unique key prevents a second delivery
  (`NeverDeliveredAgain`), but every sweep of the schedule fails until somebody
  disables and enables it; `DueIsSettled` speaks of occurrences that can be
  opened.
* `recoverStaleSweep` ends at the first error, so one parent whose children do
  not match the catalog keeps the rows behind it from being recovered.
  `docs/PRODUCTION.md` asks for quiescence before the catalog changes.
* A request that has read a datasource before an edit can put connections of the
  old settings into the pool after `Invalidate`; the revision test of the next
  request replaces them.
* `UpdateDatasource` and the update of an auth profile leave an active row active
  with settings that were not tested; `ActivatedAsTested` and
  `ProfileActivatedAsTested` speak of activations.
* Rows are locked in different orders: impersonation locks the session and then
  users, `mfa` users and then the session; `AssignUserRole` and `SetUserActive`
  the administrator role before the user, `ResetUserPassword` the user before the
  role. MySQL fails one of two requests that meet so; nothing is corrupted.
* A run whose heartbeat noticed the cancellation stops heartbeating; when its
  execution takes longer than the lease to return it is recorded as abandoned
  rather than cancelled.

## 8. Not modelled

Data formats: parsing and normalization of payload values, CSV type inference, SQL text and
its scanner, binding of report parameters, XLSX. Progress counters, snapshot
dates and diagnostics, which are fenced like the rest of a run's row. Audit
records, which are written in the transaction of what they describe. Freshness
of a second factor, session expiry by time, the login throttle. Configuration,
rendering, migrations, command line tools. Replays of a transaction by
`RetryReplaySafeTx` are atomic: an attempt that is rolled back has no effect.
