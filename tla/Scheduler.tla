----------------------------- MODULE Scheduler ------------------------------
(***************************************************************************)
(* Durable schedules (internal/scheduler): a schedule has a cursor, the    *)
(* next cron time it owes.  When the cursor is due the sweep opens an      *)
(* occurrence and submits ingestion runs for it, attempt after attempt,    *)
(* until one succeeds; only then the cursor moves on.                      *)
(*                                                                         *)
(* Every transaction locks the schedule row before it looks at anything,   *)
(* so each is one action.  The exception is the clock: an operator's       *)
(* transaction reads UTC_TIMESTAMP before it waits for the lock and        *)
(* computes cursors from that reading, so BeginRequest is a step of its    *)
(* own.  The delays of backoff and throttle are timers that run out some   *)
(* time later.  Of an ingestion run only its end matters: RunLifecycle.    *)
(***************************************************************************)
EXTENDS Integers, FiniteSets

CONSTANTS
    Schedules,    \* schedule ids
    Jobs,         \* job keys
    Crons,        \* cron expressions with their time zone
    CronTimes,    \* the times each of them names
    Operators,    \* concurrent requests on the schedule pages
    NoDef,        \* the definition of a row that does not exist
    MaxTime,      \* bound: the clock
    MaxAttempts   \* bound: the attempt at which a run succeeds at the latest

Fires(c, t) == t \in CronTimes[c]

IsNext(c, t, u) ==
    /\ u > t /\ Fires(c, u)
    /\ \A v \in CronTimes[c] : v > t => u <= v

ASSUME SchedulerAssumption ==
    /\ MaxTime \in Nat \ {0}
    /\ MaxAttempts \in Nat \ {0}
    /\ CronTimes \in [Crons -> SUBSET (Nat \ {0})]
    /\ \A c \in Crons, t \in 0 .. MaxTime : \E u \in CronTimes[c] : IsNext(c, t, u)
    /\ IsFiniteSet(Schedules)

VARIABLES
    now,      \* UTC_TIMESTAMP
    catalog,  \* the deployed catalog: how each job is dated, or "gone"
    \* table schedules
    state,    \* "none" before the row is inserted, enabled, disabled, archived
    def,      \* job, cron and policy: what semanticMatches compares
    cursor,   \* next_run_at
    held,     \* scheduler_not_before is in the future
    \* tables schedule_occurrences and schedule_attempts
    occ,      \* occ[s][t]: status of the occurrence of s at time t
    work,     \* the unresolved occurrence of s and its latest attempt
    run,      \* the active ingestion run of each job
    \* operators
    asOf,     \* the clock reading of the request under way
    fresh,    \* schedules whose revision is still the one the request names
    \* history, not read by any action
    since,    \* the first time the schedule owed under its definition
    done      \* <<s, t>>: a run submitted for it has succeeded

rows == <<state, def, cursor, held, since>>
vars == <<now, catalog, rows, occ, work, run, asOf, fresh, done>>

Times == 1 .. MaxTime
NoTime == 0
NoRequest == -1
Modes == {"historical", "live_coalesced"}
Defs == [job : Jobs, cron : Crons, policy : Modes]
Idle == <<>>
Manual == <<"manual">>
OccStatus == {"none", "unresolved", "resolved", "discarded", "rejected_invalid"}

\* The unresolved occurrence: the definition and the mode it was opened with,
\* its attempts, its retry_not_before and the run of its latest attempt.
Works == [def : Defs \cup {NoDef}, attempts : 0 .. MaxAttempts,
          retry : {"null", "future", "due"},
          outcome : {"none", "active", "succeeded", "failed"}, finished : 0 .. MaxTime]

NoWork == [def |-> NoDef, attempts |-> 0, retry |-> "null", outcome |-> "none", finished |-> 0]

References == Schedules \X Times \X (1 .. MaxAttempts)

\* The type invariant; with chk_schedules_cursor: exactly the enabled
\* schedules have a cursor.
TypeOK ==
    /\ now \in 0 .. MaxTime
    /\ catalog \in [Jobs -> Modes \cup {"gone"}]
    /\ state \in [Schedules -> {"none", "enabled", "disabled", "archived"}]
    /\ def \in [Schedules -> Defs \cup {NoDef}]
    /\ cursor \in [Schedules -> Nat]
    /\ held \in [Schedules -> BOOLEAN]
    /\ occ \in [Schedules -> [Times -> OccStatus]]
    /\ work \in [Schedules -> Works]
    /\ run \in [Jobs -> References \cup {Idle, Manual}]
    /\ asOf \in [Operators -> 0 .. MaxTime \cup {NoRequest}]
    /\ fresh \in [Operators -> SUBSET Schedules]
    /\ since \in [Schedules -> Nat]
    /\ done \subseteq Schedules \X Times
    /\ \A s \in Schedules : state[s] = "enabled" <=> cursor[s] # NoTime

Init ==
    /\ now = 0
    /\ catalog \in [Jobs -> Modes]
    /\ state = [s \in Schedules |-> "none"]
    /\ def = [s \in Schedules |-> NoDef]
    /\ cursor = [s \in Schedules |-> NoTime]
    /\ held = [s \in Schedules |-> FALSE]
    /\ occ = [s \in Schedules |-> [t \in Times |-> "none"]]
    /\ work = [s \in Schedules |-> NoWork]
    /\ run = [j \in Jobs |-> Idle]
    /\ asOf = [u \in Operators |-> NoRequest]
    /\ fresh = [u \in Operators |-> {}]
    /\ since = [s \in Schedules |-> NoTime]
    /\ done = {}

-----------------------------------------------------------------------------

\* cronDefinition.Next
Next(c, t) == CHOOSE u \in CronTimes[c] : IsNext(c, t, u)

\* validateDefinition: the job exists and is dated as the policy says.
Valid(d) == d # NoDef /\ catalog[d.job] = d.policy

\* The schedule form derives the policy from the job.
DefinitionFor(j, c) == [job |-> j, cron |-> c, policy |-> catalog[j]]

Existing == {s \in Schedules : state[s] # "none"}
Unresolved(s, t) == occ[s][t] = "unresolved"
\* lockActiveOccurrence
Found(s) == \E t \in Times : Unresolved(s, t)

-----------------------------------------------------------------------------
(* Operators.  A request reads the clock, then waits for its row locks. *)

BeginRequest(u) ==
    /\ asOf[u] = NoRequest
    /\ asOf' = [asOf EXCEPT ![u] = now]
    /\ fresh' = [fresh EXCEPT ![u] = Existing]
    /\ UNCHANGED <<now, catalog, rows, occ, work, run, done>>

\* The request commits or is rolled back; revision=revision+1 outdates what
\* the other requests know of the schedules in C.
EndRequest(u, C) ==
    /\ asOf' = [asOf EXCEPT ![u] = NoRequest]
    /\ fresh' = [v \in Operators |-> IF v = u THEN {} ELSE fresh[v] \ C]

\* ErrConflict, ErrBacklog, ErrArchived, an invalid form or a failing database.
RequestFails(u) ==
    /\ asOf[u] # NoRequest
    /\ EndRequest(u, {})
    /\ UNCHANGED <<now, catalog, rows, occ, work, run, done>>

\* Create and, for several jobs in one transaction, CreateMany.  ids names the
\* rows the new schedules get.
Insert(u, c, enabled, ids) ==
    LET New == {ids[j] : j \in DOMAIN ids}
        Job(s) == CHOOSE j \in DOMAIN ids : ids[j] = s
        First == Next(c, asOf[u])
    IN  /\ \A j \in DOMAIN ids : state[ids[j]] = "none" /\ catalog[j] # "gone"
        /\ \A i, j \in DOMAIN ids : ids[i] = ids[j] => i = j
        /\ state' = [s \in Schedules |->
                        IF s \in New THEN IF enabled THEN "enabled" ELSE "disabled" ELSE state[s]]
        /\ def' = [s \in Schedules |-> IF s \in New THEN DefinitionFor(Job(s), c) ELSE def[s]]
        /\ cursor' = [s \in Schedules |-> IF s \in New /\ enabled THEN First ELSE cursor[s]]
        /\ since' = [s \in Schedules |-> IF s \in New /\ enabled THEN First ELSE since[s]]
        /\ EndRequest(u, {})
        /\ UNCHANGED <<now, catalog, held, occ, work, run, done>>

Create(u, j, c, enabled, s) ==
    /\ asOf[u] # NoRequest
    /\ Insert(u, c, enabled, [i \in {j} |-> s])

\* CreateMany passes over the jobs that already have such a schedule.
Covered(j, c) ==
    \E s \in Schedules : /\ state[s] \in {"enabled", "disabled"}
                         /\ def[s].job = j /\ def[s].cron = c

CreateMany(u, J, c, enabled) ==
    /\ asOf[u] # NoRequest
    /\ \A j \in J : catalog[j] # "gone"
    /\ \E ids \in [{j \in J : ~Covered(j, c)} -> Schedules] : Insert(u, c, enabled, ids)

\* Mutant: the backlog is not looked at.
UpdateAnyway(u, s, d) ==
    /\ asOf[u] # NoRequest /\ s \in fresh[u]
    /\ state[s] \in {"enabled", "disabled"} /\ Valid(d)
    /\ def' = [def EXCEPT ![s] = d]
    /\ IF d # def[s] /\ state[s] = "enabled"
       THEN /\ cursor' = [cursor EXCEPT ![s] = Next(d.cron, asOf[u])]
            /\ since' = [since EXCEPT ![s] = Next(d.cron, asOf[u])]
       ELSE UNCHANGED <<cursor, since>>
    /\ EndRequest(u, {s})
    /\ UNCHANGED <<now, catalog, state, held, occ, work, run, done>>

\* A semantic edit is refused while anything is owed (ErrBacklog); a new name
\* leaves the cursor alone.
Update(u, s, d) ==
    /\ asOf[u] # NoRequest /\ s \in fresh[u]
    /\ state[s] \in {"enabled", "disabled"} /\ Valid(d)
    /\ d # def[s] => ~Found(s) /\ ~(state[s] = "enabled" /\ cursor[s] <= asOf[u])
    /\ def' = [def EXCEPT ![s] = d]
    /\ IF d # def[s] /\ state[s] = "enabled"
       THEN /\ cursor' = [cursor EXCEPT ![s] = Next(d.cron, asOf[u])]
            /\ since' = [since EXCEPT ![s] = Next(d.cron, asOf[u])]
       ELSE UNCHANGED <<cursor, since>>
    /\ EndRequest(u, {s})
    /\ UNCHANGED <<now, catalog, state, held, occ, work, run, done>>

\* prepareEnable and applyEnableTransitions: future times only.
EnableAll(u, C) ==
    /\ \A s \in C : ~Found(s) /\ Valid(def[s])
    /\ state' = [s \in Schedules |-> IF s \in C THEN "enabled" ELSE state[s]]
    /\ cursor' = [s \in Schedules |-> IF s \in C THEN Next(def[s].cron, asOf[u]) ELSE cursor[s]]
    /\ since' = [s \in Schedules |-> IF s \in C THEN Next(def[s].cron, asOf[u]) ELSE since[s]]
    /\ held' = [s \in Schedules |-> IF s \in C THEN FALSE ELSE held[s]]
    /\ EndRequest(u, C)
    /\ UNCHANGED <<now, catalog, def, occ, work, run, done>>

Enable(u, s) ==
    /\ asOf[u] # NoRequest /\ s \in fresh[u]
    /\ state[s] = "disabled"
    /\ EnableAll(u, {s})

\* Bulk requests name no revision.
BulkEnable(u, S) ==
    /\ asOf[u] # NoRequest
    /\ \A s \in S : state[s] \in {"enabled", "disabled"}
    /\ EnableAll(u, {s \in S : state[s] = "disabled"})

\* applyStopTransitions: the open occurrence is discarded, whatever its run
\* is doing; the run itself is left alone.
StopAll(u, C, archive) ==
    /\ state' = [s \in Schedules |->
                    IF s \notin C THEN state[s] ELSE IF archive THEN "archived"
                    ELSE IF state[s] = "archived" THEN "archived" ELSE "disabled"]
    /\ occ' = [s \in Schedules |-> [t \in Times |->
                    IF s \in C /\ Unresolved(s, t) THEN "discarded" ELSE occ[s][t]]]
    /\ work' = [s \in Schedules |-> IF s \in C THEN NoWork ELSE work[s]]
    /\ cursor' = [s \in Schedules |-> IF s \in C THEN NoTime ELSE cursor[s]]
    /\ held' = [s \in Schedules |-> IF s \in C THEN FALSE ELSE held[s]]
    /\ EndRequest(u, C)
    /\ UNCHANGED <<now, catalog, def, run, since, done>>

\* Disable and Archive
Stop(u, s, archive) ==
    /\ asOf[u] # NoRequest /\ s \in fresh[u]
    /\ StopAll(u, {s}, archive)

BulkStop(u, S, archive) ==
    /\ asOf[u] # NoRequest
    /\ \A s \in S : state[s] \in {"enabled", "disabled"}
    /\ StopAll(u, {s \in S : archive \/ state[s] = "enabled"}, archive)

-----------------------------------------------------------------------------
(* The sweep: processTransaction, by any number of processes *)

Due(s) ==
    /\ state[s] = "enabled" /\ ~held[s]
    /\ cursor[s] <= now

\* The persisted rows agree with each other and with the catalog.
Coherent(s) ==
    /\ Valid(def[s]) /\ Fires(def[s].cron, cursor[s])
    /\ \A t \in Times : Unresolved(s, t) =>
        /\ t = cursor[s]
        /\ work[s].def = def[s]
        /\ work[s].attempts = 0 <=> work[s].outcome = "none"

\* An occurrence that never was tried, or whose retry is due, is delivered.
Owed(s) ==
    \/ ~Found(s)
    \/ work[s].outcome = "none"
    \/ work[s].outcome = "failed" /\ work[s].retry = "due"

\* Mutant: the table has no unique identity key.
OpenableTwice(s) == TRUE

\* createOccurrence: the identity of an occurrence is unique, so a cursor that
\* points at a closed one makes the transaction fail, on every sweep.
Openable(s) == Found(s) \/ occ[s][cursor[s]] = "none"

\* The occurrence as Deliver and Block leave it.
Opened(s, w) ==
    /\ occ' = [occ EXCEPT ![s][cursor[s]] = "unresolved"]
    /\ work' = [work EXCEPT ![s] = w]
    /\ held' = [held EXCEPT ![s] = TRUE]

\* Submission, attempt row and occurrence in one transaction.
Deliver(s) ==
    LET n == work[s].attempts + 1 IN
    /\ Due(s) /\ Coherent(s) /\ Owed(s) /\ Openable(s)
    /\ run[def[s].job] = Idle
    /\ Opened(s, [NoWork EXCEPT !.def = def[s], !.attempts = n, !.outcome = "active"])
    /\ run' = [run EXCEPT ![def[s].job] = <<s, cursor[s], n>>]
    /\ UNCHANGED <<now, catalog, state, def, cursor, asOf, fresh, since, done>>

\* ErrJobBusy, ErrSourceDisabled or ErrSourceConfigurationRequired: the
\* delivery is put off, the occurrence stays open.
Block(s) ==
    /\ Due(s) /\ Coherent(s) /\ Owed(s) /\ Openable(s)
    /\ Opened(s, [work[s] EXCEPT !.def = def[s]])
    /\ UNCHANGED <<now, catalog, state, def, cursor, run, asOf, fresh, since, done>>

\* Mutant: dated jobs catch up from the finish as the live ones do.
ResolveCoalescing(s) ==
    /\ Due(s) /\ Coherent(s) /\ Found(s)
    /\ work[s].outcome = "succeeded"
    /\ occ' = [occ EXCEPT ![s][cursor[s]] = "resolved"]
    /\ work' = [work EXCEPT ![s] = NoWork]
    /\ cursor' = [cursor EXCEPT ![s] = Next(def[s].cron, work[s].finished)]
    /\ held' = [held EXCEPT ![s] = FALSE]
    /\ UNCHANGED <<now, catalog, state, def, run, asOf, fresh, since, done>>

\* resolveSuccess: the cursor moves to the next time after the occurrence, or,
\* for a live snapshot, after the run's finish.
resolveSuccess(s) ==
    /\ Due(s) /\ Coherent(s) /\ Found(s)
    /\ work[s].outcome = "succeeded"
    /\ occ' = [occ EXCEPT ![s][cursor[s]] = "resolved"]
    /\ work' = [work EXCEPT ![s] = NoWork]
    /\ cursor' = [cursor EXCEPT ![s] =
                    Next(def[s].cron, IF def[s].policy = "live_coalesced" THEN work[s].finished ELSE @)]
    /\ held' = [held EXCEPT ![s] = FALSE]
    /\ UNCHANGED <<now, catalog, state, def, run, asOf, fresh, since, done>>

\* Mutant: only the throttle is set.
ThrottleOnly(s) ==
    /\ Due(s) /\ Coherent(s) /\ Found(s)
    /\ work[s].outcome = "failed" /\ work[s].retry = "null"
    /\ held' = [held EXCEPT ![s] = TRUE]
    /\ UNCHANGED <<now, catalog, state, def, cursor, occ, work, run, asOf, fresh, since, done>>

\* failed, cancelled or abandoned: the retry is put off by retryDelay.
recordBackoff(s) ==
    /\ Due(s) /\ Coherent(s) /\ Found(s)
    /\ work[s].outcome = "failed" /\ work[s].retry = "null"
    /\ work' = [work EXCEPT ![s].retry = "future"]
    /\ held' = [held EXCEPT ![s] = TRUE]
    /\ UNCHANGED <<now, catalog, state, def, cursor, occ, run, asOf, fresh, since, done>>

\* rejectInvalid, rejectLockedOccurrence and disableInvalid: the schedule is
\* disabled together with the occurrence it owes.
rejectInvalid(s) ==
    /\ Due(s) /\ ~Coherent(s) /\ Openable(s)
    /\ occ' = [occ EXCEPT ![s] = [t \in Times |->
                IF Unresolved(s, t) \/ (~Found(s) /\ t = cursor[s]) THEN "rejected_invalid" ELSE @[t]]]
    /\ work' = [work EXCEPT ![s] = NoWork]
    /\ state' = [state EXCEPT ![s] = "disabled"]
    /\ cursor' = [cursor EXCEPT ![s] = NoTime]
    /\ held' = [held EXCEPT ![s] = FALSE]
    /\ fresh' = [u \in Operators |-> fresh[u] \ {s}]
    /\ UNCHANGED <<now, catalog, def, run, asOf, since, done>>

-----------------------------------------------------------------------------
(* The rest of the system *)

\* The throttle or the retry delay of a schedule has passed.
HoldEnds(s) ==
    /\ held[s]
    /\ held' = [held EXCEPT ![s] = FALSE]
    /\ UNCHANGED <<now, catalog, state, def, cursor, since, occ, work, run, asOf, fresh, done>>

RetryDue(s) ==
    /\ work[s].retry = "future"
    /\ work' = [work EXCEPT ![s].retry = "due"]
    /\ UNCHANGED <<now, catalog, rows, occ, run, asOf, fresh, done>>

\* A user or Run All runs the job.
SubmitManually(j) ==
    /\ run[j] = Idle
    /\ run' = [run EXCEPT ![j] = Manual]
    /\ UNCHANGED <<now, catalog, rows, occ, work, asOf, fresh, done>>

\* The run ends; the occurrence it was submitted for may be closed by now.
RunEnds(j, outcome) ==
    /\ run[j] # Idle
    /\ run' = [run EXCEPT ![j] = Idle]
    /\ IF run[j] = Manual THEN UNCHANGED <<work, done>>
       ELSE LET s == run[j][1]
                t == run[j][2]
                n == run[j][3]
            IN  /\ outcome = "failed" => n < MaxAttempts
                /\ work' = IF Unresolved(s, t) /\ work[s].attempts = n
                           THEN [work EXCEPT ![s].outcome = outcome, ![s].finished = now]
                           ELSE work
                /\ done' = IF outcome = "succeeded" THEN done \cup {<<s, t>>} ELSE done
    /\ UNCHANGED <<now, catalog, rows, occ, asOf, fresh>>

\* A new version of the program dates a job differently or drops it.
Deploy(j, mode) ==
    /\ catalog[j] # mode
    /\ catalog' = [catalog EXCEPT ![j] = mode]
    /\ UNCHANGED <<now, rows, occ, work, run, asOf, fresh, done>>

Tick ==
    /\ now < MaxTime
    /\ now' = now + 1
    /\ UNCHANGED <<catalog, rows, occ, work, run, asOf, fresh, done>>

-----------------------------------------------------------------------------

OperatorNext(u) ==
    \/ BeginRequest(u) \/ RequestFails(u)
    \/ \E j \in Jobs, c \in Crons, enabled \in BOOLEAN, s \in Schedules :
            Create(u, j, c, enabled, s)
    \/ \E J \in SUBSET Jobs \ {{}}, c \in Crons, enabled \in BOOLEAN : CreateMany(u, J, c, enabled)
    \/ \E s \in Schedules : Enable(u, s)
    \/ \E s \in Schedules, d \in Defs : Update(u, s, d)
    \/ \E s \in Schedules, archive \in BOOLEAN : Stop(u, s, archive)
    \/ \E S \in SUBSET Schedules \ {{}} :
            BulkEnable(u, S) \/ \E archive \in BOOLEAN : BulkStop(u, S, archive)

SweepNext(s) ==
    Deliver(s) \/ Block(s) \/ resolveSuccess(s) \/ recordBackoff(s) \/ rejectInvalid(s)

RunNext(j) ==
    SubmitManually(j) \/ \E outcome \in {"succeeded", "failed"} : RunEnds(j, outcome)

Steps ==
    \/ \E u \in Operators : OperatorNext(u)
    \/ \E s \in Schedules : SweepNext(s) \/ HoldEnds(s) \/ RetryDue(s)
    \/ \E j \in Jobs : RunNext(j) \/ \E mode \in Modes \cup {"gone"} : Deploy(j, mode)
    \/ Tick

Spec == Init /\ [][Steps]_vars

\* Fairness.  The sweep runs every fifteen seconds and a delivery that is
\* possible again and again is not put off for ever (the source is not
\* disabled for good); runs end; delays pass.  Operators owe nothing.
Fairness ==
    /\ \A s \in Schedules :
        /\ SF_vars(Deliver(s))
        /\ WF_vars(resolveSuccess(s) \/ recordBackoff(s) \/ rejectInvalid(s))
        /\ WF_vars(HoldEnds(s)) /\ WF_vars(RetryDue(s))
    /\ \A j \in Jobs : WF_vars(\E outcome \in {"succeeded", "failed"} : RunEnds(j, outcome))

FairSpec == Spec /\ Fairness

-----------------------------------------------------------------------------
(* Properties *)

\* An open occurrence is the one its enabled schedule's cursor points at and
\* carries the schedule's present definition, whatever edits, stops and bulk
\* requests with old clock readings do: the rejections processTransaction has
\* for rows that disagree are reached only through the catalog.
OpenOccurrenceIsCurrent ==
    \A s \in Schedules, t \in Times : Unresolved(s, t) =>
        /\ state[s] = "enabled"
        /\ cursor[s] = t
        /\ work[s].def = def[s]

\* The scheduler's view of the attempt under way is the job's active run, and
\* a resolved occurrence has none left: no attempt is lost, none runs twice.
OneLiveAttempt ==
    \A s \in Schedules, t \in Times :
        /\ Unresolved(s, t) =>
            (work[s].outcome = "active" <=> run[def[s].job] = <<s, t, work[s].attempts>>)
        /\ occ[s][t] = "resolved" =>
            \A j \in Jobs, n \in 1 .. MaxAttempts : run[j] # <<s, t, n>>

\* What holds of schedules and occurrences in every state, whatever edits race
\* with the sweep.
OccurrenceSafety == TypeOK /\ OpenOccurrenceIsCurrent /\ OneLiveAttempt

\* Dated sources are ingested without a gap: every time between the first one
\* an enabled schedule owed and its cursor has had a successful run, through
\* any number of failures, blocks, crashes and late sweeps.
NoDateSkipped ==
    \A s \in Schedules : state[s] = "enabled" /\ def[s].policy = "historical" =>
        \A t \in Times : Fires(def[s].cron, t) /\ since[s] <= t /\ t < cursor[s]
            => occ[s][t] = "resolved" /\ <<s, t>> \in done

\* A time for which a run has succeeded is never delivered again, also when
\* its schedule was stopped, edited or enabled with an old clock reading.
NeverDeliveredAgain ==
    [][\A j \in Jobs, s \in Schedules, t \in Times, n \in 1 .. MaxAttempts :
        run'[j] = <<s, t, n>> /\ run[j] # run'[j] => <<s, t>> \notin done]_vars

\* A due time whose occurrence can be opened is settled: ingested, discarded
\* by an operator or rejected, provided users do not keep the job busy for
\* ever.  Failed, cancelled and blocked attempts only delay it.
DueIsSettled ==
    (\A j \in Jobs : <>[](run[j] # Manual)) =>
        \A s \in Schedules, t \in Times :
            (state[s] = "enabled" /\ cursor[s] = t /\ t <= now /\ occ[s][t] \in {"none", "unresolved"})
                ~> (cursor[s] # t \/ occ[s][t] \notin {"none", "unresolved"})
=============================================================================
