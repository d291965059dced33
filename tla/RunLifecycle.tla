---------------------------- MODULE RunLifecycle ----------------------------
(***************************************************************************)
(* The life of an ingestion run: the rows of table ingestion_runs          *)
(* (internal/ingestionrun), the coordinator processes that claim, run,     *)
(* heartbeat, finish and recover them (internal/coordinator), and the      *)
(* fenced publication of the rows a run ingests (internal/ingestionexec,   *)
(* internal/ingestionstore).                                               *)
(*                                                                         *)
(* One action is one committed database transaction, or one local step of  *)
(* a coordinator process between two of them.  Claim is the exception: its *)
(* transaction counts the running jobs under a row lock and only later     *)
(* updates the run it picked, so its two halves are separate actions.      *)
(*                                                                         *)
(* A run row is claimed at most once (no transition leads back to          *)
(* "queued"), so an attempt is identified with its run.  Run All parents   *)
(* are the subject of module RunAll; here a child is a job like any other. *)
(***************************************************************************)
EXTENDS Integers, FiniteSets

CONSTANTS
    Jobs,         \* the job keys of the catalog
    Maintenance,  \* the jobs published one date at a time (EOD and CBR)
    Procs,        \* the coordinator processes sharing the database
    NoProc,       \* SQL NULL in owner_id; no local attempt
    NoJob,        \* the job of a row that is not inserted yet
    MaxRuns,      \* bound: run rows ever inserted
    NumDates,     \* dates of a run's series
    MaxLimit,     \* largest max_running_jobs
    Lease         \* ingestionLease, in ticks

ASSUME ConstantsAssumption ==
    /\ MaxRuns \in Nat \ {0}
    /\ NumDates \in Nat \ {0}
    /\ MaxLimit \in Nat \ {0}
    /\ Lease \in Nat \ {0}
    /\ Maintenance \subseteq Jobs
    /\ NoProc \notin Procs
    /\ NoJob \notin Jobs

VARIABLES
    \* table ingestion_runs, by run id
    status,     \* "none" before the row is inserted
    job,        \* job_key
    cancelReq,  \* cancel_requested_at IS NOT NULL
    owner,      \* owner_id: the process whose token claimed the run
    age,        \* ticks since heartbeat_at, saturating past the lease
    \* the rest of the database
    limit,      \* ingestion_runtime_settings.max_running_jobs
    final,      \* final[j][d]: the run whose rows are job j's data of date d
    \* operators and processes
    seen,       \* runs whose owner and heartbeat an operator has on screen,
                \* still equal to the row's
    proc,       \* each process: up, draining after a shutdown signal, or down
    counted,    \* the running count a process read under the admission lock
    \* the local attempt at each run
    worker,     \* the process executing it
    pc,         \* the step it is at
    cause,      \* why its context was cancelled; "live" while it is not
    proof,      \* ticks since the last proof of ownership (lastProof)
    result,     \* what Execute returned
    date,       \* dates of the series done
    flawed,     \* some date of the series failed
    logged      \* the terminal log record of each attempt

rowVars == <<status, job, cancelReq, owner, age>>
attVars == <<worker, pc, cause, proof, result, date, flawed>>
vars == <<rowVars, limit, final, seen, proc, counted, attVars, logged>>

Runs == 1 .. MaxRuns
NoRun == 0
Dates == 1 .. NumDates
Idle == -1

Terminal == {"succeeded", "failed", "cancelled", "abandoned"}
Active == {"queued", "running"}
Status == Active \cup Terminal \cup {"none"}
Results == {"succeeded", "failed", "cancelled"}
Causes == {"live", "cancel", "shutdown", "lost", "unproven"}
Steps == {"executing", "saving", "published", "finish", "fallback", "readback"}

RowsOK ==
    /\ status \in [Runs -> Status]
    /\ job \in [Runs -> Jobs \cup {NoJob}]
    /\ cancelReq \in [Runs -> BOOLEAN]
    /\ owner \in [Runs -> Procs \cup {NoProc}]
    /\ age \in [Runs -> 0 .. (Lease + 1)]
    /\ seen \in SUBSET Runs

SystemOK ==
    /\ limit \in 1 .. MaxLimit
    /\ final \in [Jobs -> [Dates -> Runs \cup {NoRun}]]
    /\ proc \in [Procs -> {"up", "draining", "down"}]
    /\ counted \in [Procs -> (0 .. MaxRuns) \cup {Idle}]
    /\ logged \in [Runs -> Terminal \cup {"none", "finalization_failed"}]

AttemptsOK ==
    /\ worker \in [Runs -> Procs \cup {NoProc}]
    /\ pc \in [Runs -> Steps]
    /\ cause \in [Runs -> Causes]
    /\ proof \in [Runs -> 0 .. Lease]
    /\ result \in [Runs -> Results]
    /\ date \in [Runs -> 0 .. NumDates]
    /\ flawed \in [Runs -> BOOLEAN]

\* The type invariant: rows, settings and processes, and attempts have their
\* shape; ages, counts and dates stay within their bounds.
TypeOK == RowsOK /\ SystemOK /\ AttemptsOK

Init ==
    /\ status = [r \in Runs |-> "none"]
    /\ job = [r \in Runs |-> NoJob]
    /\ cancelReq = [r \in Runs |-> FALSE]
    /\ owner = [r \in Runs |-> NoProc]
    /\ age = [r \in Runs |-> 0]
    /\ limit \in 1 .. MaxLimit
    /\ final = [j \in Jobs |-> [d \in Dates |-> NoRun]]
    /\ seen = {}
    /\ proc = [p \in Procs |-> "up"]
    /\ counted = [p \in Procs |-> Idle]
    /\ worker = [r \in Runs |-> NoProc]
    /\ pc = [r \in Runs |-> "executing"]
    /\ cause = [r \in Runs |-> "live"]
    /\ proof = [r \in Runs |-> 0]
    /\ result = [r \in Runs |-> "failed"]
    /\ date = [r \in Runs |-> 0]
    /\ flawed = [r \in Runs |-> FALSE]
    /\ logged = [r \in Runs |-> "none"]

-----------------------------------------------------------------------------
(* Reading the table *)

RunningRuns == {r \in Runs : status[r] = "running"}

Working(r) == worker[r] # NoProc

\* Mutant: the fence compares the owner and forgets the status.
OwnedByToken(r) == owner[r] = worker[r]

\* WHERE id=? AND status='running' AND owner_id=?, for the attempt at r.
Owned(r) == status[r] = "running" /\ owner[r] = worker[r]

\* Mutant: the fence forgets cancel_requested_at.
PublishableAlthoughCancelled(r) == Owned(r)

\* Mutant: the fence compares the owner and forgets the status.
PublishableByToken(r) == owner[r] = worker[r] /\ ~cancelReq[r]

\* The same fence as a publication applies it: AND cancel_requested_at IS NULL.
Publishable(r) == Owned(r) /\ ~cancelReq[r]

\* heartbeat_at < UTC_TIMESTAMP(6) - lease
Stale(r) == status[r] = "running" /\ age[r] > Lease

\* UNIQUE KEY uq_ingestion_runs_active_job (active_job_key).
Busy(j) == \E r \in Runs : status[r] \in Active /\ job[r] = j

\* AUTO_INCREMENT: rows are inserted in the order of their ids.
NextRow(r) == status[r] = "none" /\ \A s \in Runs : s < r => status[s] # "none"

\* ORDER BY created_at,id LIMIT 1 FOR UPDATE SKIP LOCKED: the oldest queued row
\* that no other transaction has locked.  An older one is passed over while a
\* cancellation, which may yet be rolled back, locks it; so it is any of them.
Claimable(r) == status[r] = "queued"

\* A running row turns terminal; its heartbeat no longer matters.
Settle(r, outcome) ==
    /\ status' = [status EXCEPT ![r] = outcome]
    /\ age' = [age EXCEPT ![r] = 0]
    /\ seen' = seen \ {r}
    /\ UNCHANGED <<job, cancelReq, owner>>

\* heartbeat_at=CURRENT_TIMESTAMP(6): what an operator saw of it is outdated.
Renew(r) ==
    /\ age' = [age EXCEPT ![r] = 0]
    /\ seen' = seen \ {r}
    /\ UNCHANGED <<status, job, cancelReq, owner>>

-----------------------------------------------------------------------------
(* Operators and users *)

\* submitInTx: a second active row of the job violates the unique key and is
\* refused with ErrJobBusy.
Submit(r, j) ==
    /\ NextRow(r)
    /\ ~Busy(j)
    /\ status' = [status EXCEPT ![r] = "queued"]
    /\ job' = [job EXCEPT ![r] = j]
    /\ UNCHANGED <<cancelReq, owner, age, limit, final, seen, proc, counted,
                   attVars, logged>>

\* RequestCancellation of a job: a queued run is cancelled at once, a running
\* one is only flagged; a terminal row is left alone.
RequestCancellation(r) ==
    /\ status[r] \in Active
    /\ cancelReq' = [cancelReq EXCEPT ![r] = TRUE]
    /\ status' = [status EXCEPT ![r] = IF @ = "queued" THEN "cancelled" ELSE @]
    /\ UNCHANGED <<job, owner, age, limit, final, seen, proc, counted, attVars, logged>>

\* The run page shows the owner and heartbeat that the recovery form posts back.
ViewRun(r) ==
    /\ status[r] = "running"
    /\ seen' = seen \cup {r}
    /\ UNCHANGED <<rowVars, limit, final, proc, counted, attVars, logged>>

\* RecoverAbandoned: compare and set on the exact owner and heartbeat the
\* operator saw.  Neither the lease nor the worker is checked.
RecoverAbandoned(r) ==
    /\ r \in seen
    /\ status[r] = "running"
    /\ Settle(r, "abandoned")
    /\ UNCHANGED <<limit, final, proc, counted, attVars, logged>>

\* UpdateRuntimeSettings locks the same singleton row as Claim.
UpdateRuntimeSettings(n) ==
    /\ \A p \in Procs : counted[p] = Idle
    /\ n # limit
    /\ limit' = n
    /\ UNCHANGED <<rowVars, final, seen, proc, counted, attVars, logged>>

-----------------------------------------------------------------------------
(* The dispatcher: Claim *)

\* Mutant: the settings row is read without FOR UPDATE.
ClaimCountUnlocked(p) ==
    /\ proc[p] = "up"
    /\ counted[p] = Idle
    /\ counted' = [counted EXCEPT ![p] = Cardinality(RunningRuns)]
    /\ UNCHANGED <<rowVars, limit, final, seen, proc, attVars, logged>>

\* SELECT max_running_jobs ... FOR UPDATE, then the running count.
ClaimCount(p) ==
    /\ proc[p] = "up"
    /\ \A q \in Procs : counted[q] = Idle
    /\ counted' = [counted EXCEPT ![p] = Cardinality(RunningRuns)]
    /\ UNCHANGED <<rowVars, limit, final, seen, proc, attVars, logged>>

\* The claiming UPDATE and its commit.  The answer may get lost (a broken
\* connection, a shutdown during the call): the row is then running without a
\* local attempt.  An attempt started during a shutdown finds executionCtx
\* already cancelled.
ClaimRun(p, r, answered) ==
    /\ counted[p] # Idle /\ counted[p] < limit
    /\ Claimable(r)
    /\ status' = [status EXCEPT ![r] = "running"]
    /\ owner' = [owner EXCEPT ![r] = p]
    /\ age' = [age EXCEPT ![r] = 0]
    /\ counted' = [counted EXCEPT ![p] = Idle]
    /\ worker' = IF answered THEN [worker EXCEPT ![r] = p] ELSE worker
    /\ cause' = IF answered /\ proc[p] # "up"
                THEN [cause EXCEPT ![r] = "shutdown"] ELSE cause
    /\ UNCHANGED <<job, cancelReq, limit, final, seen, proc,
                   pc, proof, result, date, flawed, logged>>

\* The limit is reached, nothing is queued, or the transaction failed.
ClaimNothing(p) ==
    /\ counted[p] # Idle
    /\ counted' = [counted EXCEPT ![p] = Idle]
    /\ UNCHANGED <<rowVars, limit, final, seen, proc, attVars, logged>>

-----------------------------------------------------------------------------
(* The heartbeat goroutine of an attempt: it runs until the run's context is *)
(* cancelled, which the coordinator itself does after Finish.                *)

Beating(r) == Working(r) /\ cause[r] = "live" /\ pc[r] # "readback"

\* The state of the run's context; with any cause but "live" it has ended, and
\* the heartbeat with it.
ContextBecomes(r, why) ==
    /\ cause' = [cause EXCEPT ![r] = why]
    /\ proof' = [proof EXCEPT ![r] = 0]
    /\ UNCHANGED <<worker, pc, result, date, flawed>>

\* The proof of ownership is renewed; a cancellation request is noticed.
HeartbeatOwned(r) ==
    /\ Beating(r) /\ Owned(r)
    /\ Renew(r)
    /\ ContextBecomes(r, IF cancelReq[r] THEN "cancel" ELSE "live")
    /\ UNCHANGED <<limit, final, proc, counted, logged>>

HeartbeatNotOwned(r) ==
    /\ Beating(r) /\ ~Owned(r)
    /\ ContextBecomes(r, "lost")
    /\ UNCHANGED <<rowVars, limit, final, seen, proc, counted, logged>>

\* The database does not answer, although the UPDATE may have been applied.
\* After a lease without proof the attempt gives up.
HeartbeatError(r, applied) ==
    /\ Beating(r)
    /\ applied \/ proof[r] >= Lease
    /\ IF applied THEN Owned(r) /\ Renew(r) ELSE UNCHANGED <<rowVars, seen>>
    /\ IF proof[r] >= Lease THEN ContextBecomes(r, "unproven") ELSE UNCHANGED attVars
    /\ UNCHANGED <<limit, final, proc, counted, logged>>

-----------------------------------------------------------------------------
(* The executor of an attempt *)

\* cancellationFailure and failed: what Execute returns on an error.  Steps
\* that do not consult the cause (staging, for one) report "failed" even when
\* their context was cancelled.
ErrorResults(why) ==
    IF why \in {"cancel", "shutdown"} THEN {"cancelled", "failed"} ELSE {"failed"}

\* Execute returns: of its local state only the result and the run's context
\* are still used.
Return(r, res) ==
    /\ pc' = [pc EXCEPT ![r] = "finish"]
    /\ result' = [result EXCEPT ![r] = res]
    /\ date' = [date EXCEPT ![r] = 0]
    /\ flawed' = [flawed EXCEPT ![r] = FALSE]
    /\ UNCHANGED <<worker, cause, proof>>

\* Any failing step before publication: source, contract, staging, lost
\* ownership, cancellation, a publication refused by its fence.
ExecuteFails(r, res) ==
    /\ Working(r) /\ pc[r] = "executing"
    /\ res \in ErrorResults(cause[r])
    /\ Return(r, res)
    /\ UNCHANGED <<rowVars, limit, final, seen, proc, counted, logged>>

\* Publication of a Fixed, Detail or Master candidate: one transaction
\* replaces the final rows and runs FinishSucceededInTx.
PublishCandidate(r) ==
    /\ Working(r) /\ pc[r] = "executing"
    /\ job[r] \notin Maintenance
    /\ Publishable(r)
    /\ final' = [final EXCEPT ![job[r]] = [d \in Dates |-> r]]
    /\ Settle(r, "succeeded")
    /\ pc' = [pc EXCEPT ![r] = "published"]
    /\ UNCHANGED <<limit, proc, counted,
                   worker, cause, proof, result, date, flawed, logged>>

\* The outcome of the commit reaches the executor, or, with the answer lost,
\* publishCommitted reads the run back; when that read fails too the
\* executor reports the failure of a publication that is in place.
PublicationReturns(r, res) ==
    /\ Working(r) /\ pc[r] = "published"
    /\ res \in {"succeeded"} \cup ErrorResults(cause[r])
    /\ Return(r, res)
    /\ UNCHANGED <<rowVars, limit, final, seen, proc, counted, logged>>

\* executeMaintenance, top of the loop over the dates: ctx.Err() is checked.
StartDate(r) ==
    /\ Working(r) /\ pc[r] = "executing"
    /\ job[r] \in Maintenance
    /\ date[r] < NumDates
    /\ cause[r] = "live"
    /\ pc' = [pc EXCEPT ![r] = "saving"]
    /\ UNCHANGED <<rowVars, limit, final, seen, proc, counted,
                   worker, cause, proof, result, date, flawed, logged>>

\* One date of the series is behind the attempt.
DateDone(r, failed) ==
    /\ pc' = [pc EXCEPT ![r] = "executing"]
    /\ date' = [date EXCEPT ![r] = @ + 1]
    /\ flawed' = [flawed EXCEPT ![r] = @ \/ failed]
    /\ UNCHANGED <<worker, cause, proof, result>>

\* replaceMaintenanceSnapshot: the date's rows are replaced and the fencing
\* UPDATE renews the heartbeat in the same transaction.  With the answer of
\* the commit lost the date counts as failed.
SaveDate(r, answered) ==
    /\ Working(r) /\ pc[r] = "saving"
    /\ Publishable(r)
    /\ final' = [final EXCEPT ![job[r]] = [@ EXCEPT ![date[r] + 1] = r]]
    /\ Renew(r)
    /\ DateDone(r, ~answered)
    /\ UNCHANGED <<limit, proc, counted, logged>>

\* A date-local failure (no file, a malformed file, persistence) is recorded
\* and the loop goes on.
DateFails(r) ==
    /\ Working(r) /\ pc[r] = "saving"
    /\ DateDone(r, TRUE)
    /\ UNCHANGED <<rowVars, limit, final, seen, proc, counted, logged>>

\* A source-wide failure, a cancelled context or a lost fence ends the loop.
SeriesFails(r, res) ==
    /\ Working(r) /\ pc[r] = "saving"
    /\ res \in ErrorResults(cause[r])
    /\ Return(r, res)
    /\ UNCHANGED <<rowVars, limit, final, seen, proc, counted, logged>>

\* Mutant: the first date error is forgotten at the end of the series.
SeriesEndsWell(r) ==
    /\ Working(r) /\ pc[r] = "executing"
    /\ job[r] \in Maintenance
    /\ date[r] = NumDates
    /\ Return(r, "succeeded")
    /\ UNCHANGED <<rowVars, limit, final, seen, proc, counted, logged>>

\* The series is through: succeeded unless some date failed.
SeriesEnds(r) ==
    /\ Working(r) /\ pc[r] = "executing"
    /\ job[r] \in Maintenance
    /\ date[r] = NumDates
    /\ Return(r, IF flawed[r] THEN "failed" ELSE "succeeded")
    /\ UNCHANGED <<rowVars, limit, final, seen, proc, counted, logged>>

-----------------------------------------------------------------------------
(* executeClaimedRun after Execute *)

\* cancel(nil) after Finish ends the heartbeat; only the row is still read.
Finalized(r) ==
    /\ pc' = [pc EXCEPT ![r] = "readback"]
    /\ cause' = [cause EXCEPT ![r] = "live"]
    /\ proof' = [proof EXCEPT ![r] = 0]
    /\ result' = [result EXCEPT ![r] = "failed"]
    /\ UNCHANGED <<worker, date, flawed>>

\* The transition Finish makes; succeeded also requires no cancellation.
CanFinish(r, res) == Owned(r) /\ (res = "succeeded" => ~cancelReq[r])

Finish(r) ==
    /\ Working(r) /\ pc[r] = "finish"
    /\ CanFinish(r, result[r])
    /\ Settle(r, result[r])
    /\ Finalized(r)
    /\ UNCHANGED <<limit, final, proc, counted, logged>>

\* ErrTransition: nothing to finish, except that success was perhaps refused
\* because of a cancellation.
FinishRefused(r) ==
    /\ Working(r) /\ pc[r] = "finish"
    /\ ~CanFinish(r, result[r])
    /\ IF result[r] = "succeeded"
       THEN /\ pc' = [pc EXCEPT ![r] = "fallback"]
            /\ UNCHANGED <<worker, cause, proof, result, date, flawed>>
       ELSE Finalized(r)
    /\ UNCHANGED <<rowVars, limit, final, seen, proc, counted, logged>>

\* The second Finish, as cancelled.
FinishCancelled(r) ==
    /\ Working(r) /\ pc[r] = "fallback"
    /\ IF CanFinish(r, "cancelled") THEN Settle(r, "cancelled")
                                    ELSE UNCHANGED <<rowVars, seen>>
    /\ Finalized(r)
    /\ UNCHANGED <<limit, final, proc, counted, logged>>

\* Finish does not reach the database within its five seconds.
FinishError(r) ==
    /\ Working(r) /\ pc[r] \in {"finish", "fallback"}
    /\ Finalized(r)
    /\ UNCHANGED <<rowVars, limit, final, seen, proc, counted, logged>>

\* The attempts at the runs of S leave no local state behind.
Detach(S) ==
    /\ worker' = [r \in Runs |-> IF r \in S THEN NoProc ELSE worker[r]]
    /\ pc' = [r \in Runs |-> IF r \in S THEN "executing" ELSE pc[r]]
    /\ cause' = [r \in Runs |-> IF r \in S THEN "live" ELSE cause[r]]
    /\ proof' = [r \in Runs |-> IF r \in S THEN 0 ELSE proof[r]]
    /\ result' = [r \in Runs |-> IF r \in S THEN "failed" ELSE result[r]]
    /\ date' = [r \in Runs |-> IF r \in S THEN 0 ELSE date[r]]
    /\ flawed' = [r \in Runs |-> IF r \in S THEN FALSE ELSE flawed[r]]

\* logRunOutcome: completed with the persisted status when the row reads back
\* terminal, finalization_failed otherwise; the attempt is over.
Readback(r, answered) ==
    /\ Working(r) /\ pc[r] = "readback"
    /\ logged' = [logged EXCEPT ![r] =
                    IF answered /\ status[r] \in Terminal
                    THEN status[r] ELSE "finalization_failed"]
    /\ Detach({r})
    /\ UNCHANGED <<rowVars, limit, final, seen, proc, counted>>

-----------------------------------------------------------------------------
(* Stale recovery, shutdown, crash, restart, time *)

\* Mutant: the sweep only looks at runs the process executes itself.
RecoverLocalStale(p, r) ==
    /\ proc[p] = "up"
    /\ Stale(r) /\ worker[r] = p
    /\ Settle(r, "abandoned")
    /\ UNCHANGED <<limit, final, proc, counted, attVars, logged>>

\* One RecoverOneStale of recoverStaleSweep.  Its compare and set repeats the
\* staleness test, so the scan and the update are one step.  An attempt the
\* recovering process itself still executes has its context cancelled.
RecoverStale(p, r) ==
    /\ proc[p] = "up"
    /\ Stale(r)
    /\ Settle(r, "abandoned")
    /\ IF /\ worker[r] = p /\ cause[r] = "live"
          /\ pc[r] \in {"executing", "saving", "published"}
       THEN ContextBecomes(r, "lost")
       ELSE UNCHANGED attVars
    /\ UNCHANGED <<limit, final, proc, counted, logged>>

\* Run's ctx ends: no new claim, every execution context is cancelled.
Shutdown(p) ==
    /\ proc[p] = "up"
    /\ proc' = [proc EXCEPT ![p] = "draining"]
    /\ cause' = [r \in Runs |-> IF worker[r] = p /\ Beating(r) THEN "shutdown" ELSE cause[r]]
    /\ proof' = [r \in Runs |-> IF worker[r] = p THEN 0 ELSE proof[r]]
    /\ UNCHANGED <<rowVars, limit, final, seen, counted,
                   worker, pc, result, date, flawed, logged>>

\* wait.Wait() and active.Wait() returned.
Drained(p) ==
    /\ proc[p] = "draining"
    /\ counted[p] = Idle
    /\ \A r \in Runs : worker[r] # p
    /\ proc' = [proc EXCEPT ![p] = "down"]
    /\ UNCHANGED <<rowVars, limit, final, seen, counted, attVars, logged>>

\* The process dies, or is killed at the end of its shutdown budget: its
\* attempts are gone and an open transaction is rolled back.
Crash(p) ==
    /\ proc[p] # "down"
    /\ proc' = [proc EXCEPT ![p] = "down"]
    /\ counted' = [counted EXCEPT ![p] = Idle]
    /\ Detach({r \in Runs : worker[r] = p})
    /\ UNCHANGED <<rowVars, limit, final, seen, logged>>

Restart(p) ==
    /\ proc[p] = "down"
    /\ proc' = [proc EXCEPT ![p] = "up"]
    /\ UNCHANGED <<rowVars, limit, final, seen, counted, attVars, logged>>

\* Time passes for the database's heartbeats and the processes' proofs.
Aged(n, top) == IF n < top THEN n + 1 ELSE n

Tick ==
    /\ age' = [r \in Runs |-> IF status[r] = "running"
                              THEN Aged(age[r], Lease + 1) ELSE age[r]]
    /\ proof' = [r \in Runs |-> IF Beating(r) THEN Aged(proof[r], Lease) ELSE proof[r]]
    /\ UNCHANGED <<status, job, cancelReq, owner, limit, final, seen, proc, counted,
                   worker, pc, cause, result, date, flawed, logged>>

-----------------------------------------------------------------------------

UserNext ==
    \/ \E r \in Runs, j \in Jobs : Submit(r, j)
    \/ \E r \in Runs : RequestCancellation(r) \/ ViewRun(r) \/ RecoverAbandoned(r)
    \/ \E n \in 1 .. MaxLimit : UpdateRuntimeSettings(n)

ProcNext(p) ==
    \/ ClaimCount(p) \/ ClaimNothing(p)
    \/ \E r \in Runs, answered \in BOOLEAN : ClaimRun(p, r, answered)
    \/ \E r \in Runs : RecoverStale(p, r)
    \/ Shutdown(p) \/ Drained(p) \/ Crash(p) \/ Restart(p)

HeartbeatNext(r) ==
    \/ HeartbeatOwned(r) \/ HeartbeatNotOwned(r)
    \/ \E applied \in BOOLEAN : HeartbeatError(r, applied)

ExecuteNext(r) ==
    \/ \E res \in Results : ExecuteFails(r, res) \/ PublicationReturns(r, res)
                            \/ SeriesFails(r, res)
    \/ PublishCandidate(r)
    \/ StartDate(r) \/ DateFails(r) \/ SeriesEnds(r)
    \/ \E answered \in BOOLEAN : SaveDate(r, answered)

FinishNext(r) ==
    \/ Finish(r) \/ FinishRefused(r) \/ FinishCancelled(r) \/ FinishError(r)
    \/ \E answered \in BOOLEAN : Readback(r, answered)

AttemptNext(r) == HeartbeatNext(r) \/ ExecuteNext(r) \/ FinishNext(r)

Next ==
    \/ UserNext
    \/ \E p \in Procs : ProcNext(p)
    \/ \E r \in Runs : AttemptNext(r)
    \/ Tick

Spec == Init /\ [][Next]_vars

\* Fairness.  A dispatcher polls for ever and not all of its claims fail; an
\* executor returns (every source and database call has a deadline); Finish
\* and the readback are bounded by five seconds each; sweeps, the supervisor's
\* restarts and the clock go on.  Heartbeats, users and crashes owe nothing.
Fairness ==
    /\ \A p \in Procs :
        /\ SF_vars((\E r \in Runs : status[r] = "queued") /\ ClaimCount(p))
        /\ SF_vars(\E r \in Runs, answered \in BOOLEAN : ClaimRun(p, r, answered))
        /\ WF_vars(ClaimNothing(p))
        /\ WF_vars(Drained(p))
        /\ WF_vars(Restart(p))
        /\ \A r \in Runs : WF_vars(RecoverStale(p, r))
    /\ \A r \in Runs : WF_vars(ExecuteNext(r)) /\ WF_vars(FinishNext(r))
    /\ WF_vars(Tick)

FairSpec == Spec /\ Fairness

-----------------------------------------------------------------------------
(* Properties *)

\* Publication and run state commit together (FinishSucceededInTx): the data
\* of a Fixed, Detail or Master job only ever stems from a run that is
\* recorded as succeeded, whatever the executor, a lost commit answer, a
\* zombie worker or an operator did meanwhile.
PublishedMeansSucceeded ==
    \A j \in Jobs \ Maintenance, d \in Dates :
        final[j][d] # NoRun => status[final[j][d]] = "succeeded"

\* A run recorded as succeeded has put all of its dates in place; each is
\* still its own or was replaced by a later run of the job.
SucceededMeansComplete ==
    \A r \in Runs : status[r] = "succeeded" =>
        \A d \in Dates : final[job[r]][d] >= r

\* A cancellation request that was applied is never overtaken by success:
\* Finish and the publications re-check cancel_requested_at when they commit.
CancelledNeverSucceeds ==
    \A r \in Runs : cancelReq[r] => status[r] # "succeeded"

\* ingestion.run.completed carries the status the database ends up with, not
\* the executor's opinion of it (docs/OBSERVABILITY.md, "Ingestion completion
\* semantics").
CompletedLogIsCanonical ==
    \A r \in Runs : logged[r] \in Terminal => status[r] = logged[r]

\* coordinator.go executeClaimedRun, repository.go Finish and the fences of the
\* stores: what holds of the rows, the data and the log in every state.
RunSafety ==
    TypeOK /\ PublishedMeansSucceeded /\ CancelledNeverSucceeds /\ CompletedLogIsCanonical

\* No claim takes the number of running jobs past max_running_jobs, although
\* every process counts for itself and the limit changes at run time; a limit
\* lowered below the number of running jobs admits nothing until it fits.
ClaimsRespectLimit ==
    [][Cardinality(RunningRuns') > Cardinality(RunningRuns)
        => Cardinality(RunningRuns') <= limit]_vars

\* A worker that outlived its lease, its cancellation or its run never
\* overwrites the data of a later run of the same job.
NoStaleOverwrite ==
    [][\A j \in Jobs, d \in Dates : final'[j][d] >= final[j][d]]_vars

\* Final rows only change through the publication of a run that is running
\* and not cancelled when the change commits.
OnlyPublishableRunsWrite ==
    [][\A j \in Jobs, d \in Dates :
        final'[j][d] # final[j][d]
            => /\ status[final'[j][d]] = "running"
               /\ ~cancelReq[final'[j][d]]]_vars

\* As long as some coordinator stays up, every accepted run reaches a
\* terminal status: no crash, lost claim answer or failed Finish leaves a run
\* queued or running for ever (and its job busy).
RunsSettle ==
    (\E p \in Procs : <>[](proc[p] = "up")) =>
        \A r \in Runs : []<>(status[r] \notin Active)

-----------------------------------------------------------------------------
(* What the runs of a job promise its data: module RunLedger *)

Phase == [r \in Runs |-> IF status[r] \in Active THEN "open" ELSE status[r]]

Ledger == INSTANCE RunLedger WITH phase <- Phase, jobOf <- job, data <- final

\* Claims, leases, zombies, retries and lost answers implement the ledger.
ImplementsLedger == Ledger!LedgerSpec
=============================================================================
