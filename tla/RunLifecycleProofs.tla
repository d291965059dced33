------------------------- MODULE RunLifecycleProofs -------------------------
(***************************************************************************)
(* Proofs about RunLifecycle, for every number of jobs, processes, runs    *)
(* and dates, every limit and every lease.                                 *)
(***************************************************************************)
EXTENDS RunLifecycle, FiniteSetTheorems, TLAPS

-----------------------------------------------------------------------------
(* The inductive invariant *)

\* A date is only being saved for a maintenance job with a date left.
SavingDate ==
    \A r \in Runs : pc[r] = "saving" => job[r] \in Maintenance /\ date[r] < NumDates

\* No attempt, no local state.
IdleAttempt ==
    \A r \in Runs : ~Working(r) => pc[r] = "executing" /\ date[r] = 0 /\ ~flawed[r]

\* Only claimed runs are worked on.
WorkedOn == \A r \in Runs : Working(r) => status[r] \notin {"none", "queued"}

RowsInOrder ==
    \A r, s \in Runs : s < r /\ status[r] # "none" => status[s] # "none"

JobsKnown == \A r \in Runs : status[r] # "none" => job[r] \in Jobs

\* The active run of a job is the latest one: with the unique key on active
\* jobs this is what makes a fenced write a write of the latest run.
ActiveIsLatest ==
    \A r, s \in Runs :
        status[r] \in Active /\ status[s] # "none" /\ job[s] = job[r] => s <= r

\* Data stems from runs of its own job.
FinalOfJob ==
    \A j \in Jobs, d \in Dates :
        final[j][d] # NoRun => /\ job[final[j][d]] = j
                               /\ status[final[j][d]] # "none"

\* What the attempt at a run that is still running has put in place.
SeriesProgress ==
    \A r \in Runs : Working(r) /\ status[r] = "running" =>
        /\ pc[r] # "published"
        /\ pc[r] \in {"executing", "saving"} /\ ~flawed[r] =>
                \A d \in Dates : d <= date[r] => final[job[r]][d] = r
        /\ pc[r] \in {"finish", "fallback"} /\ result[r] = "succeeded" =>
                \A d \in Dates : final[job[r]][d] = r

\* One process at a time counts, and while it holds the lock on the settings
\* row the number of running jobs only falls.
CountIsFresh ==
    /\ \A p, q \in Procs : counted[p] # Idle /\ counted[q] # Idle => p = q
    /\ \A p \in Procs : counted[p] # Idle => Cardinality(RunningRuns) <= counted[p]

AttemptInv == SavingDate /\ IdleAttempt /\ WorkedOn
LedgerInv == RowsInOrder /\ JobsKnown /\ ActiveIsLatest /\ FinalOfJob
IInv == TypeOK /\ AttemptInv /\ LedgerInv /\ SeriesProgress

-----------------------------------------------------------------------------
(* Type correctness.  First the operators the actions are built from. *)

\* Closing a row (Settle) keeps the rows well typed.
LEMMA SettleType ==
    ASSUME RowsOK, NEW r \in Runs, NEW outcome \in Terminal, Settle(r, outcome)
    PROVE  RowsOK'
  BY ConstantsAssumption DEF RowsOK, Settle, Status

\* So does renewing its heartbeat (Renew).
LEMMA RenewType ==
    ASSUME RowsOK, NEW r \in Runs, Renew(r)
    PROVE  RowsOK'
  BY ConstantsAssumption DEF RowsOK, Renew

\* Ending or renewing a run's context keeps the attempts well typed.
LEMMA ContextType ==
    ASSUME AttemptsOK, NEW r \in Runs, NEW why \in Causes, ContextBecomes(r, why)
    PROVE  AttemptsOK'
  BY ConstantsAssumption DEF AttemptsOK, ContextBecomes

\* So does the return of Execute.
LEMMA ReturnType ==
    ASSUME AttemptsOK, NEW r \in Runs, NEW res \in Results, Return(r, res)
    PROVE  AttemptsOK'
  BY ConstantsAssumption DEF AttemptsOK, Return, Steps

\* So does a date of a maintenance series, while one is left.
LEMMA DateDoneType ==
    ASSUME AttemptsOK, NEW r \in Runs, NEW f \in BOOLEAN, date[r] < NumDates, DateDone(r, f)
    PROVE  AttemptsOK'
  <1>1. flawed' \in [Runs -> BOOLEAN]
    BY DEF AttemptsOK, DateDone
  <1>2. date' \in [Runs -> 0 .. NumDates]
    BY ConstantsAssumption DEF AttemptsOK, DateDone
  <1> QED
    BY <1>1, <1>2 DEF AttemptsOK, DateDone, Steps

\* So does the end of Finish.
LEMMA FinalizedType ==
    ASSUME AttemptsOK, NEW r \in Runs, Finalized(r)
    PROVE  AttemptsOK'
  BY ConstantsAssumption DEF AttemptsOK, Finalized, Steps, Causes, Results

\* So does forgetting any set of attempts (a crash, the final readback).
LEMMA DetachType ==
    ASSUME AttemptsOK, NEW S, Detach(S)
    PROVE  AttemptsOK'
  <1>1. /\ worker' \in [Runs -> Procs \cup {NoProc}]
        /\ pc' \in [Runs -> Steps]
        /\ cause' \in [Runs -> Causes]
    BY DEF AttemptsOK, Detach, Steps, Causes
  <1>2. /\ proof' \in [Runs -> 0 .. Lease]
        /\ result' \in [Runs -> Results]
        /\ date' \in [Runs -> 0 .. NumDates]
    BY ConstantsAssumption DEF AttemptsOK, Detach, Results
  <1>3. flawed' \in [Runs -> BOOLEAN]
    BY DEF AttemptsOK, Detach
  <1> QED
    BY <1>1, <1>2, <1>3 DEF AttemptsOK

\* The number of running jobs is a count of rows.
LEMMA CountType == Cardinality(RunningRuns) \in 0 .. MaxRuns
<1>1. IsFiniteSet(Runs) /\ Cardinality(Runs) = MaxRuns
  BY FS_Interval, ConstantsAssumption DEF Runs
<1>2. RunningRuns \subseteq Runs
  BY DEF RunningRuns
<1> QED
  BY <1>1, <1>2, FS_Subset, FS_CardinalityType

\* Each step of the protocol keeps the shape of the state.
LEMMA TypeStep == TypeOK /\ SavingDate /\ [Next]_vars => TypeOK'
<1> SUFFICES ASSUME TypeOK, SavingDate, [Next]_vars PROVE TypeOK'
  OBVIOUS
<1> USE DEF TypeOK
<1>1. ASSUME NEW r \in Runs, NEW j \in Jobs, Submit(r, j) PROVE TypeOK'
  <2>1. RowsOK'
    BY <1>1 DEF Submit, RowsOK, Status, Active
  <2>2. SystemOK'
    BY <1>1 DEF Submit, SystemOK
  <2>3. AttemptsOK'
    BY <1>1 DEF Submit, AttemptsOK, attVars
  <2> QED
    BY <2>1, <2>2, <2>3 DEF TypeOK
<1>2. ASSUME NEW r \in Runs, RequestCancellation(r) PROVE TypeOK'
  <2>1. RowsOK'
    BY <1>2 DEF RequestCancellation, RowsOK, Status, Active, Terminal
  <2>2. SystemOK'
    BY <1>2 DEF RequestCancellation, SystemOK
  <2>3. AttemptsOK'
    BY <1>2 DEF RequestCancellation, AttemptsOK, attVars
  <2> QED
    BY <2>1, <2>2, <2>3 DEF TypeOK
<1>3. ASSUME NEW r \in Runs, ViewRun(r) PROVE TypeOK'
  <2>1. RowsOK'
    BY <1>3 DEF ViewRun, RowsOK, rowVars
  <2>2. SystemOK'
    BY <1>3 DEF ViewRun, SystemOK
  <2>3. AttemptsOK'
    BY <1>3 DEF ViewRun, AttemptsOK, attVars
  <2> QED
    BY <2>1, <2>2, <2>3 DEF TypeOK
<1>4. ASSUME NEW r \in Runs, RecoverAbandoned(r) PROVE TypeOK'
  <2>1. RowsOK'
    BY <1>4, SettleType DEF RecoverAbandoned, Terminal
  <2>2. SystemOK'
    BY <1>4 DEF RecoverAbandoned, SystemOK
  <2>3. AttemptsOK'
    BY <1>4 DEF RecoverAbandoned, AttemptsOK, attVars
  <2> QED
    BY <2>1, <2>2, <2>3 DEF TypeOK
<1>5. ASSUME NEW n \in 1 .. MaxLimit, UpdateRuntimeSettings(n) PROVE TypeOK'
  <2>1. RowsOK'
    BY <1>5 DEF UpdateRuntimeSettings, RowsOK, rowVars
  <2>2. SystemOK'
    BY <1>5 DEF UpdateRuntimeSettings, SystemOK
  <2>3. AttemptsOK'
    BY <1>5 DEF UpdateRuntimeSettings, AttemptsOK, attVars
  <2> QED
    BY <2>1, <2>2, <2>3 DEF TypeOK
<1>6. ASSUME NEW p \in Procs, ClaimCount(p) PROVE TypeOK'
  <2>1. RowsOK'
    BY <1>6 DEF ClaimCount, RowsOK, rowVars
  <2>2. SystemOK'
    BY <1>6, CountType DEF ClaimCount, SystemOK
  <2>3. AttemptsOK'
    BY <1>6 DEF ClaimCount, AttemptsOK, attVars
  <2> QED
    BY <2>1, <2>2, <2>3 DEF TypeOK
<1>7. ASSUME NEW p \in Procs, ClaimNothing(p) PROVE TypeOK'
  <2>1. RowsOK'
    BY <1>7 DEF ClaimNothing, RowsOK, rowVars
  <2>2. SystemOK'
    BY <1>7 DEF ClaimNothing, SystemOK
  <2>3. AttemptsOK'
    BY <1>7 DEF ClaimNothing, AttemptsOK, attVars
  <2> QED
    BY <2>1, <2>2, <2>3 DEF TypeOK
<1>8. ASSUME NEW p \in Procs, NEW r \in Runs, NEW a \in BOOLEAN, ClaimRun(p, r, a) PROVE TypeOK'
  <2>1. RowsOK'
    BY <1>8, ConstantsAssumption DEF ClaimRun, RowsOK, Status, Active
  <2>2. SystemOK'
    BY <1>8 DEF ClaimRun, SystemOK
  <2>3. AttemptsOK'
    BY <1>8 DEF ClaimRun, AttemptsOK, Causes
  <2> QED
    BY <2>1, <2>2, <2>3 DEF TypeOK
<1>9. ASSUME NEW p \in Procs, NEW r \in Runs, RecoverStale(p, r) PROVE TypeOK'
  <2>1. RowsOK'
    BY <1>9, SettleType DEF RecoverStale, Terminal
  <2>2. SystemOK'
    BY <1>9 DEF RecoverStale, SystemOK
  <2>3. AttemptsOK'
    BY <1>9, ContextType DEF RecoverStale, Causes, AttemptsOK, attVars
  <2> QED
    BY <2>1, <2>2, <2>3 DEF TypeOK
<1>10. ASSUME NEW p \in Procs, Shutdown(p) PROVE TypeOK'
  <2>1. RowsOK'
    BY <1>10 DEF Shutdown, RowsOK, rowVars
  <2>2. SystemOK'
    BY <1>10 DEF Shutdown, SystemOK
  <2>3. AttemptsOK'
    BY <1>10, ConstantsAssumption DEF Shutdown, AttemptsOK, Causes
  <2> QED
    BY <2>1, <2>2, <2>3 DEF TypeOK
<1>11. ASSUME NEW p \in Procs, Drained(p) PROVE TypeOK'
  <2>1. RowsOK'
    BY <1>11 DEF Drained, RowsOK, rowVars
  <2>2. SystemOK'
    BY <1>11 DEF Drained, SystemOK
  <2>3. AttemptsOK'
    BY <1>11 DEF Drained, AttemptsOK, attVars
  <2> QED
    BY <2>1, <2>2, <2>3 DEF TypeOK
<1>12. ASSUME NEW p \in Procs, Crash(p) PROVE TypeOK'
  <2>1. RowsOK'
    BY <1>12 DEF Crash, RowsOK, rowVars
  <2>2. SystemOK'
    BY <1>12 DEF Crash, SystemOK
  <2>3. AttemptsOK'
    BY <1>12, DetachType DEF Crash
  <2> QED
    BY <2>1, <2>2, <2>3 DEF TypeOK
<1>13. ASSUME NEW p \in Procs, Restart(p) PROVE TypeOK'
  <2>1. RowsOK'
    BY <1>13 DEF Restart, RowsOK, rowVars
  <2>2. SystemOK'
    BY <1>13 DEF Restart, SystemOK
  <2>3. AttemptsOK'
    BY <1>13 DEF Restart, AttemptsOK, attVars
  <2> QED
    BY <2>1, <2>2, <2>3 DEF TypeOK
<1>14. ASSUME NEW r \in Runs, HeartbeatOwned(r) PROVE TypeOK'
  <2>1. RowsOK'
    BY <1>14, RenewType DEF HeartbeatOwned
  <2>2. SystemOK'
    BY <1>14 DEF HeartbeatOwned, SystemOK
  <2>3. AttemptsOK'
    BY <1>14, ContextType DEF HeartbeatOwned, Causes
  <2> QED
    BY <2>1, <2>2, <2>3 DEF TypeOK
<1>15. ASSUME NEW r \in Runs, HeartbeatNotOwned(r) PROVE TypeOK'
  <2>1. RowsOK'
    BY <1>15 DEF HeartbeatNotOwned, RowsOK, rowVars
  <2>2. SystemOK'
    BY <1>15 DEF HeartbeatNotOwned, SystemOK
  <2>3. AttemptsOK'
    BY <1>15, ContextType DEF HeartbeatNotOwned, Causes
  <2> QED
    BY <2>1, <2>2, <2>3 DEF TypeOK
<1>16. ASSUME NEW r \in Runs, NEW a \in BOOLEAN, HeartbeatError(r, a) PROVE TypeOK'
  <2>1. RowsOK'
    BY <1>16, RenewType DEF HeartbeatError, RowsOK, rowVars
  <2>2. SystemOK'
    BY <1>16 DEF HeartbeatError, SystemOK
  <2>3. AttemptsOK'
    BY <1>16, ContextType DEF HeartbeatError, Causes, AttemptsOK, attVars
  <2> QED
    BY <2>1, <2>2, <2>3 DEF TypeOK
<1>17. ASSUME NEW r \in Runs, NEW res \in Results, ExecuteFails(r, res) PROVE TypeOK'
  <2>1. RowsOK'
    BY <1>17 DEF ExecuteFails, RowsOK, rowVars
  <2>2. SystemOK'
    BY <1>17 DEF ExecuteFails, SystemOK
  <2>3. AttemptsOK'
    BY <1>17, ReturnType DEF ExecuteFails
  <2> QED
    BY <2>1, <2>2, <2>3 DEF TypeOK
<1>18. ASSUME NEW r \in Runs, PublishCandidate(r) PROVE TypeOK'
  <2>1. RowsOK'
    BY <1>18, SettleType DEF PublishCandidate, Terminal
  <2>2. SystemOK'
    BY <1>18 DEF PublishCandidate, SystemOK
  <2>3. AttemptsOK'
    BY <1>18 DEF PublishCandidate, AttemptsOK, Steps
  <2> QED
    BY <2>1, <2>2, <2>3 DEF TypeOK
<1>19. ASSUME NEW r \in Runs, NEW res \in Results, PublicationReturns(r, res) PROVE TypeOK'
  <2>1. RowsOK'
    BY <1>19 DEF PublicationReturns, RowsOK, rowVars
  <2>2. SystemOK'
    BY <1>19 DEF PublicationReturns, SystemOK
  <2>3. AttemptsOK'
    BY <1>19, ReturnType DEF PublicationReturns
  <2> QED
    BY <2>1, <2>2, <2>3 DEF TypeOK
<1>20. ASSUME NEW r \in Runs, StartDate(r) PROVE TypeOK'
  <2>1. RowsOK'
    BY <1>20 DEF StartDate, RowsOK, rowVars
  <2>2. SystemOK'
    BY <1>20 DEF StartDate, SystemOK
  <2>3. AttemptsOK'
    BY <1>20 DEF StartDate, AttemptsOK, Steps
  <2> QED
    BY <2>1, <2>2, <2>3 DEF TypeOK
<1>21. ASSUME NEW r \in Runs, NEW a \in BOOLEAN, SaveDate(r, a) PROVE TypeOK'
  <2>1. RowsOK'
    BY <1>21, RenewType DEF SaveDate
  <2>2. SystemOK'
    BY <1>21 DEF SaveDate, SystemOK
  <2>3. AttemptsOK'
    BY <1>21, DateDoneType DEF SaveDate, SavingDate
  <2> QED
    BY <2>1, <2>2, <2>3 DEF TypeOK
<1>22. ASSUME NEW r \in Runs, DateFails(r) PROVE TypeOK'
  <2>1. RowsOK'
    BY <1>22 DEF DateFails, RowsOK, rowVars
  <2>2. SystemOK'
    BY <1>22 DEF DateFails, SystemOK
  <2>3. AttemptsOK'
    BY <1>22, DateDoneType DEF DateFails, SavingDate
  <2> QED
    BY <2>1, <2>2, <2>3 DEF TypeOK
<1>23. ASSUME NEW r \in Runs, NEW res \in Results, SeriesFails(r, res) PROVE TypeOK'
  <2>1. RowsOK'
    BY <1>23 DEF SeriesFails, RowsOK, rowVars
  <2>2. SystemOK'
    BY <1>23 DEF SeriesFails, SystemOK
  <2>3. AttemptsOK'
    BY <1>23, ReturnType DEF SeriesFails
  <2> QED
    BY <2>1, <2>2, <2>3 DEF TypeOK
<1>24. ASSUME NEW r \in Runs, SeriesEnds(r) PROVE TypeOK'
  <2>1. RowsOK'
    BY <1>24 DEF SeriesEnds, RowsOK, rowVars
  <2>2. SystemOK'
    BY <1>24 DEF SeriesEnds, SystemOK
  <2>3. AttemptsOK'
    BY <1>24, ReturnType DEF SeriesEnds, Results
  <2> QED
    BY <2>1, <2>2, <2>3 DEF TypeOK
<1>25. ASSUME NEW r \in Runs, Finish(r) PROVE TypeOK'
  <2>1. RowsOK'
    BY <1>25, SettleType DEF Finish, AttemptsOK, Results, Terminal
  <2>2. SystemOK'
    BY <1>25 DEF Finish, SystemOK
  <2>3. AttemptsOK'
    BY <1>25, FinalizedType DEF Finish
  <2> QED
    BY <2>1, <2>2, <2>3 DEF TypeOK
<1>26. ASSUME NEW r \in Runs, FinishRefused(r) PROVE TypeOK'
  <2>1. RowsOK'
    BY <1>26 DEF FinishRefused, RowsOK, rowVars
  <2>2. SystemOK'
    BY <1>26 DEF FinishRefused, SystemOK
  <2>3. AttemptsOK'
    BY <1>26, FinalizedType DEF FinishRefused, AttemptsOK, Steps
  <2> QED
    BY <2>1, <2>2, <2>3 DEF TypeOK
<1>27. ASSUME NEW r \in Runs, FinishCancelled(r) PROVE TypeOK'
  <2>1. RowsOK'
    BY <1>27, SettleType DEF FinishCancelled, RowsOK, rowVars, Terminal
  <2>2. SystemOK'
    BY <1>27 DEF FinishCancelled, SystemOK
  <2>3. AttemptsOK'
    BY <1>27, FinalizedType DEF FinishCancelled
  <2> QED
    BY <2>1, <2>2, <2>3 DEF TypeOK
<1>28. ASSUME NEW r \in Runs, FinishError(r) PROVE TypeOK'
  <2>1. RowsOK'
    BY <1>28 DEF FinishError, RowsOK, rowVars
  <2>2. SystemOK'
    BY <1>28 DEF FinishError, SystemOK
  <2>3. AttemptsOK'
    BY <1>28, FinalizedType DEF FinishError
  <2> QED
    BY <2>1, <2>2, <2>3 DEF TypeOK
<1>29. ASSUME NEW r \in Runs, NEW a \in BOOLEAN, Readback(r, a) PROVE TypeOK'
  <2>1. RowsOK'
    BY <1>29 DEF Readback, RowsOK, rowVars
  <2>2. SystemOK'
    BY <1>29 DEF Readback, SystemOK
  <2>3. AttemptsOK'
    BY <1>29, DetachType DEF Readback
  <2> QED
    BY <2>1, <2>2, <2>3 DEF TypeOK
<1>30. ASSUME Tick PROVE TypeOK'
  <2>1. RowsOK'
    BY <1>30, ConstantsAssumption DEF Tick, RowsOK, Aged
  <2>2. SystemOK'
    BY <1>30 DEF Tick, SystemOK
  <2>3. AttemptsOK'
    BY <1>30, ConstantsAssumption DEF Tick, AttemptsOK, Aged
  <2> QED
    BY <2>1, <2>2, <2>3 DEF TypeOK
<1>31. ASSUME UNCHANGED vars PROVE TypeOK'
  BY <1>31 DEF TypeOK, RowsOK, SystemOK, AttemptsOK, vars, rowVars, attVars
<1> QED
    BY <1>1, <1>2, <1>3, <1>4, <1>5, <1>6, <1>7, <1>8, <1>9, <1>10, <1>11, <1>12, <1>13,
     <1>14, <1>15, <1>16, <1>17, <1>18, <1>19, <1>20, <1>21, <1>22, <1>23, <1>24, <1>25,
     <1>26, <1>27, <1>28, <1>29, <1>30, <1>31
  DEF Next, UserNext, ProcNext, AttemptNext, HeartbeatNext, ExecuteNext, FinishNext

-----------------------------------------------------------------------------
(* Local attempts *)

\* Each step keeps attempts tied to claimed runs and to their series.
LEMMA AttemptStep == TypeOK /\ AttemptInv /\ [Next]_vars => AttemptInv'
<1> SUFFICES ASSUME TypeOK, AttemptInv, [Next]_vars PROVE AttemptInv'
  OBVIOUS
<1> USE DEF TypeOK, RowsOK, AttemptsOK, AttemptInv, SavingDate, IdleAttempt, WorkedOn, Working,
        rowVars, attVars
<1>1. ASSUME NEW r \in Runs, NEW j \in Jobs, Submit(r, j) PROVE AttemptInv'
  BY <1>1 DEF Submit, NextRow
<1>2. ASSUME NEW r \in Runs, RequestCancellation(r) PROVE AttemptInv'
  BY <1>2 DEF RequestCancellation, Active
<1>3. ASSUME NEW r \in Runs, ViewRun(r) PROVE AttemptInv'
  BY <1>3 DEF ViewRun
<1>4. ASSUME NEW r \in Runs, RecoverAbandoned(r) PROVE AttemptInv'
  BY <1>4 DEF RecoverAbandoned, Settle
<1>5. ASSUME NEW n \in 1 .. MaxLimit, UpdateRuntimeSettings(n) PROVE AttemptInv'
  BY <1>5 DEF UpdateRuntimeSettings
<1>6. ASSUME NEW p \in Procs, ClaimCount(p) PROVE AttemptInv'
  BY <1>6 DEF ClaimCount
<1>7. ASSUME NEW p \in Procs, ClaimNothing(p) PROVE AttemptInv'
  BY <1>7 DEF ClaimNothing
<1>8. ASSUME NEW p \in Procs, NEW r \in Runs, NEW a \in BOOLEAN, ClaimRun(p, r, a) PROVE AttemptInv'
  BY <1>8 DEF ClaimRun, Claimable
<1>9. ASSUME NEW p \in Procs, NEW r \in Runs, RecoverStale(p, r) PROVE AttemptInv'
  BY <1>9 DEF RecoverStale, Settle, ContextBecomes, Stale
<1>10. ASSUME NEW p \in Procs, Shutdown(p) PROVE AttemptInv'
  BY <1>10 DEF Shutdown
<1>11. ASSUME NEW p \in Procs, Drained(p) PROVE AttemptInv'
  BY <1>11 DEF Drained
<1>12. ASSUME NEW p \in Procs, Crash(p) PROVE AttemptInv'
  BY <1>12 DEF Crash, Detach
<1>13. ASSUME NEW p \in Procs, Restart(p) PROVE AttemptInv'
  BY <1>13 DEF Restart
<1>14. ASSUME NEW r \in Runs, HeartbeatOwned(r) PROVE AttemptInv'
  BY <1>14 DEF HeartbeatOwned, Renew, ContextBecomes
<1>15. ASSUME NEW r \in Runs, HeartbeatNotOwned(r) PROVE AttemptInv'
  BY <1>15 DEF HeartbeatNotOwned, ContextBecomes
<1>16. ASSUME NEW r \in Runs, NEW a \in BOOLEAN, HeartbeatError(r, a) PROVE AttemptInv'
  BY <1>16 DEF HeartbeatError, Renew, ContextBecomes
<1>17. ASSUME NEW r \in Runs, NEW res \in Results, ExecuteFails(r, res) PROVE AttemptInv'
  BY <1>17 DEF ExecuteFails, Return
<1>18. ASSUME NEW r \in Runs, PublishCandidate(r) PROVE AttemptInv'
  BY <1>18 DEF PublishCandidate, Settle
<1>19. ASSUME NEW r \in Runs, NEW res \in Results, PublicationReturns(r, res) PROVE AttemptInv'
  BY <1>19 DEF PublicationReturns, Return
<1>20. ASSUME NEW r \in Runs, StartDate(r) PROVE AttemptInv'
  BY <1>20 DEF StartDate
<1>21. ASSUME NEW r \in Runs, NEW a \in BOOLEAN, SaveDate(r, a) PROVE AttemptInv'
  BY <1>21 DEF SaveDate, Renew, DateDone
<1>22. ASSUME NEW r \in Runs, DateFails(r) PROVE AttemptInv'
  BY <1>22 DEF DateFails, DateDone
<1>23. ASSUME NEW r \in Runs, NEW res \in Results, SeriesFails(r, res) PROVE AttemptInv'
  BY <1>23 DEF SeriesFails, Return
<1>24. ASSUME NEW r \in Runs, SeriesEnds(r) PROVE AttemptInv'
  BY <1>24 DEF SeriesEnds, Return
<1>25. ASSUME NEW r \in Runs, Finish(r) PROVE AttemptInv'
  BY <1>25 DEF Finish, Settle, Finalized, CanFinish, Owned, Results
<1>26. ASSUME NEW r \in Runs, FinishRefused(r) PROVE AttemptInv'
  BY <1>26 DEF FinishRefused, Finalized
<1>27. ASSUME NEW r \in Runs, FinishCancelled(r) PROVE AttemptInv'
  BY <1>27 DEF FinishCancelled, Settle, Finalized, CanFinish, Owned
<1>28. ASSUME NEW r \in Runs, FinishError(r) PROVE AttemptInv'
  BY <1>28 DEF FinishError, Finalized
<1>29. ASSUME NEW r \in Runs, NEW a \in BOOLEAN, Readback(r, a) PROVE AttemptInv'
  BY <1>29 DEF Readback, Detach
<1>30. ASSUME Tick PROVE AttemptInv'
  BY <1>30 DEF Tick
<1>31. ASSUME UNCHANGED vars PROVE AttemptInv'
  BY <1>31 DEF vars
<1> QED
    BY <1>1, <1>2, <1>3, <1>4, <1>5, <1>6, <1>7, <1>8, <1>9, <1>10, <1>11, <1>12, <1>13,
     <1>14, <1>15, <1>16, <1>17, <1>18, <1>19, <1>20, <1>21, <1>22, <1>23, <1>24, <1>25,
     <1>26, <1>27, <1>28, <1>29, <1>30, <1>31
  DEF Next, UserNext, ProcNext, AttemptNext, HeartbeatNext, ExecuteNext, FinishNext

-----------------------------------------------------------------------------
(* What a step does to the rows and to the data.  The 30 actions have seven  *)
(* effects; the ledger's invariants and the refinement are proved from them. *)

Quiet == UNCHANGED <<status, job, final>>

Submits(r, j) ==
    /\ NextRow(r) /\ ~Busy(j)
    /\ status' = [status EXCEPT ![r] = "queued"]
    /\ job' = [job EXCEPT ![r] = j]
    /\ UNCHANGED final

Starts(r) ==
    /\ status[r] = "queued"
    /\ status' = [status EXCEPT ![r] = "running"]
    /\ UNCHANGED <<job, final>>

Ends(r, outcome) ==
    /\ status[r] \in Active
    /\ status' = [status EXCEPT ![r] = outcome]
    /\ UNCHANGED <<job, final>>

FinishesWell(r) ==
    /\ Working(r) /\ pc[r] = "finish" /\ result[r] = "succeeded"
    /\ status[r] = "running" /\ ~cancelReq[r]
    /\ status' = [status EXCEPT ![r] = "succeeded"]
    /\ UNCHANGED <<job, final>>

Publishes(r) ==
    /\ status[r] = "running" /\ ~cancelReq[r]
    /\ job[r] \notin Maintenance
    /\ final' = [final EXCEPT ![job[r]] = [d \in Dates |-> r]]
    /\ status' = [status EXCEPT ![r] = "succeeded"]
    /\ UNCHANGED job

Saves(r, d) ==
    /\ status[r] = "running" /\ ~cancelReq[r]
    /\ job[r] \in Maintenance
    /\ final' = [final EXCEPT ![job[r]] = [@ EXCEPT ![d] = r]]
    /\ UNCHANGED <<status, job>>

Effect ==
    \/ Quiet
    \/ \E r \in Runs, j \in Jobs : Submits(r, j)
    \/ \E r \in Runs : Starts(r) \/ FinishesWell(r) \/ Publishes(r)
    \/ \E r \in Runs, outcome \in {"failed", "cancelled", "abandoned"} : Ends(r, outcome)
    \/ \E r \in Runs, d \in Dates : Saves(r, d)

\* Every step has one of the effects.
LEMMA StepEffect == TypeOK /\ SavingDate /\ [Next]_vars => Effect
<1> SUFFICES ASSUME TypeOK, SavingDate, [Next]_vars PROVE Effect
  OBVIOUS
<1>1. ASSUME NEW r \in Runs, NEW j \in Jobs, Submit(r, j) PROVE Effect
  BY <1>1 DEF Effect, Submits, Submit
<1>2. ASSUME NEW r \in Runs, RequestCancellation(r) PROVE Effect
  <2>1. CASE status[r] = "queued"
    BY <1>2, <2>1 DEF Effect, Ends, RequestCancellation, Active
  <2>2. CASE status[r] # "queued"
    <3>1. status' = status
      BY <1>2, <2>2 DEF RequestCancellation, TypeOK, RowsOK
    <3> QED
      BY <1>2, <3>1 DEF Effect, Quiet, RequestCancellation
  <2> QED
    BY <2>1, <2>2
<1>3. ASSUME NEW r \in Runs, ViewRun(r) PROVE Effect
  BY <1>3 DEF Effect, Quiet, rowVars, ViewRun
<1>4. ASSUME NEW r \in Runs, RecoverAbandoned(r) PROVE Effect
  BY <1>4 DEF Effect, Ends, RecoverAbandoned, Settle, Active
<1>5. ASSUME NEW n \in 1 .. MaxLimit, UpdateRuntimeSettings(n) PROVE Effect
  BY <1>5 DEF Effect, Quiet, rowVars, UpdateRuntimeSettings
<1>6. ASSUME NEW p \in Procs, ClaimCount(p) PROVE Effect
  BY <1>6 DEF Effect, Quiet, rowVars, ClaimCount
<1>7. ASSUME NEW p \in Procs, ClaimNothing(p) PROVE Effect
  BY <1>7 DEF Effect, Quiet, rowVars, ClaimNothing
<1>8. ASSUME NEW p \in Procs, NEW r \in Runs, NEW a \in BOOLEAN, ClaimRun(p, r, a) PROVE Effect
  BY <1>8 DEF Effect, Starts, ClaimRun, Claimable
<1>9. ASSUME NEW p \in Procs, NEW r \in Runs, RecoverStale(p, r) PROVE Effect
  BY <1>9 DEF Effect, Ends, RecoverStale, Stale, Settle, Active
<1>10. ASSUME NEW p \in Procs, Shutdown(p) PROVE Effect
  BY <1>10 DEF Effect, Quiet, rowVars, Shutdown
<1>11. ASSUME NEW p \in Procs, Drained(p) PROVE Effect
  BY <1>11 DEF Effect, Quiet, rowVars, Drained
<1>12. ASSUME NEW p \in Procs, Crash(p) PROVE Effect
  BY <1>12 DEF Effect, Quiet, rowVars, Crash
<1>13. ASSUME NEW p \in Procs, Restart(p) PROVE Effect
  BY <1>13 DEF Effect, Quiet, rowVars, Restart
<1>14. ASSUME NEW r \in Runs, HeartbeatOwned(r) PROVE Effect
  BY <1>14 DEF Effect, Quiet, HeartbeatOwned, Renew
<1>15. ASSUME NEW r \in Runs, HeartbeatNotOwned(r) PROVE Effect
  BY <1>15 DEF Effect, Quiet, rowVars, HeartbeatNotOwned
<1>16. ASSUME NEW r \in Runs, NEW a \in BOOLEAN, HeartbeatError(r, a) PROVE Effect
  BY <1>16 DEF Effect, Quiet, HeartbeatError, Renew, rowVars
<1>17. ASSUME NEW r \in Runs, NEW res \in Results, ExecuteFails(r, res) PROVE Effect
  BY <1>17 DEF Effect, Quiet, rowVars, ExecuteFails
<1>18. ASSUME NEW r \in Runs, PublishCandidate(r) PROVE Effect
  BY <1>18 DEF Effect, Publishes, PublishCandidate, Publishable, Owned, Settle
<1>19. ASSUME NEW r \in Runs, NEW res \in Results, PublicationReturns(r, res) PROVE Effect
  BY <1>19 DEF Effect, Quiet, rowVars, PublicationReturns
<1>20. ASSUME NEW r \in Runs, StartDate(r) PROVE Effect
  BY <1>20 DEF Effect, Quiet, rowVars, StartDate
<1>21. ASSUME NEW r \in Runs, NEW a \in BOOLEAN, SaveDate(r, a) PROVE Effect
  <2>1. date[r] + 1 \in Dates /\ job[r] \in Maintenance
    BY <1>21, ConstantsAssumption DEF SaveDate, SavingDate, TypeOK, AttemptsOK, Dates
  <2>2. Saves(r, date[r] + 1)
    BY <1>21, <2>1 DEF Saves, SaveDate, Publishable, Owned, Renew
  <2> QED
    BY <2>1, <2>2 DEF Effect
<1>22. ASSUME NEW r \in Runs, DateFails(r) PROVE Effect
  BY <1>22 DEF Effect, Quiet, rowVars, DateFails
<1>23. ASSUME NEW r \in Runs, NEW res \in Results, SeriesFails(r, res) PROVE Effect
  BY <1>23 DEF Effect, Quiet, rowVars, SeriesFails
<1>24. ASSUME NEW r \in Runs, SeriesEnds(r) PROVE Effect
  BY <1>24 DEF Effect, Quiet, rowVars, SeriesEnds
<1>25. ASSUME NEW r \in Runs, Finish(r) PROVE Effect
  <2>1. CASE result[r] = "succeeded"
    BY <1>25, <2>1 DEF Effect, FinishesWell, Finish, CanFinish, Owned, Settle
  <2>2. CASE result[r] # "succeeded"
    <3>1. result[r] \in {"failed", "cancelled"}
      BY <2>2 DEF TypeOK, AttemptsOK, Results
    <3>2. Ends(r, result[r])
      BY <1>25 DEF Ends, Finish, CanFinish, Owned, Settle, Active
    <3> QED
      BY <3>1, <3>2 DEF Effect
  <2> QED
    BY <2>1, <2>2
<1>26. ASSUME NEW r \in Runs, FinishRefused(r) PROVE Effect
  BY <1>26 DEF Effect, Quiet, rowVars, FinishRefused
<1>27. ASSUME NEW r \in Runs, FinishCancelled(r) PROVE Effect
  <2>1. CASE CanFinish(r, "cancelled")
    BY <1>27, <2>1 DEF Effect, Ends, FinishCancelled, CanFinish, Owned, Settle, Active
  <2>2. CASE ~CanFinish(r, "cancelled")
    BY <1>27, <2>2 DEF Effect, Quiet, FinishCancelled, rowVars
  <2> QED
    BY <2>1, <2>2
<1>28. ASSUME NEW r \in Runs, FinishError(r) PROVE Effect
  BY <1>28 DEF Effect, Quiet, rowVars, FinishError
<1>29. ASSUME NEW r \in Runs, NEW a \in BOOLEAN, Readback(r, a) PROVE Effect
  BY <1>29 DEF Effect, Quiet, rowVars, Readback
<1>30. ASSUME Tick PROVE Effect
  BY <1>30 DEF Effect, Quiet, Tick
<1>31. ASSUME UNCHANGED vars PROVE Effect
  BY <1>31 DEF Effect, Quiet, rowVars, vars
<1> QED
    BY <1>1, <1>2, <1>3, <1>4, <1>5, <1>6, <1>7, <1>8, <1>9, <1>10, <1>11, <1>12, <1>13,
     <1>14, <1>15, <1>16, <1>17, <1>18, <1>19, <1>20, <1>21, <1>22, <1>23, <1>24, <1>25,
     <1>26, <1>27, <1>28, <1>29, <1>30, <1>31
  DEF Next, UserNext, ProcNext, AttemptNext, HeartbeatNext, ExecuteNext, FinishNext

-----------------------------------------------------------------------------
(* The ledger *)

\* Rows are inserted in order, so a new row is later than all others.
LEMMA NewestRow ==
    ASSUME TypeOK, RowsInOrder, NEW r \in Runs, NextRow(r), NEW s \in Runs, status[s] # "none"
    PROVE  s < r
  BY DEF RowsInOrder, NextRow, Runs

\* At most one active run per job.
LEMMA OneActive ==
    ASSUME ActiveIsLatest, NEW r \in Runs, NEW s \in Runs,
           status[r] \in Active, status[s] \in Active, job[r] = job[s]
    PROVE  r = s
  BY DEF ActiveIsLatest, Active, Runs

\* The data a running run may replace is not newer than the run.
LEMMA DataNotNewer ==
    ASSUME TypeOK, LedgerInv, NEW r \in Runs, status[r] = "running", NEW d \in Dates
    PROVE  job[r] \in Jobs /\ final[job[r]][d] <= r
<1>1. job[r] \in Jobs
  BY DEF LedgerInv, JobsKnown
<1>2. CASE final[job[r]][d] = NoRun
  BY <1>1, <1>2 DEF NoRun, Runs
<1>3. CASE final[job[r]][d] # NoRun
  <2>1. final[job[r]][d] \in Runs
    BY <1>1, <1>3 DEF TypeOK, SystemOK
  <2> QED
    BY <1>1, <1>3, <2>1 DEF LedgerInv, FinalOfJob, ActiveIsLatest, Active
<1> QED
  BY <1>1, <1>2, <1>3

\* Every kind of effect a step can have keeps the ledger part of the invariant.
LEMMA LedgerStep == TypeOK /\ LedgerInv /\ Effect => LedgerInv'
<1> SUFFICES ASSUME TypeOK, LedgerInv, Effect PROVE LedgerInv'
  OBVIOUS
<1> USE DEF LedgerInv
<1>1. CASE Quiet
  BY <1>1 DEF Quiet, RowsInOrder, JobsKnown, ActiveIsLatest, FinalOfJob
<1>2. ASSUME NEW r \in Runs, NEW j \in Jobs, Submits(r, j) PROVE LedgerInv'
  <2>1. \A s \in Runs : status'[s] # "none" => s = r \/ (status[s] # "none" /\ s < r)
    BY <1>2, NewestRow DEF Submits, TypeOK, RowsOK
  <2>2. RowsInOrder'
    BY <1>2, <2>1 DEF Submits, NextRow, RowsInOrder, TypeOK, RowsOK, Runs
  <2>3. JobsKnown'
    BY <1>2 DEF Submits, JobsKnown, TypeOK, RowsOK
  <2>4. ActiveIsLatest'
    BY <1>2, <2>1 DEF Submits, Busy, ActiveIsLatest, TypeOK, RowsOK, Runs, Active
  <2>5. FinalOfJob'
    <3> SUFFICES ASSUME NEW k \in Jobs, NEW d \in Dates, final[k][d] # NoRun
                 PROVE  job'[final[k][d]] = k /\ status'[final[k][d]] # "none"
      BY <1>2 DEF Submits, FinalOfJob
    <3>1. final[k][d] \in Runs /\ status[final[k][d]] # "none" /\ job[final[k][d]] = k
      BY DEF FinalOfJob, TypeOK, SystemOK
    <3>2. final[k][d] # r
      BY <1>2, <3>1 DEF Submits, NextRow
    <3> QED
      BY <1>2, <3>1, <3>2 DEF Submits, TypeOK, RowsOK
  <2> QED
    BY <2>2, <2>3, <2>4, <2>5
<1>3. ASSUME NEW r \in Runs, NEW outcome \in Terminal \cup {"running"},
             status[r] \in Active, outcome = "running" => status[r] = "queued",
             status' = [status EXCEPT ![r] = outcome], UNCHANGED <<job, final>>
      PROVE  LedgerInv'
  <2>1. \A s \in Runs : /\ status'[s] = "none" <=> status[s] = "none"
                        /\ status'[s] \in Active => status[s] \in Active
    BY <1>3 DEF TypeOK, RowsOK, Active, Terminal
  <2> QED
    BY <1>3, <2>1 DEF RowsInOrder, JobsKnown, ActiveIsLatest, FinalOfJob, TypeOK, SystemOK, NoRun
<1>4. ASSUME NEW r \in Runs, Starts(r) PROVE LedgerInv'
  BY <1>3, <1>4 DEF Starts, Active
<1>5. ASSUME NEW r \in Runs, FinishesWell(r) PROVE LedgerInv'
  BY <1>3, <1>5 DEF FinishesWell, Active, Terminal
<1>6. ASSUME NEW r \in Runs, NEW outcome \in {"failed", "cancelled", "abandoned"}, Ends(r, outcome)
      PROVE  LedgerInv'
  BY <1>3, <1>6 DEF Ends, Terminal
<1>7. ASSUME NEW r \in Runs, Publishes(r) PROVE LedgerInv'
  <2>1. \A s \in Runs : /\ status'[s] = "none" <=> status[s] = "none"
                        /\ status'[s] \in Active => status[s] \in Active
    BY <1>7 DEF Publishes, TypeOK, RowsOK, Active
  <2>2. RowsInOrder' /\ JobsKnown' /\ ActiveIsLatest'
    BY <1>7, <2>1 DEF Publishes, RowsInOrder, JobsKnown, ActiveIsLatest
  <2>3. FinalOfJob'
    BY <1>7, <2>1 DEF Publishes, FinalOfJob, TypeOK, SystemOK, NoRun
  <2> QED
    BY <2>2, <2>3
<1>8. ASSUME NEW r \in Runs, NEW d \in Dates, Saves(r, d) PROVE LedgerInv'
  <2>1. RowsInOrder' /\ JobsKnown' /\ ActiveIsLatest'
    BY <1>8 DEF Saves, RowsInOrder, JobsKnown, ActiveIsLatest
  <2>2. FinalOfJob'
    BY <1>8 DEF Saves, FinalOfJob, TypeOK, SystemOK, NoRun
  <2> QED
    BY <2>1, <2>2
<1> QED
  BY <1>1, <1>2, <1>4, <1>5, <1>6, <1>7, <1>8 DEF Effect

\* A running run's own writes are all that its progress depends on.
LEMMA ForeignWrite ==
    ASSUME TypeOK, LedgerInv, Effect, NEW r \in Runs, status[r] = "running", status'[r] = "running"
    PROVE  \/ final'[job[r]] = final[job[r]]
           \/ \E d \in Dates : final' = [final EXCEPT ![job[r]] = [@ EXCEPT ![d] = r]]
<1> job[r] \in Jobs
  BY DEF LedgerInv, JobsKnown
<1>1. ASSUME NEW s \in Runs, Publishes(s) PROVE final'[job[r]] = final[job[r]]
  <2>1. s # r
    BY <1>1 DEF Publishes, TypeOK, RowsOK
  <2>2. job[s] # job[r]
    BY <1>1, <2>1, OneActive DEF Publishes, LedgerInv, Active
  <2> QED
    BY <1>1, <2>2 DEF Publishes, TypeOK, SystemOK
<1>2. ASSUME NEW s \in Runs, NEW d \in Dates, Saves(s, d), s # r
      PROVE  final'[job[r]] = final[job[r]]
  <2>1. job[s] # job[r]
    BY <1>2, OneActive DEF Saves, LedgerInv, Active
  <2> QED
    BY <1>2, <2>1 DEF Saves, TypeOK, SystemOK
<1> QED
  BY <1>1, <1>2 DEF Effect, Quiet, Submits, Starts, FinishesWell, Ends, Saves

\* A run succeeds on what it has put in place: each step keeps the account.
LEMMA SeriesStep ==
    TypeOK /\ AttemptInv /\ LedgerInv /\ SeriesProgress /\ [Next]_vars => SeriesProgress'
<1> SUFFICES ASSUME TypeOK, AttemptInv, LedgerInv, SeriesProgress, [Next]_vars
             PROVE  SeriesProgress'
  OBVIOUS
<1> USE DEF TypeOK, RowsOK, AttemptsOK, SeriesProgress, Working, rowVars, attVars
<1>1. ASSUME NEW r \in Runs, NEW j \in Jobs, Submit(r, j) PROVE SeriesProgress'
  BY <1>1 DEF Submit, AttemptInv, WorkedOn, NextRow
<1>2. ASSUME NEW r \in Runs, RequestCancellation(r) PROVE SeriesProgress'
  BY <1>2 DEF RequestCancellation
<1>3. ASSUME NEW r \in Runs, ViewRun(r) PROVE SeriesProgress'
  BY <1>3 DEF ViewRun
<1>4. ASSUME NEW r \in Runs, RecoverAbandoned(r) PROVE SeriesProgress'
  BY <1>4 DEF RecoverAbandoned, Settle
<1>5. ASSUME NEW n \in 1 .. MaxLimit, UpdateRuntimeSettings(n) PROVE SeriesProgress'
  BY <1>5 DEF UpdateRuntimeSettings
<1>6. ASSUME NEW p \in Procs, ClaimCount(p) PROVE SeriesProgress'
  BY <1>6 DEF ClaimCount
<1>7. ASSUME NEW p \in Procs, ClaimNothing(p) PROVE SeriesProgress'
  BY <1>7 DEF ClaimNothing
<1>8. ASSUME NEW p \in Procs, NEW r \in Runs, NEW a \in BOOLEAN, ClaimRun(p, r, a) PROVE SeriesProgress'
  <2>1. \A s \in Runs : s # r /\ Working(s)' /\ status'[s] = "running" =>
            Working(s) /\ status[s] = "running"
    BY <1>8 DEF ClaimRun
  <2>2. pc[r] = "executing" /\ date[r] = 0
    BY <1>8 DEF ClaimRun, Claimable, AttemptInv, IdleAttempt, WorkedOn
  <2> QED
    BY <1>8, <2>1, <2>2 DEF ClaimRun, Dates
<1>9. ASSUME NEW p \in Procs, NEW r \in Runs, RecoverStale(p, r) PROVE SeriesProgress'
  BY <1>9 DEF RecoverStale, Settle, ContextBecomes
<1>10. ASSUME NEW p \in Procs, Shutdown(p) PROVE SeriesProgress'
  BY <1>10 DEF Shutdown
<1>11. ASSUME NEW p \in Procs, Drained(p) PROVE SeriesProgress'
  BY <1>11 DEF Drained
<1>12. ASSUME NEW p \in Procs, Crash(p) PROVE SeriesProgress'
  BY <1>12 DEF Crash, Detach
<1>13. ASSUME NEW p \in Procs, Restart(p) PROVE SeriesProgress'
  BY <1>13 DEF Restart
<1>14. ASSUME NEW r \in Runs, HeartbeatOwned(r) PROVE SeriesProgress'
  BY <1>14 DEF HeartbeatOwned, Renew, ContextBecomes
<1>15. ASSUME NEW r \in Runs, HeartbeatNotOwned(r) PROVE SeriesProgress'
  BY <1>15 DEF HeartbeatNotOwned, ContextBecomes
<1>16. ASSUME NEW r \in Runs, NEW a \in BOOLEAN, HeartbeatError(r, a) PROVE SeriesProgress'
  BY <1>16 DEF HeartbeatError, Renew, ContextBecomes
<1>17. ASSUME NEW r \in Runs, NEW res \in Results, ExecuteFails(r, res) PROVE SeriesProgress'
  BY <1>17 DEF ExecuteFails, Return, ErrorResults
<1>18. ASSUME NEW r \in Runs, PublishCandidate(r) PROVE SeriesProgress'
  <2>1. \A s \in Runs : s # r /\ status[s] = "running" => job[s] # job[r] /\ job[s] \in Jobs
    BY <1>18, OneActive DEF PublishCandidate, Publishable, Owned, LedgerInv, JobsKnown, Active
  <2> QED
    BY <1>18, <2>1 DEF PublishCandidate, Settle, SystemOK
<1>19. ASSUME NEW r \in Runs, NEW res \in Results, PublicationReturns(r, res) PROVE SeriesProgress'
  BY <1>19 DEF PublicationReturns, Return
<1>20. ASSUME NEW r \in Runs, StartDate(r) PROVE SeriesProgress'
  BY <1>20 DEF StartDate
<1>21. ASSUME NEW r \in Runs, NEW a \in BOOLEAN, SaveDate(r, a) PROVE SeriesProgress'
  <2>1. \A s \in Runs : s # r /\ status[s] = "running" => job[s] # job[r] /\ job[s] \in Jobs
    BY <1>21, OneActive DEF SaveDate, Publishable, Owned, LedgerInv, JobsKnown, Active
  <2>2. \A s \in Runs : s # r /\ status[s] = "running" => final'[job[s]] = final[job[s]]
    BY <1>21, <2>1 DEF SaveDate, SystemOK
  <2>3. job[r] \in Jobs /\ date[r] + 1 \in Dates /\ status[r] = "running"
    BY <1>21, ConstantsAssumption
    DEF SaveDate, Publishable, Owned, LedgerInv, JobsKnown, AttemptInv, SavingDate, Dates
  <2>4. final'[job[r]] = [final[job[r]] EXCEPT ![date[r] + 1] = r]
    BY <1>21, <2>3 DEF SaveDate, SystemOK
  <2>5. /\ pc'[r] = "executing" /\ date'[r] = date[r] + 1
        /\ ~flawed'[r] => ~flawed[r]
    BY <1>21 DEF SaveDate, DateDone
  <2>6. ~flawed'[r] => \A d \in Dates : d <= date'[r] => final'[job[r]][d] = r
    <3> SUFFICES ASSUME ~flawed[r], NEW d \in Dates, d <= date[r] + 1
                 PROVE  final'[job[r]][d] = r
      BY <2>5
    <3>1. final[job[r]] \in [Dates -> Runs \cup {NoRun}]
      BY <2>3 DEF SystemOK
    <3>2. CASE d = date[r] + 1
      BY <2>3, <2>4, <3>1, <3>2
    <3>3. CASE d <= date[r]
      <4>1. final[job[r]][d] = r
        BY <1>21, <2>3, <3>3 DEF SaveDate
      <4> QED
        BY <2>4, <3>1, <4>1
    <3> QED
      BY <2>3, <3>2, <3>3 DEF Dates
  <2> QED
    BY <1>21, <2>2, <2>5, <2>6 DEF SaveDate, Renew, DateDone
<1>22. ASSUME NEW r \in Runs, DateFails(r) PROVE SeriesProgress'
  BY <1>22 DEF DateFails, DateDone
<1>23. ASSUME NEW r \in Runs, NEW res \in Results, SeriesFails(r, res) PROVE SeriesProgress'
  BY <1>23 DEF SeriesFails, Return, ErrorResults
<1>24. ASSUME NEW r \in Runs, SeriesEnds(r) PROVE SeriesProgress'
  <2>1. status[r] = "running" /\ ~flawed[r] => \A d \in Dates : final[job[r]][d] = r
    BY <1>24 DEF SeriesEnds, Dates
  <2> QED
    BY <1>24, <2>1 DEF SeriesEnds, Return
<1>25. ASSUME NEW r \in Runs, Finish(r) PROVE SeriesProgress'
  BY <1>25 DEF Finish, Settle, Finalized, Results
<1>26. ASSUME NEW r \in Runs, FinishRefused(r) PROVE SeriesProgress'
  BY <1>26 DEF FinishRefused, Finalized
<1>27. ASSUME NEW r \in Runs, FinishCancelled(r) PROVE SeriesProgress'
  BY <1>27 DEF FinishCancelled, Settle, Finalized
<1>28. ASSUME NEW r \in Runs, FinishError(r) PROVE SeriesProgress'
  BY <1>28 DEF FinishError, Finalized
<1>29. ASSUME NEW r \in Runs, NEW a \in BOOLEAN, Readback(r, a) PROVE SeriesProgress'
  BY <1>29 DEF Readback, Detach
<1>30. ASSUME Tick PROVE SeriesProgress'
  BY <1>30 DEF Tick
<1>31. ASSUME UNCHANGED vars PROVE SeriesProgress'
  BY <1>31 DEF vars
<1> QED
    BY <1>1, <1>2, <1>3, <1>4, <1>5, <1>6, <1>7, <1>8, <1>9, <1>10, <1>11, <1>12, <1>13,
     <1>14, <1>15, <1>16, <1>17, <1>18, <1>19, <1>20, <1>21, <1>22, <1>23, <1>24, <1>25,
     <1>26, <1>27, <1>28, <1>29, <1>30, <1>31
  DEF Next, UserNext, ProcNext, AttemptNext, HeartbeatNext, ExecuteNext, FinishNext

-----------------------------------------------------------------------------
(* The inductive invariant holds *)

\* The empty table satisfies the inductive invariant.
LEMMA InitIInv == Init => IInv
<1> SUFFICES ASSUME Init PROVE IInv
  OBVIOUS
<1>1. RowsOK
  BY ConstantsAssumption DEF Init, RowsOK, Status
<1>2. SystemOK
  BY ConstantsAssumption DEF Init, SystemOK, Idle
<1>3. AttemptsOK
  BY ConstantsAssumption DEF Init, AttemptsOK, Steps, Causes, Results
<1>4. AttemptInv
  BY DEF Init, AttemptInv, SavingDate, IdleAttempt, WorkedOn, Working
<1>5. LedgerInv
  BY DEF Init, LedgerInv, RowsInOrder, JobsKnown, ActiveIsLatest, FinalOfJob, Active
<1>6. SeriesProgress
  BY DEF Init, SeriesProgress
<1> QED
  BY <1>1, <1>2, <1>3, <1>4, <1>5, <1>6 DEF IInv, TypeOK

\* Every step preserves the inductive invariant.
LEMMA StepIInv == IInv /\ [Next]_vars => IInv'
  BY TypeStep, AttemptStep, StepEffect, LedgerStep, SeriesStep DEF IInv, AttemptInv

\* The inductive invariant: rows in order, one active run per job and it the
\* latest, attempts tied to claimed runs, and the account of what each attempt
\* has put in place.
THEOREM Invariance == Spec => []IInv
<1>1. Init => IInv
  BY InitIInv
<1>2. IInv /\ [Next]_vars => IInv'
  BY StepIInv
<1> QED
  BY <1>1, <1>2, PTL DEF Spec

\* Type correctness of the rows, the settings, the processes and the attempts.
THEOREM TypeCorrect == Spec => []TypeOK
<1>1. IInv => TypeOK
  BY DEF IInv
<1> QED
  BY <1>1, Invariance, PTL

-----------------------------------------------------------------------------
(* Publication and success *)

\* A step keeps PublishedMeansSucceeded: data and success commit together.
LEMMA PublishedStep ==
    TypeOK /\ LedgerInv /\ PublishedMeansSucceeded /\ Effect => PublishedMeansSucceeded'
<1> SUFFICES ASSUME TypeOK, LedgerInv, PublishedMeansSucceeded, Effect,
                    NEW j \in Jobs \ Maintenance, NEW d \in Dates, final'[j][d] # NoRun
             PROVE  status'[final'[j][d]] = "succeeded"
  BY DEF PublishedMeansSucceeded
<1> USE DEF TypeOK, RowsOK, SystemOK
<1>1. CASE final'[j] = final[j] /\ \A r \in Runs : status[r] = "succeeded" => status'[r] = "succeeded"
  BY <1>1 DEF PublishedMeansSucceeded
<1>2. CASE Quiet
  BY <1>1, <1>2 DEF Quiet
<1>3. ASSUME NEW r \in Runs, NEW k \in Jobs, Submits(r, k) PROVE status'[final'[j][d]] = "succeeded"
  BY <1>1, <1>3 DEF Submits, NextRow
<1>4. ASSUME NEW r \in Runs, Starts(r) \/ FinishesWell(r) PROVE status'[final'[j][d]] = "succeeded"
  BY <1>1, <1>4 DEF Starts, FinishesWell
<1>5. ASSUME NEW r \in Runs, NEW outcome \in {"failed", "cancelled", "abandoned"}, Ends(r, outcome)
      PROVE  status'[final'[j][d]] = "succeeded"
  BY <1>1, <1>5 DEF Ends, Active
<1>6. ASSUME NEW r \in Runs, Publishes(r) PROVE status'[final'[j][d]] = "succeeded"
  <2>1. CASE j = job[r]
    <3>1. final'[j][d] = r
      BY <1>6, <2>1 DEF Publishes
    <3> QED
      BY <1>6, <3>1 DEF Publishes
  <2>2. CASE j # job[r]
    BY <1>1, <1>6, <2>2 DEF Publishes
  <2> QED
    BY <2>1, <2>2
<1>7. ASSUME NEW r \in Runs, NEW e \in Dates, Saves(r, e) PROVE status'[final'[j][d]] = "succeeded"
  <2>1. final'[j] = final[j]
    BY <1>7 DEF Saves
  <2> QED
    BY <1>1, <1>7, <2>1 DEF Saves
<1> QED
  BY <1>2, <1>3, <1>4, <1>5, <1>6, <1>7 DEF Effect

\* Atomic publication: Fixed, Detail and Master data only ever stems from a
\* run recorded as succeeded (FinishSucceededInTx inside the publication).
THEOREM AtomicPublication == Spec => []PublishedMeansSucceeded
<1>1. Init => PublishedMeansSucceeded
  BY DEF Init, PublishedMeansSucceeded
<1>2. IInv /\ PublishedMeansSucceeded /\ [Next]_vars => PublishedMeansSucceeded'
  BY PublishedStep, StepEffect DEF IInv, AttemptInv
<1> QED
  BY <1>1, <1>2, Invariance, PTL DEF Spec

\* A step keeps SucceededMeansComplete.
LEMMA CompleteStep ==
    TypeOK /\ LedgerInv /\ SeriesProgress /\ SucceededMeansComplete /\ Effect
        => SucceededMeansComplete'
<1> SUFFICES ASSUME TypeOK, LedgerInv, SeriesProgress, SucceededMeansComplete, Effect,
                    NEW q \in Runs, status'[q] = "succeeded", NEW d \in Dates
             PROVE  final'[job'[q]][d] >= q
  BY DEF SucceededMeansComplete
<1> USE DEF TypeOK, RowsOK, SystemOK
<1>2. CASE Quiet
  BY <1>2 DEF Quiet, SucceededMeansComplete
<1>3. ASSUME NEW r \in Runs, NEW j \in Jobs, Submits(r, j) PROVE final'[job'[q]][d] >= q
  <2>1. q # r
    BY <1>3 DEF Submits
  <2> QED
    BY <1>3, <2>1 DEF Submits, SucceededMeansComplete
<1>4. ASSUME NEW r \in Runs, Starts(r) PROVE final'[job'[q]][d] >= q
  BY <1>4 DEF Starts, SucceededMeansComplete
<1>5. ASSUME NEW r \in Runs, NEW outcome \in {"failed", "cancelled", "abandoned"}, Ends(r, outcome)
      PROVE  final'[job'[q]][d] >= q
  BY <1>5 DEF Ends, SucceededMeansComplete
<1>6. ASSUME NEW r \in Runs, FinishesWell(r) PROVE final'[job'[q]][d] >= q
  <2>1. CASE q = r
    <3>1. final[job[r]][d] = r
      BY <1>6 DEF FinishesWell, SeriesProgress
    <3> QED
      BY <1>6, <2>1, <3>1 DEF FinishesWell, Runs
  <2>2. CASE q # r
    BY <1>6, <2>2 DEF FinishesWell, SucceededMeansComplete
  <2> QED
    BY <2>1, <2>2
<1>7. ASSUME NEW r \in Runs, Publishes(r) PROVE final'[job'[q]][d] >= q
  <2>1. job[r] \in Jobs
    BY <1>7 DEF Publishes, LedgerInv, JobsKnown
  <2>2. CASE job[q] = job[r]
    <3>1. q <= r
      BY <1>7, <2>2 DEF Publishes, LedgerInv, ActiveIsLatest, Active, Runs
    <3>2. final'[job'[q]][d] = r
      BY <1>7, <2>1, <2>2 DEF Publishes
    <3> QED
      BY <3>1, <3>2 DEF Runs
  <2>3. CASE job[q] # job[r]
    <3>1. status[q] = "succeeded" /\ job'[q] = job[q]
      BY <1>7, <2>3 DEF Publishes
    <3>2. final'[job[q]][d] = final[job[q]][d]
      BY <1>7, <2>3 DEF Publishes
    <3> QED
      BY <3>1, <3>2 DEF SucceededMeansComplete
  <2> QED
    BY <2>2, <2>3
<1>8. ASSUME NEW r \in Runs, NEW e \in Dates, Saves(r, e) PROVE final'[job'[q]][d] >= q
  <2>1. status[q] = "succeeded" /\ job'[q] = job[q] /\ job[r] \in Jobs
    BY <1>8 DEF Saves, LedgerInv, JobsKnown
  <2>2. CASE job[q] = job[r] /\ d = e
    <3>1. q <= r
      BY <1>8, <2>1, <2>2 DEF Saves, LedgerInv, ActiveIsLatest, Active
    <3>2. final'[job'[q]][d] = r
      BY <1>8, <2>1, <2>2 DEF Saves
    <3> QED
      BY <3>1, <3>2 DEF Runs
  <2>3. CASE ~(job[q] = job[r] /\ d = e)
    <3>1. final'[job[q]][d] = final[job[q]][d]
      BY <1>8, <2>1, <2>3 DEF Saves
    <3> QED
      BY <2>1, <3>1 DEF SucceededMeansComplete
  <2> QED
    BY <2>2, <2>3
<1> QED
  BY <1>2, <1>3, <1>4, <1>5, <1>6, <1>7, <1>8 DEF Effect

\* A succeeded run has put every date of its series in place.
THEOREM CompleteSuccess == Spec => []SucceededMeansComplete
<1>1. Init => SucceededMeansComplete
  BY DEF Init, SucceededMeansComplete
<1>2. IInv /\ SucceededMeansComplete /\ [Next]_vars => SucceededMeansComplete'
  BY CompleteStep, StepEffect DEF IInv, AttemptInv
<1> QED
  BY <1>1, <1>2, Invariance, PTL DEF Spec

-----------------------------------------------------------------------------
(* Who writes what *)

\* A step writes only data of the latest run of a job.
LEMMA OverwriteStep ==
    ASSUME TypeOK, LedgerInv, Effect, NEW j \in Jobs, NEW d \in Dates
    PROVE  /\ final'[j][d] >= final[j][d]
           /\ final'[j][d] # final[j][d] => /\ status[final'[j][d]] = "running"
                                            /\ ~cancelReq[final'[j][d]]
<1> USE DEF TypeOK, RowsOK, SystemOK
<1>1. CASE final'[j][d] = final[j][d]
  BY <1>1 DEF Runs, NoRun
<1>2. ASSUME NEW r \in Runs, status[r] = "running", j = job[r], final'[j][d] = r
      PROVE  final'[j][d] >= final[j][d]
  <2>1. final[j][d] <= r
    BY <1>2, DataNotNewer
  <2> QED
    BY <1>2, <2>1 DEF Runs, NoRun
<1>3. ASSUME NEW r \in Runs, Publishes(r), final'[j][d] # final[j][d]
      PROVE  final'[j][d] = r /\ j = job[r]
  BY <1>3 DEF Publishes
<1>4. ASSUME NEW r \in Runs, NEW e \in Dates, Saves(r, e), final'[j][d] # final[j][d]
      PROVE  final'[j][d] = r /\ j = job[r]
  BY <1>4 DEF Saves
<1>5. CASE final'[j][d] # final[j][d]
  <2>1. PICK r \in Runs : Publishes(r) \/ \E e \in Dates : Saves(r, e)
    BY <1>5 DEF Effect, Quiet, Submits, Starts, FinishesWell, Ends
  <2>2. final'[j][d] = r /\ j = job[r]
    BY <1>3, <1>4, <1>5, <2>1
  <2>3. status[r] = "running" /\ ~cancelReq[r]
    BY <2>1 DEF Publishes, Saves
  <2> QED
    BY <1>2, <2>2, <2>3
<1> QED
  BY <1>1, <1>5

\* No step replaces the data of a later run by an earlier one's.
THEOREM NoZombieOverwrites == Spec => NoStaleOverwrite
<1>1. IInv /\ [Next]_vars => [\A j \in Jobs, d \in Dates : final'[j][d] >= final[j][d]]_vars
  BY OverwriteStep, StepEffect DEF IInv, AttemptInv
<1> QED
  BY <1>1, Invariance, PTL DEF Spec, NoStaleOverwrite

\* Every write is the write of a running run without a cancellation request.
THEOREM FencedWrites == Spec => OnlyPublishableRunsWrite
<1>1. IInv /\ [Next]_vars =>
        [\A j \in Jobs, d \in Dates :
            final'[j][d] # final[j][d]
                => /\ status[final'[j][d]] = "running"
                   /\ ~cancelReq[final'[j][d]]]_vars
  BY OverwriteStep, StepEffect DEF IInv, AttemptInv
<1> QED
  BY <1>1, Invariance, PTL DEF Spec, OnlyPublishableRunsWrite

-----------------------------------------------------------------------------
(* Cancellation, the completion log and admission.  Who touches the columns  *)
(* they are about:                                                           *)

Marks ==
    /\ cancelReq' = cancelReq \/ \E r \in Runs : RequestCancellation(r)
    /\ logged' = logged \/ \E r \in Runs, a \in BOOLEAN : Readback(r, a)
    /\ \/ counted' = counted /\ RunningRuns' \subseteq RunningRuns
       \/ \E p \in Procs : \/ ClaimCount(p) \/ ClaimNothing(p) \/ Crash(p)
                           \/ \E r \in Runs, a \in BOOLEAN : ClaimRun(p, r, a)

\* Every step has one of the effects Marks lists on flags, counts and log.
LEMMA StepMarks == TypeOK /\ [Next]_vars => Marks
<1> SUFFICES ASSUME TypeOK, [Next]_vars PROVE Marks
  OBVIOUS
<1> USE DEF Marks, TypeOK, RowsOK, AttemptsOK, RunningRuns, rowVars
<1>1. ASSUME NEW r \in Runs, NEW j \in Jobs, Submit(r, j) PROVE Marks
  BY <1>1 DEF Submit
<1>2. ASSUME NEW r \in Runs, RequestCancellation(r) PROVE Marks
  BY <1>2 DEF RequestCancellation, Active
<1>3. ASSUME NEW r \in Runs, ViewRun(r) PROVE Marks
  BY <1>3 DEF ViewRun
<1>4. ASSUME NEW r \in Runs, RecoverAbandoned(r) PROVE Marks
  BY <1>4 DEF RecoverAbandoned, Settle
<1>5. ASSUME NEW n \in 1 .. MaxLimit, UpdateRuntimeSettings(n) PROVE Marks
  BY <1>5 DEF UpdateRuntimeSettings
<1>6. ASSUME NEW p \in Procs, ClaimCount(p) PROVE Marks
  BY <1>6 DEF ClaimCount
<1>7. ASSUME NEW p \in Procs, ClaimNothing(p) PROVE Marks
  BY <1>7 DEF ClaimNothing
<1>8. ASSUME NEW p \in Procs, NEW r \in Runs, NEW a \in BOOLEAN, ClaimRun(p, r, a) PROVE Marks
  BY <1>8 DEF ClaimRun
<1>9. ASSUME NEW p \in Procs, NEW r \in Runs, RecoverStale(p, r) PROVE Marks
  BY <1>9 DEF RecoverStale, Settle
<1>10. ASSUME NEW p \in Procs, Shutdown(p) PROVE Marks
  BY <1>10 DEF Shutdown
<1>11. ASSUME NEW p \in Procs, Drained(p) PROVE Marks
  BY <1>11 DEF Drained
<1>12. ASSUME NEW p \in Procs, Crash(p) PROVE Marks
  BY <1>12 DEF Crash
<1>13. ASSUME NEW p \in Procs, Restart(p) PROVE Marks
  BY <1>13 DEF Restart
<1>14. ASSUME NEW r \in Runs, HeartbeatOwned(r) PROVE Marks
  BY <1>14 DEF HeartbeatOwned, Renew
<1>15. ASSUME NEW r \in Runs, HeartbeatNotOwned(r) PROVE Marks
  BY <1>15 DEF HeartbeatNotOwned
<1>16. ASSUME NEW r \in Runs, NEW a \in BOOLEAN, HeartbeatError(r, a) PROVE Marks
  BY <1>16 DEF HeartbeatError, Renew
<1>17. ASSUME NEW r \in Runs, NEW res \in Results, ExecuteFails(r, res) PROVE Marks
  BY <1>17 DEF ExecuteFails
<1>18. ASSUME NEW r \in Runs, PublishCandidate(r) PROVE Marks
  BY <1>18 DEF PublishCandidate, Settle
<1>19. ASSUME NEW r \in Runs, NEW res \in Results, PublicationReturns(r, res) PROVE Marks
  BY <1>19 DEF PublicationReturns
<1>20. ASSUME NEW r \in Runs, StartDate(r) PROVE Marks
  BY <1>20 DEF StartDate
<1>21. ASSUME NEW r \in Runs, NEW a \in BOOLEAN, SaveDate(r, a) PROVE Marks
  BY <1>21 DEF SaveDate, Renew
<1>22. ASSUME NEW r \in Runs, DateFails(r) PROVE Marks
  BY <1>22 DEF DateFails
<1>23. ASSUME NEW r \in Runs, NEW res \in Results, SeriesFails(r, res) PROVE Marks
  BY <1>23 DEF SeriesFails
<1>24. ASSUME NEW r \in Runs, SeriesEnds(r) PROVE Marks
  BY <1>24 DEF SeriesEnds
<1>25. ASSUME NEW r \in Runs, Finish(r) PROVE Marks
  BY <1>25 DEF Finish, Settle, Results
<1>26. ASSUME NEW r \in Runs, FinishRefused(r) PROVE Marks
  BY <1>26 DEF FinishRefused
<1>27. ASSUME NEW r \in Runs, FinishCancelled(r) PROVE Marks
  BY <1>27 DEF FinishCancelled, Settle
<1>28. ASSUME NEW r \in Runs, FinishError(r) PROVE Marks
  BY <1>28 DEF FinishError
<1>29. ASSUME NEW r \in Runs, NEW a \in BOOLEAN, Readback(r, a) PROVE Marks
  BY <1>29 DEF Readback
<1>30. ASSUME Tick PROVE Marks
  BY <1>30 DEF Tick
<1>31. ASSUME UNCHANGED vars PROVE Marks
  BY <1>31 DEF vars
<1> QED
    BY <1>1, <1>2, <1>3, <1>4, <1>5, <1>6, <1>7, <1>8, <1>9, <1>10, <1>11, <1>12, <1>13,
     <1>14, <1>15, <1>16, <1>17, <1>18, <1>19, <1>20, <1>21, <1>22, <1>23, <1>24, <1>25,
     <1>26, <1>27, <1>28, <1>29, <1>30, <1>31
  DEF Next, UserNext, ProcNext, AttemptNext, HeartbeatNext, ExecuteNext, FinishNext

\* A step keeps CancelledNeverSucceeds.
LEMMA CancelledStep ==
    TypeOK /\ CancelledNeverSucceeds /\ Effect /\ Marks => CancelledNeverSucceeds'
<1> SUFFICES ASSUME TypeOK, CancelledNeverSucceeds, Effect, Marks,
                    NEW q \in Runs, cancelReq'[q]
             PROVE  status'[q] # "succeeded"
  BY DEF CancelledNeverSucceeds
<1> USE DEF TypeOK, RowsOK, CancelledNeverSucceeds
<1>1. ASSUME NEW r \in Runs, RequestCancellation(r) PROVE status'[q] # "succeeded"
  BY <1>1 DEF RequestCancellation, Active
<1>2. CASE cancelReq' = cancelReq
  <2>1. cancelReq[q] /\ status[q] # "succeeded"
    BY <1>2
  <2> QED
    BY <2>1 DEF Effect, Quiet, Submits, Starts, FinishesWell, Ends, Publishes, Saves
<1> QED
  BY <1>1, <1>2 DEF Marks

\* Success never overtakes a cancellation request that was applied.
THEOREM CancellationHolds == Spec => []CancelledNeverSucceeds
<1>1. Init => CancelledNeverSucceeds
  BY DEF Init, CancelledNeverSucceeds
<1>2. IInv /\ CancelledNeverSucceeds /\ [Next]_vars => CancelledNeverSucceeds'
  BY CancelledStep, StepEffect, StepMarks DEF IInv, AttemptInv
<1> QED
  BY <1>1, <1>2, Invariance, PTL DEF Spec

\* No effect leads out of a terminal status.
LEMMA TerminalIsFinal ==
    ASSUME TypeOK, Effect, NEW r \in Runs, status[r] \in Terminal
    PROVE  status'[r] = status[r]
  BY DEF TypeOK, RowsOK, Effect, Quiet, Submits, NextRow, Starts, FinishesWell, Ends, Publishes,
         Saves, Active, Terminal

\* A step keeps CompletedLogIsCanonical: a logged status is already final.
LEMMA LogStep ==
    TypeOK /\ CompletedLogIsCanonical /\ Effect /\ Marks => CompletedLogIsCanonical'
<1> SUFFICES ASSUME TypeOK, CompletedLogIsCanonical, Effect, Marks,
                    NEW q \in Runs, logged'[q] \in Terminal
             PROVE  status'[q] = logged'[q]
  BY DEF CompletedLogIsCanonical
<1>1. CASE logged'[q] = logged[q]
  BY <1>1, TerminalIsFinal DEF CompletedLogIsCanonical
<1>2. ASSUME NEW r \in Runs, NEW a \in BOOLEAN, Readback(r, a), logged'[q] # logged[q]
      PROVE  status'[q] = logged'[q]
  BY <1>2 DEF Readback, rowVars, TypeOK, SystemOK, Terminal
<1> QED
  BY <1>1, <1>2 DEF Marks

\* ingestion.run.completed reports the status the database keeps.
THEOREM CanonicalLog == Spec => []CompletedLogIsCanonical
<1>1. Init => CompletedLogIsCanonical
  BY DEF Init, CompletedLogIsCanonical, Terminal
<1>2. IInv /\ CompletedLogIsCanonical /\ [Next]_vars => CompletedLogIsCanonical'
  BY LogStep, StepEffect, StepMarks DEF IInv, AttemptInv
<1> QED
  BY <1>1, <1>2, Invariance, PTL DEF Spec

\* Sets of running jobs are finite; a claim adds one.
LEMMA RunningFinite ==
    ASSUME NEW S, S \subseteq Runs
    PROVE  IsFiniteSet(S) /\ Cardinality(S) \in Nat
<1>1. IsFiniteSet(Runs)
  BY FS_Interval, ConstantsAssumption DEF Runs
<1> QED
  BY <1>1, FS_Subset, FS_CardinalityType

\* Without a claim the number of running jobs does not grow.
LEMMA RunningShrinks ==
    ASSUME RunningRuns' \subseteq RunningRuns
    PROVE  Cardinality(RunningRuns') <= Cardinality(RunningRuns)
  BY RunningFinite, FS_Subset DEF RunningRuns

\* A claim adds one running job.
LEMMA ClaimAddsOne ==
    ASSUME TypeOK, NEW p \in Procs, NEW r \in Runs, NEW a \in BOOLEAN, ClaimRun(p, r, a)
    PROVE  Cardinality(RunningRuns') = Cardinality(RunningRuns) + 1
<1>1. RunningRuns' = RunningRuns \cup {r} /\ r \notin RunningRuns
  BY DEF RunningRuns, ClaimRun, Claimable, TypeOK, RowsOK
<1>2. IsFiniteSet(RunningRuns)
  BY RunningFinite DEF RunningRuns
<1> QED
  BY <1>1, <1>2, FS_AddElement

\* A step keeps the count read under the settings lock an upper bound.
LEMMA CountStep == TypeOK /\ CountIsFresh /\ Marks => CountIsFresh'
<1> SUFFICES ASSUME TypeOK, CountIsFresh, Marks PROVE CountIsFresh'
  OBVIOUS
<1>1. /\ Cardinality(RunningRuns) \in Nat
      /\ counted \in [Procs -> (0 .. MaxRuns) \cup {Idle}]
  BY RunningFinite DEF RunningRuns, TypeOK, SystemOK
<1>2. CASE counted' = counted /\ RunningRuns' \subseteq RunningRuns
  <2>1. Cardinality(RunningRuns') \in Nat
    BY <1>2, RunningFinite DEF RunningRuns
  <2>2. Cardinality(RunningRuns') <= Cardinality(RunningRuns)
    BY <1>2, RunningShrinks
  <2>3. ASSUME NEW p \in Procs, counted[p] # Idle
        PROVE  Cardinality(RunningRuns') <= counted[p]
    BY <1>1, <2>1, <2>2, <2>3, ConstantsAssumption DEF CountIsFresh, Idle
  <2> QED
    BY <1>2, <2>3 DEF CountIsFresh
<1>3. ASSUME NEW p \in Procs, ClaimCount(p) PROVE CountIsFresh'
  <2>1. RunningRuns' = RunningRuns
    BY <1>3 DEF ClaimCount, RunningRuns, rowVars
  <2>2. \A q \in Procs : counted'[q] = IF q = p THEN Cardinality(RunningRuns) ELSE Idle
    BY <1>1, <1>3 DEF ClaimCount
  <2> QED
    BY <1>1, <2>1, <2>2 DEF CountIsFresh, Idle
<1>4. ASSUME NEW p \in Procs, ClaimNothing(p) \/ Crash(p) PROVE CountIsFresh'
  <2>1. RunningRuns' = RunningRuns
    BY <1>4 DEF ClaimNothing, Crash, RunningRuns, rowVars
  <2>2. \A q \in Procs : counted'[q] # Idle => counted'[q] = counted[q] /\ counted[q] # Idle
    BY <1>1, <1>4 DEF ClaimNothing, Crash
  <2> QED
    BY <2>1, <2>2 DEF CountIsFresh
<1>5. ASSUME NEW p \in Procs, NEW r \in Runs, NEW a \in BOOLEAN, ClaimRun(p, r, a)
      PROVE  CountIsFresh'
  <2>1. \A q \in Procs : counted'[q] = Idle
    BY <1>1, <1>5 DEF ClaimRun, CountIsFresh
  <2> QED
    BY <2>1 DEF CountIsFresh
<1> QED
  BY <1>2, <1>3, <1>4, <1>5 DEF Marks

\* A step that adds a running job stays within the limit.
LEMMA AdmissionStep ==
    ASSUME TypeOK, CountIsFresh, Marks,
           Cardinality(RunningRuns') > Cardinality(RunningRuns)
    PROVE  Cardinality(RunningRuns') <= limit
<1>1. Cardinality(RunningRuns) \in Nat /\ Cardinality(RunningRuns') \in Nat
  BY RunningFinite DEF RunningRuns
<1>2. ~(RunningRuns' \subseteq RunningRuns)
  BY <1>1, RunningShrinks
<1>3. PICK p \in Procs : \/ ClaimCount(p) \/ ClaimNothing(p) \/ Crash(p)
                         \/ \E r \in Runs, a \in BOOLEAN : ClaimRun(p, r, a)
  BY <1>2 DEF Marks
<1>4. PICK r \in Runs, a \in BOOLEAN : ClaimRun(p, r, a)
  BY <1>2, <1>3 DEF ClaimCount, ClaimNothing, Crash, rowVars, RunningRuns
<1>5. Cardinality(RunningRuns') = Cardinality(RunningRuns) + 1
  BY <1>4, ClaimAddsOne
<1>6. counted[p] \in Int /\ limit \in Int /\ counted[p] < limit /\ Cardinality(RunningRuns) <= counted[p]
  BY <1>4, ConstantsAssumption DEF ClaimRun, CountIsFresh, TypeOK, SystemOK, Idle
<1> QED
  BY <1>1, <1>5, <1>6

\* The count a process took under the settings lock is not exceeded.
THEOREM FreshCount == Spec => []CountIsFresh
<1>1. Init => CountIsFresh
  BY DEF Init, CountIsFresh
<1>2. IInv /\ CountIsFresh /\ [Next]_vars => CountIsFresh'
  BY CountStep, StepMarks DEF IInv
<1> QED
  BY <1>1, <1>2, Invariance, PTL DEF Spec

\* No claim takes the running jobs past max_running_jobs.
THEOREM AdmissionControl == Spec => ClaimsRespectLimit
<1>1. IInv /\ CountIsFresh /\ [Next]_vars =>
        [Cardinality(RunningRuns') > Cardinality(RunningRuns)
            => Cardinality(RunningRuns') <= limit]_vars
  BY AdmissionStep, StepMarks DEF IInv
<1> QED
  BY <1>1, Invariance, FreshCount, PTL DEF Spec, ClaimsRespectLimit

-----------------------------------------------------------------------------
(* Refinement of RunLedger *)

\* The refinement mapping, spelled out for one run.
LEMMA PhaseOf ==
    ASSUME TypeOK, NEW r \in Runs
    PROVE  /\ status[r] \in Active => Phase[r] = "open"
           /\ status[r] = "none" => Phase[r] = "none"
           /\ Phase[r] = "open" => status[r] \in Active
  BY DEF Phase, TypeOK, RowsOK, Status, Active, Terminal

\* A run that leaves its status changes its phase alone.
LEMMA PhaseBecomes ==
    ASSUME TypeOK, NEW r \in Runs, NEW outcome \in Terminal,
           status' = [status EXCEPT ![r] = outcome]
    PROVE  Phase' = [Phase EXCEPT ![r] = outcome]
  BY DEF Phase, TypeOK, RowsOK, Active, Terminal

\* Every effect of a step is a step of the ledger or leaves it alone.
LEMMA LedgerRefines ==
    TypeOK /\ LedgerInv /\ SeriesProgress /\ Effect
        => [Ledger!LedgerNext]_(Ledger!ledger)
<1> SUFFICES ASSUME TypeOK, LedgerInv, SeriesProgress, Effect, ~UNCHANGED Ledger!ledger
             PROVE  Ledger!LedgerNext
  OBVIOUS
<1>1. ~Quiet
  BY DEF Quiet, Ledger!ledger, Phase
<1>2. ASSUME NEW r \in Runs, NEW j \in Jobs, Submits(r, j) PROVE Ledger!LedgerNext
  <2>1. Phase' = [Phase EXCEPT ![r] = "open"]
    BY <1>2 DEF Submits, Phase, TypeOK, RowsOK, Active
  <2>2. \A s \in Runs : job[s] = j => Phase[s] # "open"
    BY <1>2, PhaseOf DEF Submits, Busy
  <2>3. Phase[r] = "none"
    BY <1>2, PhaseOf DEF Submits, NextRow
  <2>4. Ledger!Accept(r, j)
    BY <1>2, <2>1, <2>2, <2>3 DEF Ledger!Accept, Submits
  <2> QED
    BY <2>4 DEF Ledger!LedgerNext
<1>3. ASSUME NEW r \in Runs, Starts(r) PROVE FALSE
  <2>1. Phase' = Phase
    BY <1>3 DEF Starts, Phase, TypeOK, RowsOK, Active
  <2> QED
    BY <1>3, <2>1 DEF Starts, Ledger!ledger
<1>4. ASSUME NEW r \in Runs, NEW outcome \in {"failed", "cancelled", "abandoned"}, Ends(r, outcome)
      PROVE  Ledger!LedgerNext
  <2>1. Phase[r] = "open" /\ Phase' = [Phase EXCEPT ![r] = outcome]
    BY <1>4, PhaseOf, PhaseBecomes DEF Ends, Terminal
  <2>2. Ledger!Close(r, outcome)
    BY <1>4, <2>1 DEF Ledger!Close, Ends
  <2> QED
    BY <2>2 DEF Ledger!LedgerNext
<1>5. ASSUME NEW r \in Runs, FinishesWell(r) PROVE Ledger!LedgerNext
  <2>1. Phase[r] = "open" /\ Phase' = [Phase EXCEPT ![r] = "succeeded"]
    BY <1>5, PhaseOf, PhaseBecomes DEF FinishesWell, Active, Terminal
  <2>2. \A d \in Dates : final[job[r]][d] = r
    BY <1>5 DEF FinishesWell, SeriesProgress
  <2>3. Ledger!Complete(r)
    BY <1>5, <2>1, <2>2 DEF Ledger!Complete, FinishesWell
  <2> QED
    BY <2>3 DEF Ledger!LedgerNext
<1>6. ASSUME NEW r \in Runs, Publishes(r) PROVE Ledger!LedgerNext
  <2>1. Phase[r] = "open" /\ Phase' = [Phase EXCEPT ![r] = "succeeded"]
    BY <1>6, PhaseOf, PhaseBecomes DEF Publishes, Active, Terminal
  <2>2. Ledger!Succeed(r)
    BY <1>6, <2>1 DEF Ledger!Succeed, Publishes
  <2> QED
    BY <2>2 DEF Ledger!LedgerNext
<1>7. ASSUME NEW r \in Runs, NEW d \in Dates, Saves(r, d) PROVE Ledger!LedgerNext
  <2>1. Phase[r] = "open" /\ Phase' = Phase
    BY <1>7, PhaseOf DEF Saves, Active, Phase
  <2>2. job[r] \in Jobs
    BY <1>7 DEF Saves, LedgerInv, JobsKnown
  <2>3. [final[job[r]] EXCEPT ![d] = r] =
            [e \in Dates |-> IF e \in {d} THEN r ELSE final[job[r]][e]]
    BY <2>2 DEF TypeOK, SystemOK
  <2>4. Ledger!Write(r, {d})
    BY <1>7, <2>1, <2>2, <2>3 DEF Ledger!Write, Saves
  <2> QED
    BY <2>4 DEF Ledger!LedgerNext
<1> QED
  BY <1>1, <1>2, <1>3, <1>4, <1>5, <1>6, <1>7 DEF Effect

\* The runtime implements the ledger: with a coordinator's claims, leases,
\* zombies, lost answers and recoveries a run still is accepted, writes while
\* it is open, and closes once.
THEOREM Refinement == Spec => ImplementsLedger
<1>1. Init => Ledger!LedgerInit
  BY DEF Init, Ledger!LedgerInit, Phase, Active
<1>2. IInv /\ [Next]_vars => [Ledger!LedgerNext]_(Ledger!ledger)
  BY LedgerRefines, StepEffect DEF IInv, AttemptInv
<1> QED
  BY <1>1, <1>2, Invariance, PTL DEF Spec, ImplementsLedger, Ledger!LedgerSpec

\* What the run table, the data and the execution log promise in every state, for
\* any number of runs, jobs, dates and coordinator processes.
THEOREM RunSafetyHolds == Spec => []RunSafety
<1> QED
  BY TypeCorrect, AtomicPublication, CancellationHolds, CanonicalLog, PTL DEF RunSafety
=============================================================================
