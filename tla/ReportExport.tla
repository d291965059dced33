---------------------------- MODULE ReportExport ----------------------------
(***************************************************************************)
(* Report exports (internal/reportexport): a queue of jobs whose workers   *)
(* build a workbook in a workspace of the attempt, move it to the final    *)
(* directory and record it; the cleanup removes artifacts that expired and *)
(* files nobody refers to.                                                 *)
(*                                                                         *)
(* The path of a workspace or of an artifact has a token of its own, so a  *)
(* pair <<job, attempt>> names it.  An attempt lasts ExportTimeout at      *)
(* most, which is shorter than the grace period (config.go): the files of  *)
(* an attempt under way are never older than that.                         *)
(***************************************************************************)
EXTENDS Integers

CONSTANTS
    Exporters,        \* goroutines running claimLoop, all of one process
    ExportJobs,       \* bound: exports submitted
    MaxExportAttempts \* bound: no claim is lost or left behind at this attempt

ASSUME ExportAssumption == MaxExportAttempts \in Nat \ {0}

VARIABLES
    exports,          \* the rows of report_export_jobs
    exporters,        \* what each worker is doing
    work,             \* workspaces
    final,            \* files in the final directory
    old,              \* those of both that are older than the grace period
    listing,          \* what the cleanup has listed: [kind, files]
    doubtful          \* history: jobs whose success was recorded but not answered

exportVars == <<exports, exporters, work, final, old, listing, doubtful>>

Files == ExportJobs \X (1 .. MaxExportAttempts)
Nobody == 0
IdleExporter == [pc |-> "idle", job |-> Nobody, attempt |-> 0, published |-> FALSE]
NoListing == [kind |-> "none", files |-> {}]

ExportInit ==
    /\ exports = [j \in ExportJobs |->
           [status |-> "none", attempt |-> 0, fresh |-> FALSE, artifact |-> 0,
            expired |-> FALSE, deleted |-> FALSE]]
    /\ exporters = [w \in Exporters |-> IdleExporter]
    /\ work = {} /\ final = {} /\ old = {}
    /\ listing = NoListing
    /\ doubtful = {}

AttemptFile(w) == <<exporters[w].job, exporters[w].attempt>>

\* status='running' AND owner_id=? AND attempt=?; the owner is the process.
OwnsExport(w) ==
    /\ exports[exporters[w].job].status = "running"
    /\ exports[exporters[w].job].attempt = exporters[w].attempt

ExportGoto(w, pc) == exporters' = [exporters EXCEPT ![w].pc = pc]

SubmitExport(j) ==
    /\ exports[j].status = "none"
    /\ exports' = [exports EXCEPT ![j].status = "queued"]
    /\ UNCHANGED <<exporters, work, final, old, listing, doubtful>>

ClaimedExport(j) ==
    [exports EXCEPT ![j].status = "running", ![j].attempt = @ + 1, ![j].fresh = TRUE]

ClaimExport(w, j) ==
    /\ exporters[w].pc = "idle"
    /\ exports[j].status = "queued"
    /\ exports' = ClaimedExport(j)
    /\ exporters' = [exporters EXCEPT ![w] =
           [IdleExporter EXCEPT !.pc = "start", !.job = j, !.attempt = exports[j].attempt + 1]]
    /\ UNCHANGED <<work, final, old, listing, doubtful>>

\* The claim is committed but its answer is lost: nobody works.
ClaimExportUnanswered(j) ==
    /\ exports[j].status = "queued"
    /\ exports[j].attempt + 1 < MaxExportAttempts
    /\ exports' = ClaimedExport(j)
    /\ UNCHANGED <<exporters, work, final, old, listing, doubtful>>

\* No heartbeat is written for StaleAfter.
ExportGoesStale(j) ==
    /\ exports[j].status = "running"
    /\ exports[j].fresh
    /\ exports[j].attempt < MaxExportAttempts
    /\ exports' = [exports EXCEPT ![j].fresh = FALSE]
    /\ UNCHANGED <<exporters, work, final, old, listing, doubtful>>

\* Mutant: off by one, only a second attempt is given back.
RequeueRetried(j) ==
    /\ exports[j].status = "running"
    /\ ~exports[j].fresh
    /\ exports[j].attempt > 1
    /\ exports' = [exports EXCEPT ![j].status = "queued"]
    /\ UNCHANGED <<exporters, work, final, old, listing, doubtful>>

RequeueStaleExport(j) ==
    /\ exports[j].status = "running"
    /\ ~exports[j].fresh
    /\ exports' = [exports EXCEPT ![j].status = "queued"]
    /\ UNCHANGED <<exporters, work, final, old, listing, doubtful>>

\* The heartbeat renews the claim, or finds it lost and cancels the attempt.
ExportHeartbeat(w) ==
    /\ exporters[w].pc \in {"start", "stream", "publish", "succeed"}
    /\ \/ /\ OwnsExport(w)
          /\ ~exports[exporters[w].job].fresh
          /\ exports' = [exports EXCEPT ![exporters[w].job].fresh = TRUE]
          /\ UNCHANGED exporters
       \/ ~OwnsExport(w) /\ ExportGoto(w, "lost") /\ UNCHANGED exports
    /\ UNCHANGED <<work, final, old, listing, doubtful>>

\* EligibleForExecution, FindDatasource, the pool and the workspace.
Start(w) ==
    /\ exporters[w].pc = "start"
    /\ work' = work \cup {AttemptFile(w)}
    /\ ExportGoto(w, "stream")
    /\ UNCHANGED <<exports, final, old, listing, doubtful>>

\* StreamNormalized into the workbook; Progress errors are ignored, a lost
\* claim is not.
Stream(w) ==
    /\ exporters[w].pc = "stream"
    /\ \E asked \in BOOLEAN :
           ExportGoto(w, IF asked /\ ~OwnsExport(w) THEN "lost" ELSE "publish")
    /\ UNCHANGED <<exports, work, final, old, listing, doubtful>>

\* Storage.Publish: the file is moved out of the workspace.
PublishArtifact(w) ==
    /\ exporters[w].pc = "publish"
    /\ AttemptFile(w) \in work
    /\ final' = final \cup {AttemptFile(w)}
    /\ exporters' = [exporters EXCEPT ![w] = [@ EXCEPT !.pc = "succeed", !.published = TRUE]]
    /\ UNCHANGED <<exports, work, old, listing, doubtful>>

\* The statement that makes the artifact known; an answer that does not
\* arrive is taken for a failure.
Succeed(w) ==
    LET j == exporters[w].job
    IN  /\ exporters[w].pc = "succeed"
        /\ \/ /\ OwnsExport(w)
              /\ exports' = [exports EXCEPT ![j].status = "succeeded", ![j].fresh = TRUE,
                                      ![j].artifact = exporters[w].attempt]
              /\ \/ ExportGoto(w, "done") /\ UNCHANGED doubtful
                 \/ ExportGoto(w, "undo") /\ doubtful' = doubtful \cup {j}
           \/ ~OwnsExport(w) /\ ExportGoto(w, "lost") /\ UNCHANGED <<exports, doubtful>>
        /\ UNCHANGED <<work, final, old, listing>>

\* Access revoked, a query, workbook or file error, the export timeout, or
\* ErrLeaseUnproven.
ExportFault(w) ==
    /\ exporters[w].pc \in {"start", "stream", "publish", "succeed"}
    /\ ExportGoto(w, "undo")
    /\ UNCHANGED <<exports, work, final, old, listing, doubtful>>

\* The end of execute: the workspace goes, and after an error so does what
\* the attempt had published.
Tidy(w) ==
    /\ exporters[w].pc \in {"done", "lost", "undo"}
    /\ work' = work \ {AttemptFile(w)}
    /\ final' = IF exporters[w].pc # "done" /\ exporters[w].published
                THEN final \ {AttemptFile(w)} ELSE final
    /\ old' = old \ (Files \ (work' \cup final'))
    /\ exporters' = [exporters EXCEPT ![w] =
           IF @.pc = "undo" THEN [@ EXCEPT !.pc = "fail"] ELSE IdleExporter]
    /\ UNCHANGED <<exports, listing, doubtful>>

\* The failure is recorded by the owner, or not at all.
FailExport(w) ==
    LET j == exporters[w].job
    IN  /\ exporters[w].pc = "fail"
        /\ \/ /\ OwnsExport(w)
              /\ exports' = [exports EXCEPT ![j].status = "failed", ![j].fresh = TRUE]
           \/ ~OwnsExport(w) /\ UNCHANGED exports
           \/ exporters[w].attempt < MaxExportAttempts /\ UNCHANGED exports
        /\ exporters' = [exporters EXCEPT ![w] = IdleExporter]
        /\ UNCHANGED <<work, final, old, listing, doubtful>>

\* The process ends; its files stay.
ExportCrash ==
    /\ \E w \in Exporters : exporters[w].pc # "idle"
    /\ \A w \in Exporters :
           exporters[w].pc # "idle" /\ OwnsExport(w) => exporters[w].attempt < MaxExportAttempts
    /\ exporters' = [w \in Exporters |-> IdleExporter]
    /\ UNCHANGED <<exports, work, final, old, listing, doubtful>>

-----------------------------------------------------------------------------
(* Worker.cleanup: one entry of a list, or the list of paths, at a time *)

AgeFile(f) ==
    /\ f \in (work \cup final) \ old
    /\ ~\E w \in Exporters : exporters[w].pc # "idle" /\ AttemptFile(w) = f
    /\ old' = old \cup {f}
    /\ UNCHANGED <<exports, exporters, work, final, listing, doubtful>>

\* artifact_expires_at passes.
ExpireExport(j) ==
    /\ exports[j].status = "succeeded" /\ ~exports[j].expired
    /\ exports' = [exports EXCEPT ![j].expired = TRUE]
    /\ UNCHANGED <<exporters, work, final, old, listing, doubtful>>

ArtifactOf(j) == <<j, exports[j].artifact>>

\* Referenced: succeeded, with an artifact that is not marked deleted.
Referenced == {j \in ExportJobs : exports[j].status = "succeeded" /\ ~exports[j].deleted}

ExpiredArtifacts(j) ==
    /\ listing = NoListing
    /\ j \in Referenced /\ exports[j].expired
    /\ listing' = [kind |-> "expired", files |-> {ArtifactOf(j)}]
    /\ UNCHANGED <<exports, exporters, work, final, old, doubtful>>

\* Mutant: the row is marked first.
MarkArtifactDeletedFirst(j) ==
    /\ listing = [kind |-> "expired", files |-> {ArtifactOf(j)}]
    /\ exports' = [exports EXCEPT ![j].deleted = TRUE]
    /\ \E removed \in BOOLEAN : final' = IF removed THEN final \ listing.files ELSE final
    /\ listing' = NoListing
    /\ UNCHANGED <<exporters, work, old, doubtful>>

\* The file is removed, then the row marked; either may fail.
MarkArtifactDeleted(j) ==
    /\ listing = [kind |-> "expired", files |-> {ArtifactOf(j)}]
    /\ \/ UNCHANGED <<exports, final, old>>
       \/ /\ final' = final \ listing.files
          /\ old' = old \ (listing.files \ work)
          /\ \E marked \in BOOLEAN : exports' = [exports EXCEPT ![j].deleted = marked \/ @]
    /\ listing' = NoListing
    /\ UNCHANGED <<exporters, work, doubtful>>

\* Mutant: a job that succeeded keeps the files of all its attempts.
ReferencedArtifactsByJob ==
    /\ listing = NoListing
    /\ \E f \in old \cap final : f[1] \notin Referenced
    /\ listing' = [kind |-> "files", files |-> {f \in old \cap final : f[1] \notin Referenced}]
    /\ UNCHANGED <<exports, exporters, work, final, old, doubtful>>

Orphans == (old \cap final) \ {ArtifactOf(j) : j \in Referenced}

\* The keys in use and the cutoff; a pass that finds nothing does nothing.
ReferencedArtifacts ==
    /\ listing = NoListing
    /\ Orphans # {}
    /\ listing' = [kind |-> "files", files |-> Orphans]
    /\ UNCHANGED <<exports, exporters, work, final, old, doubtful>>

ReconcileFinal ==
    /\ listing.kind = "files"
    /\ final' = final \ listing.files
    /\ old' = old \ (listing.files \ work)
    /\ listing' = NoListing
    /\ UNCHANGED <<exports, exporters, work, doubtful>>

CleanupWorkspaces ==
    /\ old \cap work # {}
    /\ work' = work \ old
    /\ old' = old \cap final
    /\ UNCHANGED <<exports, exporters, final, listing, doubtful>>

-----------------------------------------------------------------------------
ExportWork(w) ==
    Start(w) \/ Stream(w) \/ PublishArtifact(w) \/ Succeed(w) \/ Tidy(w) \/ FailExport(w)

ExportNext ==
    \/ \E j \in ExportJobs :
           \/ SubmitExport(j) \/ ClaimExportUnanswered(j) \/ ExportGoesStale(j)
           \/ RequeueStaleExport(j)
           \/ ExpireExport(j) \/ ExpiredArtifacts(j) \/ MarkArtifactDeleted(j)
           \/ \E w \in Exporters : ClaimExport(w, j)
    \/ \E w \in Exporters : ExportWork(w) \/ ExportHeartbeat(w) \/ ExportFault(w)
    \/ \E f \in Files : AgeFile(f)
    \/ ExportCrash \/ ReferencedArtifacts \/ ReconcileFinal \/ CleanupWorkspaces

ExportSpec == ExportInit /\ [][ExportNext]_exportVars

\* Nobody sends heartbeats for the job any more.
ExportAbandoned(j) ==
    ~\E w \in Exporters : exporters[w].pc # "idle" /\ exporters[w].job = j /\ OwnsExport(w)

\* Workers keep working and claiming and staleLoop keeps running; a claim that
\* nobody renews goes stale; the cleanup runs again and again over all files.
ExportFairness ==
    /\ \A w \in Exporters : WF_exportVars(ExportWork(w))
    /\ \A j \in ExportJobs :
           /\ WF_exportVars(\E w \in Exporters : ClaimExport(w, j))
           /\ WF_exportVars(ExportAbandoned(j) /\ ExportGoesStale(j))
           /\ WF_exportVars(RequeueStaleExport(j))
    /\ WF_exportVars(\E f \in Files : AgeFile(f))
    /\ SF_exportVars(ReferencedArtifacts) /\ WF_exportVars(ReconcileFinal)
    /\ WF_exportVars(CleanupWorkspaces)
    /\ \A j \in ExportJobs : WF_exportVars(MarkArtifactDeleted(j))

ExportFairSpec == ExportSpec /\ ExportFairness

-----------------------------------------------------------------------------
(* Properties *)

ExportTypeOK ==
    /\ exports \in [ExportJobs -> [status : {"none", "queued", "running", "succeeded", "failed"},
           attempt : 0 .. MaxExportAttempts, fresh : BOOLEAN, artifact : 0 .. MaxExportAttempts,
           expired : BOOLEAN, deleted : BOOLEAN]]
    /\ \A w \in Exporters : exporters[w].pc \in
           {"idle", "start", "stream", "publish", "succeed", "done", "lost", "undo", "fail"}
    /\ work \subseteq Files /\ final \subseteq Files /\ old \subseteq work \cup final

\* A job whose success is recorded has its artifact until it expires, if the
\* worker learnt that it was recorded; a deleted one has no file.
ArtifactKept ==
    \A j \in ExportJobs : exports[j].status = "succeeded" =>
        /\ ~exports[j].expired /\ j \notin doubtful => ArtifactOf(j) \in final
        /\ exports[j].deleted => ArtifactOf(j) \notin final

\* An attempt that still owns its job finds its workspace, whatever copies of
\* the job and cleanups there are.
WorkspaceKept ==
    \A w \in Exporters : exporters[w].pc \in {"stream", "publish"} => AttemptFile(w) \in work

\* reportexport/worker.go execute and cleanup, storage.go: files and rows agree, for the attempt
\* that owns the job and for a success until it expires.
ExportSafety == ExportTypeOK /\ ArtifactKept /\ WorkspaceKept

\* docs/REPORTING.md: the artifact of a job that can be downloaded (succeeded
\* and not deleted) is removed by expiry alone.
DownloadableHasArtifact ==
    \A j \in ExportJobs :
        exports[j].status = "succeeded" /\ ~exports[j].expired => ArtifactOf(j) \in final

\* reportexport/repository.go RequeueStale: every submitted export ends.
ExportsSettle ==
    \A j \in ExportJobs : []<>(exports[j].status \notin {"queued", "running"})

\* reportexport/storage.go ReconcileFinal: no final file stays that no job refers
\* to; those of lost and crashed attempts go.
OrphansReclaimed ==
    \A f \in Files :
        []<>(f \in final => \E j \in Referenced : f = ArtifactOf(j))
=============================================================================
