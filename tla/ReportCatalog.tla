--------------------------- MODULE ReportCatalog ---------------------------
(***************************************************************************)
(* Report datasources and report templates, the administrators that change *)
(* them, the users that run the reports, and the pool of connections they  *)
(* share (internal/reporting, internal/features/datasources and            *)
(* internal/features/reporttemplates).                                     *)
(*                                                                         *)
(* A request reads rows at several moments, tests or validates on a pooled *)
(* connection without holding a lock, and writes at the end if the         *)
(* revision its form was loaded with is still the row's.  A transaction of *)
(* the repository locks its row first, so it is one step.  A "query"       *)
(* stands for the SQL text with its parameters, a "config" for the         *)
(* connection settings of a datasource.                                    *)
(***************************************************************************)
EXTENDS Integers, FiniteSets

CONSTANTS
    Datasources, Configs,   \* ids of datasources, connection settings
    Reports, Queries,       \* ids of templates, SQL texts with parameters
    Readers,                \* users reports are granted to
    Visits,                 \* requests under way
    MaxRevision             \* bound: changes of one row

None == "none"

ASSUME CatalogAssumption == MaxRevision \in Nat \ {0} /\ None \notin Configs

Statuses == {"active", "disabled", "archived"}

VARIABLES
    sources,     \* report_datasources: status, revision and settings; history: "checked",
                 \* its activation had connected with the settings it had then
    templates,   \* report_templates with report_parameters; history: "checked", the
                 \* request that made it what it is had validated it so
    granted,     \* report_template_user_access joined with the active users
    pool,        \* PoolManager.entries: revision and the settings dialled
    visits       \* what each request has read so far, and its next step

catalogVars == <<sources, templates, granted, pool, visits>>

NoSource == [status |-> None, revision |-> 0, config |-> None, checked |-> FALSE]
NoTemplate == [status |-> None, revision |-> 0, source |-> None, query |-> None,
               checked |-> FALSE]
NoEntry == [revision |-> 0, config |-> None]
NoVisit == [op |-> None, step |-> None, id |-> None, revision |-> 0, to |-> None,
            input |-> NoTemplate, config |-> None, row |-> NoSource, handle |-> None,
            reader |-> None]

CatalogInit ==
    /\ sources = [d \in Datasources |-> NoSource]
    /\ templates = [r \in Reports |-> NoTemplate]
    /\ granted = {}
    /\ pool = [d \in Datasources |-> NoEntry]
    /\ visits = [v \in Visits |-> NoVisit]

\* The request ends, with an answer or with an error.
Leaves(v) == visits' = [visits EXCEPT ![v] = NoVisit]

Goes(v, step) == visits' = [visits EXCEPT ![v].step = step]

At(v, step) == visits[v].step = step

-----------------------------------------------------------------------------
(* Repository.CreateDatasource, CreateTemplate, SetAccess: one transaction each *)

CreateDatasource(d, c) ==
    /\ sources[d] = NoSource
    /\ sources' = [sources EXCEPT ![d] =
           [NoSource EXCEPT !.status = "disabled", !.revision = 1, !.config = c]]
    /\ UNCHANGED <<templates, granted, pool, visits>>

CreateTemplate(r, d, q) ==
    /\ templates[r] = NoTemplate
    /\ sources[d] # NoSource    \* fk_report_templates_datasource
    /\ templates' = [templates EXCEPT ![r] = [NoTemplate EXCEPT
           !.status = "disabled", !.revision = 1, !.source = d, !.query = q]]
    /\ UNCHANGED <<sources, granted, pool, visits>>

\* A grant needs a user that is active; disabling the user takes it back as far
\* as HasAccess is concerned.
SetAccess(r, u) ==
    /\ templates[r] # NoTemplate
    /\ \/ granted' = granted \cup {<<r, u>>}
       \/ granted' = granted \ {<<r, u>>}
    /\ UNCHANGED <<sources, templates, pool, visits>>

-----------------------------------------------------------------------------
(* Pages: a form carries the revision its row had when the page was made *)

Arrives(v, op, id, revision) ==
    /\ visits[v] = NoVisit
    /\ visits' = [visits EXCEPT ![v] = [NoVisit EXCEPT
           !.op = op, !.step = "form", !.id = id, !.revision = revision]]
    /\ UNCHANGED <<sources, templates, granted, pool>>

EditDatasource(v, d) ==
    /\ sources[d] # NoSource
    /\ Arrives(v, "source", d, sources[d].revision)

EditTemplate(v, r) ==
    /\ templates[r] # NoTemplate
    /\ Arrives(v, "report", r, templates[r].revision)

\* datasources.Handler.State: only an activation is tested first.
SubmitDatasourceStatus(v, status) ==
    /\ At(v, "form") /\ visits[v].op = "source"
    /\ visits' = [visits EXCEPT ![v].to = status,
                                ![v].step = IF status = "active" THEN "source" ELSE "write"]
    /\ UNCHANGED <<sources, templates, granted, pool>>

\* datasources.Handler.Update: new settings, saved without a test.
SubmitDatasource(v, c) ==
    /\ At(v, "form") /\ visits[v].op = "source"
    /\ visits' = [visits EXCEPT ![v].config = c, ![v].step = "write"]
    /\ UNCHANGED <<sources, templates, granted, pool>>

\* datasources.Handler.Test.
SubmitDatasourceTest(v) ==
    /\ At(v, "form") /\ visits[v].op = "source"
    /\ visits' = [visits EXCEPT ![v].op = "test", ![v].step = "source"]
    /\ UNCHANGED <<sources, templates, granted, pool>>

\* reporttemplates.Handler.State: only an activation is validated first.
SubmitTemplateStatus(v, status) ==
    /\ At(v, "form") /\ visits[v].op = "report"
    /\ visits' = [visits EXCEPT ![v].to = status,
                                ![v].step = IF status = "active" THEN "find" ELSE "write"]
    /\ UNCHANGED <<sources, templates, granted, pool>>

\* reporttemplates.Handler.Update: another datasource, SQL text or parameters.
SubmitTemplate(v, d, q) ==
    /\ At(v, "form") /\ visits[v].op = "report"
    /\ visits' = [visits EXCEPT ![v].input = [NoTemplate EXCEPT !.source = d, !.query = q],
                                ![v].step = "find"]
    /\ UNCHANGED <<sources, templates, granted, pool>>

\* Service.Run and PrepareExport: a report is run; Service.TestQuery: a draft is
\* tried on the datasource of the saved template.
Ask(v, op, r, u) ==
    /\ visits[v] = NoVisit
    /\ op \in {"run", "draft"}
    /\ visits' = [visits EXCEPT ![v] = [NoVisit EXCEPT
           !.op = op, !.step = "find", !.id = r, !.reader = u]]
    /\ UNCHANGED <<sources, templates, granted, pool>>

-----------------------------------------------------------------------------
(* The steps of a request *)

\* The datasource the joined row of FindTemplate shows.
DatasourceStatus(row) == sources[row.source].status

\* What a request keeps of the template it has read, its parameters with it.
Keeps(v, row, step) ==
    visits' = [visits EXCEPT
        ![v].input = [NoTemplate EXCEPT !.source = row.source, !.query = row.query],
        ![v].step = step]

\* Service.prepare: template and datasource must be active.
Prepares(v, row) ==
    /\ visits[v].op = "run"
    /\ IF row.status = "active" /\ DatasourceStatus(row) = "active"
         THEN Keeps(v, row, "access") ELSE Leaves(v)

\* Service.TestQuery: the saved template only tells the datasource.
TriesDraft(v, row) == visits[v].op = "draft" /\ Keeps(v, row, "access")

\* Service.SetTemplateStatus: an activation validates the row it reads here.
Activates(v, row) ==
    visits[v].op = "report" /\ visits[v].to = "active" /\ Keeps(v, row, "source")

\* Service.UpdateTemplate: its input is validated if the template is active now.
Updates(v, row) ==
    /\ visits[v].op = "report" /\ visits[v].to = None
    /\ Goes(v, IF row.status = "active" THEN "source" ELSE "write")

\* Repository.FindTemplate.
FindTemplate(v) ==
    LET row == templates[visits[v].id]
    IN /\ At(v, "find")
       /\ IF row = NoTemplate
            THEN Leaves(v)
            ELSE Prepares(v, row) \/ TriesDraft(v, row) \/ Activates(v, row) \/ Updates(v, row)
       /\ UNCHANGED <<sources, templates, granted, pool>>

HasAccess(v) ==
    /\ At(v, "access")
    /\ IF <<visits[v].id, visits[v].reader>> \in granted THEN Goes(v, "source") ELSE Leaves(v)
    /\ UNCHANGED <<sources, templates, granted, pool>>

\* The datasource a request works on.
SourceOf(v) == IF visits[v].op \in {"source", "test"} THEN visits[v].id ELSE visits[v].input.source

\* Repository.FindDatasource; whoever does not test it needs it active.
FindDatasource(v) ==
    LET row == sources[SourceOf(v)] IN
    /\ At(v, "source")
    /\ IF row.status = "active" \/ visits[v].op \in {"source", "test"}
         THEN visits' = [visits EXCEPT ![v].row = row, ![v].step = "pool"]
         ELSE Leaves(v)
    /\ UNCHANGED <<sources, templates, granted, pool>>

\* Mutant: an entry serves every request until it is invalidated.
ServesAll(entry, row) == entry.config # None

\* The entry serves a request only for the revision the request has read.
Serves(entry, row) == entry.config # None /\ entry.revision = row.revision

\* PoolManager.mysqlConfig: the settings of the row are dialled.
Dialled(row) == [revision |-> row.revision, config |-> row.config]

\* PoolManager.Database: the entry is used, or replaced by a connection with the
\* settings the request has read; the destination may be refused, or not answer.
Database(v) ==
    LET d == SourceOf(v)
        row == visits[v].row
    IN /\ At(v, "pool")
       /\ \/ Leaves(v) /\ UNCHANGED pool
          \/ /\ row.status \in {"active", "disabled"}
             /\ IF Serves(pool[d], row)
                  THEN /\ visits' = [visits EXCEPT ![v].handle = pool[d].config,
                                                   ![v].step = "query"]
                       /\ UNCHANGED pool
                  ELSE /\ pool' = [pool EXCEPT ![d] = Dialled(row)]
                       /\ visits' = [visits EXCEPT ![v].handle = row.config, ![v].step = "query"]
       /\ UNCHANGED <<sources, templates, granted>>

Proceeds(v) == visits' = [visits EXCEPT ![v].row = NoSource, ![v].step = "write"]

\* Service.TestDatasource: the test of an activation, which goes on to write, or
\* one that was asked for.
TestDatasource(v) ==
    \/ visits[v].op = "source" /\ Proceeds(v)
    \/ visits[v].op = "test" /\ Leaves(v)

\* QueryEngine.ValidateTemplate, on behalf of an activation or an update.
ValidateTemplate(v) == visits[v].op = "report" /\ Proceeds(v)

\* What was asked of the connection is done, or fails.
Query(v) ==
    /\ At(v, "query")
    /\ TestDatasource(v) \/ ValidateTemplate(v) \/ Leaves(v)
    /\ UNCHANGED <<sources, templates, granted, pool>>

\* Both repositories' updates: the row is locked, an archived row stays as it is,
\* and the revision must still be the form's.
Writable(row, v) == row.status # "archived" /\ row.revision = visits[v].revision

\* Repository.UpdateDatasource: an active datasource stays active, with settings
\* nobody has tested; "checked" goes on speaking of the activation.
UpdatedDatasource(row, v) == [row EXCEPT !.revision = @ + 1, !.config = visits[v].config]

\* Repository.SetDatasourceStatus.
DatasourceWithStatus(row, v) ==
    [row EXCEPT !.revision = @ + 1, !.status = visits[v].to,
                !.checked = visits[v].handle = row.config]

\* Service.SetDatasourceStatus and Handler.Update, up to the commit.
WriteDatasource(v) ==
    LET row == sources[visits[v].id]
        new == IF visits[v].to = None
                 THEN UpdatedDatasource(row, v) ELSE DatasourceWithStatus(row, v)
    IN /\ At(v, "write") /\ visits[v].op = "source"
       /\ IF Writable(row, v)
            THEN /\ row.revision < MaxRevision
                 /\ sources' = [sources EXCEPT ![visits[v].id] = new]
                 /\ visits' = [visits EXCEPT ![v] = [NoVisit EXCEPT
                        !.op = "source", !.step = "invalidate", !.id = visits[v].id]]
            ELSE Leaves(v) /\ UNCHANGED sources
       /\ UNCHANGED <<templates, granted, pool>>

\* A request that has a connection has validated its input on it.
Validated(v) == visits[v].handle # None

\* Repository.UpdateTemplate, replaceParameters.
UpdatedTemplate(row, v) ==
    [row EXCEPT !.revision = @ + 1, !.source = visits[v].input.source,
                !.query = visits[v].input.query, !.checked = Validated(v)]

\* Repository.SetTemplateStatus.
TemplateWithStatus(row, v) ==
    [row EXCEPT !.revision = @ + 1, !.status = visits[v].to,
                !.checked = /\ Validated(v)
                            /\ visits[v].input.source = row.source
                            /\ visits[v].input.query = row.query]

WriteTemplate(v) ==
    LET row == templates[visits[v].id]
        new == IF visits[v].to = None THEN UpdatedTemplate(row, v) ELSE TemplateWithStatus(row, v)
    IN /\ At(v, "write") /\ visits[v].op = "report"
       /\ IF Writable(row, v)
            THEN /\ row.revision < MaxRevision
                 /\ templates' = [templates EXCEPT ![visits[v].id] = new]
            ELSE UNCHANGED templates
       /\ Leaves(v)
       /\ UNCHANGED <<sources, granted, pool>>

\* PoolManager.Invalidate, after the transaction of its caller.
Invalidate(v) ==
    /\ At(v, "invalidate")
    /\ pool' = [pool EXCEPT ![visits[v].id] = NoEntry]
    /\ Leaves(v)
    /\ UNCHANGED <<sources, templates, granted>>

\* PoolManager.Close: the process ends, with every request it serves.
Close ==
    /\ pool' = [d \in Datasources |-> NoEntry]
    /\ visits' = [v \in Visits |-> NoVisit]
    /\ UNCHANGED <<sources, templates, granted>>

CatalogNext ==
    \/ \E d \in Datasources, c \in Configs : CreateDatasource(d, c)
    \/ \E r \in Reports, d \in Datasources, q \in Queries : CreateTemplate(r, d, q)
    \/ \E r \in Reports, u \in Readers : SetAccess(r, u)
    \/ \E v \in Visits :
          \/ \E d \in Datasources : EditDatasource(v, d)
          \/ \E r \in Reports : EditTemplate(v, r)
          \/ \E s \in Statuses : SubmitDatasourceStatus(v, s) \/ SubmitTemplateStatus(v, s)
          \/ \E c \in Configs : SubmitDatasource(v, c)
          \/ SubmitDatasourceTest(v)
          \/ \E d \in Datasources, q \in Queries : SubmitTemplate(v, d, q)
          \/ \E op \in {"run", "draft"}, r \in Reports, u \in Readers : Ask(v, op, r, u)
          \/ FindTemplate(v) \/ HasAccess(v) \/ FindDatasource(v) \/ Database(v)
          \/ Query(v) \/ WriteDatasource(v) \/ WriteTemplate(v) \/ Invalidate(v)
    \/ Close

CatalogSpec == CatalogInit /\ [][CatalogNext]_catalogVars

-----------------------------------------------------------------------------
(* Properties *)

CatalogTypeOK ==
    /\ \A d \in Datasources :
          /\ sources[d].status \in Statuses \cup {None}
          /\ sources[d].revision \in 0..MaxRevision
          /\ pool[d].config \in Configs \cup {None}
    /\ \A r \in Reports : templates[r].status \in Statuses \cup {None}
    /\ granted \subseteq Reports \X Readers

\* Service.SetTemplateStatus, UpdateTemplate: the query and the datasource of an
\* active report are the ones that were validated together when it got them, or
\* when it became active; the settings of the datasource may be newer.
ActiveReportWasValidated ==
    \A r \in Reports : templates[r].status = "active" => templates[r].checked

\* Service.SetDatasourceStatus: the test before an activation connected with the
\* very settings the datasource had when it became active.  It says nothing of
\* settings it is given later (UpdatedDatasource).
ActivatedAsTested ==
    \A d \in Datasources : sources[d].status = "active" => sources[d].checked

\* PoolManager.Database: a request's queries run with the settings it has read,
\* although requests that read older ones replace the entry meanwhile.
HandleIsOfRowRead ==
    \A v \in Visits : At(v, "query") => visits[v].handle = visits[v].row.config

\* reporting/service.go, pool.go: an active report has the query that was
\* validated, a datasource was activated with the settings that were tested, and
\* no request works with the settings of another revision.
CatalogSafety ==
    CatalogTypeOK /\ ActiveReportWasValidated /\ ActivatedAsTested /\ HandleIsOfRowRead
=============================================================================
