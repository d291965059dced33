-------------------------- MODULE ReportingProofs --------------------------
(***************************************************************************)
(* ReportSafety for any datasources, settings, templates, readers, owners, *)
(* folders and requests, and ExportSafety for any workers, jobs and        *)
(* attempts.                                                               *)
(***************************************************************************)
EXTENDS ReportPages, ReportExport, TLAPS

(***************************************************************************)
(* The catalogue.  A request acts on a row it read without a lock, so the  *)
(* invariant says how old that row can be: it is a past or the present     *)
(* row, and whoever has the same revision of it (another request, an entry *)
(* of the pool, the table) has the same settings.                          *)
(***************************************************************************)

SourceRows == {NoSource} \cup
    [status : Statuses, revision : 1 .. MaxRevision, config : Configs, checked : BOOLEAN]
TemplateRows == {NoTemplate} \cup
    [status : Statuses, revision : 1 .. MaxRevision, source : Datasources, query : Queries,
     checked : BOOLEAN]
Entries == {NoEntry} \cup [revision : 1 .. MaxRevision, config : Configs]
Drafts == [status : {None}, revision : {0}, source : Datasources \cup {None},
           query : Queries \cup {None}, checked : {FALSE}]
VisitRecords ==
    [op : {None, "source", "test", "report", "run", "draft"},
     step : {None, "form", "find", "access", "source", "pool", "query", "write", "invalidate"},
     id : Datasources \cup Reports \cup {None}, revision : 0 .. MaxRevision,
     to : Statuses \cup {None}, input : Drafts, config : Configs \cup {None},
     row : SourceRows, handle : Configs \cup {None}, reader : Readers \cup {None}]

\* SourceOf, of a request as a value.
SourceIn(x) == IF x.op \in {"source", "test"} THEN x.id ELSE x.input.source

\* Where a request of each kind can be.
VisitShape(x) ==
    /\ x \in VisitRecords
    /\ x.op = "source" => x.step \in {"form", "source", "pool", "query", "write", "invalidate"}
    /\ x.op = "test" => x.step \in {"source", "pool", "query"}
    /\ x.op = "report" => x.step \in {"form", "find", "source", "pool", "query", "write"}
    /\ x.op \in {"run", "draft"} => x.step \in {"find", "access", "source", "pool", "query"}
    /\ x.op = None => x = NoVisit
    /\ x.step = "form" => x.to = None
    /\ x.op \in {"report", "run", "draft"} => x.id \in Reports
    /\ x.op = "source" /\ x.step \in {"source", "pool", "query"} => x.to = "active"
    /\ x.op = "source" /\ x.step = "write" /\ x.to = None => x.config \in Configs
    /\ x.op = "report" /\ x.to = None /\ x.step # "form" =>
           x.input.source \in Datasources /\ x.input.query \in Queries
    /\ x.step \in {"access", "source", "pool", "query"} => SourceIn(x) \in Datasources

\* A request on datasources S: the row it has read is a past or the present row,
\* and an activation whose form is not outdated has connected with the settings
\* the row has.
VisitsSource(x, S) ==
    /\ x.op \in {"source", "test"} =>
           x.id \in Datasources /\ S[x.id] # NoSource /\ x.revision <= S[x.id].revision
    /\ x.step \in {"pool", "query"} =>
           /\ x.row # NoSource
           /\ x.row.revision <= S[SourceIn(x)].revision
           /\ x.row.revision = S[SourceIn(x)].revision => x.row.config = S[SourceIn(x)].config
           /\ x.op = "source" => x.revision <= x.row.revision
    /\ x.step = "query" => x.handle = x.row.config
    /\ x.op = "source" /\ x.step = "write" /\ x.to = "active" /\ S[x.id].revision = x.revision
           => x.handle = S[x.id].config

\* A request on templates T: what it validates is the row its form was loaded
\* from, or its own input.
VisitsTemplate(x, T) ==
    x.op = "report" =>
        /\ T[x.id] # NoTemplate /\ x.revision <= T[x.id].revision
        /\ x.to = "active" /\ x.step \in {"source", "pool", "query", "write"}
               /\ T[x.id].revision = x.revision
               => x.input.source = T[x.id].source /\ x.input.query = T[x.id].query
        /\ x.step = "write" /\ x.to = "active" => x.handle # None
        /\ x.step = "write" /\ x.to = None /\ x.handle = None /\ T[x.id].revision = x.revision
               => T[x.id].status # "active"

VisitOK(x, S, T) == VisitShape(x) /\ VisitsSource(x, S) /\ VisitsTemplate(x, T)

\* An entry of the pool has the settings of the revision it is labelled with, as
\* far as anybody knows.
EntryOK(e, row) ==
    /\ e.revision <= row.revision
    /\ e.revision = row.revision => e.config = row.config

EntryAgrees(e, x) ==
    x.step = "pool" /\ e.revision = x.row.revision => e.config = x.row.config

RowsAgree(x, y) ==
    /\ x.step = "pool" /\ y.step = "pool" /\ SourceIn(x) = SourceIn(y)
    /\ x.row.revision = y.row.revision
    => x.row.config = y.row.config

CatalogInv ==
    /\ sources \in [Datasources -> SourceRows]
    /\ templates \in [Reports -> TemplateRows]
    /\ pool \in [Datasources -> Entries]
    /\ granted \subseteq Reports \X Readers
    /\ visits \in [Visits -> VisitRecords]
    /\ \A r \in Reports : templates[r].status = "active" => templates[r].checked
    /\ \A d \in Datasources : sources[d].status = "active" => sources[d].checked
    /\ \A d \in Datasources : EntryOK(pool[d], sources[d])
    /\ \A v \in Visits : VisitOK(visits[v], sources, templates)
    /\ \A v \in Visits : visits[v].step = "pool" =>
           EntryAgrees(pool[SourceIn(visits[v])], visits[v])
    /\ \A v, w \in Visits : RowsAgree(visits[v], visits[w])

-----------------------------------------------------------------------------
(* ReportCatalog *)

LEMMA EmptyRows ==
    /\ NoSource.status = None /\ NoSource.revision = 0 /\ NoSource.config = None
    /\ NoTemplate.status = None /\ NoTemplate.revision = 0
    /\ NoEntry.revision = 0 /\ NoEntry.config = None
    /\ NoVisit \in VisitRecords /\ NoVisit.op = None /\ NoVisit.step = None
    /\ NoTemplate \in Drafts
BY CatalogAssumption DEF NoSource, NoTemplate, NoEntry, NoVisit, VisitRecords, Drafts, SourceRows

LEMMA RowFacts ==
    ASSUME CatalogInv
    PROVE  /\ \A d \in Datasources :
                  /\ sources[d] \in SourceRows /\ sources[d].revision \in 0 .. MaxRevision
                  /\ sources[d].status \in Statuses \cup {None}
                  /\ sources[d].status # None <=> sources[d] # NoSource
                  /\ sources[d] # NoSource => sources[d].config \in Configs /\ sources[d].revision >= 1
           /\ \A r \in Reports :
                  /\ templates[r] \in TemplateRows /\ templates[r].revision \in 0 .. MaxRevision
                  /\ templates[r].status \in Statuses \cup {None}
                  /\ templates[r] # NoTemplate =>
                         templates[r].source \in Datasources /\ templates[r].query \in Queries
BY EmptyRows, CatalogAssumption
   DEF CatalogInv, SourceRows, TemplateRows, Statuses, None

LEMMA EmptyVisit ==
    ASSUME NEW S, NEW T
    PROVE  VisitOK(NoVisit, S, T)
BY EmptyRows DEF VisitOK, VisitShape, VisitsSource, VisitsTemplate, None

\* A request goes on, without having read a datasource in this step.
LEMMA VisitMoves ==
    ASSUME CatalogInv, NEW v \in Visits, NEW y, VisitOK(y, sources, templates), y.step # "pool",
           visits' = [visits EXCEPT ![v] = y],
           UNCHANGED <<sources, templates, granted, pool>>
    PROVE  CatalogInv'
<1>1. y \in VisitRecords
    BY DEF VisitOK, VisitShape
<1>2. visits' \in [Visits -> VisitRecords] /\ visits'[v] = y
      /\ \A w \in Visits : w # v => visits'[w] = visits[w]
    BY <1>1 DEF CatalogInv
<1>3. \A w \in Visits : VisitOK(visits'[w], sources, templates)
    BY <1>2 DEF CatalogInv
<1>4. \A w \in Visits : visits'[w].step = "pool" =>
          EntryAgrees(pool[SourceIn(visits'[w])], visits'[w])
    BY <1>2 DEF CatalogInv
<1>5. \A w, z \in Visits : RowsAgree(visits'[w], visits'[z])
    <2> SUFFICES ASSUME NEW w \in Visits, NEW z \in Visits
                 PROVE  RowsAgree(visits'[w], visits'[z])
        OBVIOUS
    <2>1. CASE w = v \/ z = v
        BY <1>2, <2>1 DEF RowsAgree
    <2>2. CASE w # v /\ z # v
        <3>1. RowsAgree(visits[w], visits[z])
            BY DEF CatalogInv
        <3> QED BY <1>2, <2>2, <3>1
    <2> QED BY <2>1, <2>2
<1> QED BY <1>2, <1>3, <1>4, <1>5 DEF CatalogInv

LEMMA VisitLeaves ==
    ASSUME CatalogInv, NEW v \in Visits, Leaves(v),
           UNCHANGED <<sources, templates, granted, pool>>
    PROVE  CatalogInv'
<1>1. NoVisit.step # "pool"
    BY EmptyRows DEF None
<1> QED BY <1>1, EmptyVisit, VisitMoves DEF Leaves

LEMMA Knows ==
    ASSUME CatalogInv, NEW v \in Visits
    PROVE  /\ visits[v] \in VisitRecords /\ VisitShape(visits[v])
           /\ VisitsSource(visits[v], sources) /\ VisitsTemplate(visits[v], templates)
           /\ SourceOf(v) = SourceIn(visits[v])
BY DEF CatalogInv, VisitOK, SourceOf, SourceIn

LEMMA FormSteps ==
    ASSUME CatalogInv, NEW v \in Visits,
           \/ \E d \in Datasources : EditDatasource(v, d)
           \/ \E r \in Reports : EditTemplate(v, r)
           \/ \E s \in Statuses : SubmitDatasourceStatus(v, s) \/ SubmitTemplateStatus(v, s)
           \/ \E c \in Configs : SubmitDatasource(v, c)
           \/ SubmitDatasourceTest(v)
           \/ \E d \in Datasources, q \in Queries : SubmitTemplate(v, d, q)
           \/ \E op \in {"run", "draft"}, r \in Reports, u \in Readers : Ask(v, op, r, u)
    PROVE  CatalogInv'
<1> DEFINE x == visits[v]
<1>1. /\ x \in VisitRecords /\ VisitShape(x) /\ VisitsSource(x, sources)
      /\ VisitsTemplate(x, templates) /\ visits \in [Visits -> VisitRecords]
    BY Knows DEF CatalogInv
<1> HIDE DEF x
<1>2. ASSUME NEW d \in Datasources, EditDatasource(v, d) PROVE CatalogInv'
    <2> DEFINE y == [NoVisit EXCEPT !.op = "source", !.step = "form", !.id = d,
                                    !.revision = sources[d].revision]
    <2>1. visits' = [visits EXCEPT ![v] = y] /\ UNCHANGED <<sources, templates, granted, pool>>
          /\ sources[d] # NoSource
        BY <1>2 DEF EditDatasource, Arrives
    <2>2. /\ y \in VisitRecords /\ y.op = "source" /\ y.step = "form" /\ y.id = d
          /\ y.revision = sources[d].revision /\ y.to = None
        BY RowFacts, EmptyRows DEF NoVisit, VisitRecords
    <2> HIDE DEF y
    <2>3. VisitOK(y, sources, templates)
        BY <2>1, <2>2, RowFacts DEF VisitOK, VisitShape, VisitsSource, VisitsTemplate, None
    <2> QED BY <2>1, <2>2, <2>3, VisitMoves
<1>3. ASSUME NEW r \in Reports, EditTemplate(v, r) PROVE CatalogInv'
    <2> DEFINE y == [NoVisit EXCEPT !.op = "report", !.step = "form", !.id = r,
                                    !.revision = templates[r].revision]
    <2>1. visits' = [visits EXCEPT ![v] = y] /\ UNCHANGED <<sources, templates, granted, pool>>
          /\ templates[r] # NoTemplate
        BY <1>3 DEF EditTemplate, Arrives
    <2>2. /\ y \in VisitRecords /\ y.op = "report" /\ y.step = "form" /\ y.id = r
          /\ y.revision = templates[r].revision /\ y.to = None
        BY RowFacts, EmptyRows DEF NoVisit, VisitRecords
    <2> HIDE DEF y
    <2>3. VisitOK(y, sources, templates)
        BY <2>1, <2>2, RowFacts DEF VisitOK, VisitShape, VisitsSource, VisitsTemplate, None
    <2> QED BY <2>1, <2>2, <2>3, VisitMoves
<1>4. ASSUME NEW s \in Statuses, SubmitDatasourceStatus(v, s) PROVE CatalogInv'
    <2> DEFINE y == [x EXCEPT !.to = s, !.step = IF s = "active" THEN "source" ELSE "write"]
    <2>1. visits' = [visits EXCEPT ![v] = y] /\ UNCHANGED <<sources, templates, granted, pool>>
          /\ x.op = "source" /\ x.step = "form"
        BY <1>1, <1>4 DEF SubmitDatasourceStatus, At, x
    <2>2. /\ y \in VisitRecords /\ y.op = "source" /\ y.id = x.id /\ y.revision = x.revision
          /\ y.to = s /\ y.step = IF s = "active" THEN "source" ELSE "write"
        BY <1>1, <2>1 DEF VisitRecords
    <2>3. s # None
        BY DEF Statuses, None
    <2> HIDE DEF y
    <2>4. VisitOK(y, sources, templates)
        BY <1>1, <2>1, <2>2, <2>3 DEF VisitOK, VisitShape, VisitsSource, VisitsTemplate, None, SourceIn
    <2> QED BY <2>1, <2>2, <2>4, VisitMoves
<1>5. ASSUME NEW s \in Statuses, SubmitTemplateStatus(v, s) PROVE CatalogInv'
    <2> DEFINE y == [x EXCEPT !.to = s, !.step = IF s = "active" THEN "find" ELSE "write"]
    <2>1. visits' = [visits EXCEPT ![v] = y] /\ UNCHANGED <<sources, templates, granted, pool>>
          /\ x.op = "report" /\ x.step = "form"
        BY <1>1, <1>5 DEF SubmitTemplateStatus, At, x
    <2>2. /\ y \in VisitRecords /\ y.op = "report" /\ y.id = x.id /\ y.revision = x.revision
          /\ y.to = s /\ y.step = IF s = "active" THEN "find" ELSE "write"
        BY <1>1, <2>1 DEF VisitRecords
    <2>3. s # None
        BY DEF Statuses, None
    <2> HIDE DEF y
    <2>4. VisitOK(y, sources, templates)
        BY <1>1, <2>1, <2>2, <2>3 DEF VisitOK, VisitShape, VisitsSource, VisitsTemplate, None, SourceIn
    <2> QED BY <2>1, <2>2, <2>4, VisitMoves
<1>6. ASSUME NEW c \in Configs, SubmitDatasource(v, c) PROVE CatalogInv'
    <2> DEFINE y == [x EXCEPT !.config = c, !.step = "write"]
    <2>1. visits' = [visits EXCEPT ![v] = y] /\ UNCHANGED <<sources, templates, granted, pool>>
          /\ x.op = "source" /\ x.step = "form"
        BY <1>1, <1>6 DEF SubmitDatasource, At, x
    <2>2. /\ y \in VisitRecords /\ y.op = "source" /\ y.id = x.id /\ y.revision = x.revision
          /\ y.to = x.to /\ y.step = "write" /\ y.config = c
        BY <1>1, <2>1 DEF VisitRecords
    <2> HIDE DEF y
    <2>3. VisitOK(y, sources, templates)
        BY <1>1, <2>1, <2>2 DEF VisitOK, VisitShape, VisitsSource, VisitsTemplate, None
    <2> QED BY <2>1, <2>2, <2>3, VisitMoves
<1>7. ASSUME SubmitDatasourceTest(v) PROVE CatalogInv'
    <2> DEFINE y == [x EXCEPT !.op = "test", !.step = "source"]
    <2>1. visits' = [visits EXCEPT ![v] = y] /\ UNCHANGED <<sources, templates, granted, pool>>
          /\ x.op = "source" /\ x.step = "form"
        BY <1>1, <1>7 DEF SubmitDatasourceTest, At, x
    <2>2. /\ y \in VisitRecords /\ y.op = "test" /\ y.id = x.id /\ y.revision = x.revision
          /\ y.step = "source"
        BY <1>1, <2>1 DEF VisitRecords
    <2> HIDE DEF y
    <2>3. VisitOK(y, sources, templates)
        BY <1>1, <2>1, <2>2 DEF VisitOK, VisitShape, VisitsSource, VisitsTemplate, None, SourceIn
    <2> QED BY <2>1, <2>2, <2>3, VisitMoves
<1>8. ASSUME NEW d \in Datasources, NEW q \in Queries, SubmitTemplate(v, d, q) PROVE CatalogInv'
    <2> DEFINE i == [NoTemplate EXCEPT !.source = d, !.query = q]
               y == [x EXCEPT !.input = i, !.step = "find"]
    <2>1. visits' = [visits EXCEPT ![v] = y] /\ UNCHANGED <<sources, templates, granted, pool>>
          /\ x.op = "report" /\ x.step = "form"
        BY <1>1, <1>8 DEF SubmitTemplate, At, x
    <2>2. i \in Drafts /\ i.source = d /\ i.query = q
        BY DEF NoTemplate, Drafts
    <2> HIDE DEF i
    <2>3. /\ y \in VisitRecords /\ y.op = "report" /\ y.id = x.id /\ y.revision = x.revision
          /\ y.step = "find" /\ y.input = i /\ y.to = x.to
        BY <1>1, <2>1, <2>2 DEF VisitRecords
    <2> HIDE DEF y
    <2>4. VisitOK(y, sources, templates)
        BY <1>1, <2>1, <2>2, <2>3 DEF VisitOK, VisitShape, VisitsSource, VisitsTemplate, None
    <2> QED BY <2>1, <2>3, <2>4, VisitMoves
<1>9. ASSUME NEW op \in {"run", "draft"}, NEW r \in Reports, NEW u \in Readers, Ask(v, op, r, u)
      PROVE CatalogInv'
    <2> DEFINE y == [NoVisit EXCEPT !.op = op, !.step = "find", !.id = r, !.reader = u]
    <2>1. visits' = [visits EXCEPT ![v] = y] /\ UNCHANGED <<sources, templates, granted, pool>>
        BY <1>9 DEF Ask
    <2>2. y \in VisitRecords /\ y.op = op /\ y.step = "find" /\ y.id = r
        BY EmptyRows DEF NoVisit, VisitRecords
    <2> HIDE DEF y
    <2>3. VisitOK(y, sources, templates)
        BY <2>1, <2>2 DEF VisitOK, VisitShape, VisitsSource, VisitsTemplate, None
    <2> QED BY <2>1, <2>2, <2>3, VisitMoves
<1> QED BY <1>2, <1>3, <1>4, <1>5, <1>6, <1>7, <1>8, <1>9

LEMMA FindTemplateStep ==
    ASSUME CatalogInv, NEW v \in Visits, FindTemplate(v)
    PROVE  CatalogInv'
<1> DEFINE x == visits[v]
           row == templates[x.id]
<1>1. /\ x \in VisitRecords /\ VisitShape(x) /\ VisitsSource(x, sources)
      /\ VisitsTemplate(x, templates) /\ visits \in [Visits -> VisitRecords]
    BY Knows DEF CatalogInv
<1>2. /\ x.step = "find" /\ UNCHANGED <<sources, templates, granted, pool>>
      /\ row = NoTemplate => Leaves(v)
      /\ row # NoTemplate => Prepares(v, row) \/ TriesDraft(v, row) \/ Activates(v, row) \/ Updates(v, row)
    BY DEF FindTemplate, At
<1>3. x.id \in Reports /\ x.op \in {"report", "run", "draft"}
    BY <1>1, <1>2 DEF VisitShape, VisitRecords, NoVisit, None
<1>4. row # NoTemplate => row.source \in Datasources /\ row.query \in Queries
    BY <1>3, RowFacts
<1> HIDE DEF x
<1>5. ASSUME row # NoTemplate, NEW step \in {"access", "source"}, Keeps(v, row, step),
             x.op \in {"run", "draft"} \/ (x.op = "report" /\ x.to = "active" /\ step = "source")
      PROVE  CatalogInv'
    <2> DEFINE i == [NoTemplate EXCEPT !.source = row.source, !.query = row.query]
               y == [x EXCEPT !.input = i, !.step = step]
    <2>1. visits' = [visits EXCEPT ![v] = y]
        BY <1>1, <1>5 DEF Keeps, x
    <2>2. i \in Drafts /\ i.source = row.source /\ i.query = row.query
        BY <1>4, <1>5 DEF NoTemplate, Drafts
    <2> HIDE DEF i
    <2>3. /\ y \in VisitRecords /\ y.op = x.op /\ y.id = x.id /\ y.revision = x.revision
          /\ y.step = step /\ y.input = i /\ y.to = x.to
        BY <1>1, <2>2 DEF VisitRecords
    <2> HIDE DEF y
    <2>4. VisitShape(y)
        BY <1>1, <1>3, <1>4, <1>5, <2>2, <2>3 DEF VisitShape, SourceIn, None
    <2>5. VisitsSource(y, sources)
        BY <1>3, <2>3 DEF VisitsSource
    <2>6. VisitsTemplate(y, templates)
        BY <1>1, <1>5, <2>2, <2>3 DEF VisitsTemplate
    <2>7. VisitOK(y, sources, templates) /\ y.step # "pool"
        BY <2>3, <2>4, <2>5, <2>6 DEF VisitOK
    <2> HIDE DEF row
    <2> QED BY <1>2, <2>1, <2>7, VisitMoves
<1>6. ASSUME row # NoTemplate, Updates(v, row) PROVE CatalogInv'
    <2> DEFINE y == [x EXCEPT !.step = IF row.status = "active" THEN "source" ELSE "write"]
    <2>1. visits' = [visits EXCEPT ![v] = y] /\ x.op = "report" /\ x.to = None
        BY <1>1, <1>6 DEF Updates, Goes, x
    <2>2. /\ y \in VisitRecords /\ y.op = x.op /\ y.id = x.id /\ y.revision = x.revision
          /\ y.step = (IF row.status = "active" THEN "source" ELSE "write")
          /\ y.input = x.input /\ y.to = x.to
        BY <1>1 DEF VisitRecords
    <2> HIDE DEF y
    <2>3. VisitShape(y)
        BY <1>1, <1>2, <1>3, <2>1, <2>2 DEF VisitShape, SourceIn, None
    <2>4. VisitsSource(y, sources)
        BY <2>1, <2>2 DEF VisitsSource
    <2>5. VisitsTemplate(y, templates)
        BY <1>1, <1>2, <2>1, <2>2 DEF VisitsTemplate, None
    <2>6. VisitOK(y, sources, templates) /\ y.step # "pool"
        BY <2>2, <2>3, <2>4, <2>5 DEF VisitOK
    <2> QED BY <1>2, <2>1, <2>6, VisitMoves
<1>7. CASE Leaves(v)
    BY <1>2, <1>7, VisitLeaves
<1> QED BY <1>2, <1>5, <1>6, <1>7 DEF Prepares, TriesDraft, Activates, x

LEMMA HasAccessStep ==
    ASSUME CatalogInv, NEW v \in Visits, HasAccess(v)
    PROVE  CatalogInv'
<1> DEFINE x == visits[v]
           y == [x EXCEPT !.step = "source"]
<1>1. /\ x \in VisitRecords /\ VisitShape(x) /\ VisitsSource(x, sources)
      /\ VisitsTemplate(x, templates) /\ visits \in [Visits -> VisitRecords]
    BY Knows DEF CatalogInv
<1>2. /\ x.step = "access" /\ UNCHANGED <<sources, templates, granted, pool>>
      /\ visits' = [visits EXCEPT ![v] = y] \/ Leaves(v)
    BY <1>1 DEF HasAccess, At, Goes
<1>3. x.op \in {"run", "draft"}
    BY <1>1, <1>2 DEF VisitShape, VisitRecords, NoVisit, None
<1> HIDE DEF x
<1>4. /\ y \in VisitRecords /\ y.op = x.op /\ y.id = x.id /\ y.input = x.input
      /\ y.step = "source"
    BY <1>1 DEF VisitRecords
<1> HIDE DEF y
<1>5. VisitOK(y, sources, templates)
    BY <1>1, <1>2, <1>3, <1>4 DEF VisitOK, VisitShape, VisitsSource, VisitsTemplate, SourceIn, None
<1> QED BY <1>2, <1>4, <1>5, VisitMoves, VisitLeaves

LEMMA FindDatasourceStep ==
    ASSUME CatalogInv, NEW v \in Visits, FindDatasource(v)
    PROVE  CatalogInv'
<1> DEFINE x == visits[v]
           row == sources[SourceIn(x)]
           y == [x EXCEPT !.row = row, !.step = "pool"]
<1>1. /\ x \in VisitRecords /\ VisitShape(x) /\ VisitsSource(x, sources)
      /\ VisitsTemplate(x, templates) /\ visits \in [Visits -> VisitRecords]
      /\ SourceOf(v) = SourceIn(x)
    BY Knows DEF CatalogInv
<1>2. /\ x.step = "source" /\ UNCHANGED <<sources, templates, granted, pool>>
      /\ \/ Leaves(v)
         \/ /\ visits' = [visits EXCEPT ![v] = y]
            /\ row.status = "active" \/ x.op \in {"source", "test"}
    BY <1>1 DEF FindDatasource, At
<1>3. SourceIn(x) \in Datasources /\ x.op # None
    BY <1>1, <1>2, EmptyRows DEF VisitShape, None
<1>4. CASE Leaves(v)
    BY <1>2, <1>4, VisitLeaves
<1>5. CASE /\ visits' = [visits EXCEPT ![v] = y]
           /\ row.status = "active" \/ x.op \in {"source", "test"}
    <2>1. row \in SourceRows /\ row # NoSource
        <3>1. CASE row.status = "active"
            BY <1>3, <3>1, RowFacts DEF None
        <3>2. CASE x.op \in {"source", "test"}
            BY <1>1, <1>3, <3>2, RowFacts DEF VisitsSource, SourceIn
        <3> QED BY <1>5, <3>1, <3>2
    <2> HIDE DEF x, row
    <2>2. /\ y \in VisitRecords /\ y.op = x.op /\ y.id = x.id /\ y.revision = x.revision
          /\ y.input = x.input /\ y.to = x.to /\ y.row = row /\ y.step = "pool"
        BY <1>1, <2>1 DEF VisitRecords
    <2>3. SourceIn(y) = SourceIn(x)
        BY <2>2 DEF SourceIn
    <2> HIDE DEF y
    <2>4. VisitShape(y)
        BY <1>1, <1>2, <1>3, <2>2, <2>3 DEF VisitShape, None
    <2>5. row.revision \in Nat /\ \A d \in Datasources : sources[d].revision \in Nat
        BY <1>3, RowFacts DEF row
    <2>6. VisitsSource(y, sources)
        BY <1>1, <1>2, <1>3, <2>1, <2>2, <2>3, <2>5 DEF VisitsSource, SourceIn, row
    <2>7. VisitsTemplate(y, templates)
        BY <1>1, <1>2, <2>2 DEF VisitsTemplate
    <2>8. VisitOK(y, sources, templates)
        BY <2>4, <2>6, <2>7 DEF VisitOK
    <2>9. visits' \in [Visits -> VisitRecords] /\ visits'[v] = y
          /\ \A w \in Visits : w # v => visits'[w] = visits[w]
        BY <1>1, <1>5, <2>2
    <2>10. \A w \in Visits : VisitOK(visits'[w], sources, templates)
        BY <2>8, <2>9 DEF CatalogInv
    <2>11. EntryAgrees(pool[SourceIn(y)], y)
        BY <1>3, <2>2, <2>3 DEF EntryAgrees, CatalogInv, EntryOK, row
    <2>12. \A w \in Visits : visits'[w].step = "pool" =>
               EntryAgrees(pool[SourceIn(visits'[w])], visits'[w])
        BY <2>9, <2>11 DEF CatalogInv
    <2>13. ASSUME NEW w \in Visits PROVE RowsAgree(y, visits[w]) /\ RowsAgree(visits[w], y)
        <3>1. VisitsSource(visits[w], sources)
            BY Knows
        <3> QED BY <2>2, <2>3, <3>1 DEF RowsAgree, VisitsSource, row
    <2>14. \A w, z \in Visits : RowsAgree(visits'[w], visits'[z])
        <3> SUFFICES ASSUME NEW w \in Visits, NEW z \in Visits
                     PROVE  RowsAgree(visits'[w], visits'[z])
            OBVIOUS
        <3>1. RowsAgree(visits[w], visits[z])
            BY DEF CatalogInv
        <3>2. RowsAgree(y, y)
            BY DEF RowsAgree
        <3> QED BY <2>9, <2>13, <3>1, <3>2
    <2> QED BY <1>2, <2>9, <2>10, <2>12, <2>14 DEF CatalogInv
<1> QED BY <1>2, <1>4, <1>5

LEMMA DatabaseStep ==
    ASSUME CatalogInv, NEW v \in Visits, Database(v)
    PROVE  CatalogInv'
<1> DEFINE x == visits[v]
           d == SourceIn(x)
           y == [x EXCEPT !.handle = x.row.config, !.step = "query"]
<1>1. /\ x \in VisitRecords /\ VisitShape(x) /\ VisitsSource(x, sources)
      /\ VisitsTemplate(x, templates) /\ visits \in [Visits -> VisitRecords]
      /\ SourceOf(v) = d
    BY Knows DEF CatalogInv
<1>2. x.step = "pool" /\ UNCHANGED <<sources, templates, granted>>
    BY DEF Database, At
<1>3. d \in Datasources /\ x.op # None
    BY <1>1, <1>2, EmptyRows DEF VisitShape, None
<1>4. /\ x.row \in SourceRows /\ x.row # NoSource
      /\ x.row.revision \in 1 .. MaxRevision /\ x.row.config \in Configs
      /\ x.row.revision <= sources[d].revision
      /\ x.row.revision = sources[d].revision => x.row.config = sources[d].config
    BY <1>1, <1>2 DEF VisitsSource, VisitRecords, SourceRows
<1>5. EntryAgrees(pool[d], x)
    BY <1>2 DEF CatalogInv
<1>6. \/ Leaves(v) /\ UNCHANGED pool
      \/ visits' = [visits EXCEPT ![v] = y] /\ UNCHANGED pool
      \/ visits' = [visits EXCEPT ![v] = y] /\ pool' = [pool EXCEPT ![d] = Dialled(x.row)]
    <2>1. Serves(pool[d], x.row) => pool[d].config = x.row.config
        BY <1>2, <1>5 DEF Serves, EntryAgrees
    <2> QED BY <1>1, <2>1 DEF Database
<1> HIDE DEF x, d
<1>7. /\ y \in VisitRecords /\ y.op = x.op /\ y.id = x.id /\ y.revision = x.revision
      /\ y.input = x.input /\ y.to = x.to /\ y.row = x.row /\ y.step = "query"
      /\ y.handle = x.row.config
    BY <1>1, <1>4 DEF VisitRecords
<1>8. SourceIn(y) = SourceIn(x)
    BY <1>7 DEF SourceIn
<1> HIDE DEF y
<1>9. VisitOK(y, sources, templates)
    <2>1. VisitShape(y)
        BY <1>1, <1>2, <1>3, <1>7, <1>8 DEF VisitShape, None
    <2>2. VisitsSource(y, sources)
        BY <1>1, <1>2, <1>7, <1>8 DEF VisitsSource
    <2>3. VisitsTemplate(y, templates)
        BY <1>1, <1>2, <1>7 DEF VisitsTemplate
    <2> QED BY <2>1, <2>2, <2>3 DEF VisitOK
<1>10. CASE Leaves(v) /\ UNCHANGED pool
    BY <1>2, <1>10, VisitLeaves
<1>11. CASE visits' = [visits EXCEPT ![v] = y] /\ UNCHANGED pool
    BY <1>2, <1>7, <1>9, <1>11, VisitMoves
<1>12. CASE visits' = [visits EXCEPT ![v] = y] /\ pool' = [pool EXCEPT ![d] = Dialled(x.row)]
    <2> DEFINE e == Dialled(x.row)
    <2>1. e \in Entries /\ e.revision = x.row.revision /\ e.config = x.row.config
        BY <1>4 DEF Dialled, Entries
    <2> HIDE DEF e
    <2>2. pool' \in [Datasources -> Entries] /\ pool'[d] = e
          /\ \A c \in Datasources : c # d => pool'[c] = pool[c]
        BY <1>3, <1>12, <2>1 DEF CatalogInv, e
    <2>3. visits' \in [Visits -> VisitRecords] /\ visits'[v] = y
          /\ \A w \in Visits : w # v => visits'[w] = visits[w]
        BY <1>1, <1>7, <1>12
    <2>4. \A w \in Visits : VisitOK(visits'[w], sources, templates)
        BY <1>9, <2>3 DEF CatalogInv
    <2>5. \A c \in Datasources : EntryOK(pool'[c], sources[c])
        BY <1>4, <2>1, <2>2 DEF CatalogInv, EntryOK
    <2>6. ASSUME NEW w \in Visits, visits'[w].step = "pool"
          PROVE  EntryAgrees(pool'[SourceIn(visits'[w])], visits'[w])
        <3>1. w # v /\ visits'[w] = visits[w]
            BY <1>7, <2>3, <2>6
        <3>2. EntryAgrees(pool[SourceIn(visits[w])], visits[w]) /\ RowsAgree(x, visits[w])
              /\ SourceIn(visits[w]) \in Datasources
            BY <2>6, <3>1, Knows DEF CatalogInv, x, VisitShape
        <3>3. CASE SourceIn(visits[w]) = d
            BY <1>2, <2>1, <2>2, <2>6, <3>1, <3>2, <3>3 DEF EntryAgrees, RowsAgree, d
        <3>4. CASE SourceIn(visits[w]) # d
            BY <2>2, <3>1, <3>2, <3>4
        <3> QED BY <3>3, <3>4
    <2>7. \A w, z \in Visits : RowsAgree(visits'[w], visits'[z])
        <3> SUFFICES ASSUME NEW w \in Visits, NEW z \in Visits
                     PROVE  RowsAgree(visits'[w], visits'[z])
            OBVIOUS
        <3>1. RowsAgree(visits[w], visits[z])
            BY DEF CatalogInv
        <3>2. CASE w = v \/ z = v
            BY <1>7, <2>3, <3>2 DEF RowsAgree
        <3>3. CASE w # v /\ z # v
            BY <2>3, <3>1, <3>3
        <3> QED BY <3>2, <3>3
    <2> QED BY <1>2, <2>2, <2>3, <2>4, <2>5, <2>6, <2>7 DEF CatalogInv
<1> QED BY <1>6, <1>10, <1>11, <1>12

LEMMA QueryStep ==
    ASSUME CatalogInv, NEW v \in Visits, Query(v)
    PROVE  CatalogInv'
<1> DEFINE x == visits[v]
           y == [x EXCEPT !.row = NoSource, !.step = "write"]
<1>1. /\ x \in VisitRecords /\ VisitShape(x) /\ VisitsSource(x, sources)
      /\ VisitsTemplate(x, templates) /\ visits \in [Visits -> VisitRecords]
    BY Knows DEF CatalogInv
<1>2. /\ x.step = "query" /\ UNCHANGED <<sources, templates, granted, pool>>
      /\ \/ Leaves(v)
         \/ visits' = [visits EXCEPT ![v] = y] /\ x.op \in {"source", "report"}
    BY <1>1 DEF Query, At, TestDatasource, ValidateTemplate, Proceeds
<1>3. CASE Leaves(v)
    BY <1>2, <1>3, VisitLeaves
<1>4. CASE visits' = [visits EXCEPT ![v] = y] /\ x.op \in {"source", "report"}
    <2>1. SourceIn(x) \in Datasources
        BY <1>1, <1>2 DEF VisitShape
    <2>2. /\ x.row # NoSource /\ x.handle = x.row.config /\ x.row.config \in Configs
          /\ x.row.revision \in Nat
          /\ x.row.revision <= sources[SourceIn(x)].revision
          /\ x.row.revision = sources[SourceIn(x)].revision =>
                 x.row.config = sources[SourceIn(x)].config
          /\ x.op = "source" => x.revision <= x.row.revision
        BY <1>1, <1>2 DEF VisitsSource, VisitRecords, SourceRows
    <2>3. x.revision \in Nat /\ \A d \in Datasources : sources[d].revision \in Nat
        BY <1>1, RowFacts DEF VisitRecords
    <2>4. x.op = "source" => SourceIn(x) = x.id
        BY DEF SourceIn
    <2> HIDE DEF x
    <2>5. /\ y \in VisitRecords /\ y.op = x.op /\ y.id = x.id /\ y.revision = x.revision
          /\ y.input = x.input /\ y.to = x.to /\ y.step = "write"
          /\ y.handle = x.handle /\ y.config = x.config
        BY <1>1 DEF VisitRecords, SourceRows
    <2> HIDE DEF y
    <2>6. VisitShape(y)
        BY <1>1, <1>2, <1>4, <2>5 DEF VisitShape, None, Statuses
    <2>7. VisitsSource(y, sources)
        BY <1>1, <1>2, <1>4, <2>1, <2>2, <2>3, <2>4, <2>5 DEF VisitsSource
    <2>8. VisitsTemplate(y, templates)
        BY <1>1, <1>2, <2>2, <2>5, CatalogAssumption DEF VisitsTemplate
    <2> QED BY <1>2, <1>4, <2>5, <2>6, <2>7, <2>8, VisitMoves DEF VisitOK
<1> QED BY <1>2, <1>3, <1>4

\* A write of a datasource raises its revision: what requests and the pool know is
\* past, and no form of it is up to date any more.
LEMMA SourceRises ==
    ASSUME CatalogInv, NEW d \in Datasources, NEW new \in SourceRows, new # NoSource,
           new.revision = sources[d].revision + 1, new.status = "active" => new.checked,
           sources' = [sources EXCEPT ![d] = new]
    PROVE  /\ sources' \in [Datasources -> SourceRows]
           /\ \A c \in Datasources : sources'[c].status = "active" => sources'[c].checked
           /\ \A c \in Datasources : EntryOK(pool[c], sources'[c])
           /\ \A v \in Visits : VisitOK(visits[v], sources', templates)
<1>1. sources' \in [Datasources -> SourceRows] /\ sources'[d] = new
      /\ \A c \in Datasources : c # d => sources'[c] = sources[c]
    BY DEF CatalogInv
<1>2. \A c \in Datasources : sources[c].revision \in Nat
    BY RowFacts
<1>3. \A c \in Datasources : EntryOK(pool[c], sources'[c])
    <2>1. \A c \in Datasources : pool[c].revision \in Nat
        BY EmptyRows DEF CatalogInv, Entries
    <2> QED BY <1>1, <1>2, <2>1 DEF CatalogInv, EntryOK
<1>4. ASSUME NEW v \in Visits PROVE VisitOK(visits[v], sources', templates)
    <2> DEFINE x == visits[v]
    <2>1. /\ x \in VisitRecords /\ VisitShape(x) /\ VisitsSource(x, sources)
          /\ VisitsTemplate(x, templates)
        BY Knows
    <2>2. x.revision \in Nat /\ (x.row # NoSource => x.row.revision \in Nat)
        BY <2>1 DEF VisitRecords, SourceRows
    <2>3. x.step \in {"pool", "query"} => SourceIn(x) \in Datasources
        BY <2>1 DEF VisitShape
    <2> HIDE DEF x
    <2>4. VisitsSource(x, sources')
        <3>1. CASE x.op \in {"source", "test"}
            <4>1. x.id \in Datasources /\ sources[x.id] # NoSource /\ x.revision <= sources[x.id].revision
                BY <2>1, <3>1 DEF VisitsSource
            <4>2. sources'[x.id] # NoSource /\ sources'[x.id].revision >= sources[x.id].revision
                  /\ (sources'[x.id].revision = sources[x.id].revision => sources'[x.id] = sources[x.id])
                BY <1>1, <1>2, <4>1
            <4>3. SourceIn(x) = x.id
                BY <3>1 DEF SourceIn
            <4> QED BY <1>1, <1>2, <2>1, <2>2, <3>1, <4>1, <4>2, <4>3 DEF VisitsSource
        <3>2. CASE x.op \notin {"source", "test"}
            BY <1>1, <1>2, <2>1, <2>2, <2>3, <3>2 DEF VisitsSource
        <3> QED BY <3>1, <3>2
    <2> QED BY <2>1, <2>4 DEF VisitOK, x
<1> QED BY <1>1, <1>3, <1>4 DEF CatalogInv

LEMMA TemplateRises ==
    ASSUME CatalogInv, NEW r \in Reports, NEW new \in TemplateRows, new # NoTemplate,
           new.revision = templates[r].revision + 1, new.status = "active" => new.checked,
           templates' = [templates EXCEPT ![r] = new]
    PROVE  /\ templates' \in [Reports -> TemplateRows]
           /\ \A p \in Reports : templates'[p].status = "active" => templates'[p].checked
           /\ \A v \in Visits : VisitOK(visits[v], sources, templates')
<1>1. templates' \in [Reports -> TemplateRows] /\ templates'[r] = new
      /\ \A p \in Reports : p # r => templates'[p] = templates[p]
    BY DEF CatalogInv
<1>2. \A p \in Reports : templates[p].revision \in Nat
    BY RowFacts
<1>3. ASSUME NEW v \in Visits PROVE VisitOK(visits[v], sources, templates')
    <2> DEFINE x == visits[v]
    <2>1. /\ x \in VisitRecords /\ VisitShape(x) /\ VisitsSource(x, sources)
          /\ VisitsTemplate(x, templates)
        BY Knows
    <2>2. x.revision \in Nat /\ (x.op = "report" => x.id \in Reports)
        BY <2>1 DEF VisitRecords, VisitShape
    <2> HIDE DEF x
    <2>3. VisitsTemplate(x, templates')
        <3> SUFFICES ASSUME x.op = "report" PROVE VisitsTemplate(x, templates')
            BY DEF VisitsTemplate
        <3>1. x.id \in Reports /\ templates[x.id] # NoTemplate /\ x.revision <= templates[x.id].revision
            BY <2>1, <2>2 DEF VisitsTemplate
        <3>2. templates'[x.id] # NoTemplate /\ templates'[x.id].revision >= templates[x.id].revision
              /\ (templates'[x.id].revision = templates[x.id].revision
                      => templates'[x.id] = templates[x.id])
            BY <1>1, <1>2, <3>1
        <3>3. templates'[x.id].revision \in Nat
            BY <1>1, <1>2, <3>1
        <3> QED BY <1>2, <2>1, <2>2, <3>1, <3>2, <3>3 DEF VisitsTemplate
    <2> QED BY <2>1, <2>3 DEF VisitOK, x
<1> QED BY <1>1, <1>3 DEF CatalogInv

LEMMA WriteDatasourceStep ==
    ASSUME CatalogInv, NEW v \in Visits, WriteDatasource(v)
    PROVE  CatalogInv'
<1> DEFINE x == visits[v]
           row == sources[x.id]
           new == IF x.to = None THEN UpdatedDatasource(row, v) ELSE DatasourceWithStatus(row, v)
           y == [NoVisit EXCEPT !.op = "source", !.step = "invalidate", !.id = x.id]
<1>1. /\ x \in VisitRecords /\ VisitShape(x) /\ VisitsSource(x, sources)
      /\ VisitsTemplate(x, templates) /\ visits \in [Visits -> VisitRecords]
    BY Knows DEF CatalogInv
<1>2. x.step = "write" /\ x.op = "source" /\ UNCHANGED <<templates, granted, pool>>
    BY DEF WriteDatasource, At
<1>3. x.id \in Datasources /\ row # NoSource /\ row \in SourceRows
    BY <1>1, <1>2, RowFacts DEF VisitsSource
<1>4. CASE ~Writable(row, v)
    <2>1. Leaves(v) /\ UNCHANGED <<sources, templates, granted, pool>>
        BY <1>2, <1>4 DEF WriteDatasource
    <2> QED BY <2>1, VisitLeaves
<1>5. CASE Writable(row, v)
    <2>1. /\ row.revision < MaxRevision /\ row.revision = x.revision
          /\ sources' = [sources EXCEPT ![x.id] = new]
          /\ visits' = [visits EXCEPT ![v] = y]
        BY <1>5 DEF WriteDatasource, Writable
    <2>2. row \in [status : Statuses, revision : 1 .. MaxRevision, config : Configs, checked : BOOLEAN]
        BY <1>3 DEF SourceRows
    <2>3. new \in SourceRows /\ new # NoSource /\ new.revision = row.revision + 1
          /\ (new.status = "active" => new.checked)
        <3>1. CASE x.to = None
            <4>1. x.config \in Configs
                BY <1>1, <1>2, <3>1 DEF VisitShape
            <4>2. new = [row EXCEPT !.revision = row.revision + 1, !.config = x.config]
                BY <3>1, <2>2 DEF UpdatedDatasource
            <4>3. row.status = "active" => row.checked
                BY <1>3 DEF CatalogInv
            <4> HIDE DEF row, x, new
            <4>4. /\ new \in [status : Statuses, revision : 1 .. MaxRevision, config : Configs,
                              checked : BOOLEAN]
                  /\ new.revision = row.revision + 1 /\ new.status = row.status
                  /\ new.checked = row.checked
                <5>1. row.revision + 1 \in 1 .. MaxRevision
                    BY <2>1, <2>2, CatalogAssumption
                <5>2. new = [status |-> row.status, revision |-> row.revision + 1,
                             config |-> x.config, checked |-> row.checked]
                    BY <4>2, <2>2
                <5>3. row.status \in Statuses /\ row.checked \in BOOLEAN
                    BY <2>2
                <5> QED BY <4>1, <5>1, <5>2, <5>3
            <4> QED BY <4>3, <4>4, <2>2, EmptyRows DEF SourceRows
        <3>2. CASE x.to # None
            <4>1. x.to \in Statuses
                BY <1>1, <3>2 DEF VisitRecords
            <4>2. new = [row EXCEPT !.revision = row.revision + 1, !.status = x.to,
                                    !.checked = (x.handle = row.config)]
                BY <3>2, <2>2 DEF DatasourceWithStatus
            <4>3. x.to = "active" => x.handle = row.config
                BY <1>1, <1>2, <2>1 DEF VisitsSource
            <4> HIDE DEF row, x, new
            <4>4. /\ new \in [status : Statuses, revision : 1 .. MaxRevision, config : Configs,
                              checked : BOOLEAN]
                  /\ new.revision = row.revision + 1 /\ new.status = x.to
                  /\ new.checked = (x.handle = row.config)
                <5>1. row.revision + 1 \in 1 .. MaxRevision
                    BY <2>1, <2>2, CatalogAssumption
                <5>2. new = [status |-> x.to, revision |-> row.revision + 1,
                             config |-> row.config, checked |-> (x.handle = row.config)]
                    BY <4>2, <2>2
                <5>3. row.config \in Configs
                    BY <2>2
                <5> QED BY <4>1, <5>1, <5>2, <5>3
            <4> QED BY <4>3, <4>4, <2>2, EmptyRows DEF SourceRows
        <3> QED BY <3>1, <3>2
    <2> HIDE DEF new
    <2>4. /\ sources' \in [Datasources -> SourceRows]
          /\ \A c \in Datasources : sources'[c].status = "active" => sources'[c].checked
          /\ \A c \in Datasources : EntryOK(pool[c], sources'[c])
          /\ \A w \in Visits : VisitOK(visits[w], sources', templates)
        BY <1>3, <2>1, <2>3, SourceRises
    <2>5. y \in VisitRecords /\ y.op = "source" /\ y.step = "invalidate" /\ y.id = x.id
          /\ y.revision = 0
        BY <1>3, EmptyRows DEF NoVisit, VisitRecords
    <2>6. sources'[x.id] = new /\ new.revision \in Nat
        BY <1>3, <2>1, <2>2, <2>3 DEF CatalogInv
    <2> HIDE DEF x, y
    <2>7. VisitOK(y, sources', templates)
        BY <1>3, <2>3, <2>5, <2>6 DEF VisitOK, VisitShape, VisitsSource, VisitsTemplate, None
    <2>8. visits' \in [Visits -> VisitRecords] /\ visits'[v] = y
          /\ \A w \in Visits : w # v => visits'[w] = visits[w]
        BY <1>1, <2>1, <2>5
    <2>9. \A w \in Visits : VisitOK(visits'[w], sources', templates)
        BY <2>4, <2>7, <2>8
    <2>10. \A w \in Visits : visits'[w].step = "pool" =>
               EntryAgrees(pool[SourceIn(visits'[w])], visits'[w])
        BY <2>5, <2>8 DEF CatalogInv
    <2>11. \A w, z \in Visits : RowsAgree(visits'[w], visits'[z])
        <3> SUFFICES ASSUME NEW w \in Visits, NEW z \in Visits
                     PROVE  RowsAgree(visits'[w], visits'[z])
            OBVIOUS
        <3>1. RowsAgree(visits[w], visits[z])
            BY DEF CatalogInv
        <3>2. CASE w = v \/ z = v
            BY <2>5, <2>8, <3>2 DEF RowsAgree
        <3>3. CASE w # v /\ z # v
            BY <2>8, <3>1, <3>3
        <3> QED BY <3>2, <3>3
    <2> QED BY <1>2, <2>4, <2>8, <2>9, <2>10, <2>11 DEF CatalogInv
<1> QED BY <1>4, <1>5

LEMMA WriteTemplateStep ==
    ASSUME CatalogInv, NEW v \in Visits, WriteTemplate(v)
    PROVE  CatalogInv'
<1> DEFINE x == visits[v]
           row == templates[x.id]
           new == IF x.to = None THEN UpdatedTemplate(row, v) ELSE TemplateWithStatus(row, v)
<1>1. /\ x \in VisitRecords /\ VisitShape(x) /\ VisitsSource(x, sources)
      /\ VisitsTemplate(x, templates) /\ visits \in [Visits -> VisitRecords]
    BY Knows DEF CatalogInv
<1>2. x.step = "write" /\ x.op = "report" /\ UNCHANGED <<sources, granted, pool>> /\ Leaves(v)
    BY DEF WriteTemplate, At
<1>3. x.id \in Reports /\ row # NoTemplate /\ row \in TemplateRows
    BY <1>1, <1>2, RowFacts DEF VisitsTemplate, VisitShape
<1>4. CASE ~Writable(row, v)
    <2>1. UNCHANGED <<sources, templates, granted, pool>>
        BY <1>2, <1>4 DEF WriteTemplate
    <2> QED BY <1>2, <2>1, VisitLeaves
<1>5. CASE Writable(row, v)
    <2>1. /\ row.revision < MaxRevision /\ row.revision = x.revision
          /\ templates' = [templates EXCEPT ![x.id] = new]
        BY <1>5 DEF WriteTemplate, Writable
    <2>2. row \in [status : Statuses, revision : 1 .. MaxRevision, source : Datasources,
                   query : Queries, checked : BOOLEAN]
        BY <1>3 DEF TemplateRows
    <2>3. new \in TemplateRows /\ new # NoTemplate /\ new.revision = row.revision + 1
          /\ (new.status = "active" => new.checked)
        <3>1. row.revision + 1 \in 1 .. MaxRevision
            BY <2>1, <2>2, CatalogAssumption
        <3>2. /\ row.status \in Statuses /\ row.source \in Datasources /\ row.query \in Queries
              /\ row.status # None
            BY <2>2 DEF Statuses, None
        <3>3. CASE x.to = None
            <4>1. x.input.source \in Datasources /\ x.input.query \in Queries
                BY <1>1, <1>2, <3>3 DEF VisitShape
            <4>2. new = [status |-> row.status, revision |-> row.revision + 1,
                         source |-> x.input.source, query |-> x.input.query,
                         checked |-> (x.handle # None)]
                BY <2>2, <3>3 DEF UpdatedTemplate, Validated
            <4>3. row.status = "active" => x.handle # None
                BY <1>1, <1>2, <2>1, <3>3 DEF VisitsTemplate
            <4> HIDE DEF row, x, new
            <4>4. /\ new \in [status : Statuses, revision : 1 .. MaxRevision, source : Datasources,
                              query : Queries, checked : BOOLEAN]
                  /\ new.revision = row.revision + 1 /\ new.status = row.status
                  /\ new.checked = (x.handle # None)
                BY <3>1, <3>2, <4>1, <4>2
            <4> QED BY <3>2, <4>3, <4>4, EmptyRows DEF TemplateRows
        <3>4. CASE x.to # None
            <4>1. x.to \in Statuses
                BY <1>1, <3>4 DEF VisitRecords
            <4>2. new = [status |-> x.to, revision |-> row.revision + 1,
                         source |-> row.source, query |-> row.query,
                         checked |-> /\ x.handle # None /\ x.input.source = row.source
                                     /\ x.input.query = row.query]
                BY <2>2, <3>4 DEF TemplateWithStatus, Validated
            <4>3. x.to = "active" => /\ x.handle # None /\ x.input.source = row.source
                                     /\ x.input.query = row.query
                BY <1>1, <1>2, <2>1 DEF VisitsTemplate
            <4> HIDE DEF row, x, new
            <4>4. /\ new \in [status : Statuses, revision : 1 .. MaxRevision, source : Datasources,
                              query : Queries, checked : BOOLEAN]
                  /\ new.revision = row.revision + 1 /\ new.status = x.to
                  /\ new.checked = (/\ x.handle # None /\ x.input.source = row.source
                                    /\ x.input.query = row.query)
                BY <3>1, <3>2, <4>1, <4>2
            <4> QED BY <3>4, <4>3, <4>4, EmptyRows DEF TemplateRows
        <3> QED BY <3>3, <3>4
    <2> HIDE DEF new
    <2>4. /\ templates' \in [Reports -> TemplateRows]
          /\ \A p \in Reports : templates'[p].status = "active" => templates'[p].checked
          /\ \A w \in Visits : VisitOK(visits[w], sources, templates')
        BY <1>3, <2>1, <2>3, TemplateRises
    <2>5. visits' \in [Visits -> VisitRecords] /\ visits'[v] = NoVisit
          /\ \A w \in Visits : w # v => visits'[w] = visits[w]
        BY <1>1, <1>2, EmptyRows DEF Leaves
    <2>6. \A w \in Visits : VisitOK(visits'[w], sources, templates')
        BY <2>4, <2>5, EmptyVisit
    <2>7. NoVisit.step # "pool"
        BY EmptyRows DEF None
    <2>8. \A w \in Visits : visits'[w].step = "pool" =>
              EntryAgrees(pool[SourceIn(visits'[w])], visits'[w])
        BY <2>5, <2>7 DEF CatalogInv
    <2>9. \A w, z \in Visits : RowsAgree(visits'[w], visits'[z])
        <3> SUFFICES ASSUME NEW w \in Visits, NEW z \in Visits
                     PROVE  RowsAgree(visits'[w], visits'[z])
            OBVIOUS
        <3>1. RowsAgree(visits[w], visits[z])
            BY DEF CatalogInv
        <3>2. CASE w = v \/ z = v
            BY <2>5, <2>7, <3>2 DEF RowsAgree
        <3>3. CASE w # v /\ z # v
            BY <2>5, <3>1, <3>3
        <3> QED BY <3>2, <3>3
    <2> QED BY <1>2, <2>4, <2>5, <2>6, <2>8, <2>9 DEF CatalogInv
<1> QED BY <1>4, <1>5

LEMMA NoEntryFits ==
    ASSUME CatalogInv, NEW d \in Datasources
    PROVE  /\ NoEntry \in Entries /\ EntryOK(NoEntry, sources[d])
           /\ \A v \in Visits : visits[v].step = "pool" => EntryAgrees(NoEntry, visits[v])
<1>1. NoEntry \in Entries /\ EntryOK(NoEntry, sources[d])
    BY EmptyRows, RowFacts DEF Entries, EntryOK, SourceRows
<1>2. ASSUME NEW v \in Visits, visits[v].step = "pool" PROVE EntryAgrees(NoEntry, visits[v])
    <2>1. visits[v].row # NoSource /\ visits[v].row \in SourceRows
        BY <1>2, Knows DEF VisitsSource, VisitRecords
    <2>2. visits[v].row.revision >= 1
        BY <2>1, CatalogAssumption DEF SourceRows
    <2> QED BY <2>2, EmptyRows DEF EntryAgrees
<1> QED BY <1>1, <1>2

LEMMA PoolEmptied ==
    ASSUME CatalogInv, NEW v \in Visits, Invalidate(v)
    PROVE  CatalogInv'
<1> DEFINE d == visits[v].id
<1>1. visits[v].step = "invalidate" /\ Leaves(v) /\ UNCHANGED <<sources, templates, granted>>
      /\ pool' = [pool EXCEPT ![d] = NoEntry]
    BY DEF Invalidate, At
<1>2. d \in Datasources
    BY <1>1, Knows DEF VisitShape, VisitsSource, VisitRecords, NoVisit, None
<1> HIDE DEF d
<1>3. visits' \in [Visits -> VisitRecords] /\ visits'[v] = NoVisit
      /\ \A w \in Visits : w # v => visits'[w] = visits[w]
    BY <1>1, EmptyRows DEF Leaves, CatalogInv
<1>4. pool' \in [Datasources -> Entries] /\ pool'[d] = NoEntry
      /\ \A c \in Datasources : c # d => pool'[c] = pool[c]
    BY <1>1, <1>2, NoEntryFits DEF CatalogInv
<1>5. \A c \in Datasources : EntryOK(pool'[c], sources[c])
    BY <1>4, NoEntryFits DEF CatalogInv
<1>6. NoVisit.step # "pool"
    BY EmptyRows DEF None
<1>7. \A w \in Visits : visits'[w].step = "pool" =>
          EntryAgrees(pool'[SourceIn(visits'[w])], visits'[w])
    <2> SUFFICES ASSUME NEW w \in Visits, visits'[w].step = "pool"
                 PROVE  EntryAgrees(pool'[SourceIn(visits'[w])], visits'[w])
        OBVIOUS
    <2>1. visits'[w] = visits[w] /\ visits[w].step = "pool"
        BY <1>3, <1>6
    <2>2. SourceIn(visits[w]) \in Datasources
        BY <2>1, Knows DEF VisitShape
    <2>3. EntryAgrees(pool[SourceIn(visits[w])], visits[w])
        BY <2>1 DEF CatalogInv
    <2> QED BY <1>2, <1>4, <2>1, <2>2, <2>3, NoEntryFits
<1>8. \A w \in Visits : VisitOK(visits'[w], sources, templates)
    BY <1>3, EmptyVisit DEF CatalogInv
<1>9. \A w, z \in Visits : RowsAgree(visits'[w], visits'[z])
    <2> SUFFICES ASSUME NEW w \in Visits, NEW z \in Visits
                 PROVE  RowsAgree(visits'[w], visits'[z])
        OBVIOUS
    <2>1. RowsAgree(visits[w], visits[z])
        BY DEF CatalogInv
    <2>2. CASE w = v \/ z = v
        BY <1>3, <1>6, <2>2 DEF RowsAgree
    <2>3. CASE w # v /\ z # v
        BY <1>3, <2>1, <2>3
    <2> QED BY <2>2, <2>3
<1> QED BY <1>1, <1>3, <1>4, <1>5, <1>7, <1>8, <1>9 DEF CatalogInv

LEMMA CloseStep ==
    ASSUME CatalogInv, Close
    PROVE  CatalogInv'
<1>1. /\ pool' = [d \in Datasources |-> NoEntry] /\ visits' = [v \in Visits |-> NoVisit]
      /\ UNCHANGED <<sources, templates, granted>>
    BY DEF Close
<1>2. NoVisit \in VisitRecords /\ NoVisit.step # "pool"
    BY EmptyRows DEF None
<1>3. \A w \in Visits : VisitOK(visits'[w], sources, templates)
    BY <1>1, EmptyVisit
<1>4. \A w, z \in Visits : RowsAgree(visits'[w], visits'[z])
    BY <1>1, <1>2 DEF RowsAgree
<1>5. \A d \in Datasources : EntryOK(pool'[d], sources[d]) /\ pool'[d] \in Entries
    BY <1>1, NoEntryFits
<1> QED BY <1>1, <1>2, <1>3, <1>4, <1>5 DEF CatalogInv

LEMMA CreateSteps ==
    ASSUME CatalogInv,
           \/ \E d \in Datasources, c \in Configs : CreateDatasource(d, c)
           \/ \E r \in Reports, d \in Datasources, q \in Queries : CreateTemplate(r, d, q)
           \/ \E r \in Reports, u \in Readers : SetAccess(r, u)
    PROVE  CatalogInv'
<1>1. ASSUME NEW d \in Datasources, NEW c \in Configs, CreateDatasource(d, c) PROVE CatalogInv'
    <2> DEFINE new == [NoSource EXCEPT !.status = "disabled", !.revision = 1, !.config = c]
    <2>1. sources[d] = NoSource /\ sources' = [sources EXCEPT ![d] = new]
          /\ UNCHANGED <<templates, granted, pool, visits>>
        BY <1>1 DEF CreateDatasource
    <2>2. /\ new \in [status : Statuses, revision : 1 .. MaxRevision, config : Configs,
                      checked : BOOLEAN]
          /\ new.status = "disabled" /\ new.revision = 1
        <3>1. /\ new \in [status : {"disabled"}, revision : {1}, config : Configs, checked : {FALSE}]
              /\ new.status = "disabled" /\ new.revision = 1
            BY DEF NoSource
        <3>2. 1 \in 1 .. MaxRevision /\ "disabled" \in Statuses
            BY CatalogAssumption DEF Statuses
        <3> HIDE DEF new
        <3> QED BY <3>1, <3>2
    <2> HIDE DEF new
    <2>3. new \in SourceRows /\ new # NoSource /\ new.revision = sources[d].revision + 1
          /\ (new.status = "active" => new.checked)
        BY <2>1, <2>2, EmptyRows DEF SourceRows
    <2>4. /\ sources' \in [Datasources -> SourceRows]
          /\ \A b \in Datasources : sources'[b].status = "active" => sources'[b].checked
          /\ \A b \in Datasources : EntryOK(pool[b], sources'[b])
          /\ \A w \in Visits : VisitOK(visits[w], sources', templates)
        BY <2>1, <2>3, SourceRises
    <2> QED BY <2>1, <2>4 DEF CatalogInv
<1>2. ASSUME NEW r \in Reports, NEW d \in Datasources, NEW q \in Queries, CreateTemplate(r, d, q)
      PROVE  CatalogInv'
    <2> DEFINE new == [NoTemplate EXCEPT !.status = "disabled", !.revision = 1, !.source = d,
                                         !.query = q]
    <2>1. templates[r] = NoTemplate /\ templates' = [templates EXCEPT ![r] = new]
          /\ UNCHANGED <<sources, granted, pool, visits>>
        BY <1>2 DEF CreateTemplate
    <2>2. /\ new \in [status : Statuses, revision : 1 .. MaxRevision, source : Datasources,
                      query : Queries, checked : BOOLEAN]
          /\ new.status = "disabled" /\ new.revision = 1
        <3>1. /\ new \in [status : {"disabled"}, revision : {1}, source : Datasources,
                          query : Queries, checked : {FALSE}]
              /\ new.status = "disabled" /\ new.revision = 1
            BY DEF NoTemplate
        <3>2. 1 \in 1 .. MaxRevision /\ "disabled" \in Statuses
            BY CatalogAssumption DEF Statuses
        <3> HIDE DEF new
        <3> QED BY <3>1, <3>2
    <2> HIDE DEF new
    <2>3. new \in TemplateRows /\ new # NoTemplate /\ new.revision = templates[r].revision + 1
          /\ (new.status = "active" => new.checked)
        BY <2>1, <2>2, EmptyRows DEF TemplateRows
    <2>4. /\ templates' \in [Reports -> TemplateRows]
          /\ \A p \in Reports : templates'[p].status = "active" => templates'[p].checked
          /\ \A w \in Visits : VisitOK(visits[w], sources, templates')
        BY <2>1, <2>3, TemplateRises
    <2> QED BY <2>1, <2>4 DEF CatalogInv
<1>3. ASSUME NEW r \in Reports, NEW u \in Readers, SetAccess(r, u) PROVE CatalogInv'
    <2>1. granted' \subseteq Reports \X Readers
        BY <1>3 DEF SetAccess, CatalogInv
    <2> QED BY <1>3, <2>1 DEF SetAccess, CatalogInv
<1> QED BY <1>1, <1>2, <1>3

LEMMA CatalogInvariance == CatalogSpec => []CatalogInv
<1>1. CatalogInit => CatalogInv
    <2> SUFFICES ASSUME CatalogInit PROVE CatalogInv
        OBVIOUS
    <2> USE DEF CatalogInit
    <2>1. NoSource \in SourceRows /\ NoTemplate \in TemplateRows /\ NoEntry \in Entries
        BY DEF SourceRows, TemplateRows, Entries
    <2>2. NoVisit \in VisitRecords /\ NoVisit.step # "pool" /\ NoTemplate.status # "active"
          /\ NoSource.status # "active"
        BY EmptyRows DEF None
    <2>3. EntryOK(NoEntry, NoSource)
        BY EmptyRows DEF EntryOK
    <2>4. \A v \in Visits : VisitOK(visits[v], sources, templates)
        BY EmptyVisit
    <2>5. \A v, w \in Visits : RowsAgree(visits[v], visits[w])
        BY <2>2 DEF RowsAgree
    <2> QED BY <2>1, <2>2, <2>3, <2>4, <2>5 DEF CatalogInv
<1>2. CatalogInv /\ [CatalogNext]_catalogVars => CatalogInv'
    <2> SUFFICES ASSUME CatalogInv, [CatalogNext]_catalogVars PROVE CatalogInv'
        OBVIOUS
    <2>1. CASE UNCHANGED catalogVars
        BY <2>1 DEF catalogVars, CatalogInv
    <2> QED BY <2>1, CreateSteps, FormSteps, FindTemplateStep, HasAccessStep, FindDatasourceStep,
               DatabaseStep, QueryStep, WriteDatasourceStep, WriteTemplateStep, PoolEmptied,
               CloseStep DEF CatalogNext
<1> QED BY <1>1, <1>2, PTL DEF CatalogSpec

LEMMA CatalogInvImplies == CatalogInv => CatalogSafety
<1> SUFFICES ASSUME CatalogInv PROVE CatalogSafety
    OBVIOUS
<1>1. CatalogTypeOK
    <2>1. \A d \in Datasources : pool[d].config \in Configs \cup {None}
        BY EmptyRows DEF CatalogInv, Entries
    <2> QED BY <2>1, RowFacts DEF CatalogTypeOK, CatalogInv
<1>2. HandleIsOfRowRead
    BY Knows DEF HandleIsOfRowRead, At, VisitsSource
<1> QED BY <1>1, <1>2 DEF CatalogSafety, CatalogInv, ActiveReportWasValidated, ActivatedAsTested

-----------------------------------------------------------------------------
(* ReportShelf *)

FolderRecords == [owner : Owners \cup {Nothing}, name : Names \cup {Nothing}, deleted : BOOLEAN]
PreferenceRecords == [folder : Folders \cup {Nothing}, starred : BOOLEAN]
EditRecords ==
    [op : {Nothing, "rename", "delete", "move"}, owner : Owners \cup {Nothing},
     report : Shown \cup {Nothing}, folder : Folders \cup {Nothing}, name : Names \cup {Nothing}]

\* What a transaction holds locked is its user's.
EditOK(x, F) ==
    /\ x \in EditRecords
    /\ x.op \in {"rename", "delete"} => x.folder \in Folders
    /\ x.op = "rename" => x.name \in Names
    /\ x.op = "move" => x.owner \in Owners /\ x.report \in Shown
    /\ x.folder # Nothing => x.owner \in Owners /\ F[x.folder].owner = x.owner

\* Reports are filed in folders of their user; a user's folders differ in name.
FiledOK(P, F) ==
    \A p \in Owners \X Shown : P[p].folder # Nothing => F[P[p].folder].owner = p[1]

NamesOK(F) ==
    \A f, g \in Folders :
        F[f].owner = F[g].owner /\ F[f].name = F[g].name => f = g \/ F[f].owner = Nothing

ShelfInv ==
    /\ folders \in [Folders -> FolderRecords]
    /\ preferences \in [Owners \X Shown -> PreferenceRecords]
    /\ edits \in [Edits -> EditRecords]
    /\ \A e \in Edits : EditOK(edits[e], folders)
    /\ \A d, e \in Edits : edits[d].folder = edits[e].folder => d = e \/ edits[d].folder = Nothing
    /\ FiledOK(preferences, folders) /\ NamesOK(folders)

LEMMA EmptyShelf ==
    /\ NoFolder \in FolderRecords /\ NoFolder.owner = Nothing
    /\ NoPreference \in PreferenceRecords /\ NoPreference.folder = Nothing
    /\ NoEdit \in EditRecords /\ NoEdit.folder = Nothing
    /\ \A F : EditOK(NoEdit, F)
<1>1. /\ NoFolder \in FolderRecords /\ NoFolder.owner = Nothing
      /\ NoPreference \in PreferenceRecords /\ NoPreference.folder = Nothing
    BY DEF NoFolder, NoPreference, FolderRecords, PreferenceRecords
<1>2. NoEdit \in EditRecords /\ NoEdit.folder = Nothing /\ NoEdit.op = Nothing
    BY DEF NoEdit, EditRecords
<1> QED BY <1>1, <1>2 DEF EditOK, Nothing

\* A transaction begins.
LEMMA BeginsStep ==
    ASSUME ShelfInv, NEW e \in Edits, NEW x, Begins(e, x), EditOK(x, folders),
           x.folder # Nothing => \A d \in Edits : edits[d].folder # x.folder
    PROVE  ShelfInv'
<1>1. edits' = [edits EXCEPT ![e] = x] /\ UNCHANGED <<folders, preferences, visible>>
    BY DEF Begins
<1>2. edits' \in [Edits -> EditRecords] /\ edits'[e] = x
      /\ \A d \in Edits : d # e => edits'[d] = edits[d]
    BY <1>1 DEF ShelfInv, EditOK
<1>3. \A d \in Edits : EditOK(edits'[d], folders)
    BY <1>2 DEF ShelfInv
<1>4. \A d, c \in Edits : edits'[d].folder = edits'[c].folder => d = c \/ edits'[d].folder = Nothing
    BY <1>2 DEF ShelfInv
<1> QED BY <1>1, <1>2, <1>3, <1>4 DEF ShelfInv

\* A transaction ends and leaves the folders F and the preferences P.
LEMMA EndsStep ==
    ASSUME ShelfInv, NEW e \in Edits, Ends(e),
           folders' \in [Folders -> FolderRecords],
           preferences' \in [Owners \X Shown -> PreferenceRecords],
           \A f \in Folders : f # edits[e].folder => folders'[f].owner = folders[f].owner,
           FiledOK(preferences', folders'), NamesOK(folders')
    PROVE  ShelfInv'
<1>1. edits' \in [Edits -> EditRecords] /\ edits'[e] = NoEdit
      /\ \A d \in Edits : d # e => edits'[d] = edits[d]
    BY EmptyShelf DEF Ends, ShelfInv
<1>2. ASSUME NEW d \in Edits PROVE EditOK(edits'[d], folders')
    <2>1. CASE d = e
        BY <1>1, <2>1, EmptyShelf
    <2>2. CASE d # e
        <3>1. EditOK(edits[d], folders) /\ edits[d] \in EditRecords
            BY DEF ShelfInv
        <3>2. edits[d].folder # Nothing => edits[d].folder \in Folders /\ edits[d].folder # edits[e].folder
            BY <2>2, <3>1 DEF ShelfInv, EditRecords
        <3> QED BY <1>1, <2>2, <3>1, <3>2 DEF EditOK
    <2> QED BY <2>1, <2>2
<1>3. \A d, c \in Edits : edits'[d].folder = edits'[c].folder => d = c \/ edits'[d].folder = Nothing
    BY <1>1, EmptyShelf DEF ShelfInv
<1> QED BY <1>1, <1>2, <1>3 DEF ShelfInv

LEMMA LockSteps ==
    ASSUME ShelfInv, NEW e \in Edits, NEW u \in Owners,
           \/ \E f \in Folders, n \in Names : RenameUserReportFolder(e, u, f, n)
           \/ \E f \in Folders : DeleteUserReportFolder(e, u, f)
           \/ \E r \in Shown, f \in Folders \cup {Nothing} : MoveReportToFolder(e, u, r, f)
    PROVE  ShelfInv'
<1>1. ASSUME NEW f \in Folders, NEW n \in Names, RenameUserReportFolder(e, u, f, n)
      PROVE  ShelfInv'
    <2> DEFINE x == [NoEdit EXCEPT !.op = "rename", !.owner = u, !.folder = f, !.name = n]
    <2>1. x \in EditRecords /\ x.op = "rename" /\ x.owner = u /\ x.folder = f /\ x.name = n
        BY DEF NoEdit, EditRecords
    <2>2. Begins(e, x) /\ folders[f].owner = u /\ \A d \in Edits : edits[d].folder # f
        BY <1>1 DEF RenameUserReportFolder, lockUserFolder
    <2> HIDE DEF x
    <2> QED BY <2>1, <2>2, BeginsStep DEF EditOK
<1>2. ASSUME NEW f \in Folders, DeleteUserReportFolder(e, u, f) PROVE ShelfInv'
    <2> DEFINE x == [NoEdit EXCEPT !.op = "delete", !.owner = u, !.folder = f]
    <2>1. x \in EditRecords /\ x.op = "delete" /\ x.owner = u /\ x.folder = f
        BY DEF NoEdit, EditRecords
    <2>2. Begins(e, x) /\ folders[f].owner = u /\ \A d \in Edits : edits[d].folder # f
        BY <1>2 DEF DeleteUserReportFolder, lockUserFolder
    <2> HIDE DEF x
    <2> QED BY <2>1, <2>2, BeginsStep DEF EditOK
<1>3. ASSUME NEW r \in Shown, NEW f \in Folders \cup {Nothing}, MoveReportToFolder(e, u, r, f)
      PROVE  ShelfInv'
    <2> DEFINE x == [NoEdit EXCEPT !.op = "move", !.owner = u, !.report = r, !.folder = f]
    <2>1. x \in EditRecords /\ x.op = "move" /\ x.owner = u /\ x.report = r /\ x.folder = f
        BY DEF NoEdit, EditRecords
    <2>2. /\ Begins(e, x)
          /\ f # Nothing => folders[f].owner = u /\ \A d \in Edits : edits[d].folder # f
        BY <1>3 DEF MoveReportToFolder, lockUserFolder
    <2> HIDE DEF x
    <2> QED BY <2>1, <2>2, BeginsStep DEF EditOK
<1> QED BY <1>1, <1>2, <1>3

LEMMA CommitSteps ==
    ASSUME ShelfInv, NEW e \in Edits,
           CommitRename(e) \/ CommitDelete(e) \/ CommitMove(e) \/ Rollback(e)
    PROVE  ShelfInv'
<1> DEFINE x == edits[e]
           f == x.folder
<1>1. EditOK(x, folders) /\ x \in EditRecords
    BY DEF ShelfInv
<1>2. folders \in [Folders -> FolderRecords] /\ preferences \in [Owners \X Shown -> PreferenceRecords]
    BY DEF ShelfInv
<1>3. Nothing \notin Owners /\ Nothing \notin Folders
    BY ShelfAssumption
<1>4. CASE CommitRename(e)
    <2>1. f \in Folders /\ x.name \in Names /\ folders[f].owner = x.owner /\ x.owner \in Owners
        BY <1>1, <1>3, <1>4 DEF CommitRename, EditOK
    <2>2. CASE Taken(x.owner, x.name)
        <3>1. Ends(e) /\ UNCHANGED <<folders, preferences>>
            BY <1>4, <2>2 DEF CommitRename
        <3>2. FiledOK(preferences', folders') /\ NamesOK(folders')
            BY <3>1 DEF ShelfInv
        <3> QED BY <1>2, <3>1, <3>2, EndsStep
    <2>3. CASE ~Taken(x.owner, x.name)
        <3>1. /\ Ends(e) /\ UNCHANGED preferences
              /\ folders' = [folders EXCEPT ![f].name = x.name]
            BY <1>4, <2>3 DEF CommitRename
        <3> HIDE DEF x, f
        <3>2. /\ folders' \in [Folders -> FolderRecords]
              /\ folders'[f].owner = folders[f].owner /\ folders'[f].name = x.name
              /\ \A g \in Folders : g # f => folders'[g] = folders[g]
            BY <1>2, <2>1, <3>1 DEF FolderRecords
        <3>3. \A g \in Folders : folders'[g].owner = folders[g].owner
            BY <2>1, <3>2
        <3>4. FiledOK(preferences', folders')
            BY <1>2, <3>1, <3>3 DEF FiledOK, ShelfInv, PreferenceRecords
        <3>5. \A g \in Folders : ~(folders[g].owner = x.owner /\ folders[g].name = x.name)
            BY <2>3 DEF Taken
        <3>6. NamesOK(folders')
            BY <2>1, <3>2, <3>3, <3>5 DEF NamesOK, ShelfInv
        <3> QED BY <1>2, <3>1, <3>2, <3>3, <3>4, <3>6, EndsStep
    <2> QED BY <2>2, <2>3
<1>5. CASE CommitDelete(e)
    <2>1. f \in Folders /\ folders[f].owner = x.owner /\ x.owner \in Owners
        BY <1>1, <1>3, <1>5 DEF CommitDelete, EditOK
    <2> DEFINE gone == [NoFolder EXCEPT !.deleted = TRUE]
    <2>2. /\ Ends(e)
          /\ folders' = [folders EXCEPT ![f] = gone]
          /\ preferences' = [p \in Owners \X Shown |->
                 IF p[1] = x.owner /\ preferences[p].folder = f
                   THEN [preferences[p] EXCEPT !.folder = Nothing] ELSE preferences[p]]
        BY <1>2, <1>5 DEF CommitDelete
    <2>3. gone \in FolderRecords /\ gone.owner = Nothing
        BY DEF NoFolder, FolderRecords
    <2> HIDE DEF gone, x, f
    <2>4. /\ folders' \in [Folders -> FolderRecords] /\ folders'[f].owner = Nothing
          /\ \A g \in Folders : g # f => folders'[g] = folders[g]
        BY <1>2, <2>1, <2>2, <2>3
    <2>5. \A p \in Owners \X Shown : preferences[p] \in PreferenceRecords
        BY <1>2
    <2>6. \A p \in Owners \X Shown :
              /\ preferences'[p] \in PreferenceRecords
              /\ preferences'[p].folder = IF p[1] = x.owner /\ preferences[p].folder = f
                                            THEN Nothing ELSE preferences[p].folder
        BY <2>2, <2>5 DEF PreferenceRecords
    <2>7. preferences' \in [Owners \X Shown -> PreferenceRecords]
        BY <2>2, <2>6
    <2>8. FiledOK(preferences', folders')
        <3> SUFFICES ASSUME NEW p \in Owners \X Shown, preferences'[p].folder # Nothing
                     PROVE  folders'[preferences'[p].folder].owner = p[1]
            BY DEF FiledOK
        <3>1. /\ preferences'[p].folder = preferences[p].folder
              /\ ~(p[1] = x.owner /\ preferences[p].folder = f)
            BY <2>6
        <3>2. /\ preferences[p].folder \in Folders
              /\ folders[preferences[p].folder].owner = p[1]
            BY <2>5, <3>1 DEF ShelfInv, FiledOK, PreferenceRecords
        <3> QED BY <2>1, <2>4, <3>1, <3>2
    <2>9. NamesOK(folders')
        BY <2>4 DEF NamesOK, ShelfInv
    <2> QED BY <2>2, <2>4, <2>7, <2>8, <2>9, EndsStep DEF x, f
<1>6. CASE CommitMove(e)
    <2>1. /\ x.owner \in Owners /\ x.report \in Shown /\ f \in Folders \cup {Nothing}
          /\ f # Nothing => folders[f].owner = x.owner
        BY <1>1, <1>6 DEF CommitMove, EditOK, EditRecords
    <2> DEFINE q == <<x.owner, x.report>>
    <2>2. /\ Ends(e) /\ UNCHANGED folders
          /\ preferences' = [preferences EXCEPT ![q].folder = f]
        BY <1>6 DEF CommitMove
    <2>3. q \in Owners \X Shown /\ q[1] = x.owner
        BY <2>1
    <2> HIDE DEF q, x, f
    <2>4. /\ preferences' \in [Owners \X Shown -> PreferenceRecords]
          /\ preferences'[q].folder = f
          /\ \A p \in Owners \X Shown : p # q => preferences'[p] = preferences[p]
        BY <1>2, <2>1, <2>2, <2>3 DEF PreferenceRecords
    <2>5. FiledOK(preferences', folders')
        BY <2>1, <2>2, <2>3, <2>4 DEF FiledOK, ShelfInv
    <2>6. NamesOK(folders')
        BY <2>2 DEF ShelfInv
    <2> QED BY <1>2, <2>2, <2>4, <2>5, <2>6, EndsStep
<1>7. CASE Rollback(e)
    <2>1. Ends(e) /\ UNCHANGED <<folders, preferences>>
        BY <1>7 DEF Rollback
    <2>2. FiledOK(preferences', folders') /\ NamesOK(folders')
        BY <2>1 DEF ShelfInv
    <2> QED BY <1>2, <2>1, <2>2, EndsStep
<1> QED BY <1>4, <1>5, <1>6, <1>7

LEMMA ShelfWithoutLock ==
    ASSUME ShelfInv, NEW u \in Owners,
           \/ \E r \in Shown : SetVisible(u, r) \/ SetReportStarred(u, r)
           \/ \E f \in Folders, n \in Names : CreateUserReportFolder(u, f, n)
    PROVE  ShelfInv'
<1>1. folders \in [Folders -> FolderRecords] /\ preferences \in [Owners \X Shown -> PreferenceRecords]
    BY DEF ShelfInv
<1>2. ASSUME NEW r \in Shown, SetVisible(u, r) PROVE ShelfInv'
    BY <1>2 DEF SetVisible, ShelfInv
<1>3. ASSUME NEW r \in Shown, SetReportStarred(u, r) PROVE ShelfInv'
    <2>1. PICK s \in BOOLEAN : preferences' = [preferences EXCEPT ![<<u, r>>].starred = s]
        BY <1>3 DEF SetReportStarred
    <2>2. UNCHANGED <<folders, edits>>
        BY <1>3 DEF SetReportStarred
    <2>3. \A p \in Owners \X Shown : preferences[p] \in PreferenceRecords
        BY <1>1
    <2>4. preferences' \in [Owners \X Shown -> PreferenceRecords]
        BY <1>1, <2>1 DEF PreferenceRecords
    <2>5. \A p \in Owners \X Shown : preferences'[p].folder = preferences[p].folder
        BY <1>1, <2>1, <2>3 DEF PreferenceRecords
    <2>6. FiledOK(preferences', folders)
        BY <2>5 DEF ShelfInv, FiledOK
    <2> QED BY <2>2, <2>4, <2>6 DEF ShelfInv
<1>4. ASSUME NEW f \in Folders, NEW n \in Names, CreateUserReportFolder(u, f, n) PROVE ShelfInv'
    <2> DEFINE new == [NoFolder EXCEPT !.owner = u, !.name = n]
    <2>1. /\ folders[f] = NoFolder /\ ~Taken(u, n) /\ folders' = [folders EXCEPT ![f] = new]
          /\ UNCHANGED <<preferences, edits>>
        BY <1>4 DEF CreateUserReportFolder
    <2>2. new \in FolderRecords /\ new.owner = u /\ new.name = n
        BY DEF NoFolder, FolderRecords
    <2> HIDE DEF new
    <2>3. folders' \in [Folders -> FolderRecords] /\ folders'[f] = new
          /\ \A g \in Folders : g # f => folders'[g] = folders[g]
        BY <1>1, <2>1, <2>2
    <2>4. Nothing \notin Owners
        BY ShelfAssumption
    <2>5. folders[f].owner = Nothing
        BY <2>1, EmptyShelf
    <2>6. ASSUME NEW p \in Owners \X Shown, preferences[p].folder # Nothing
          PROVE  folders'[preferences[p].folder].owner = p[1]
        <3>1. preferences[p].folder \in Folders /\ folders[preferences[p].folder].owner = p[1]
            BY <1>1, <2>6 DEF ShelfInv, FiledOK, PreferenceRecords
        <3>2. preferences[p].folder # f
            BY <2>4, <2>5, <3>1
        <3> QED BY <2>3, <3>1, <3>2
    <2>7. NamesOK(folders')
        BY <2>1, <2>2, <2>3 DEF NamesOK, ShelfInv, Taken
    <2>8. ASSUME NEW e \in Edits PROVE EditOK(edits[e], folders')
        <3>1. EditOK(edits[e], folders) /\ edits[e] \in EditRecords
            BY DEF ShelfInv
        <3>2. edits[e].folder # f
            BY <2>4, <2>5, <3>1, ShelfAssumption DEF EditOK
        <3>3. edits[e].folder # Nothing => folders'[edits[e].folder] = folders[edits[e].folder]
            BY <2>3, <3>1, <3>2 DEF EditRecords
        <3> QED BY <3>1, <3>3 DEF EditOK
    <2>9. FiledOK(preferences', folders')
        BY <2>1, <2>6 DEF FiledOK
    <2> QED BY <2>1, <2>3, <2>7, <2>8, <2>9 DEF ShelfInv
<1> QED BY <1>2, <1>3, <1>4

LEMMA ShelfInvariance == ShelfSpec => []ShelfInv
<1>1. ShelfInit => ShelfInv
    <2> SUFFICES ASSUME ShelfInit PROVE ShelfInv
        OBVIOUS
    <2>1. FiledOK(preferences, folders) /\ NamesOK(folders)
        BY EmptyShelf DEF ShelfInit, FiledOK, NamesOK
    <2> QED BY <2>1, EmptyShelf DEF ShelfInit, ShelfInv
<1>2. ShelfInv /\ [ShelfNext]_shelfVars => ShelfInv'
    <2> SUFFICES ASSUME ShelfInv, [ShelfNext]_shelfVars PROVE ShelfInv'
        OBVIOUS
    <2>1. CASE UNCHANGED shelfVars
        BY <2>1 DEF shelfVars, ShelfInv
    <2> QED BY <2>1, ShelfWithoutLock, LockSteps, CommitSteps DEF ShelfNext
<1> QED BY <1>1, <1>2, PTL DEF ShelfSpec

\* reporting/service.go SetTemplateStatus, UpdateTemplate, SetDatasourceStatus, pool.go
\* Database and organization.go: for any number of requests, revisions and users, an
\* active report has the query and the datasource that were validated together, an
\* active datasource became active with the settings its test had connected with
\* (UpdateDatasource may have given it others since), queries run with the settings
\* their request has read, and reports are filed in folders of their user.
THEOREM ReportSafetyHolds == CatalogSpec /\ ShelfSpec => []ReportSafety
<1>1. ShelfInv => ShelfSafety
    BY DEF ShelfInv, ShelfSafety, FiledOK, NamesOK
<1>2. CatalogInv /\ ShelfInv => ReportSafety
    BY <1>1, CatalogInvImplies DEF ReportSafety
<1> QED BY <1>2, CatalogInvariance, ShelfInvariance, PTL

-----------------------------------------------------------------------------
(***************************************************************************)
(* Exports.  An attempt is known by its file, and no two attempts under    *)
(* way have the same one.  What the cleanup lists is nobody's file then,   *)
(* and stays so: a file becomes an attempt's only when the attempt is      *)
(* made, and an artifact only from an attempt that is about to succeed.    *)
(***************************************************************************)
ExportPcs == {"idle", "start", "stream", "publish", "succeed", "done", "lost", "undo", "fail"}
ExporterRecords ==
    [pc : ExportPcs, job : ExportJobs \cup {Nobody}, attempt : 0 .. MaxExportAttempts,
     published : BOOLEAN]
ListingRecords == [kind : {"none", "expired", "files"}, files : SUBSET Files]

Working(w) == exporters[w].pc # "idle"

\* An attempt under way was claimed; it has its workspace while it needs it and
\* its file once it has published it, and the grace period has not passed.
ExporterOK(w) ==
    Working(w) =>
        /\ exporters[w].job \in ExportJobs
        /\ exporters[w].attempt \in 1 .. exports[exporters[w].job].attempt
        /\ exporters[w].pc \in {"stream", "publish"} => AttemptFile(w) \in work
        /\ exporters[w].pc = "succeed" => AttemptFile(w) \in final
        /\ AttemptFile(w) \notin old

Apart ==
    \A v, w \in Exporters :
        Working(v) /\ Working(w) /\ AttemptFile(v) = AttemptFile(w) => v = w

\* A claim that can be given back leaves an attempt; only a success expires.
ExportRowOK(j) ==
    /\ exports[j].status \in {"none", "queued"} => exports[j].attempt < MaxExportAttempts
    /\ exports[j].status = "running" /\ ~exports[j].fresh => exports[j].attempt < MaxExportAttempts
    /\ exports[j].status = "succeeded" => exports[j].artifact \in 1 .. exports[j].attempt
    /\ exports[j].status # "succeeded" => ~exports[j].expired /\ ~exports[j].deleted
    /\ exports[j].deleted => exports[j].expired

\* Files are those of attempts that were claimed.
ExportFilesOK ==
    \A f \in work \cup final \cup listing.files : f[2] <= exports[f[1]].attempt

\* The attempt whose success is recorded is over, or believes that it failed.
ArtifactOver ==
    \A j \in ExportJobs, w \in Exporters :
        exports[j].status = "succeeded" /\ Working(w) /\ AttemptFile(w) = ArtifactOf(j) =>
            \/ exporters[w].pc = "done"
            \/ j \in doubtful /\ exporters[w].pc \in {"undo", "fail"}

ListingOK ==
    /\ listing.kind = "expired" =>
           \E j \in ExportJobs : /\ exports[j].status = "succeeded" /\ exports[j].expired
                                 /\ listing.files = {ArtifactOf(j)}
    /\ listing.kind = "files" =>
           /\ \A w \in Exporters : Working(w) => AttemptFile(w) \notin listing.files
           /\ \A j \in ExportJobs : exports[j].status = "succeeded" /\ ~exports[j].expired =>
                  ArtifactOf(j) \notin listing.files

ExportInv ==
    /\ ExportTypeOK
    /\ exporters \in [Exporters -> ExporterRecords]
    /\ listing \in ListingRecords
    /\ \A w \in Exporters : ExporterOK(w)
    /\ Apart
    /\ \A j \in ExportJobs : ExportRowOK(j)
    /\ ExportFilesOK /\ ArtifactOver /\ ListingOK /\ ArtifactKept

ExportRows ==
    [status : {"none", "queued", "running", "succeeded", "failed"},
     attempt : 0 .. MaxExportAttempts, fresh : BOOLEAN, artifact : 0 .. MaxExportAttempts,
     expired : BOOLEAN, deleted : BOOLEAN]

LEMMA ExportTypes ==
    ASSUME ExportInv
    PROVE  /\ exports \in [ExportJobs -> ExportRows]
           /\ exporters \in [Exporters -> ExporterRecords]
           /\ work \subseteq Files /\ final \subseteq Files /\ old \subseteq work \cup final
           /\ listing \in ListingRecords
           /\ MaxExportAttempts \in Nat \ {0}
  BY ExportAssumption DEF ExportInv, ExportTypeOK, ExportRows

LEMMA ExportTypesSuffice ==
    ASSUME exports' \in [ExportJobs -> ExportRows],
           exporters' \in [Exporters -> ExporterRecords],
           work' \subseteq Files, final' \subseteq Files, old' \subseteq work' \cup final'
    PROVE  ExportTypeOK'
  <1>1. \A w \in Exporters : exporters'[w].pc \in ExportPcs
    BY DEF ExporterRecords
  <1> QED
    BY <1>1 DEF ExportTypeOK, ExportRows, ExportPcs

LEMMA FilePairs ==
    ASSUME ExportInv
    PROVE  /\ \A w \in Exporters : Working(w) => AttemptFile(w) \in Files
           /\ \A f \in Files : f[1] \in ExportJobs /\ f[2] \in 1 .. MaxExportAttempts
           /\ \A f \in Files : f = <<f[1], f[2]>>
  <1>1. \A w \in Exporters : Working(w) => AttemptFile(w) \in Files
    <2> SUFFICES ASSUME NEW w \in Exporters, Working(w)
                 PROVE  AttemptFile(w) \in Files
      OBVIOUS
    <2>1. exporters[w].job \in ExportJobs
          /\ exporters[w].attempt \in 1 .. exports[exporters[w].job].attempt
      BY DEF ExportInv, ExporterOK
    <2>2. exports[exporters[w].job].attempt \in 0 .. MaxExportAttempts
      BY <2>1, ExportTypes DEF ExportRows
    <2>3. exporters[w].attempt \in 1 .. MaxExportAttempts
      BY <2>1, <2>2, ExportTypes
    <2> QED
      BY <2>1, <2>3 DEF AttemptFile, Files
  <1> QED
    BY <1>1 DEF Files

\* A row goes on; it neither becomes nor was a success, or only expires.
LEMMA RowMoves ==
    ASSUME ExportInv, NEW j \in ExportJobs, NEW row \in ExportRows,
           exports' = [exports EXCEPT ![j] = row],
           UNCHANGED <<exporters, work, final, old, listing, doubtful>>,
           row.attempt >= exports[j].attempt, row.artifact = exports[j].artifact,
           row.status = "succeeded" <=> exports[j].status = "succeeded",
           exports[j].expired => row.expired, row.deleted => exports[j].deleted,
           ExportRowOK(j)'
    PROVE  ExportInv'
  <1>1. /\ exports' \in [ExportJobs -> ExportRows] /\ exports'[j] = row
        /\ \A i \in ExportJobs : i # j => exports'[i] = exports[i]
    BY ExportTypes
  <1>2. ExportTypeOK'
    BY <1>1, ExportTypes, ExportTypesSuffice
  <1>3. \A i \in ExportJobs :
            /\ exports'[i].attempt >= exports[i].attempt
            /\ exports'[i].attempt \in Nat /\ exports[i].attempt \in Nat
    BY <1>1, ExportTypes DEF ExportRows
  <1>4. \A i \in ExportJobs :
            /\ exports'[i].artifact = exports[i].artifact
            /\ exports'[i].status = "succeeded" <=> exports[i].status = "succeeded"
            /\ exports[i].expired => exports'[i].expired
            /\ exports'[i].deleted => exports[i].deleted
    BY <1>1
  <1>5. \A w \in Exporters : ExporterOK(w)'
    <2> SUFFICES ASSUME NEW w \in Exporters, Working(w)
                 PROVE  exporters[w].job \in ExportJobs
                        /\ exporters[w].attempt \in 1 .. exports'[exporters[w].job].attempt
      BY DEF ExportInv, ExporterOK, Working, AttemptFile
    <2>1. exporters[w].job \in ExportJobs
          /\ exporters[w].attempt \in 1 .. exports[exporters[w].job].attempt
      BY DEF ExportInv, ExporterOK
    <2> QED
      BY <1>3, <2>1
  <1>6. Apart'
    BY DEF ExportInv, Apart, Working, AttemptFile
  <1>7. \A i \in ExportJobs : ExportRowOK(i)'
    BY <1>1 DEF ExportInv, ExportRowOK
  <1>8. ExportFilesOK'
    <2> SUFFICES ASSUME NEW f \in work \cup final \cup listing.files
                 PROVE  f[2] <= exports'[f[1]].attempt
      BY DEF ExportFilesOK
    <2>1. f \in Files
      BY ExportTypes DEF ListingRecords
    <2>2. f[1] \in ExportJobs /\ f[2] \in Nat /\ f[2] <= exports[f[1]].attempt
      BY <2>1, FilePairs, ExportTypes DEF ExportInv, ExportFilesOK
    <2> QED
      BY <1>3, <2>2
  <1>9. ArtifactOver' /\ ArtifactKept'
    BY <1>4 DEF ExportInv, ArtifactOver, ArtifactKept, ArtifactOf, Working, AttemptFile
  <1>10. ListingOK'
    BY <1>4 DEF ExportInv, ListingOK, ArtifactOf, Working, AttemptFile
  <1> QED
    BY <1>2, <1>5, <1>6, <1>7, <1>8, <1>9, <1>10 DEF ExportInv

\* An attempt goes on or is over.
LEMMA ExporterMoves ==
    ASSUME ExportInv, NEW w \in Exporters, NEW x \in ExporterRecords,
           exporters' = [exporters EXCEPT ![w] = x],
           UNCHANGED <<exports, work, final, old, listing, doubtful>>,
           \/ x.pc = "idle"
           \/ /\ Working(w)
              /\ x.job = exporters[w].job /\ x.attempt = exporters[w].attempt
              /\ x.pc \in {"stream", "publish"} => AttemptFile(w) \in work
              /\ x.pc = "succeed" => AttemptFile(w) \in final
              /\ \A j \in ExportJobs :
                     exports[j].status = "succeeded" /\ AttemptFile(w) = ArtifactOf(j) =>
                         x.pc = "done" \/ (j \in doubtful /\ x.pc \in {"undo", "fail"})
    PROVE  ExportInv'
  <1>1. /\ exporters' \in [Exporters -> ExporterRecords] /\ exporters'[w] = x
        /\ \A v \in Exporters : v # w => exporters'[v] = exporters[v]
    BY ExportTypes
  <1>2. ExportTypeOK'
    BY <1>1, ExportTypes, ExportTypesSuffice
  <1>3. \A v \in Exporters : Working(v)' => Working(v) /\ AttemptFile(v)' = AttemptFile(v)
    BY <1>1 DEF Working, AttemptFile
  <1>4. \A v \in Exporters : ExporterOK(v)'
    BY <1>1, <1>3 DEF ExportInv, ExporterOK, Working, AttemptFile
  <1>5. Apart'
    BY <1>3 DEF ExportInv, Apart
  <1>6. \A i \in ExportJobs : ExportRowOK(i)'
    BY DEF ExportInv, ExportRowOK
  <1>7. ExportFilesOK' /\ ArtifactKept'
    BY DEF ExportInv, ExportFilesOK, ArtifactKept, ArtifactOf
  <1>8. ArtifactOver'
    BY <1>1, <1>3 DEF ExportInv, ArtifactOver, ArtifactOf, Working
  <1>9. ListingOK'
    BY <1>3 DEF ExportInv, ListingOK, ArtifactOf
  <1> QED
    BY <1>1, <1>2, <1>4, <1>5, <1>6, <1>7, <1>8, <1>9 DEF ExportInv

\* A row is made of its fields.
ExportRow(s, a, f, art, e, d) ==
    [status |-> s, attempt |-> a, fresh |-> f, artifact |-> art, expired |-> e, deleted |-> d]

LEMMA RowFields ==
    ASSUME NEW r \in ExportRows
    PROVE  /\ r = ExportRow(r.status, r.attempt, r.fresh, r.artifact, r.expired, r.deleted)
           /\ r.fresh \in BOOLEAN /\ r.expired \in BOOLEAN /\ r.deleted \in BOOLEAN
           /\ r.attempt \in 0 .. MaxExportAttempts /\ r.artifact \in 0 .. MaxExportAttempts
  BY DEF ExportRows, ExportRow

LEMMA RowMade ==
    ASSUME NEW s \in {"none", "queued", "running", "succeeded", "failed"},
           NEW a \in 0 .. MaxExportAttempts, NEW f \in BOOLEAN,
           NEW art \in 0 .. MaxExportAttempts, NEW e \in BOOLEAN, NEW d \in BOOLEAN
    PROVE  ExportRow(s, a, f, art, e, d) \in ExportRows
  BY DEF ExportRows, ExportRow

LEMMA RowChanged ==
    ASSUME NEW r \in ExportRows, NEW s \in {"none", "queued", "running", "succeeded", "failed"},
           NEW a \in 0 .. MaxExportAttempts, NEW f \in BOOLEAN
    PROVE  [r EXCEPT !.status = s, !.attempt = a, !.fresh = f] =
               ExportRow(s, a, f, r.artifact, r.expired, r.deleted)
  <1> DEFINE x == [r EXCEPT !.status = s, !.attempt = a, !.fresh = f]
  <1>1. /\ x.status = s /\ x.attempt = a /\ x.artifact = r.artifact
        /\ x.expired = r.expired /\ x.deleted = r.deleted
    BY DEF ExportRows
  <1>2. x.fresh = f /\ x \in ExportRows
    BY DEF ExportRows
  <1> HIDE DEF x
  <1>3. x = ExportRow(s, a, f, r.artifact, r.expired, r.deleted)
    BY <1>1, <1>2, RowFields
  <1> QED
    BY <1>3 DEF x

LEMMA RowEdits ==
    ASSUME NEW r \in ExportRows
    PROVE  /\ \A s \in {"none", "queued", "running", "succeeded", "failed"} :
                  [r EXCEPT !.status = s] =
                      ExportRow(s, r.attempt, r.fresh, r.artifact, r.expired, r.deleted)
           /\ \A f \in BOOLEAN :
                  [r EXCEPT !.fresh = f] =
                      ExportRow(r.status, r.attempt, f, r.artifact, r.expired, r.deleted)
           /\ \A e \in BOOLEAN :
                  [r EXCEPT !.expired = e] =
                      ExportRow(r.status, r.attempt, r.fresh, r.artifact, e, r.deleted)
           /\ \A d \in BOOLEAN :
                  [r EXCEPT !.deleted = d] =
                      ExportRow(r.status, r.attempt, r.fresh, r.artifact, r.expired, d)
  <1>1. ASSUME NEW s \in {"none", "queued", "running", "succeeded", "failed"}
        PROVE  [r EXCEPT !.status = s] =
                   ExportRow(s, r.attempt, r.fresh, r.artifact, r.expired, r.deleted)
    BY DEF ExportRows, ExportRow
  <1>2. ASSUME NEW f \in BOOLEAN
        PROVE  [r EXCEPT !.fresh = f] =
                   ExportRow(r.status, r.attempt, f, r.artifact, r.expired, r.deleted)
    BY DEF ExportRows, ExportRow
  <1>3. ASSUME NEW e \in BOOLEAN
        PROVE  [r EXCEPT !.expired = e] =
                   ExportRow(r.status, r.attempt, r.fresh, r.artifact, e, r.deleted)
    BY DEF ExportRows, ExportRow
  <1>4. ASSUME NEW d \in BOOLEAN
        PROVE  [r EXCEPT !.deleted = d] =
                   ExportRow(r.status, r.attempt, r.fresh, r.artifact, r.expired, d)
    BY DEF ExportRows, ExportRow
  <1> QED
    BY <1>1, <1>2, <1>3, <1>4

LEMMA RowEditsOK ==
    ASSUME NEW r \in ExportRows
    PROVE  /\ \A s \in {"none", "queued", "running", "succeeded", "failed"} :
                  [r EXCEPT !.status = s] \in ExportRows
           /\ \A f \in BOOLEAN : [r EXCEPT !.fresh = f] \in ExportRows
           /\ \A e \in BOOLEAN : [r EXCEPT !.expired = e] \in ExportRows
           /\ \A d \in BOOLEAN : [r EXCEPT !.deleted = d] \in ExportRows
           /\ \A s \in {"none", "queued", "running", "succeeded", "failed"},
                 a \in 0 .. MaxExportAttempts, f \in BOOLEAN :
                  [r EXCEPT !.status = s, !.attempt = a, !.fresh = f] \in ExportRows
  BY DEF ExportRows

\* An attempt that has not succeeded changes its step.
LEMMA ExporterGoes ==
    ASSUME ExportInv, NEW w \in Exporters, Working(w), NEW pc \in ExportPcs \ {"idle"},
           ExportGoto(w, pc), UNCHANGED <<exports, work, final, old, listing, doubtful>>,
           exporters[w].pc \in {"start", "stream", "publish", "succeed"},
           pc \in {"stream", "publish"} => AttemptFile(w) \in work,
           pc # "succeed"
    PROVE  ExportInv'
  <1> DEFINE x == [exporters[w] EXCEPT !.pc = pc]
  <1>1. exporters[w] \in ExporterRecords
    BY ExportTypes
  <1>2. exporters' = [exporters EXCEPT ![w] = x]
    BY ExportTypes DEF ExportGoto
  <1>3. /\ x \in ExporterRecords /\ x.pc = pc
        /\ x.job = exporters[w].job /\ x.attempt = exporters[w].attempt
    BY <1>1 DEF ExporterRecords
  <1>4. \A j \in ExportJobs :
            ~(exports[j].status = "succeeded" /\ AttemptFile(w) = ArtifactOf(j))
    BY DEF ExportInv, ArtifactOver
  <1> HIDE DEF x
  <1> QED
    BY <1>2, <1>3, <1>4, ExporterMoves

LEMMA ExporterSteps ==
    ASSUME ExportInv, NEW w \in Exporters,
           \/ Stream(w)
           \/ ExportFault(w)
           \/ /\ exporters[w].pc \in {"start", "stream", "publish", "succeed"}
              /\ ExportGoto(w, "lost")
              /\ UNCHANGED <<exports, work, final, old, listing, doubtful>>
    PROVE  ExportInv'
  <1>1. CASE Stream(w)
    <2>1. PICK pc \in {"lost", "publish"} : ExportGoto(w, pc)
      BY <1>1 DEF Stream
    <2>2. AttemptFile(w) \in work /\ Working(w)
      BY <1>1 DEF Stream, ExportInv, ExporterOK, Working
    <2> QED
      BY <1>1, <2>1, <2>2, ExporterGoes DEF Stream, ExportPcs
  <1>2. CASE ExportFault(w)
    BY <1>2, ExporterGoes DEF ExportFault, ExportPcs, Working
  <1>3. CASE /\ exporters[w].pc \in {"start", "stream", "publish", "succeed"}
             /\ ExportGoto(w, "lost")
             /\ UNCHANGED <<exports, work, final, old, listing, doubtful>>
    BY <1>3, ExporterGoes DEF ExportPcs, Working
  <1> QED
    BY <1>1, <1>2, <1>3

LEMMA ExportRowSteps ==
    ASSUME ExportInv, NEW j \in ExportJobs,
           \/ SubmitExport(j) \/ ClaimExportUnanswered(j) \/ ExportGoesStale(j)
           \/ RequeueStaleExport(j) \/ ExpireExport(j)
    PROVE  ExportInv'
  <1>0. exports[j] \in ExportRows /\ MaxExportAttempts \in Nat /\ ExportRowOK(j)
    BY ExportTypes DEF ExportInv
  <1> DEFINE row == exports'[j]
  <1>1. /\ exports' = [exports EXCEPT ![j] = row]
        /\ UNCHANGED <<exporters, work, final, old, listing, doubtful>>
    BY ExportTypes DEF SubmitExport, ClaimExportUnanswered, ClaimedExport, ExportGoesStale,
                       RequeueStaleExport, ExpireExport
  <1>2. /\ row \in ExportRows /\ row.attempt >= exports[j].attempt
        /\ row.artifact = exports[j].artifact
        /\ row.status = "succeeded" <=> exports[j].status = "succeeded"
        /\ exports[j].expired => row.expired
        /\ row.deleted => exports[j].deleted
        /\ ExportRowOK(j)'
    <2>1. CASE SubmitExport(j)
      <3>1. row = [exports[j] EXCEPT !.status = "queued"]
        BY <2>1, ExportTypes DEF SubmitExport
      <3>2. row = ExportRow("queued", exports[j].attempt, exports[j].fresh,
                            exports[j].artifact, exports[j].expired, exports[j].deleted)
        BY <1>0, <3>1, RowEdits
      <3> HIDE DEF row
      <3>3. row \in ExportRows
        BY <1>0, <3>1, RowEditsOK
      <3> QED
        BY <1>0, <2>1, <3>2, <3>3, RowFields DEF SubmitExport, ExportRow, ExportRowOK, row
    <2>2. CASE ClaimExportUnanswered(j)
      <3>0. exports[j].attempt + 1 \in 0 .. MaxExportAttempts
        BY <1>0, <2>2, RowFields DEF ClaimExportUnanswered
      <3>1. row = [exports[j] EXCEPT !.status = "running", !.attempt = exports[j].attempt + 1,
                                !.fresh = TRUE]
        BY <2>2, ExportTypes DEF ClaimExportUnanswered, ClaimedExport
      <3>2. row = ExportRow("running", exports[j].attempt + 1, TRUE,
                            exports[j].artifact, exports[j].expired, exports[j].deleted)
        BY <1>0, <3>0, <3>1, RowChanged
      <3> HIDE DEF row
      <3>3. row \in ExportRows
        BY <1>0, <3>0, <3>1, RowEditsOK
      <3> QED
        BY <1>0, <2>2, <3>2, <3>3, RowFields DEF ClaimExportUnanswered, ExportRow, ExportRowOK, row
    <2>3. CASE ExportGoesStale(j)
      <3>1. row = [exports[j] EXCEPT !.fresh = FALSE]
        BY <2>3, ExportTypes DEF ExportGoesStale
      <3>2. row = ExportRow(exports[j].status, exports[j].attempt, FALSE,
                            exports[j].artifact, exports[j].expired, exports[j].deleted)
        BY <1>0, <3>1, RowEdits
      <3> HIDE DEF row
      <3>3. row \in ExportRows
        BY <1>0, <3>1, RowEditsOK
      <3> QED
        BY <1>0, <2>3, <3>2, <3>3, RowFields DEF ExportGoesStale, ExportRow, ExportRowOK, row
    <2>4. CASE RequeueStaleExport(j)
      <3>1. row = [exports[j] EXCEPT !.status = "queued"]
        BY <2>4, ExportTypes DEF RequeueStaleExport
      <3>2. row = ExportRow("queued", exports[j].attempt, exports[j].fresh,
                            exports[j].artifact, exports[j].expired, exports[j].deleted)
        BY <1>0, <3>1, RowEdits
      <3> HIDE DEF row
      <3>3. row \in ExportRows
        BY <1>0, <3>1, RowEditsOK
      <3> QED
        BY <1>0, <2>4, <3>2, <3>3, RowFields DEF RequeueStaleExport, ExportRow, ExportRowOK, row
    <2>5. CASE ExpireExport(j)
      <3>1. row = [exports[j] EXCEPT !.expired = TRUE]
        BY <2>5, ExportTypes DEF ExpireExport
      <3>2. row = ExportRow(exports[j].status, exports[j].attempt, exports[j].fresh,
                            exports[j].artifact, TRUE, exports[j].deleted)
        BY <1>0, <3>1, RowEdits
      <3> HIDE DEF row
      <3>3. row \in ExportRows
        BY <1>0, <3>1, RowEditsOK
      <3> QED
        BY <1>0, <2>5, <3>2, <3>3, RowFields DEF ExpireExport, ExportRow, ExportRowOK, row
    <2> QED
      BY <2>1, <2>2, <2>3, <2>4, <2>5
  <1> HIDE DEF row
  <1> QED
    BY <1>1, <1>2, RowMoves

LEMMA ExportHeartbeatStep ==
    ASSUME ExportInv, NEW w \in Exporters, ExportHeartbeat(w)
    PROVE  ExportInv'
  <1>0. exporters[w] \in ExporterRecords /\ Working(w) /\ exporters[w].job \in ExportJobs
    BY ExportTypes DEF ExportHeartbeat, Working, ExportInv, ExporterOK
  <1>1. CASE OwnsExport(w) /\ exports' = [exports EXCEPT ![exporters[w].job].fresh = TRUE]
             /\ UNCHANGED exporters
    <2> DEFINE j == exporters[w].job
               row == [exports[j] EXCEPT !.fresh = TRUE]
    <2>1. exports[j] \in ExportRows /\ ExportRowOK(j) /\ j \in ExportJobs
      BY <1>0, ExportTypes DEF ExportInv
    <2>2. exports' = [exports EXCEPT ![j] = row] /\ exports'[j] = row
      BY <1>1, <2>1, ExportTypes
    <2>3. /\ row.attempt = exports[j].attempt /\ row.artifact = exports[j].artifact
          /\ row.status = exports[j].status
      BY <2>1 DEF ExportRows
    <2>6. row.expired = exports[j].expired /\ row.deleted = exports[j].deleted /\ row.fresh
      BY <2>1 DEF ExportRows
    <2>7. row \in ExportRows
      BY <2>1, RowEditsOK
    <2>8. row.attempt >= exports[j].attempt
      BY <2>1, <2>3, RowFields, ExportTypes
    <2>4. ExportRowOK(j)'
      BY <1>1, <2>1, <2>2, <2>3, <2>6, RowFields DEF ExportRowOK, OwnsExport
    <2>5. UNCHANGED <<exporters, work, final, old, listing, doubtful>>
      BY <1>1 DEF ExportHeartbeat
    <2> HIDE DEF row
    <2> QED
      BY <2>1, <2>2, <2>3, <2>4, <2>5, <2>6, <2>7, <2>8, RowMoves
  <1>2. CASE ~OwnsExport(w) /\ ExportGoto(w, "lost") /\ UNCHANGED exports
    BY <1>2, ExporterSteps DEF ExportHeartbeat
  <1> QED
    BY <1>1, <1>2 DEF ExportHeartbeat

\* The file of the attempt that a claim makes is nobody's yet.
LEMMA NewAttempt ==
    ASSUME ExportInv, NEW j \in ExportJobs, NEW f, f = <<j, exports[j].attempt + 1>>
    PROVE  /\ f \notin work \cup final \cup old \cup listing.files
           /\ \A v \in Exporters : Working(v) => AttemptFile(v) # f
  <1>1. exports[j].attempt \in Nat
    BY ExportTypes DEF ExportRows
  <1>2. f[1] = j /\ f[2] = exports[j].attempt + 1
    OBVIOUS
  <1>3. f \notin work \cup final \cup listing.files
    BY <1>1, <1>2 DEF ExportInv, ExportFilesOK
  <1>4. f \notin old
    BY <1>3, ExportTypes
  <1>5. ASSUME NEW v \in Exporters, Working(v), AttemptFile(v) = f PROVE FALSE
    <2>1. exporters[v].job = j /\ exporters[v].attempt = exports[j].attempt + 1
      BY <1>5 DEF AttemptFile
    <2>2. exporters[v].attempt \in 1 .. exports[j].attempt
      BY <1>5, <2>1 DEF ExportInv, ExporterOK
    <2> QED
      BY <1>1, <2>1, <2>2
  <1> QED
    BY <1>3, <1>4, <1>5

LEMMA ClaimExportStep ==
    ASSUME ExportInv, NEW w \in Exporters, NEW j \in ExportJobs, ClaimExport(w, j)
    PROVE  ExportInv'
  <1> DEFINE a == exports[j].attempt + 1
             x == [IdleExporter EXCEPT !.pc = "start", !.job = j, !.attempt = a]
             f == <<j, a>>
  <1>1. exports[j] \in ExportRows /\ MaxExportAttempts \in Nat /\ ExportRowOK(j)
    BY ExportTypes DEF ExportInv
  <1>2. a \in 1 .. MaxExportAttempts /\ a \in 0 .. MaxExportAttempts /\ a > exports[j].attempt
    BY <1>1, RowFields DEF ClaimExport, ExportRowOK
  <1>3. /\ x \in ExporterRecords /\ x.pc = "start" /\ x.job = j /\ x.attempt = a
    BY <1>2 DEF IdleExporter, ExporterRecords, ExportPcs
  <1>4. exports'[j] = [exports[j] EXCEPT !.status = "running", !.attempt = a, !.fresh = TRUE]
    BY ExportTypes DEF ClaimExport, ClaimedExport
  <1>20. \A i \in ExportJobs : i # j => exports'[i] = exports[i]
    BY ExportTypes DEF ClaimExport, ClaimedExport
  <1>21. exports' = [exports EXCEPT ![j] = exports'[j]]
    BY ExportTypes DEF ClaimExport, ClaimedExport
  <1> HIDE DEF x, a
  <1>5. exports'[j] \in ExportRows
    BY <1>1, <1>2, <1>4, RowEditsOK
  <1>6. /\ exports'[j].status = "running" /\ exports'[j].attempt = a /\ exports'[j].fresh
        /\ exports'[j].expired = exports[j].expired /\ exports'[j].deleted = exports[j].deleted
    <2>1. exports'[j] = ExportRow("running", a, TRUE, exports[j].artifact,
                                  exports[j].expired, exports[j].deleted)
      BY <1>1, <1>2, <1>4, RowChanged
    <2> QED
      BY <2>1 DEF ExportRow
  <1>7. /\ exporters'[w] = x /\ exporters' \in [Exporters -> ExporterRecords]
        /\ \A v \in Exporters : v # w => exporters'[v] = exporters[v]
    BY <1>3, ExportTypes DEF ClaimExport, x, a
  <1>8. /\ UNCHANGED <<work, final, old, listing, doubtful>>
        /\ exports[j].status = "queued" /\ ~Working(w)
    BY DEF ClaimExport, Working
  <1>9. exports' \in [ExportJobs -> ExportRows]
    BY <1>5, <1>21, ExportTypes
  <1>10. ExportTypeOK'
    BY <1>7, <1>8, <1>9, ExportTypes, ExportTypesSuffice
  <1>11. /\ f \notin work \cup final \cup old \cup listing.files
         /\ \A v \in Exporters : Working(v) => AttemptFile(v) # f
    BY NewAttempt DEF a
  <1>12. /\ AttemptFile(w)' = f /\ Working(w)'
         /\ \A v \in Exporters : v # w =>
                AttemptFile(v)' = AttemptFile(v) /\ (Working(v)' <=> Working(v))
    BY <1>3, <1>7 DEF AttemptFile, Working
  <1>13. \A i \in ExportJobs :
             /\ exports'[i].attempt >= exports[i].attempt
             /\ exports'[i].attempt \in Nat /\ exports[i].attempt \in Nat
    <2>1. \A i \in ExportJobs : exports'[i].attempt \in Nat /\ exports[i].attempt \in Nat
      BY <1>9, ExportTypes DEF ExportRows
    <2> QED
      BY <1>2, <1>6, <1>20, <2>1
  <1>14. \A v \in Exporters : ExporterOK(v)'
    <2>1. ExporterOK(w)'
      BY <1>2, <1>3, <1>6, <1>7, <1>8, <1>11, <1>12 DEF ExporterOK
    <2>2. ASSUME NEW v \in Exporters, v # w, Working(v) PROVE ExporterOK(v)'
      <3>1. exporters[v].job \in ExportJobs
            /\ exporters[v].attempt \in 1 .. exports[exporters[v].job].attempt
        BY <2>2 DEF ExportInv, ExporterOK
      <3>2. exporters[v].attempt \in 1 .. exports'[exporters[v].job].attempt
        BY <3>1, <1>13
      <3> QED
        BY <2>2, <3>1, <3>2, <1>7, <1>8, <1>12 DEF ExportInv, ExporterOK
    <2> QED
      BY <2>1, <2>2, <1>12 DEF ExporterOK
  <1>15. Apart'
    BY <1>11, <1>12 DEF ExportInv, Apart
  <1>16. \A i \in ExportJobs : ExportRowOK(i)'
    BY <1>1, <1>6, <1>8, <1>20 DEF ExportInv, ExportRowOK
  <1>17. ExportFilesOK'
    <2> SUFFICES ASSUME NEW g \in work \cup final \cup listing.files
                 PROVE  g[2] <= exports'[g[1]].attempt
      BY <1>8 DEF ExportFilesOK
    <2>1. g \in Files
      BY ExportTypes DEF ListingRecords
    <2>2. g[1] \in ExportJobs /\ g[2] \in Nat /\ g[2] <= exports[g[1]].attempt
      BY <2>1, FilePairs, ExportTypes DEF ExportInv, ExportFilesOK
    <2> QED
      BY <1>13, <2>2
  <1>18. ArtifactOver' /\ ArtifactKept'
    <2>1. \A i \in ExportJobs : exports'[i].status = "succeeded" =>
              i # j /\ exports'[i] = exports[i] /\ ArtifactOf(i)' = ArtifactOf(i)
      BY <1>6, <1>20 DEF ArtifactOf
    <2>2. \A i \in ExportJobs : i # j => ArtifactOf(i) # f
      BY DEF ArtifactOf
    <2>3. ArtifactKept'
      BY <1>8, <2>1 DEF ExportInv, ArtifactKept
    <2>4. ArtifactOver'
      BY <1>7, <1>8, <1>12, <2>1, <2>2 DEF ExportInv, ArtifactOver
    <2> QED
      BY <2>3, <2>4
  <1>19. ListingOK'
    <2>1. CASE listing.kind = "expired"
      <3>1. PICK i \in ExportJobs : /\ exports[i].status = "succeeded" /\ exports[i].expired
                                    /\ listing.files = {ArtifactOf(i)}
        BY <2>1 DEF ExportInv, ListingOK
      <3>2. exports'[i] = exports[i]
        BY <1>8, <1>20, <3>1
      <3> QED
        BY <1>8, <2>1, <3>1, <3>2 DEF ListingOK, ArtifactOf
    <2>2. CASE listing.kind = "files"
      <3>1. \A v \in Exporters : Working(v)' => AttemptFile(v)' \notin listing.files
        BY <1>11, <1>12, <2>2 DEF ExportInv, ListingOK
      <3>2. \A i \in ExportJobs : exports'[i].status = "succeeded" /\ ~exports'[i].expired =>
                ArtifactOf(i)' \notin listing.files
        BY <1>6, <1>20, <2>2 DEF ExportInv, ListingOK, ArtifactOf
      <3> QED
        BY <1>8, <2>2, <3>1, <3>2 DEF ListingOK
    <2> QED
      BY <1>8, <2>1, <2>2 DEF ListingOK
  <1> QED
    BY <1>7, <1>8, <1>10, <1>14, <1>15, <1>16, <1>17, <1>18, <1>19, ExportTypes DEF ExportInv

\* An attempt adds its file to a directory and goes on.
LEMMA AttemptAdds ==
    ASSUME ExportInv, NEW w \in Exporters, NEW x \in ExporterRecords,
           exporters[w].pc \in {"start", "publish"},
           exporters' = [exporters EXCEPT ![w] = x],
           x.job = exporters[w].job, x.attempt = exporters[w].attempt,
           \/ x.pc = "stream" /\ work' = work \cup {AttemptFile(w)} /\ final' = final
           \/ x.pc = "succeed" /\ final' = final \cup {AttemptFile(w)} /\ work' = work,
           UNCHANGED <<exports, old, listing, doubtful>>
    PROVE  ExportInv'
  <1>1. /\ exporters' \in [Exporters -> ExporterRecords] /\ exporters'[w] = x
        /\ \A v \in Exporters : v # w => exporters'[v] = exporters[v]
    BY ExportTypes
  <1>2. Working(w) /\ Working(w)'
    BY <1>1 DEF Working
  <1>3. AttemptFile(w) \in Files
    BY <1>2, FilePairs
  <1>4. ExportTypeOK'
    BY <1>1, <1>3, ExportTypes, ExportTypesSuffice
  <1>5. \A v \in Exporters : AttemptFile(v)' = AttemptFile(v) /\ (Working(v)' <=> Working(v))
    BY <1>1, <1>2 DEF Working, AttemptFile
  <1>6. \A v \in Exporters : ExporterOK(v)'
    <2>1. ExporterOK(w)'
      BY <1>1, <1>2, <1>5 DEF ExportInv, ExporterOK
    <2>2. ASSUME NEW v \in Exporters, v # w PROVE ExporterOK(v)'
      BY <1>1, <1>5, <2>2 DEF ExportInv, ExporterOK
    <2> QED
      BY <2>1, <2>2
  <1>7. Apart' /\ \A j \in ExportJobs : ExportRowOK(j)'
    BY <1>5 DEF ExportInv, Apart, ExportRowOK
  <1>8. ExportFilesOK'
    <2>1. AttemptFile(w)[2] <= exports[AttemptFile(w)[1]].attempt
      <3>1. exporters[w].job \in ExportJobs
            /\ exporters[w].attempt \in 1 .. exports[exporters[w].job].attempt
        BY <1>2 DEF ExportInv, ExporterOK
      <3>2. exports[exporters[w].job].attempt \in Nat
        BY <3>1, ExportTypes DEF ExportRows
      <3> QED
        BY <3>1, <3>2 DEF AttemptFile
    <2> QED
      BY <2>1 DEF ExportInv, ExportFilesOK
  <1>9. \A j \in ExportJobs :
            ~(exports[j].status = "succeeded" /\ AttemptFile(w) = ArtifactOf(j))
    BY <1>2 DEF ExportInv, ArtifactOver
  <1>10. ArtifactOver'
    BY <1>1, <1>5, <1>9 DEF ExportInv, ArtifactOver, ArtifactOf
  <1>11. ArtifactKept'
    BY <1>9 DEF ExportInv, ArtifactKept, ArtifactOf
  <1>12. ListingOK'
    BY <1>5 DEF ExportInv, ListingOK, ArtifactOf
  <1> QED
    BY <1>1, <1>4, <1>6, <1>7, <1>8, <1>10, <1>11, <1>12, ExportTypes DEF ExportInv

LEMMA ExporterEdits ==
    ASSUME NEW x \in ExporterRecords, NEW pc \in ExportPcs
    PROVE  /\ [x EXCEPT !.pc = pc] \in ExporterRecords
           /\ [x EXCEPT !.pc = pc, !.published = TRUE] \in ExporterRecords
           /\ [x EXCEPT !.pc = pc].pc = pc
           /\ [x EXCEPT !.pc = pc].job = x.job
           /\ [x EXCEPT !.pc = pc].attempt = x.attempt
           /\ [x EXCEPT !.pc = pc, !.published = TRUE].pc = pc
           /\ [x EXCEPT !.pc = pc, !.published = TRUE].job = x.job
           /\ [x EXCEPT !.pc = pc, !.published = TRUE].attempt = x.attempt
  <1>1. /\ [x EXCEPT !.pc = pc] \in ExporterRecords
        /\ [x EXCEPT !.pc = pc, !.published = TRUE] \in ExporterRecords
    BY DEF ExporterRecords
  <1> QED
    BY <1>1 DEF ExporterRecords

LEMMA AttemptAddsSteps ==
    ASSUME ExportInv, NEW w \in Exporters, Start(w) \/ PublishArtifact(w)
    PROVE  ExportInv'
  <1>1. exporters[w] \in ExporterRecords /\ "stream" \in ExportPcs /\ "succeed" \in ExportPcs
    BY ExportTypes DEF ExportPcs
  <1>2. CASE Start(w)
    <2> DEFINE x == [exporters[w] EXCEPT !.pc = "stream"]
    <2>1. exporters' = [exporters EXCEPT ![w] = x]
      BY <1>2, ExportTypes DEF Start, ExportGoto
    <2>2. /\ x \in ExporterRecords /\ x.pc = "stream"
          /\ x.job = exporters[w].job /\ x.attempt = exporters[w].attempt
      BY <1>1, ExporterEdits
    <2> HIDE DEF x
    <2> QED
      BY <1>2, <2>1, <2>2, AttemptAdds DEF Start
  <1>3. CASE PublishArtifact(w)
    <2> DEFINE x == [exporters[w] EXCEPT !.pc = "succeed", !.published = TRUE]
    <2>1. exporters' = [exporters EXCEPT ![w] = x]
      BY <1>3, ExportTypes DEF PublishArtifact
    <2>2. /\ x \in ExporterRecords /\ x.pc = "succeed"
          /\ x.job = exporters[w].job /\ x.attempt = exporters[w].attempt
      BY <1>1, ExporterEdits
    <2> HIDE DEF x
    <2> QED
      BY <1>3, <2>1, <2>2, AttemptAdds DEF PublishArtifact
  <1> QED
    BY <1>2, <1>3

LEMMA RowSettled ==
    ASSUME NEW r \in ExportRows, NEW s \in {"succeeded", "failed"},
           NEW art \in 0 .. MaxExportAttempts
    PROVE  /\ [r EXCEPT !.status = s, !.fresh = TRUE, !.artifact = art] =
                  ExportRow(s, r.attempt, TRUE, art, r.expired, r.deleted)
           /\ [r EXCEPT !.status = s, !.fresh = TRUE] =
                  ExportRow(s, r.attempt, TRUE, r.artifact, r.expired, r.deleted)
           /\ [r EXCEPT !.status = s, !.fresh = TRUE, !.artifact = art] \in ExportRows
           /\ [r EXCEPT !.status = s, !.fresh = TRUE] \in ExportRows
  <1> DEFINE x == [r EXCEPT !.status = s, !.fresh = TRUE, !.artifact = art]
             y == [r EXCEPT !.status = s, !.fresh = TRUE]
  <1>1. x \in ExportRows /\ y \in ExportRows
    BY DEF ExportRows
  <1>2. /\ x.status = s /\ x.attempt = r.attempt /\ x.artifact = art
        /\ x.expired = r.expired /\ x.deleted = r.deleted
    BY DEF ExportRows
  <1>3. /\ y.status = s /\ y.attempt = r.attempt /\ y.artifact = r.artifact
        /\ y.expired = r.expired /\ y.deleted = r.deleted
    BY DEF ExportRows
  <1>4. x.fresh = TRUE /\ y.fresh = TRUE
    BY DEF ExportRows
  <1> HIDE DEF x, y
  <1>5. x = ExportRow(s, r.attempt, TRUE, art, r.expired, r.deleted)
    BY <1>1, <1>2, <1>4, RowFields
  <1>6. y = ExportRow(s, r.attempt, TRUE, r.artifact, r.expired, r.deleted)
    BY <1>1, <1>3, <1>4, RowFields
  <1> QED
    BY <1>1, <1>5, <1>6 DEF x, y

\* An attempt that owns its job records how the job ended.
LEMMA AttemptSettles ==
    ASSUME ExportInv, NEW w \in Exporters, NEW j \in ExportJobs, NEW row \in ExportRows,
           NEW x \in ExporterRecords,
           Working(w), OwnsExport(w), exporters[w].job = j,
           exports' = [exports EXCEPT ![j] = row],
           exporters' = [exporters EXCEPT ![w] = x],
           doubtful \subseteq doubtful', UNCHANGED <<work, final, old, listing>>,
           row.attempt = exports[j].attempt,
           \/ x.pc = "idle"
           \/ /\ x.pc \in {"done", "undo"}
              /\ x.job = j /\ x.attempt = exporters[w].attempt,
           \/ row.status = "failed"
           \/ /\ row.status = "succeeded" /\ ~row.expired /\ ~row.deleted
              /\ row.artifact = exporters[w].attempt /\ AttemptFile(w) \in final
              /\ x.pc = "undo" => j \in doubtful',
           ExportRowOK(j)'
    PROVE  ExportInv'
  <1>1. /\ exporters' \in [Exporters -> ExporterRecords] /\ exporters'[w] = x
        /\ \A v \in Exporters : v # w => exporters'[v] = exporters[v]
    BY ExportTypes
  <1>2. /\ exports' \in [ExportJobs -> ExportRows] /\ exports'[j] = row
        /\ \A i \in ExportJobs : i # j => exports'[i] = exports[i]
    BY ExportTypes
  <1>3. exports[j].status = "running"
    BY DEF OwnsExport
  <1>4. ExportTypeOK'
    BY <1>1, <1>2, ExportTypes, ExportTypesSuffice
  <1>5. \A v \in Exporters : Working(v)' => Working(v) /\ AttemptFile(v)' = AttemptFile(v)
    BY <1>1 DEF Working, AttemptFile
  <1>6. \A i \in ExportJobs : exports'[i].attempt = exports[i].attempt
    BY <1>2
  <1>7. \A v \in Exporters : ExporterOK(v)'
    <2>1. ExporterOK(w)'
      BY <1>1, <1>5, <1>6 DEF ExportInv, ExporterOK, Working, AttemptFile
    <2>2. ASSUME NEW v \in Exporters, v # w PROVE ExporterOK(v)'
      BY <1>1, <1>5, <1>6, <2>2 DEF ExportInv, ExporterOK
    <2> QED
      BY <2>1, <2>2
  <1>8. Apart'
    BY <1>5 DEF ExportInv, Apart
  <1>9. \A i \in ExportJobs : ExportRowOK(i)'
    BY <1>2 DEF ExportInv, ExportRowOK
  <1>10. ExportFilesOK'
    <2> SUFFICES ASSUME NEW f \in work \cup final \cup listing.files
                 PROVE  f[2] <= exports'[f[1]].attempt
      BY DEF ExportFilesOK
    <2>1. f \in Files
      BY ExportTypes DEF ListingRecords
    <2> QED
      BY <1>6, <2>1, FilePairs DEF ExportInv, ExportFilesOK
  <1>11. ASSUME row.status = "succeeded" PROVE ArtifactOf(j)' = AttemptFile(w)
    BY <1>2, <1>11 DEF ArtifactOf, AttemptFile
  <1>12. \A i \in ExportJobs : i # j => ArtifactOf(i)' = ArtifactOf(i) /\ ArtifactOf(i) # AttemptFile(w)
    BY <1>2 DEF ArtifactOf, AttemptFile
  <1>13. ArtifactOver'
    <2> SUFFICES ASSUME NEW i \in ExportJobs, NEW v \in Exporters, exports'[i].status = "succeeded",
                        Working(v)', AttemptFile(v)' = ArtifactOf(i)'
                 PROVE  \/ exporters'[v].pc = "done"
                        \/ i \in doubtful' /\ exporters'[v].pc \in {"undo", "fail"}
      BY DEF ArtifactOver
    <2>1. CASE i = j
      <3>1. row.status = "succeeded" /\ AttemptFile(v) = AttemptFile(w) /\ Working(v)
        BY <1>2, <1>5, <1>11, <2>1
      <3>2. v = w
        BY <3>1 DEF ExportInv, Apart
      <3> QED
        BY <1>1, <2>1, <3>1, <3>2 DEF Working
    <2>2. CASE i # j
      BY <1>1, <1>2, <1>5, <1>12, <2>2 DEF ExportInv, ArtifactOver
    <2> QED
      BY <2>1, <2>2
  <1>14. ArtifactKept'
    BY <1>2, <1>11, <1>12 DEF ExportInv, ArtifactKept
  <1>15. ListingOK'
    <2>1. CASE listing.kind = "expired"
      <3>1. PICK i \in ExportJobs : /\ exports[i].status = "succeeded" /\ exports[i].expired
                                    /\ listing.files = {ArtifactOf(i)}
        BY <2>1 DEF ExportInv, ListingOK
      <3>2. exports'[i] = exports[i] /\ ArtifactOf(i)' = ArtifactOf(i)
        BY <1>2, <1>3, <1>12, <3>1
      <3> QED
        BY <2>1, <3>1, <3>2 DEF ListingOK
    <2>2. CASE listing.kind = "files"
      <3>1. \A v \in Exporters : Working(v)' => AttemptFile(v)' \notin listing.files
        BY <1>5, <2>2 DEF ExportInv, ListingOK
      <3>2. AttemptFile(w) \notin listing.files
        BY <2>2 DEF ExportInv, ListingOK
      <3>3. \A i \in ExportJobs : exports'[i].status = "succeeded" /\ ~exports'[i].expired =>
                ArtifactOf(i)' \notin listing.files
        BY <1>2, <1>11, <1>12, <2>2, <3>2 DEF ExportInv, ListingOK
      <3> QED
        BY <2>2, <3>1, <3>3 DEF ListingOK
    <2> QED
      BY <2>1, <2>2 DEF ListingOK
  <1> QED
    BY <1>1, <1>4, <1>7, <1>8, <1>9, <1>10, <1>13, <1>14, <1>15, ExportTypes DEF ExportInv

LEMMA SucceedStep ==
    ASSUME ExportInv, NEW w \in Exporters, Succeed(w)
    PROVE  ExportInv'
  <1>0. Working(w) /\ exporters[w] \in ExporterRecords /\ AttemptFile(w) \in final
    BY ExportTypes DEF Succeed, Working, ExportInv, ExporterOK
  <1>1. PICK j \in ExportJobs, a \in 0 .. MaxExportAttempts :
            /\ j = exporters[w].job /\ a = exporters[w].attempt
            /\ a \in 1 .. exports[j].attempt
    BY <1>0 DEF ExportInv, ExporterOK, ExporterRecords
  <1>2. CASE ~OwnsExport(w)
    BY <1>2, ExporterSteps DEF Succeed
  <1>3. CASE OwnsExport(w)
    <2> DEFINE row == [exports[j] EXCEPT !.status = "succeeded", !.fresh = TRUE, !.artifact = a]
    <2>1. exports[j] \in ExportRows /\ ExportRowOK(j)
      BY <1>1, ExportTypes DEF ExportInv
    <2>2. exports[j].attempt \in Nat
      BY ExportTypes DEF ExportRows
    <2>3. exports' = [exports EXCEPT ![j] = row]
      BY <1>1, <1>3, ExportTypes DEF Succeed
    <2>4. row = ExportRow("succeeded", exports[j].attempt, TRUE, a, exports[j].expired,
                          exports[j].deleted) /\ row \in ExportRows
      BY <2>1, RowSettled
    <2> HIDE DEF row
    <2>5. /\ row.status = "succeeded" /\ row.attempt = exports[j].attempt /\ row.artifact = a
          /\ row.fresh /\ row.expired = exports[j].expired /\ row.deleted = exports[j].deleted
      BY <2>4 DEF ExportRow
    <2>6. ~row.expired /\ ~row.deleted
      BY <1>1, <1>3, <2>1, <2>5 DEF OwnsExport, ExportRowOK
    <2>7. exports'[j] = row
      BY <1>1, <2>3, ExportTypes
    <2>8. ExportRowOK(j)'
      BY <1>1, <2>2, <2>5, <2>6, <2>7 DEF ExportRowOK
    <2>9. PICK pc \in {"done", "undo"} :
              /\ exporters' = [exporters EXCEPT ![w] = [exporters[w] EXCEPT !.pc = pc]]
              /\ doubtful \subseteq doubtful' /\ (pc = "undo" => j \in doubtful')
      BY <1>1, <1>3, ExportTypes DEF Succeed, ExportGoto
    <2> DEFINE x == [exporters[w] EXCEPT !.pc = pc]
    <2>12. pc \in ExportPcs
      BY DEF ExportPcs
    <2>13. exporters' = [exporters EXCEPT ![w] = x]
      BY <2>9
    <2>10. x \in ExporterRecords /\ x.pc = pc /\ x.job = j /\ x.attempt = a
      BY <1>0, <1>1, <2>12, ExporterEdits
    <2>11. UNCHANGED <<work, final, old, listing>>
      BY DEF Succeed
    <2> HIDE DEF x
    <2>14. /\ row \in ExportRows /\ row.artifact = exporters[w].attempt
           /\ x.pc \in {"done", "undo"} /\ x.attempt = exporters[w].attempt
           /\ doubtful \subseteq doubtful' /\ (x.pc = "undo" => j \in doubtful')
      BY <1>1, <2>4, <2>5, <2>9, <2>10
    <2> QED
      BY <1>0, <1>1, <1>3, <2>3, <2>5, <2>6, <2>8, <2>10, <2>11, <2>13, <2>14, AttemptSettles
  <1> QED
    BY <1>2, <1>3

LEMMA FailExportStep ==
    ASSUME ExportInv, NEW w \in Exporters, FailExport(w)
    PROVE  ExportInv'
  <1>0. PICK j \in ExportJobs : j = exporters[w].job
    BY DEF FailExport, Working, ExportInv, ExporterOK
  <1>1. Working(w) /\ exporters' = [exporters EXCEPT ![w] = IdleExporter]
        /\ UNCHANGED <<work, final, old, listing, doubtful>>
    BY DEF FailExport, Working
  <1>2. IdleExporter \in ExporterRecords /\ IdleExporter.pc = "idle"
    BY ExportAssumption DEF IdleExporter, ExporterRecords, ExportPcs, Nobody
  <1>3. CASE UNCHANGED exports
    BY <1>1, <1>2, <1>3, ExporterMoves
  <1>4. CASE OwnsExport(w) /\ exports' = [exports EXCEPT ![j].status = "failed", ![j].fresh = TRUE]
    <2> DEFINE row == [exports[j] EXCEPT !.status = "failed", !.fresh = TRUE]
    <2>1. exports[j] \in ExportRows /\ ExportRowOK(j)
      BY <1>1, ExportTypes DEF ExportInv
    <2>2. exports' = [exports EXCEPT ![j] = row] /\ exports'[j] = row
      BY <1>1, <1>4, ExportTypes
    <2>6. 0 \in 0 .. MaxExportAttempts
      BY ExportAssumption
    <2>3. row \in ExportRows
          /\ row = ExportRow("failed", exports[j].attempt, TRUE, exports[j].artifact,
                             exports[j].expired, exports[j].deleted)
      BY <2>1, <2>6, RowSettled
    <2> HIDE DEF row
    <2>4. /\ row.status = "failed" /\ row.attempt = exports[j].attempt
          /\ row.fresh /\ row.expired = exports[j].expired /\ row.deleted = exports[j].deleted
      BY <2>3 DEF ExportRow
    <2>5. ExportRowOK(j)'
      BY <1>0, <1>4, <2>1, <2>2, <2>4 DEF OwnsExport, ExportRowOK
    <2> QED
      BY <1>0, <1>1, <1>2, <1>4, <2>2, <2>3, <2>4, <2>5, AttemptSettles
  <1> QED
    BY <1>0, <1>3, <1>4 DEF FailExport

\* Files go that no attempt under way needs and no success that has not expired.
LEMMA FilesGo ==
    ASSUME ExportInv, exports' \in [ExportJobs -> ExportRows],
           \A j \in ExportJobs :
               /\ exports'[j].status = exports[j].status /\ exports'[j].attempt = exports[j].attempt
               /\ exports'[j].artifact = exports[j].artifact
               /\ exports'[j].fresh = exports[j].fresh /\ exports'[j].expired = exports[j].expired
               /\ exports'[j].deleted =>
                      \/ exports[j].deleted
                      \/ /\ exports[j].status = "succeeded" /\ exports[j].expired
                         /\ ArtifactOf(j) \notin final',
           work' \subseteq work, final' \subseteq final, old' \subseteq old,
           old' \subseteq work' \cup final',
           \A w \in Exporters : Working(w) =>
               /\ AttemptFile(w) \in work => AttemptFile(w) \in work'
               /\ exporters[w].pc = "succeed" => AttemptFile(w) \in final',
           \A j \in ExportJobs :
               exports[j].status = "succeeded" /\ ~exports[j].expired /\ j \notin doubtful =>
                   ArtifactOf(j) \in final',
           listing' = listing \/ listing' = NoListing,
           UNCHANGED <<exporters, doubtful>>
    PROVE  ExportInv'
  <1>1. listing' \in ListingRecords /\ listing'.files \subseteq listing.files
        /\ (listing'.kind # "none" => listing' = listing)
    BY ExportTypes DEF NoListing, ListingRecords
  <1>2. ExportTypeOK'
    BY ExportTypes, ExportTypesSuffice
  <1>3. /\ \A j \in ExportJobs : ArtifactOf(j)' = ArtifactOf(j)
        /\ \A w \in Exporters : AttemptFile(w)' = AttemptFile(w) /\ (Working(w)' <=> Working(w))
    BY DEF ArtifactOf, AttemptFile, Working
  <1>4. \A w \in Exporters : ExporterOK(w)'
    BY <1>3 DEF ExportInv, ExporterOK
  <1>5. Apart'
    BY <1>3 DEF ExportInv, Apart
  <1>6. \A j \in ExportJobs : ExportRowOK(j)'
    BY DEF ExportInv, ExportRowOK
  <1>7. ExportFilesOK'
    <2> SUFFICES ASSUME NEW f \in work \cup final \cup listing.files
                 PROVE  f[2] <= exports'[f[1]].attempt
      BY <1>1 DEF ExportFilesOK
    <2>1. f \in Files
      BY ExportTypes DEF ListingRecords
    <2> QED
      BY <2>1, FilePairs DEF ExportInv, ExportFilesOK
  <1>8. ArtifactOver'
    BY <1>3 DEF ExportInv, ArtifactOver
  <1>9. ArtifactKept'
    BY <1>3 DEF ExportInv, ArtifactKept
  <1>10. ListingOK'
    BY <1>1, <1>3 DEF ExportInv, ListingOK
  <1> QED
    BY <1>1, <1>2, <1>4, <1>5, <1>6, <1>7, <1>8, <1>9, <1>10, ExportTypes DEF ExportInv

LEMMA CleanupSteps ==
    ASSUME ExportInv, ReconcileFinal \/ CleanupWorkspaces
    PROVE  ExportInv'
  <1>1. CASE ReconcileFinal
    <2>1. /\ exports' = exports /\ exporters' = exporters /\ doubtful' = doubtful /\ work' = work
          /\ final' = final \ listing.files /\ old' = old \ (listing.files \ work)
          /\ listing' = NoListing /\ listing.kind = "files"
      BY <1>1 DEF ReconcileFinal
    <2>2. old' \subseteq work' \cup final'
      BY <2>1, ExportTypes
    <2>3. \A w \in Exporters : Working(w) /\ exporters[w].pc = "succeed" => AttemptFile(w) \in final'
      BY <2>1 DEF ExportInv, ExporterOK, ListingOK
    <2>4. \A j \in ExportJobs :
              exports[j].status = "succeeded" /\ ~exports[j].expired /\ j \notin doubtful =>
                  ArtifactOf(j) \in final'
      BY <2>1 DEF ExportInv, ArtifactKept, ListingOK
    <2> QED
      BY <2>1, <2>2, <2>3, <2>4, ExportTypes, FilesGo
  <1>2. CASE CleanupWorkspaces
    <2>1. /\ exports' = exports /\ exporters' = exporters /\ doubtful' = doubtful /\ final' = final
          /\ work' = work \ old /\ old' = old \cap final /\ listing' = listing
      BY <1>2 DEF CleanupWorkspaces
    <2>2. old' \subseteq work' \cup final'
      BY <2>1
    <2>3. \A w \in Exporters : Working(w) =>
              /\ AttemptFile(w) \in work => AttemptFile(w) \in work'
              /\ exporters[w].pc = "succeed" => AttemptFile(w) \in final'
      BY <2>1 DEF ExportInv, ExporterOK
    <2>4. \A j \in ExportJobs :
              exports[j].status = "succeeded" /\ ~exports[j].expired /\ j \notin doubtful =>
                  ArtifactOf(j) \in final'
      BY <2>1 DEF ExportInv, ArtifactKept
    <2> QED
      BY <2>1, <2>2, <2>3, <2>4, ExportTypes, FilesGo
  <1> QED
    BY <1>1, <1>2

LEMMA MarkArtifactDeletedStep ==
    ASSUME ExportInv, NEW j \in ExportJobs, MarkArtifactDeleted(j)
    PROVE  ExportInv'
  <1>1. /\ listing' = NoListing /\ exporters' = exporters /\ doubtful' = doubtful /\ work' = work
        /\ listing.files = {ArtifactOf(j)} /\ listing.kind = "expired"
    BY DEF MarkArtifactDeleted
  <1>2. exports[j].status = "succeeded" /\ exports[j].expired
    <2>1. PICK i \in ExportJobs : /\ exports[i].status = "succeeded" /\ exports[i].expired
                                  /\ listing.files = {ArtifactOf(i)}
      BY <1>1 DEF ExportInv, ListingOK
    <2>2. ArtifactOf(i) = ArtifactOf(j)
      BY <1>1, <2>1
    <2>3. i = j
      BY <2>2 DEF ArtifactOf
    <2> QED
      BY <2>1, <2>3
  <1>3. \A i \in ExportJobs :
            exports[i].status = "succeeded" /\ ~exports[i].expired /\ i \notin doubtful =>
                ArtifactOf(i) \in final \ listing.files
    <2>1. \A i \in ExportJobs : i # j => ArtifactOf(i) # ArtifactOf(j)
      BY DEF ArtifactOf
    <2> QED
      BY <1>1, <1>2, <2>1 DEF ExportInv, ArtifactKept
  <1>4. \A w \in Exporters : Working(w) /\ exporters[w].pc = "succeed" =>
            AttemptFile(w) \in final \ listing.files
    BY <1>1, <1>2 DEF ExportInv, ExporterOK, ArtifactOver
  <1>5. CASE UNCHANGED <<exports, final, old>>
    BY <1>1, <1>3, <1>4, <1>5, ExportTypes, FilesGo
  <1>6. ASSUME NEW marked \in BOOLEAN, final' = final \ listing.files,
               old' = old \ (listing.files \ work),
               exports' = [exports EXCEPT ![j].deleted = marked \/ @]
        PROVE  ExportInv'
    <2>1. exports[j] \in ExportRows
      BY ExportTypes
    <2>2. PICK d \in BOOLEAN : d = (marked \/ exports[j].deleted)
      BY <2>1, RowFields
    <2>3. exports'[j] = [exports[j] EXCEPT !.deleted = d]
          /\ exports' = [exports EXCEPT ![j] = [exports[j] EXCEPT !.deleted = d]]
      BY <1>6, <2>2, ExportTypes
    <2>4. [exports[j] EXCEPT !.deleted = d] \in ExportRows
      BY <2>1, RowEditsOK
    <2>5. exports' \in [ExportJobs -> ExportRows]
          /\ \A i \in ExportJobs : i # j => exports'[i] = exports[i]
      BY <2>3, <2>4, ExportTypes
    <2>6. exports'[j] = ExportRow(exports[j].status, exports[j].attempt, exports[j].fresh,
                                  exports[j].artifact, exports[j].expired, d)
      BY <2>1, <2>3, RowEdits
    <2>7. /\ exports'[j].status = exports[j].status /\ exports'[j].attempt = exports[j].attempt
          /\ exports'[j].artifact = exports[j].artifact
          /\ exports'[j].fresh = exports[j].fresh /\ exports'[j].expired = exports[j].expired
      BY <2>6 DEF ExportRow
    <2>8. ArtifactOf(j) \notin final' /\ old' \subseteq work' \cup final'
      BY <1>1, <1>6, ExportTypes
    <2>9. \A i \in ExportJobs :
              /\ exports'[i].status = exports[i].status /\ exports'[i].attempt = exports[i].attempt
              /\ exports'[i].artifact = exports[i].artifact
              /\ exports'[i].fresh = exports[i].fresh /\ exports'[i].expired = exports[i].expired
              /\ exports'[i].deleted =>
                     \/ exports[i].deleted
                     \/ /\ exports[i].status = "succeeded" /\ exports[i].expired
                        /\ ArtifactOf(i) \notin final'
      BY <1>2, <2>5, <2>7, <2>8
    <2> QED
      BY <1>1, <1>3, <1>4, <1>6, <2>5, <2>8, <2>9, ExportTypes, FilesGo
  <1> QED
    BY <1>5, <1>6 DEF MarkArtifactDeleted

LEMMA ListingSteps ==
    ASSUME ExportInv, ReferencedArtifacts \/ (\E j \in ExportJobs : ExpiredArtifacts(j))
    PROVE  ExportInv'
  <1>1. UNCHANGED <<exports, exporters, work, final, old, doubtful>>
    BY DEF ReferencedArtifacts, ExpiredArtifacts
  <1>2. ExportTypeOK'
    BY <1>1, ExportTypes, ExportTypesSuffice
  <1>3. /\ listing' \in ListingRecords /\ ListingOK'
        /\ \A f \in listing'.files : f[2] <= exports[f[1]].attempt
    <2>1. CASE ReferencedArtifacts
      <3>1. listing' = [kind |-> "files", files |-> Orphans] /\ Orphans \subseteq old \cap final
        BY <2>1 DEF ReferencedArtifacts, Orphans
      <3>2. listing' \in ListingRecords
        BY <3>1, ExportTypes DEF ListingRecords
      <3>3. \A w \in Exporters : Working(w) => AttemptFile(w) \notin Orphans
        BY <3>1 DEF ExportInv, ExporterOK
      <3>4. \A j \in ExportJobs : exports[j].status = "succeeded" /\ ~exports[j].expired =>
                ArtifactOf(j) \notin Orphans
        BY DEF ExportInv, ExportRowOK, Orphans, Referenced
      <3>5. ListingOK'
        BY <1>1, <3>1, <3>3, <3>4 DEF ListingOK, ArtifactOf, AttemptFile, Working
      <3> QED
        BY <3>1, <3>2, <3>5 DEF ExportInv, ExportFilesOK
    <2>2. ASSUME NEW j \in ExportJobs, ExpiredArtifacts(j)
          PROVE  /\ listing' \in ListingRecords /\ ListingOK'
                 /\ \A f \in listing'.files : f[2] <= exports[f[1]].attempt
      <3>1. /\ listing' = [kind |-> "expired", files |-> {ArtifactOf(j)}]
            /\ exports[j].status = "succeeded" /\ exports[j].expired
        BY <2>2 DEF ExpiredArtifacts, Referenced
      <3>2. exports[j].artifact \in 1 .. exports[j].attempt
            /\ exports[j].attempt \in 0 .. MaxExportAttempts
        BY <3>1, ExportTypes, RowFields DEF ExportInv, ExportRowOK
      <3>3. ArtifactOf(j) \in Files /\ ArtifactOf(j)[2] <= exports[ArtifactOf(j)[1]].attempt
        BY <3>2, ExportTypes DEF ArtifactOf, Files
      <3> QED
        BY <1>1, <3>1, <3>3 DEF ListingRecords, ListingOK, ArtifactOf
    <2> QED
      BY <2>1, <2>2
  <1>4. ExportFilesOK'
    BY <1>1, <1>3 DEF ExportInv, ExportFilesOK
  <1>5. \A w \in Exporters : ExporterOK(w)'
    BY <1>1 DEF ExportInv, ExporterOK, Working, AttemptFile
  <1>6. Apart' /\ ArtifactOver' /\ ArtifactKept'
    BY <1>1 DEF ExportInv, Apart, ArtifactOver, ArtifactKept, ArtifactOf, Working, AttemptFile
  <1>7. \A j \in ExportJobs : ExportRowOK(j)'
    BY <1>1 DEF ExportInv, ExportRowOK
  <1> QED
    BY <1>1, <1>2, <1>3, <1>4, <1>5, <1>6, <1>7, ExportTypes DEF ExportInv

LEMMA AgeFileStep ==
    ASSUME ExportInv, NEW f \in Files, AgeFile(f)
    PROVE  ExportInv'
  <1>1. /\ UNCHANGED <<exports, exporters, work, final, listing, doubtful>>
        /\ old' = old \cup {f} /\ f \in work \cup final
        /\ \A w \in Exporters : Working(w) => AttemptFile(w) # f
    BY DEF AgeFile, Working
  <1>2. ExportTypeOK'
    BY <1>1, ExportTypes, ExportTypesSuffice
  <1>3. \A w \in Exporters : ExporterOK(w)'
    BY <1>1 DEF ExportInv, ExporterOK, Working, AttemptFile
  <1>4. Apart' /\ ArtifactOver' /\ ArtifactKept'
    BY <1>1 DEF ExportInv, Apart, ArtifactOver, ArtifactKept, ArtifactOf, Working, AttemptFile
  <1>5. ExportFilesOK' /\ ListingOK'
    BY <1>1 DEF ExportInv, ExportFilesOK, ListingOK, ArtifactOf, Working, AttemptFile
  <1>6. \A j \in ExportJobs : ExportRowOK(j)'
    BY <1>1 DEF ExportInv, ExportRowOK
  <1> QED
    BY <1>1, <1>2, <1>3, <1>4, <1>5, <1>6, ExportTypes DEF ExportInv

LEMMA ExportCrashStep ==
    ASSUME ExportInv, ExportCrash
    PROVE  ExportInv'
  <1>1. /\ UNCHANGED <<exports, work, final, old, listing, doubtful>>
        /\ exporters' = [w \in Exporters |-> IdleExporter]
    BY DEF ExportCrash
  <1>2. IdleExporter \in ExporterRecords /\ IdleExporter.pc = "idle"
    BY ExportAssumption DEF IdleExporter, ExporterRecords, ExportPcs, Nobody
  <1>3. exporters' \in [Exporters -> ExporterRecords] /\ \A w \in Exporters : ~Working(w)'
    BY <1>1, <1>2 DEF Working
  <1>4. ExportTypeOK'
    BY <1>1, <1>3, ExportTypes, ExportTypesSuffice
  <1>5. \A w \in Exporters : ExporterOK(w)'
    BY <1>3 DEF ExporterOK
  <1>6. Apart' /\ ArtifactOver'
    BY <1>3 DEF Apart, ArtifactOver
  <1>7. ExportFilesOK' /\ ArtifactKept'
    BY <1>1 DEF ExportInv, ExportFilesOK, ArtifactKept, ArtifactOf
  <1>8. ListingOK'
    BY <1>1, <1>3 DEF ExportInv, ListingOK, ArtifactOf
  <1>9. \A j \in ExportJobs : ExportRowOK(j)'
    BY <1>1 DEF ExportInv, ExportRowOK
  <1> QED
    BY <1>1, <1>3, <1>4, <1>5, <1>6, <1>7, <1>8, <1>9, ExportTypes DEF ExportInv

LEMMA TidyStep ==
    ASSUME ExportInv, NEW w \in Exporters, Tidy(w)
    PROVE  ExportInv'
  <1> DEFINE x == IF exporters[w].pc = "undo" THEN [exporters[w] EXCEPT !.pc = "fail"]
                  ELSE IdleExporter
  <1>1. /\ UNCHANGED <<exports, listing, doubtful>>
        /\ exporters' = [exporters EXCEPT ![w] = x]
        /\ exporters[w].pc \in {"done", "lost", "undo"} /\ Working(w)
    BY ExportTypes DEF Tidy, Working
  <1>2. /\ work' = work \ {AttemptFile(w)}
        /\ final' = final \/ (final' = final \ {AttemptFile(w)} /\ exporters[w].pc # "done")
        /\ old' = old \ (Files \ (work' \cup final'))
    BY DEF Tidy
  <1>3. /\ x \in ExporterRecords
        /\ \/ x.pc = "idle"
           \/ /\ x.pc = "fail" /\ exporters[w].pc = "undo"
              /\ x.job = exporters[w].job /\ x.attempt = exporters[w].attempt
    <2>1. IdleExporter \in ExporterRecords /\ IdleExporter.pc = "idle"
      BY ExportAssumption DEF IdleExporter, ExporterRecords, ExportPcs, Nobody
    <2>2. "fail" \in ExportPcs /\ exporters[w] \in ExporterRecords
      BY ExportTypes DEF ExportPcs
    <2> QED
      BY <2>1, <2>2, ExporterEdits
  <1> HIDE DEF x
  <1>4. /\ exporters' \in [Exporters -> ExporterRecords] /\ exporters'[w] = x
        /\ \A v \in Exporters : v # w => exporters'[v] = exporters[v]
    BY <1>1, <1>3, ExportTypes
  <1>5. \A v \in Exporters : Working(v)' => Working(v) /\ AttemptFile(v)' = AttemptFile(v)
    BY <1>1, <1>3, <1>4 DEF Working, AttemptFile
  <1>6. work' \subseteq work /\ final' \subseteq final /\ old' \subseteq old
        /\ old' \subseteq work' \cup final'
    BY <1>2, ExportTypes
  <1>7. ExportTypeOK'
    BY <1>1, <1>4, <1>6, ExportTypes, ExportTypesSuffice
  <1>8. \A v \in Exporters : ExporterOK(v)'
    <2>1. ExporterOK(w)'
      BY <1>1, <1>3, <1>4, <1>5, <1>6 DEF ExportInv, ExporterOK, Working
    <2>2. ASSUME NEW v \in Exporters, v # w, Working(v) PROVE ExporterOK(v)'
      <3>1. AttemptFile(v) # AttemptFile(w)
        BY <1>1, <2>2 DEF ExportInv, Apart
      <3> QED
        BY <1>1, <1>2, <1>4, <1>5, <1>6, <2>2, <3>1 DEF ExportInv, ExporterOK
    <2> QED
      BY <1>5, <2>1, <2>2 DEF ExporterOK
  <1>9. Apart'
    BY <1>5 DEF ExportInv, Apart
  <1>10. \A j \in ExportJobs : ExportRowOK(j)'
    BY <1>1 DEF ExportInv, ExportRowOK
  <1>11. ExportFilesOK'
    BY <1>1, <1>6 DEF ExportInv, ExportFilesOK
  <1>12. ArtifactOver'
    <2>1. \A j \in ExportJobs : ArtifactOf(j)' = ArtifactOf(j)
      BY <1>1 DEF ArtifactOf
    <2> QED
      BY <1>1, <1>3, <1>4, <1>5, <2>1 DEF ExportInv, ArtifactOver, Working
  <1>13. ArtifactKept'
    <2>1. \A j \in ExportJobs : ArtifactOf(j)' = ArtifactOf(j)
      BY <1>1 DEF ArtifactOf
    <2>2. ASSUME NEW j \in ExportJobs, exports[j].status = "succeeded", ~exports[j].expired,
                 j \notin doubtful
          PROVE  ArtifactOf(j) \in final'
      <3>1. ArtifactOf(j) \in final
        BY <2>2 DEF ExportInv, ArtifactKept
      <3>2. AttemptFile(w) = ArtifactOf(j) => exporters[w].pc = "done"
        BY <1>1, <2>2 DEF ExportInv, ArtifactOver
      <3> QED
        BY <1>2, <3>1, <3>2
    <2> QED
      BY <1>1, <1>6, <2>1, <2>2 DEF ExportInv, ArtifactKept
  <1>14. ListingOK'
    BY <1>1, <1>5 DEF ExportInv, ListingOK, ArtifactOf
  <1> QED
    BY <1>1, <1>4, <1>7, <1>8, <1>9, <1>10, <1>11, <1>12, <1>13, <1>14, ExportTypes DEF ExportInv

LEMMA ExportStep == ExportInv /\ [ExportNext]_exportVars => ExportInv'
  <1> SUFFICES ASSUME ExportInv, [ExportNext]_exportVars PROVE ExportInv'
    OBVIOUS
  <1>1. CASE UNCHANGED exportVars
    <2>1. UNCHANGED <<exports, exporters, work, final, old, listing, doubtful>>
      BY <1>1 DEF exportVars
    <2>2. ExportTypeOK' /\ ListingOK' /\ Apart'
      BY <2>1 DEF ExportInv, ExportTypeOK, ListingOK, Apart, Working, AttemptFile, ArtifactOf
    <2>3. (\A w \in Exporters : ExporterOK(w)') /\ (\A j \in ExportJobs : ExportRowOK(j)')
      BY <2>1 DEF ExportInv, ExporterOK, ExportRowOK, Working, AttemptFile
    <2>4. ExportFilesOK' /\ ArtifactOver' /\ ArtifactKept'
      BY <2>1 DEF ExportInv, ExportFilesOK, ArtifactOver, ArtifactKept, Working, AttemptFile,
                  ArtifactOf
    <2> QED
      BY <2>1, <2>2, <2>3, <2>4 DEF ExportInv
  <1>2. ASSUME NEW j \in ExportJobs,
               \/ SubmitExport(j) \/ ClaimExportUnanswered(j) \/ ExportGoesStale(j)
               \/ RequeueStaleExport(j) \/ ExpireExport(j)
        PROVE  ExportInv'
    BY <1>2, ExportRowSteps
  <1>3. ASSUME NEW j \in ExportJobs, MarkArtifactDeleted(j) PROVE ExportInv'
    BY <1>3, MarkArtifactDeletedStep
  <1>4. ASSUME NEW j \in ExportJobs, NEW w \in Exporters, ClaimExport(w, j) PROVE ExportInv'
    BY <1>4, ClaimExportStep
  <1>5. ASSUME NEW w \in Exporters, ExportWork(w) \/ ExportHeartbeat(w) \/ ExportFault(w)
        PROVE  ExportInv'
    BY <1>5, AttemptAddsSteps, ExporterSteps, SucceedStep, TidyStep, FailExportStep,
       ExportHeartbeatStep DEF ExportWork
  <1>6. CASE ReferencedArtifacts \/ (\E j \in ExportJobs : ExpiredArtifacts(j))
    BY <1>6, ListingSteps
  <1>7. ASSUME NEW f \in Files, AgeFile(f) PROVE ExportInv'
    BY <1>7, AgeFileStep
  <1>8. CASE ExportCrash
    BY <1>8, ExportCrashStep
  <1>9. CASE ReconcileFinal \/ CleanupWorkspaces
    BY <1>9, CleanupSteps
  <1> QED
    BY <1>1, <1>2, <1>3, <1>4, <1>5, <1>6, <1>7, <1>8, <1>9 DEF ExportNext

LEMMA ExportStart == ExportInit => ExportInv
  <1> SUFFICES ASSUME ExportInit PROVE ExportInv
    OBVIOUS
  <1>1. exports \in [ExportJobs -> ExportRows]
    <2>1. exports = [j \in ExportJobs |-> ExportRow("none", 0, FALSE, 0, FALSE, FALSE)]
      BY DEF ExportInit, ExportRow
    <2>2. 0 \in 0 .. MaxExportAttempts
      BY ExportAssumption
    <2>3. ExportRow("none", 0, FALSE, 0, FALSE, FALSE) \in ExportRows
      BY <2>2, RowMade
    <2> QED
      BY <2>1, <2>3
  <1>2. exporters \in [Exporters -> ExporterRecords] /\ \A w \in Exporters : ~Working(w)
    <2>1. IdleExporter \in ExporterRecords /\ IdleExporter.pc = "idle"
      BY ExportAssumption DEF IdleExporter, ExporterRecords, ExportPcs, Nobody
    <2> QED
      BY <2>1 DEF ExportInit, Working
  <1>3. listing \in ListingRecords /\ listing.files = {} /\ listing.kind = "none"
    BY DEF ExportInit, NoListing, ListingRecords
  <1>4. work = {} /\ final = {} /\ old = {}
    BY DEF ExportInit
  <1>5. ExportTypeOK
    BY <1>1, <1>2, <1>4 DEF ExportTypeOK, ExportRows, ExporterRecords, ExportPcs
  <1>6. \A j \in ExportJobs : /\ exports[j].status = "none" /\ exports[j].attempt = 0
                              /\ ~exports[j].expired /\ ~exports[j].deleted
    BY DEF ExportInit
  <1>7. \A j \in ExportJobs : ExportRowOK(j)
    BY <1>6, ExportAssumption DEF ExportRowOK
  <1>8. (\A w \in Exporters : ExporterOK(w)) /\ Apart
    BY <1>2 DEF ExporterOK, Apart
  <1>9. ExportFilesOK /\ ArtifactOver /\ ListingOK /\ ArtifactKept
    BY <1>2, <1>3, <1>4, <1>6 DEF ExportFilesOK, ArtifactOver, ListingOK, ArtifactKept
  <1> QED
    BY <1>2, <1>3, <1>5, <1>7, <1>8, <1>9 DEF ExportInv

\* reportexport/worker.go execute and cleanup, storage.go: for any number of
\* workers, jobs and attempts, an attempt finds its workspace, and the artifact
\* of a success stays until it expires if the worker learnt of the success.
THEOREM ExportSafetyHolds == ExportSpec => []ExportSafety
  <1>1. ExportInv => ExportSafety
    <2> SUFFICES ASSUME ExportInv PROVE WorkspaceKept
      BY DEF ExportInv, ExportSafety
    <2> QED
      BY DEF ExportInv, ExporterOK, Working, WorkspaceKept
  <1> QED
    BY <1>1, ExportStart, ExportStep, PTL DEF ExportSpec

=============================================================================
