---------------------------- MODULE ReportPages ----------------------------
(***************************************************************************)
(* The report catalogue beside the users' shelves.  They share no          *)
(* variable: what a shelf needs of the catalogue is which reports are      *)
(* visible.                                                                *)
(***************************************************************************)
EXTENDS ReportCatalog, ReportShelf

\* reporting/service.go SetTemplateStatus, UpdateTemplate, SetDatasourceStatus,
\* pool.go Database and organization.go MoveReportToFolder: whatever requests
\* overlap, an active report has the query that was validated, a datasource was
\* activated with the settings its test had connected with, a request's queries
\* run with the settings it has read, and reports are filed only in folders their
\* user has.
ReportSafety == CatalogSafety /\ ShelfSafety
=============================================================================
