---------------------------- MODULE ReportShelf ----------------------------
(***************************************************************************)
(* A user's own order of the reports granted to him: folders, and per      *)
(* report a folder and a star (internal/reporting/organization.go, the     *)
(* handlers of internal/features/reports/organization.go).                 *)
(*                                                                         *)
(* A transaction that touches a folder locks its row and commits in a      *)
(* later step; what it read stays true only because of that lock.  The     *)
(* foreign key from report_user_preferences to report_user_folders is left *)
(* out: the property says that no statement ever runs into it.             *)
(***************************************************************************)
EXTENDS Integers, FiniteSets

CONSTANTS
    Owners,      \* users
    Shown,       \* reports
    Folders,     \* ids of folders; an id is given out once
    Names,       \* names of folders
    Edits        \* requests under way

Nothing == "nothing"

ASSUME ShelfAssumption == Nothing \notin Owners \cup Folders

VARIABLES
    folders,     \* report_user_folders: owner and name by id
    preferences, \* report_user_preferences: folder and star by user and report
    visible,     \* user and report: granted, both active, the datasource active
    edits        \* edits[e]: the transaction of a request, and the folder it locks

shelfVars == <<folders, preferences, visible, edits>>

NoFolder == [owner |-> Nothing, name |-> Nothing, deleted |-> FALSE]
NoPreference == [folder |-> Nothing, starred |-> FALSE]
NoEdit == [op |-> Nothing, owner |-> Nothing, report |-> Nothing, folder |-> Nothing,
           name |-> Nothing]

ShelfInit ==
    /\ folders = [f \in Folders |-> NoFolder]
    /\ preferences = [p \in Owners \X Shown |-> NoPreference]
    /\ visible = {}
    /\ edits = [e \in Edits |-> NoEdit]

\* Grants and states of templates, datasources and users change elsewhere.
SetVisible(u, r) ==
    /\ \/ visible' = visible \cup {<<u, r>>}
       \/ visible' = visible \ {<<u, r>>}
    /\ UNCHANGED <<folders, preferences, edits>>

Taken(u, n) == \E f \in Folders : folders[f].owner = u /\ folders[f].name = n

\* CreateUserReportFolder: a name may be used once by one user.
CreateUserReportFolder(u, f, n) ==
    /\ folders[f] = NoFolder
    /\ ~Taken(u, n)
    /\ folders' = [folders EXCEPT ![f] = [NoFolder EXCEPT !.owner = u, !.name = n]]
    /\ UNCHANGED <<preferences, visible, edits>>

\* lockUserFolder: the row of this user, which no other transaction holds.
lockUserFolder(u, f) ==
    /\ folders[f].owner = u
    /\ \A e \in Edits : edits[e].folder # f

Begins(e, edit) ==
    /\ edits[e] = NoEdit
    /\ edits' = [edits EXCEPT ![e] = edit]
    /\ UNCHANGED <<folders, preferences, visible>>

Ends(e) == edits' = [edits EXCEPT ![e] = NoEdit]

RenameUserReportFolder(e, u, f, n) ==
    /\ lockUserFolder(u, f)
    /\ Begins(e, [NoEdit EXCEPT !.op = "rename", !.owner = u, !.folder = f, !.name = n])

DeleteUserReportFolder(e, u, f) ==
    /\ lockUserFolder(u, f)
    /\ Begins(e, [NoEdit EXCEPT !.op = "delete", !.owner = u, !.folder = f])

\* lockVisibleReport and lockUserFolder; no folder stands for "unfiled".
lockVisibleReport(u, r) == <<u, r>> \in visible

MoveReportToFolder(e, u, r, f) ==
    /\ lockVisibleReport(u, r)
    /\ f # Nothing => lockUserFolder(u, f)
    /\ Begins(e, [NoEdit EXCEPT !.op = "move", !.owner = u, !.report = r, !.folder = f])

SetReportStarred(u, r) ==
    /\ lockVisibleReport(u, r)
    /\ \E s \in BOOLEAN : preferences' = [preferences EXCEPT ![<<u, r>>].starred = s]
    /\ UNCHANGED <<folders, visible, edits>>

CommitRename(e) ==
    /\ edits[e].op = "rename"
    /\ IF Taken(edits[e].owner, edits[e].name)
         THEN UNCHANGED folders
         ELSE folders' = [folders EXCEPT ![edits[e].folder].name = edits[e].name]
    /\ Ends(e)
    /\ UNCHANGED <<preferences, visible>>

\* Every membership goes with the folder, also of reports not visible now.
CommitDelete(e) ==
    LET f == edits[e].folder IN
    /\ edits[e].op = "delete"
    /\ preferences' = [p \in DOMAIN preferences |->
           IF p[1] = edits[e].owner /\ preferences[p].folder = f
             THEN [preferences[p] EXCEPT !.folder = Nothing] ELSE preferences[p]]
    /\ folders' = [folders EXCEPT ![f] = [NoFolder EXCEPT !.deleted = TRUE]]
    /\ Ends(e)
    /\ UNCHANGED visible

CommitMove(e) ==
    /\ edits[e].op = "move"
    /\ preferences' = [preferences EXCEPT
           ![<<edits[e].owner, edits[e].report>>].folder = edits[e].folder]
    /\ Ends(e)
    /\ UNCHANGED <<folders, visible>>

\* The connection is lost, or the statement fails: the transaction rolls back.
Rollback(e) ==
    /\ edits[e] # NoEdit
    /\ Ends(e)
    /\ UNCHANGED <<folders, preferences, visible>>

ShelfNext ==
    \/ \E u \in Owners, r \in Shown : SetVisible(u, r) \/ SetReportStarred(u, r)
    \/ \E u \in Owners, f \in Folders, n \in Names : CreateUserReportFolder(u, f, n)
    \/ \E e \in Edits :
          \/ \E u \in Owners, f \in Folders :
                \/ \E n \in Names : RenameUserReportFolder(e, u, f, n)
                \/ DeleteUserReportFolder(e, u, f)
          \/ \E u \in Owners, r \in Shown, f \in Folders \cup {Nothing} :
                MoveReportToFolder(e, u, r, f)
          \/ CommitRename(e) \/ CommitDelete(e) \/ CommitMove(e) \/ Rollback(e)

ShelfSpec == ShelfInit /\ [][ShelfNext]_shelfVars

-----------------------------------------------------------------------------
(* Properties *)

\* organization.go DeleteUserReportFolder, MoveReportToFolder: a report is filed in
\* a folder that exists and is the same user's, whichever transactions overlap,
\* and no user has two folders of one name.
ShelfSafety ==
    /\ \A p \in Owners \X Shown :
          preferences[p].folder # Nothing => folders[preferences[p].folder].owner = p[1]
    /\ \A f, g \in Folders :
          folders[f].owner = folders[g].owner /\ folders[f].name = folders[g].name
              => f = g \/ folders[f].owner = Nothing
=============================================================================
