------------------------------ MODULE MCWaiting -----------------------------
(***************************************************************************)
(* Work that somebody waits for, side by side: the calls of one Fincloud   *)
(* client, the callers of one username's lane, report exports, and a Run   *)
(* All parent.  Each behaviour is of one of them; the others stay in their *)
(* initial states, in which their fairness asks for nothing.               *)
(***************************************************************************)
EXTENDS FincloudClient, SessionLane, ReportExport, RunAll

VARIABLE part

MCInit ==
    /\ part \in {"client", "lane", "export", "parent"}
    /\ Init /\ LaneInit /\ ExportInit /\ RunAllInit

MCNext ==
    \/ part = "client" /\ Next /\ UNCHANGED <<part, laneVars, exportVars, runAllVars>>
    \/ part = "lane" /\ LaneNext /\ UNCHANGED <<part, vars, exportVars, runAllVars>>
    \/ part = "export" /\ ExportNext /\ UNCHANGED <<part, vars, laneVars, runAllVars>>
    \/ part = "parent" /\ RunAllNext /\ UNCHANGED <<part, vars, laneVars, exportVars>>

MCSpec ==
    /\ MCInit /\ [][MCNext]_<<part, vars, laneVars, exportVars, runAllVars>>
    /\ Fairness /\ LaneFairness /\ ExportFairness /\ RunAllFairness
=============================================================================
