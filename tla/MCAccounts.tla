----------------------------- MODULE MCAccounts -----------------------------
(***************************************************************************)
(* The administration pages on small instances: accounts, login with the   *)
(* second factor, the report catalogue, a user's shelf of reports, and the  *)
(* Fincloud auth profiles.                                                 *)
(* Each module has what it needs of the tables they share, so a behaviour  *)
(* is about one of them ("part") and the others keep their initial state.  *)
(* As they never mix, they are given the same model values, and one        *)
(* symmetry serves them all.                                               *)
(***************************************************************************)
EXTENDS AccountAdmin, AuthProfiles, BrowserAuth, ReportPages, TLC

VARIABLE part

allVars == <<part, accountVars, authVars, catalogVars, shelfVars, profileVars>>

MCInit ==
    /\ part \in {"accounts", "auth", "catalog", "shelf", "profiles"}
    /\ AccountInit /\ AuthInit /\ CatalogInit /\ ShelfInit /\ ProfileInit

\* Bound: the settings of a datasource and a template are saved five times in all.
FewSaves ==
    \A d \in Datasources, r \in Reports : sources'[d].revision + templates'[r].revision <= 5

MCNext ==
    \/ /\ part = "accounts" /\ AccountNext
       /\ UNCHANGED <<part, authVars, catalogVars, shelfVars, profileVars>>
    \/ /\ part = "auth" /\ AuthNext
       /\ UNCHANGED <<part, accountVars, catalogVars, shelfVars, profileVars>>
    \/ /\ part = "catalog" /\ CatalogNext /\ FewSaves
       /\ UNCHANGED <<part, accountVars, authVars, shelfVars, profileVars>>
    \/ /\ part = "shelf" /\ ShelfNext
       /\ UNCHANGED <<part, accountVars, authVars, catalogVars, profileVars>>
    \/ /\ part = "profiles" /\ ProfileNext
       /\ UNCHANGED <<part, accountVars, authVars, catalogVars, shelfVars>>

MCSpec == MCInit /\ [][MCNext]_allVars

MCSymmetry == Permutations(Requests) \cup Permutations(Tickets) \cup Permutations(Seats)
=============================================================================
