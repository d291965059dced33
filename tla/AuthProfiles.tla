---------------------------- MODULE AuthProfiles ----------------------------
(***************************************************************************)
(* Fincloud auth profiles, the sources they are assigned to, and the       *)
(* profile a run is bound to when it starts (internal/fincloudauth,        *)
(* internal/features/fincloudauthprofiles, internal/features/sources).     *)
(*                                                                         *)
(* A profile is tested and activated by a request that reads its row       *)
(* twice, logs in to Fincloud without a lock and writes at the end; a run  *)
(* copies the assigned profile into its row in one transaction and logs in *)
(* with what it copied.  A "secret" stands for username, password, role    *)
(* and location.                                                           *)
(***************************************************************************)
EXTENDS Integers, FiniteSets

CONSTANTS
    Profiles, Secrets,   \* ids of profiles, credentials
    JobKeys,             \* job keys of sources
    Executions,          \* runs
    Managers,            \* requests of administrators under way
    MaxVersions          \* bound: revisions of a profile

Unset == "unset"
States == {"active", "disabled", "archived"}

\* What the ids are: numbers of rows, none of which is "unset".
ASSUME ProfileAssumption ==
    /\ Unset \notin Profiles \cup Secrets \cup JobKeys
    /\ MaxVersions \in Nat \ {0}

VARIABLES
    profiles,    \* fincloud_auth_profiles; history: "checked", the request that
                 \* activated it had logged in with its secret
    versions,    \* history: the secret each revision of a profile had
    settings,    \* source_settings: enabled, and the assigned profile
    bound,       \* ingestion_runs: status, job and the profile copied into the row
    held,        \* what the process that executes a run logs in with
    managers     \* what each request has read so far, and its next step

profileVars == <<profiles, versions, settings, bound, held, managers>>

NoProfile == [status |-> Unset, revision |-> 0, secret |-> Unset, checked |-> FALSE]
NoAuth == [profile |-> Unset, revision |-> 0, secret |-> Unset]
NoRun == [status |-> "queued", job |-> Unset, auth |-> NoAuth]
NoManager == [op |-> Unset, step |-> Unset, id |-> Unset, revision |-> 0, to |-> Unset,
              secret |-> Unset, seen |-> 0, tried |-> Unset]

ProfileInit ==
    /\ profiles = [p \in Profiles |-> NoProfile]
    /\ versions = [p \in Profiles |-> [n \in 1 .. MaxVersions |-> Unset]]
    /\ settings = [k \in JobKeys |-> [enabled |-> TRUE, profile |-> Unset]]
    /\ bound = [x \in Executions |-> NoRun]
    /\ held = [x \in Executions |-> NoAuth]
    /\ managers = [m \in Managers |-> NoManager]

tables == <<profiles, versions, settings, bound, held>>

Leave(m) == managers' = [managers EXCEPT ![m] = NoManager]

Step(m, step) == managers[m].step = step

-----------------------------------------------------------------------------
(* Administration *)

Create(p, s) ==
    /\ profiles[p] = NoProfile
    /\ profiles' = [profiles EXCEPT ![p] =
           [status |-> "disabled", revision |-> 1, secret |-> s, checked |-> FALSE]]
    /\ versions' = [versions EXCEPT ![p][1] = s]
    /\ UNCHANGED <<settings, bound, held, managers>>

\* Handler.Show and Edit: the form carries the revision of its row.
Edit(m, p) ==
    /\ managers[m] = NoManager /\ profiles[p] # NoProfile
    /\ managers' = [managers EXCEPT ![m] = [NoManager EXCEPT
           !.step = "form", !.id = p, !.revision = profiles[p].revision]]
    /\ UNCHANGED tables

SubmitUpdate(m, s) ==
    /\ Step(m, "form")
    /\ managers' = [managers EXCEPT ![m].op = "update", ![m].secret = s, ![m].step = "write"]
    /\ UNCHANGED tables

\* Service.SetStatus: only an activation is tested first.
SubmitStatus(m, status) ==
    /\ Step(m, "form")
    /\ managers' = [managers EXCEPT ![m].op = "state", ![m].to = status,
                                    ![m].step = IF status = "active" THEN "find" ELSE "write"]
    /\ UNCHANGED tables

\* Service.Test: of whatever revision the row has now.
SubmitTest(m) ==
    /\ Step(m, "form")
    /\ managers' = [managers EXCEPT ![m].op = "test", ![m].revision = 0, ![m].step = "find"]
    /\ UNCHANGED tables

\* Service.test, Repository.Find.
Find(m) ==
    LET row == profiles[managers[m].id] IN
    /\ Step(m, "find")
    /\ IF row.status = "archived" \/ managers[m].revision \notin {0, row.revision}
         THEN Leave(m)
         ELSE managers' = [managers EXCEPT ![m].seen = row.revision, ![m].step = "auth"]
    /\ UNCHANGED tables

\* Repository.Auth: the secret of the revision found, which may be gone.
Auth(m) ==
    LET row == profiles[managers[m].id] IN
    /\ Step(m, "auth")
    /\ IF row.status = "archived" \/ row.revision # managers[m].seen
         THEN Leave(m)
         ELSE managers' = [managers EXCEPT ![m].tried = row.secret, ![m].step = "login"]
    /\ UNCHANGED tables

\* SessionCoordinator.Test and RecordTest: either may fail.
Login(m) ==
    /\ Step(m, "login")
    /\ \/ Leave(m)
       \/ managers[m].op = "state" /\ managers' = [managers EXCEPT ![m].step = "write"]
    /\ UNCHANGED tables

\* Mutant: the last writer wins.
UnlockedRevision(row, m) == row.status # "archived"

\* What Update and SetStatus demand of the row they lock.
lockProfile(row, m) == row.status # "archived" /\ row.revision = managers[m].revision

\* Repository.Update: an active profile stays active.
UpdatedProfile(row, m) == [row EXCEPT !.revision = @ + 1, !.secret = managers[m].secret]

\* Repository.SetStatus.
ProfileWithStatus(row, m) ==
    [row EXCEPT !.revision = @ + 1, !.status = managers[m].to,
                !.checked = managers[m].tried = row.secret]

Write(m) ==
    LET p == managers[m].id
        new == IF managers[m].op = "update"
                 THEN UpdatedProfile(profiles[p], m) ELSE ProfileWithStatus(profiles[p], m)
    IN /\ Step(m, "write")
       /\ IF lockProfile(profiles[p], m)
            THEN /\ new.revision <= MaxVersions
                 /\ profiles' = [profiles EXCEPT ![p] = new]
                 /\ versions' = [versions EXCEPT ![p][new.revision] = new.secret]
            ELSE UNCHANGED <<profiles, versions>>
       /\ Leave(m)
       /\ UNCHANGED <<settings, bound, held>>

\* sources.Service.SetEnabled: a compare and swap of the flag.
SetEnabled(k) ==
    /\ settings' = [settings EXCEPT ![k].enabled = ~@]
    /\ UNCHANGED <<profiles, versions, bound, held, managers>>

\* sources.Service.SetAuthProfile: a compare and swap of the assignment; a profile
\* that is archived cannot be assigned, an assigned one can be archived.
SetAuthProfile(k, p) ==
    /\ p # Unset => profiles[p].status \in {"active", "disabled"}
    /\ settings[k].profile # p
    /\ settings' = [settings EXCEPT ![k].profile = p]
    /\ UNCHANGED <<profiles, versions, bound, held, managers>>

-----------------------------------------------------------------------------
(* Runs *)

\* A worker has claimed the run.
Claimed(x, k) ==
    /\ bound[x] = NoRun
    /\ bound' = [bound EXCEPT ![x].status = "running", ![x].job = k]
    /\ UNCHANGED <<profiles, versions, settings, held, managers>>

\* The run ends, or the recovery takes it from its worker, who may go on.
Ended(x) ==
    /\ bound[x].status = "running"
    /\ bound' = [bound EXCEPT ![x].status = "ended"]
    /\ held' \in {held, [held EXCEPT ![x] = NoAuth]}
    /\ UNCHANGED <<profiles, versions, settings, managers>>

\* The row is still the worker's, and not bound yet.
Freezable(x) == bound[x].status = "running" /\ bound[x].auth = NoAuth

\* Repository.ResolveAndFreezeRunAuth: source, profile and run are locked and the
\* profile is copied; the worker gets its secret, or not if the commit's answer
\* is lost or the secret cannot be read.
ResolveAndFreezeRunAuth(x) ==
    LET setting == settings[bound[x].job]
        p == setting.profile
        auth == [profile |-> p, revision |-> profiles[p].revision, secret |-> profiles[p].secret]
    IN /\ bound[x].job # Unset /\ held[x] = NoAuth
       /\ setting.enabled /\ p # Unset /\ profiles[p].status = "active"
       /\ Freezable(x)
       /\ bound' = [bound EXCEPT ![x].auth = auth]
       /\ held' \in {held, [held EXCEPT ![x] = auth]}
       /\ UNCHANGED <<profiles, versions, settings, managers>>

ProfileNext ==
    \/ \E p \in Profiles, s \in Secrets : Create(p, s)
    \/ \E m \in Managers :
          \/ \E p \in Profiles : Edit(m, p)
          \/ \E s \in Secrets : SubmitUpdate(m, s)
          \/ \E status \in States : SubmitStatus(m, status)
          \/ SubmitTest(m) \/ Find(m) \/ Auth(m) \/ Login(m) \/ Write(m)
    \/ \E k \in JobKeys : SetEnabled(k) \/ \E p \in Profiles \cup {Unset} : SetAuthProfile(k, p)
    \/ \E x \in Executions :
          \/ \E k \in JobKeys : Claimed(x, k)
          \/ Ended(x) \/ ResolveAndFreezeRunAuth(x)

ProfileSpec == ProfileInit /\ [][ProfileNext]_profileVars

-----------------------------------------------------------------------------
(* Properties *)

\* fincloudauth/repository.go ResolveAndFreezeRunAuth, Update: the profile and the
\* revision in a run's row tell for ever which secret the run used, and its worker
\* logs in with that one, however the profile and the assignment change.
RunIsBoundToRevision ==
    \A x \in Executions : LET auth == bound[x].auth IN
        /\ auth # NoAuth => versions[auth.profile][auth.revision] = auth.secret
        /\ held[x] # NoAuth => held[x] = auth

\* fincloudauth/service.go SetStatus: a profile becomes active with the secret the
\* test has logged in with.
ProfileActivatedAsTested ==
    \A p \in Profiles : profiles[p].status = "active" => profiles[p].checked

\* fincloudauth/repository.go: what holds of profiles and frozen runs in every state.
ProfileSafety == RunIsBoundToRevision /\ ProfileActivatedAsTested
=============================================================================
