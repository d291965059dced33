----------------------- MODULE FixedPublicationProofs -----------------------
(***************************************************************************)
(* Proofs about FixedPublication, for any number of runs, dates, locations *)
(* and any chunk size: what readers see matches the publication tables,    *)
(* success and publication agree, the owner of the job is never refused,   *)
(* and loads implement the ledger of coverage.                             *)
(***************************************************************************)
EXTENDS FixedPublication, TLAPS

-----------------------------------------------------------------------------
(* The inductive invariant *)

\* An execution, its run and its load advance together.
Phases ==
    \A r \in Runs :
        /\ pc[r] = "idle" <=> status[r] = "none"
        /\ status[r] # "none" => period[r] \in Periods
        /\ pc[r] \in {"idle", "plan"} => loadId[r] = 0
        /\ pc[r] \in {"fetch", "publish"} => loadId[r] # 0 /\ ~published[r]
        /\ loadId[r] = 0 => recorded[r] = {} /\ DOMAIN staged[r] = {}
        /\ published[r] => loadId[r] # 0
        /\ status[r] = "succeeded" <=> published[r]
        /\ pc[r] = "publish" \/ published[r] => SegmentsComplete(r)

\* Runs of the job take turns, in the order of their ids.
Turns ==
    \A r, s \in Runs :
        r < s /\ status[s] # "none" => status[r] \notin Active \cup {"none"}

\* Load ids are fresh, and a run that comes after a published one loads after
\* it.
Ids ==
    /\ \A r \in Runs : loadId[r] < nextLoad
    /\ \A r, s \in Runs : loadId[r] = loadId[s] /\ loadId[r] # 0 => r = s
    /\ \A r, s \in Runs : published[r] /\ r < s /\ loadId[s] # 0 => loadId[r] < loadId[s]

\* What the publication tables name is a published load that covers the key.
Named ==
    \A k \in Periods : active[k] # 0 =>
        \E r \in Runs : published[r] /\ loadId[r] = active[k] /\ k \in Covered(r)

\* Until a run is over its staging rows are complete.
Kept == \A r \in Runs : status[r] \in Active \cup {"none"} => staging[r] = recorded[r]

\* Members and rows stay within the dates of their run.
Within ==
    \A r \in Runs :
        /\ \A m \in DOMAIN staged[r] : period[r][1] <= m[1] /\ m[2] <= period[r][2]
        /\ \A w \in recorded[r] : KeyOf(r, w) \in Covered(r)

IInv == TypeOK /\ Phases /\ Turns /\ Ids /\ Named /\ Kept /\ Within /\ FinalMatchesPublications

-----------------------------------------------------------------------------

LEMMA CoveredArePeriods ==
    ASSUME TypeOK, NEW r \in Runs, period[r] \in Periods
    PROVE  Covered(r) \subseteq Periods
  BY FixedAssumption DEF TypeOK, TablesOK, Covered, Periods, Days

LEMMA InitInductive == Init => IInv
  <1> SUFFICES ASSUME Init PROVE IInv
    OBVIOUS
  <1>1. TypeOK
    BY FixedAssumption DEF Init, TypeOK, TablesOK, MembersOK, NoMembers, Status, Steps, Runs, NoRun,
       RowSet, MemberSet
  <1>2. Phases /\ Turns /\ Ids /\ Named /\ Kept /\ Within /\ FinalMatchesPublications
    BY FixedAssumption DEF Init, Phases, Turns, Ids, Named, Kept, Within, FinalMatchesPublications,
       NoMembers, Runs, SegmentsComplete
  <1> QED
    BY <1>1, <1>2 DEF IInv

\* A step that leaves runs, loads and data alone keeps the invariant, whatever
\* else it does.
LEMMA StoreUntouched ==
    ASSUME IInv, UNCHANGED <<kind, status, period, loadVars, dataVars>>,
           pc' \in [Runs -> Steps], lock' \in Runs \cup {NoRun}, todo' \subseteq Runs,
           \A r \in Runs : \/ pc'[r] = pc[r]
                           \/ pc[r] # "idle" /\ pc'[r] \in {"end", "done"}
                           \/ pc[r] = "publish" /\ pc'[r] = "fetch"
    PROVE  IInv'
  <1>1. TypeOK'
    BY DEF IInv, TypeOK, TablesOK, MembersOK, loadVars, dataVars, ExpectedSegments, Chunks, PerChunk
  <1>2. Phases'
    BY DEF IInv, TypeOK, TablesOK, Phases, loadVars, dataVars, SegmentsComplete, ExpectedSegments,
       Chunks, PerChunk, Steps
  <1>3. (Turns /\ Ids /\ Named /\ Kept)'
    BY DEF IInv, Turns, Ids, Named, Kept, loadVars, dataVars, Covered
  <1>4. (Within /\ FinalMatchesPublications)'
    BY DEF IInv, Within, FinalMatchesPublications, loadVars, dataVars, Covered, KeyOf
  <1> QED
    BY <1>1, <1>2, <1>3, <1>4 DEF IInv

LEMMA ClaimStep ==
    ASSUME IInv, NEW r \in Runs, NEW p \in Requests, Claim(r, p)
    PROVE  IInv'
  <1> USE DEF Claim, loadVars, dataVars
  <1>0. p \in Periods
    BY FixedAssumption DEF Periods, Days
  <1>1. TypeOK'
    BY <1>0 DEF IInv, TypeOK, TablesOK, MembersOK, ExpectedSegments, Chunks, PerChunk, Status, Steps
  <1>2. loadId[r] = 0 /\ ~published[r] /\ recorded[r] = {} /\ pc[r] = "idle"
    BY DEF IInv, Phases, TypeOK, TablesOK
  <1>3. Phases'
    BY <1>0, <1>2 DEF IInv, TypeOK, TablesOK, Phases, SegmentsComplete, ExpectedSegments,
       Chunks, PerChunk
  <1>4. Turns'
    BY DEF IInv, TypeOK, TablesOK, Turns, Active, Runs
  <1>5. Ids' /\ Kept'
    BY DEF IInv, TypeOK, TablesOK, Ids, Kept, Active
  <1>6. Named'
    <2> SUFFICES ASSUME NEW k \in Periods, active[k] # 0
                 PROVE  \E s \in Runs : published[s] /\ loadId[s] = active[k] /\ k \in Covered(s)'
      BY DEF Named
    <2>1. PICK s \in Runs : published[s] /\ loadId[s] = active[k] /\ k \in Covered(s)
      BY DEF IInv, Named
    <2>2. s # r
      BY <1>2, <2>1
    <2>3. Covered(s)' = Covered(s)
      BY <2>2 DEF IInv, TypeOK, TablesOK, Covered
    <2> QED
      BY <2>1, <2>3
  <1>7. Within'
    <2>1. DOMAIN staged[r] = {}
      BY <1>2 DEF IInv, Phases
    <2> QED
      BY <1>2, <2>1 DEF IInv, TypeOK, TablesOK, Within, Covered, KeyOf
  <1>8. FinalMatchesPublications'
    BY <1>2 DEF IInv, TypeOK, TablesOK, FinalMatchesPublications, KeyOf
  <1> QED
    BY <1>1, <1>3, <1>4, <1>5, <1>6, <1>7, <1>8 DEF IInv

\* A run is flagged, or closed without success; its execution may end with it.
LEMMA StatusStep ==
    ASSUME IInv, NEW r \in Runs, status[r] \in Active,
           NEW new \in {"cancelling", "failed", "cancelled", "abandoned"},
           status' = [status EXCEPT ![r] = new],
           UNCHANGED <<kind, period, loadVars, dataVars, todo>>,
           pc' = pc \/ (pc[r] = "end" /\ pc' = [pc EXCEPT ![r] = "done"]),
           lock' \in Runs \cup {NoRun}
    PROVE  IInv'
  <1> USE DEF loadVars, dataVars
  <1>1. TypeOK'
    BY DEF IInv, TypeOK, TablesOK, MembersOK, ExpectedSegments, Chunks, PerChunk, Status, Steps
  <1>2. Phases'
    BY DEF IInv, TypeOK, TablesOK, Phases, SegmentsComplete, ExpectedSegments, Chunks, PerChunk,
       Active
  <1>3. Turns' /\ Kept'
    BY DEF IInv, TypeOK, TablesOK, Turns, Kept, Active, Runs
  <1>4. Ids' /\ Named'
    BY DEF IInv, Ids, Named, Covered
  <1>5. (Within /\ FinalMatchesPublications)'
    BY DEF IInv, Within, FinalMatchesPublications, Covered, KeyOf
  <1> QED
    BY <1>1, <1>2, <1>3, <1>4, <1>5 DEF IInv

LEMMA BeginLoadStep ==
    ASSUME IInv, NEW r \in Runs, NEW L \in FrozenLocations, BeginLoad(r, L)
    PROVE  IInv'
  <1> USE DEF BeginLoad, dataVars
  <1>1. /\ loadId[r] = 0 /\ ~published[r] /\ recorded[r] = {} /\ complete[r] = {}
        /\ status[r] # "none" /\ period[r] \in Periods
    BY DEF IInv, Phases, TypeOK, TablesOK, MembersOK
  <1> DEFINE M == Members(period[r], L)
  <1>2. \A m \in M : m \in MemberSet /\ period[r][1] <= m[1] /\ m[1] <= m[2] /\ m[2] <= period[r][2]
    BY <1>1, FixedAssumption DEF Members, MemberSet, FrozenLocations, Periods, Days
  <1>3. TypeOK'
    <2>1. TablesOK'
      BY <1>1 DEF IInv, TypeOK, TablesOK, Steps
    <2>2. \A m \in M : ExpectedSegments(m) \in Nat
      BY <1>2, FixedAssumption, Z3 DEF ExpectedSegments, Chunks, PerChunk, MemberSet, Days
    <2>3. MembersOK'
      BY <1>1, <1>2, <2>2 DEF IInv, TypeOK, TablesOK, MembersOK, ExpectedSegments, Chunks, PerChunk
    <2> QED
      BY <2>1, <2>3 DEF TypeOK
  <1>4. Phases'
    BY <1>1 DEF IInv, TypeOK, TablesOK, Phases, SegmentsComplete, ExpectedSegments, Chunks, PerChunk
  <1>5. (Turns /\ Kept)'
    BY DEF IInv, Turns, Kept
  <1>6. Ids'
    <2>1. nextLoad \in Nat /\ nextLoad # 0 /\ loadId \in [Runs -> Nat]
      BY DEF IInv, TypeOK, TablesOK
    <2>2. loadId' = [loadId EXCEPT ![r] = nextLoad] /\ nextLoad' = nextLoad + 1
      OBVIOUS
    <2>3. (\A s \in Runs : loadId[s] < nextLoad)'
      BY <2>1, <2>2 DEF IInv, Ids
    <2>4. (\A s, t \in Runs : loadId[s] = loadId[t] /\ loadId[s] # 0 => s = t)'
      BY <2>1, <2>2 DEF IInv, Ids
    <2>5. (\A s, t \in Runs : published[s] /\ s < t /\ loadId[t] # 0 => loadId[s] < loadId[t])'
      BY <1>1, <2>1, <2>2 DEF IInv, Ids
    <2> QED
      BY <2>3, <2>4, <2>5 DEF Ids
  <1>7. Named'
    BY <1>1 DEF IInv, TypeOK, TablesOK, Named, Covered
  <1>8. Within'
    BY <1>1, <1>2 DEF IInv, TypeOK, TablesOK, Within, Covered, KeyOf
  <1>9. FinalMatchesPublications'
    BY <1>1 DEF IInv, TypeOK, TablesOK, FinalMatchesPublications, KeyOf
  <1> QED
    BY <1>3, <1>4, <1>5, <1>6, <1>7, <1>8, <1>9 DEF IInv

LEMMA StageStep ==
    ASSUME IInv, NEW r \in Runs, NEW m \in DOMAIN staged[r], NEW D \in SUBSET Days,
           StageMemberSegment(r, m, D)
    PROVE  IInv'
  <1> USE DEF StageMemberSegment, InsertSegment, MayStage, execVars
  <1> DEFINE rows == SourceRows(m, staged[r][m], D)
  <1>1. /\ loadId[r] # 0 /\ ~published[r] /\ status[r] # "none" /\ period[r] \in Periods
        /\ m \in MemberSet /\ staged[r][m] \in Nat
        /\ period[r][1] <= m[1] /\ m[2] <= period[r][2]
    BY DEF IInv, Phases, TypeOK, TablesOK, MembersOK, Within
  <1>2. \A w \in rows : w \in RowSet /\ KeyOf(r, w) \in Covered(r)
    BY <1>1, FixedAssumption
       DEF SourceRows, RowSet, KeyOf, Covered, ChunkDays, MemberSet, Days, NoDate, Periods
  <1>3. TypeOK'
    <2>1. TablesOK'
      BY <1>2 DEF IInv, TypeOK, TablesOK
    <2>2. ExpectedSegments(m) \in Nat
      BY <1>1, FixedAssumption, Z3 DEF ExpectedSegments, Chunks, PerChunk, MemberSet, Days
    <2>3. MembersOK'
      BY <1>1, <2>2 DEF IInv, TypeOK, TablesOK, MembersOK, ExpectedSegments, Chunks, PerChunk
    <2> QED
      BY <2>1, <2>3 DEF TypeOK
  <1>4. Phases'
    BY <1>1 DEF IInv, TypeOK, TablesOK, Phases, SegmentsComplete, ExpectedSegments, Chunks, PerChunk
  <1>5. (Turns /\ Ids /\ Named)'
    BY DEF IInv, Turns, Ids, Named, Covered
  <1>6. Kept'
    BY DEF IInv, TypeOK, TablesOK, Kept
  <1>7. Within'
    BY <1>1, <1>2 DEF IInv, TypeOK, TablesOK, Within, Covered, KeyOf
  <1>8. FinalMatchesPublications'
    <2> SUFFICES ASSUME NEW s \in Runs
                 PROVE  {x \in final : x[1] = s} =
                        {<<s, row>> : row \in {w \in recorded'[s] :
                            published[s] /\ active[KeyOf(s, w)] = loadId[s]}}
      BY DEF FinalMatchesPublications, KeyOf
    <2>1. {x \in final : x[1] = s} =
          {<<s, row>> : row \in {w \in recorded[s] :
              published[s] /\ active[KeyOf(s, w)] = loadId[s]}}
      BY DEF IInv, FinalMatchesPublications
    <2>2. CASE s = r
      BY <1>1, <2>1, <2>2
    <2>3. CASE s # r
      <3>1. recorded'[s] = recorded[s]
        BY <2>3 DEF IInv, TypeOK, TablesOK
      <3> QED
        BY <2>1, <3>1
    <2> QED
      BY <2>2, <2>3
  <1> QED
    BY <1>3, <1>4, <1>5, <1>6, <1>7, <1>8 DEF IInv

LEMMA FinalizeStep ==
    ASSUME IInv, NEW r \in Runs, NEW m \in DOMAIN staged[r], FinalizeMemberCandidate(r, m)
    PROVE  IInv'
  <1> USE DEF FinalizeMemberCandidate, dataVars, execVars
  <1>1. TypeOK'
    BY DEF IInv, TypeOK, TablesOK, MembersOK, ExpectedSegments, Chunks, PerChunk
  <1>2. Phases'
    BY DEF IInv, TypeOK, TablesOK, Phases, SegmentsComplete, ExpectedSegments, Chunks, PerChunk
  <1>3. (Turns /\ Ids /\ Named /\ Kept)'
    BY DEF IInv, Turns, Ids, Named, Kept, Covered
  <1>4. (Within /\ FinalMatchesPublications)'
    BY DEF IInv, Within, FinalMatchesPublications, Covered, KeyOf
  <1> QED
    BY <1>1, <1>2, <1>3, <1>4 DEF IInv

LEMMA ValidateStep ==
    ASSUME IInv, NEW r \in Runs, PromoteValidates(r)
    PROVE  IInv'
  <1> USE DEF PromoteValidates, loadVars, dataVars
  <1>1. TypeOK'
    BY DEF IInv, TypeOK, TablesOK, MembersOK, ExpectedSegments, Chunks, PerChunk, Steps
  <1>2. Phases'
    BY DEF IInv, TypeOK, TablesOK, Phases, SegmentsComplete, ExpectedSegments, Chunks, PerChunk
  <1>3. (Turns /\ Ids /\ Named /\ Kept)'
    BY DEF IInv, Turns, Ids, Named, Kept, Covered
  <1>4. (Within /\ FinalMatchesPublications)'
    BY DEF IInv, Within, FinalMatchesPublications, Covered, KeyOf
  <1> QED
    BY <1>1, <1>2, <1>3, <1>4 DEF IInv

LEMMA CleanupStep ==
    ASSUME IInv, NEW r \in Runs, cleanupFixedCandidate(r)
    PROVE  IInv'
  <1> USE DEF cleanupFixedCandidate, loadVars, execVars
  <1>1. TypeOK'
    BY DEF IInv, TypeOK, TablesOK, MembersOK, ExpectedSegments, Chunks, PerChunk
  <1>2. Phases'
    BY DEF IInv, TypeOK, TablesOK, Phases, SegmentsComplete, ExpectedSegments, Chunks, PerChunk
  <1>3. (Turns /\ Ids /\ Named)'
    BY DEF IInv, Turns, Ids, Named, Covered
  <1>4. Kept'
    BY DEF IInv, TypeOK, TablesOK, Kept, Terminal, fixedTerminalStatuses, Active
  <1>5. (Within /\ FinalMatchesPublications)'
    BY DEF IInv, Within, FinalMatchesPublications, Covered, KeyOf
  <1> QED
    BY <1>1, <1>2, <1>3, <1>4, <1>5 DEF IInv

-----------------------------------------------------------------------------
(* The publication *)

\* A run that may publish comes after every run that has, with a newer load.
LEMMA NewestLoad ==
    ASSUME IInv, NEW r \in Runs, status[r] \in Active
    PROVE  /\ ~published[r]
           /\ \A s \in Runs : published[s] => s < r /\ (loadId[r] # 0 => loadId[s] < loadId[r])
  <1>1. ~published[r]
    BY DEF IInv, Phases, Active
  <1>2. ASSUME NEW s \in Runs, published[s] PROVE s < r
    <2>1. status[s] = "succeeded" /\ s # r
      BY <1>1, <1>2 DEF IInv, Phases
    <2>2. ~(r < s)
      BY <2>1 DEF IInv, Turns
    <2> QED
      BY <2>1, <2>2, FixedAssumption DEF Runs
  <1> QED
    BY <1>1, <1>2 DEF IInv, Ids

\* No key shows a load of a run that is still open, or a newer one.
LEMMA OpenIsAhead ==
    ASSUME IInv, NEW r \in Runs, status[r] \in Active, loadId[r] # 0, NEW k \in Periods
    PROVE  active[k] < loadId[r]
  <1>1. loadId[r] \in Nat /\ active[k] \in Nat
    BY DEF IInv, TypeOK, TablesOK
  <1>2. CASE active[k] = 0
    BY <1>1, <1>2
  <1>3. CASE active[k] # 0
    <2>1. PICK s \in Runs : published[s] /\ loadId[s] = active[k]
      BY <1>3 DEF IInv, Named
    <2> QED
      BY <2>1, NewestLoad
  <1> QED
    BY <1>2, <1>3

LEMMA CommitStep ==
    ASSUME IInv, NEW r \in Runs, NEW answered \in BOOLEAN, PromoteCommits(r, answered)
    PROVE  IInv'
  <1> USE DEF PromoteCommits, PublishRows, Publishable, Goto
  <1>1. /\ status[r] = "running" /\ status[r] \in Active /\ pc[r] = "publish"
        /\ loadId[r] # 0 /\ loadId[r] \in Nat /\ ~published[r] /\ SegmentsComplete(r)
        /\ period[r] \in Periods /\ staging[r] = recorded[r] /\ recorded[r] \subseteq RowSet
    BY DEF IInv, Phases, Kept, Active, TypeOK, TablesOK
  <1>2. Covered(r) \subseteq Periods
    BY <1>1, CoveredArePeriods DEF IInv
  <1>3. \A s \in Runs : published[s] => s < r /\ loadId[s] < loadId[r]
    BY <1>1, NewestLoad
  <1>4. \A k \in Periods : active[k] < loadId[r] /\ active[k] \in Nat
    BY <1>1, OpenIsAhead DEF IInv, TypeOK, TablesOK
  <1>5. \A s \in Runs : Covered(s)' = Covered(s) /\ \A w : KeyOf(s, w)' = KeyOf(s, w)
    BY DEF Covered, KeyOf
  <1>6. TypeOK'
    <2>1. final' \subseteq Runs \X RowSet
      BY <1>1 DEF IInv, TypeOK, TablesOK
    <2>2. active' \in [Periods -> Nat]
      BY <1>1 DEF IInv, TypeOK, TablesOK
    <2>3. pc' \in [Runs -> Steps] /\ status' \in [Runs -> Status] /\ lock' \in Runs \cup {NoRun}
      BY DEF IInv, TypeOK, TablesOK, Steps, Status
    <2>4. TablesOK'
      BY <2>1, <2>2, <2>3 DEF IInv, TypeOK, TablesOK
    <2>5. MembersOK'
      BY DEF IInv, TypeOK, TablesOK, MembersOK, ExpectedSegments, Chunks, PerChunk
    <2> QED
      BY <2>4, <2>5 DEF TypeOK
  <1>7. Phases'
    BY <1>1 DEF IInv, TypeOK, TablesOK, Phases, SegmentsComplete, ExpectedSegments, Chunks, PerChunk
  <1>8. Turns' /\ Kept'
    BY <1>1 DEF IInv, TypeOK, TablesOK, Turns, Kept, Active
  <1>9. Ids'
    <2>1. \A s \in Runs : r < s => loadId[s] = 0
      BY <1>1 DEF IInv, Turns, Phases
    <2> QED
      BY <2>1 DEF IInv, TypeOK, TablesOK, Ids
  <1>10. Named'
    <2> SUFFICES ASSUME NEW k \in Periods, active'[k] # 0
                 PROVE  \E s \in Runs : published'[s] /\ loadId[s] = active'[k] /\ k \in Covered(s)
      BY <1>5 DEF Named
    <2>1. CASE k \in Covered(r)
      BY <2>1 DEF IInv, TypeOK, TablesOK
    <2>2. CASE k \notin Covered(r)
      <3>1. active'[k] = active[k]
        BY <2>2
      <3>2. PICK s \in Runs : published[s] /\ loadId[s] = active[k] /\ k \in Covered(s)
        BY <3>1 DEF IInv, Named
      <3> QED
        BY <3>1, <3>2 DEF IInv, TypeOK, TablesOK
    <2> QED
      BY <2>1, <2>2
  <1>11. Within'
    BY <1>5 DEF IInv, Within
  <1>12. FinalMatchesPublications'
    <2> SUFFICES ASSUME NEW s \in Runs
                 PROVE  {x \in final' : x[1] = s} =
                        {<<s, row>> : row \in {w \in recorded[s] :
                            published'[s] /\ active'[KeyOf(s, w)] = loadId[s]}}
      BY <1>5 DEF FinalMatchesPublications
    <2>1. {x \in final : x[1] = s} =
          {<<s, row>> : row \in {w \in recorded[s] :
              published[s] /\ active[KeyOf(s, w)] = loadId[s]}}
      BY DEF IInv, FinalMatchesPublications
    <2>2. CASE s = r
      <3>1. {x \in final : x[1] = r} = {}
        BY <1>1, <2>1, <2>2
      <3>2. \A w \in recorded[r] : KeyOf(r, w) \in Covered(r)
        BY DEF IInv, Within
      <3>3. \A w \in recorded[r] : active'[KeyOf(r, w)] = loadId[r]
        BY <1>2, <3>2
      <3>4. published'[r]
        BY DEF IInv, TypeOK, TablesOK
      <3>5. {x \in final' : x[1] = r} = {<<r, row>> : row \in recorded[r]}
        BY <1>1, <3>1
      <3> QED
        BY <2>2, <3>3, <3>4, <3>5
    <2>3. CASE s # r
      <3>1. published'[s] = published[s]
        BY <2>3 DEF IInv, TypeOK, TablesOK
      <3>2. ASSUME NEW w \in recorded[s], published[s]
            PROVE  active'[KeyOf(s, w)] = loadId[s] <=>
                   active[KeyOf(s, w)] = loadId[s] /\ KeyOf(s, w) \notin Covered(r)
        <4>1. KeyOf(s, w) \in Periods
          <5>1. status[s] # "none"
            BY <3>2 DEF IInv, Phases
          <5>2. period[s] \in Periods
            BY <5>1 DEF IInv, Phases
          <5>3. Covered(s) \subseteq Periods
            BY <5>2, CoveredArePeriods DEF IInv
          <5> QED
            BY <5>3 DEF IInv, Within
        <4>2. loadId[s] # loadId[r]
          BY <1>3, <3>2, <1>1 DEF IInv, TypeOK, TablesOK
        <4> QED
          BY <4>1, <4>2
      <3>3. {x \in final' : x[1] = s} =
            {x \in {y \in final : y[1] = s} : KeyOf(s, x[2]) \notin Covered(r)}
        BY <2>3 DEF Replaced
      <3>4. CASE ~published[s]
        BY <2>1, <3>1, <3>3, <3>4
      <3>5. CASE published[s]
        <4> DEFINE Shown(w) == active[KeyOf(s, w)] = loadId[s]
                   Stays(w) == KeyOf(s, w) \notin Covered(r)
                   Now(w) == active'[KeyOf(s, w)] = loadId[s]
        <4>1. \A w \in recorded[s] : Now(w) <=> Shown(w) /\ Stays(w)
          BY <3>2, <3>5
        <4>2. {x \in final : x[1] = s} = {<<s, row>> : row \in {w \in recorded[s] : Shown(w)}}
          BY <2>1, <3>5
        <4>3. {x \in final' : x[1] = s} = {x \in {y \in final : y[1] = s} : Stays(x[2])}
          BY <3>3
        <4> HIDE DEF Shown, Stays, Now
        <4>4. {x \in final' : x[1] = s} = {<<s, row>> : row \in {w \in recorded[s] : Now(w)}}
          BY <4>1, <4>2, <4>3
        <4> QED
          BY <3>1, <3>5, <4>4 DEF Now
      <3> QED
        BY <3>4, <3>5
    <2> QED
      BY <2>2, <2>3
  <1> QED
    BY <1>6, <1>7, <1>8, <1>9, <1>10, <1>11, <1>12 DEF IInv

-----------------------------------------------------------------------------
(* The theorems *)

LEMMA NextInductive == IInv /\ [Next]_vars => IInv'
  <1> SUFFICES ASSUME IInv, [Next]_vars PROVE IInv'
    OBVIOUS
  <1>0. pc \in [Runs -> Steps] /\ lock \in Runs \cup {NoRun} /\ todo \subseteq Runs
    BY DEF IInv, TypeOK, TablesOK
  <1>1. CASE UNCHANGED vars
    BY <1>0, <1>1, StoreUntouched DEF vars, execVars
  <1>2. CASE Cleanup
    <2>1. CASE fixedCleanupCandidates
      BY <1>0, <2>1, StoreUntouched DEF fixedCleanupCandidates, Candidates, execVars
    <2>2. ASSUME NEW r \in Runs, CleanupFails(r) PROVE IInv'
      BY <1>0, <2>2, StoreUntouched DEF CleanupFails, execVars
    <2> QED
      BY <1>2, <2>1, <2>2, CleanupStep DEF Cleanup
  <1>3. ASSUME NEW r \in Runs, Execute(r) PROVE IInv'
    <2>1. CASE Fail(r) \/ \E readable \in BOOLEAN : ReadBack(r, readable)
      <3>1. UNCHANGED <<kind, status, period, loadVars, dataVars, todo>>
        BY <2>1 DEF Fail, ReadBack
      <3>2. PICK step \in {"end", "done"} : pc' = [pc EXCEPT ![r] = step] /\ pc[r] # "idle"
        BY <2>1 DEF Fail, ReadBack, Goto
      <3>3. lock' \in Runs \cup {NoRun}
        BY <1>0, <2>1 DEF Fail, ReadBack, Goto
      <3> QED
        BY <1>0, <3>1, <3>2, <3>3, StoreUntouched DEF Steps
    <2>2. ASSUME NEW outcome \in {"failed", "cancelled"}, Finish(r, outcome) PROVE IInv'
      <3>1. lock' \in Runs \cup {NoRun} /\ pc' = [pc EXCEPT ![r] = "done"] /\ pc[r] = "end"
        BY <1>0, <2>2 DEF Finish, Goto
      <3>2. CASE status[r] \in Active
        BY <2>2, <3>1, <3>2, StatusStep DEF Finish
      <3>3. CASE status[r] \notin Active
        <4>1. status' = status
          BY <2>2, <3>3 DEF Finish, IInv, TypeOK, TablesOK
        <4> QED
          BY <1>0, <2>2, <3>1, <4>1, StoreUntouched DEF Finish, Steps
      <3> QED
        BY <3>2, <3>3
    <2> QED
      BY <1>3, <2>1, <2>2, BeginLoadStep, StageStep, FinalizeStep, ValidateStep, CommitStep
      DEF Execute
  <1>4. ASSUME NEW r \in Runs, Environment(r) PROVE IInv'
    <2>1. CASE RequestCancellation(r)
      BY <1>0, <2>1, StatusStep DEF RequestCancellation, Active, execVars
    <2>2. CASE Abandon(r)
      BY <1>0, <2>2, StatusStep DEF Abandon, execVars
    <2>3. CASE Crash(r)
      <3>1. lock' \in Runs \cup {NoRun} /\ pc' = [pc EXCEPT ![r] = "done"] /\ pc[r] # "idle"
        BY <1>0, <2>3 DEF Crash, Goto
      <3> QED
        BY <1>0, <2>3, <3>1, StoreUntouched DEF Crash, Steps
    <2>4. CASE PromoteRetries(r)
      <3>1. lock' \in Runs \cup {NoRun} /\ pc' = [pc EXCEPT ![r] = "fetch"] /\ pc[r] = "publish"
        BY <1>0, <2>4 DEF PromoteRetries, Goto
      <3> QED
        BY <1>0, <2>4, <3>1, StoreUntouched DEF PromoteRetries, Steps
    <2> QED
      BY <1>4, <2>1, <2>2, <2>3, <2>4, ClaimStep DEF Environment
  <1> QED
    BY <1>1, <1>2, <1>3, <1>4 DEF Next

LEMMA Inductive == Spec => []IInv
  BY InitInductive, NextInductive, PTL DEF Spec

\* The tables of a Fixed report keep their shape and no load ever holds more
\* than the plan frozen with it, whatever workers, cancellations and crashes do.
THEOREM FixedTypeCorrect == Spec => []TypeOK
  <1>1. IInv => TypeOK
    BY DEF IInv
  <1> QED
    BY Inductive, <1>1, PTL

\* Readers of the final table see, for every date or period, exactly the rows
\* recorded for the load that the publication table names there.
THEOREM ReadersSeePublications == Spec => []FinalMatchesPublications
  <1>1. IInv => FinalMatchesPublications
    BY DEF IInv
  <1> QED
    BY Inductive, <1>1, PTL

\* promoteTransaction commits the run's success and the load's publication
\* together, and only for a load with every segment of its plan.
THEOREM SuccessIsPublication == Spec => []SucceededMeansPublished
  <1>1. IInv => SucceededMeansPublished
    BY DEF IInv, Phases, SucceededMeansPublished
  <1> QED
    BY Inductive, <1>1, PTL

\* Neither the loads of workers that lost their runs nor the cleanup can make
\* promotion refuse the run that holds the job.
THEOREM OwnerPublishes == Spec => []OwnerIsNeverRefused
  <1>1. IInv => OwnerIsNeverRefused
    <2> SUFFICES ASSUME IInv, NEW r \in Runs, status[r] = "running", loadId[r] # 0
                 PROVE  ~Stale(r) /\ StagingIntact(r)
      BY DEF OwnerIsNeverRefused
    <2>1. StagingIntact(r)
      BY DEF IInv, Kept, Active, StagingIntact
    <2>2. Covered(r) \subseteq Periods
      BY CoveredArePeriods DEF IInv, Phases
    <2>3. \A k \in Periods : active[k] < loadId[r] /\ active[k] \in Nat /\ loadId[r] \in Nat
      BY OpenIsAhead DEF IInv, TypeOK, TablesOK, Active
    <2> QED
      BY <2>1, <2>2, <2>3 DEF Stale
  <1> QED
    BY Inductive, <1>1, PTL

-----------------------------------------------------------------------------
(* The refinement *)

LEMMA Chosen ==
    ASSUME NEW f, NEW v, NEW s \in Runs, f[s] = v, \A t \in Runs : f[t] = v => t = s
    PROVE  (CHOOSE t \in Runs : f[t] = v) = s
  OBVIOUS

\* The run that a key shows has published.
LEMMA HolderPublished ==
    ASSUME IInv, NEW k \in Periods, active[k] # 0
    PROVE  /\ Holder[k] \in Runs /\ published[Holder[k]] /\ loadId[Holder[k]] = active[k]
           /\ \A t \in Runs : loadId[t] = active[k] => t = Holder[k]
  <1>1. PICK s \in Runs : published[s] /\ loadId[s] = active[k]
    BY DEF IInv, Named
  <1>2. \A t \in Runs : loadId[t] = active[k] => t = s
    BY <1>1 DEF IInv, Ids
  <1>3. (CHOOSE t \in Runs : loadId[t] = active[k]) = s
    BY <1>1, <1>2, Chosen
  <1>4. Holder[k] = s
    BY <1>3 DEF Holder
  <1> QED
    BY <1>1, <1>2, <1>4

\* Beginning a load changes no holder: its id names nothing yet.
LEMMA BeginLoadHolder ==
    ASSUME IInv, NEW r \in Runs, NEW L \in FrozenLocations, BeginLoad(r, L)
    PROVE  Holder' = Holder
  <1>1. active' = active /\ loadId' = [loadId EXCEPT ![r] = nextLoad] /\ loadId[r] = 0
    BY DEF BeginLoad, dataVars, IInv, Phases
  <1>2. ASSUME NEW k \in Periods PROVE Holder'[k] = Holder[k]
    <2>1. CASE active[k] = 0
      BY <1>1, <2>1 DEF Holder
    <2>2. CASE active[k] # 0
      <3> DEFINE s == Holder[k]
      <3>1. /\ s \in Runs /\ loadId[s] = active[k]
            /\ \A t \in Runs : loadId[t] = active[k] => t = s
        BY <2>2, HolderPublished
      <3>2. loadId[s] < nextLoad /\ nextLoad \in Nat /\ loadId \in [Runs -> Nat]
        BY <3>1 DEF IInv, Ids, TypeOK, TablesOK
      <3> HIDE DEF s
      <3>3. loadId'[s] = active[k] /\ \A t \in Runs : loadId'[t] = active[k] => t = s
        BY <1>1, <2>2, <3>1, <3>2
      <3>4. (CHOOSE t \in Runs : loadId'[t] = active[k]) = s
        BY <3>1, <3>3, Chosen
      <3> QED
        BY <1>1, <2>2, <3>4 DEF Holder, s
    <2> QED
      BY <2>1, <2>2
  <1> QED
    BY <1>2 DEF Holder

\* A commit publishes for the keys that the run covers.
LEMMA CommitPublishes ==
    ASSUME IInv, NEW r \in Runs, NEW answered \in BOOLEAN, PromoteCommits(r, answered)
    PROVE  Ledger!LedgerNext
  <1> USE DEF PromoteCommits, PublishRows, Publishable
  <1>1. /\ status[r] = "running" /\ status[r] \in Active
        /\ loadId[r] # 0 /\ loadId[r] \in Nat /\ ~published[r]
        /\ period[r] \in Periods /\ staging[r] = recorded[r]
    BY DEF IInv, Phases, Kept, Active, TypeOK, TablesOK
  <1>2. Covered(r) \subseteq Periods
    BY <1>1, CoveredArePeriods DEF IInv
  <1>3. \A s \in Runs : published[s] => s < r
    BY <1>1, NewestLoad
  <1>4. Succeeded' = Succeeded \cup {r} /\ r \notin Succeeded
    BY <1>1 DEF Succeeded, IInv, TypeOK, TablesOK
  <1>5. \A s \in Succeeded : s < r
    BY <1>3 DEF Succeeded, IInv, Phases
  <1>6. ASSUME NEW k \in Periods
        PROVE  Holder'[k] = IF k \in Covered(r) THEN r ELSE Holder[k]
    <2>1. loadId' = loadId /\ active'[k] = IF k \in Covered(r) THEN loadId[r] ELSE active[k]
      OBVIOUS
    <2>2. CASE k \in Covered(r)
      <3>1. \A t \in Runs : loadId[t] = loadId[r] => t = r
        BY <1>1 DEF IInv, Ids
      <3>2. (CHOOSE t \in Runs : loadId[t] = loadId[r]) = r
        BY <3>1, Chosen
      <3> QED
        BY <1>1, <2>1, <2>2, <3>2 DEF Holder
    <2>3. CASE k \notin Covered(r)
      BY <2>1, <2>3 DEF Holder
    <2> QED
      BY <2>2, <2>3
  <1>7. \A k \in Periods : Holder[k] # r
    <2> SUFFICES ASSUME NEW k \in Periods PROVE Holder[k] # r
      OBVIOUS
    <2>1. CASE active[k] = 0
      BY <2>1, FixedAssumption DEF Holder, NoRun, Runs
    <2>2. CASE active[k] # 0
      BY <1>1, <2>2, HolderPublished
    <2> QED
      BY <2>1, <2>2
  <1>8. {k \in Periods : Holder'[k] = r} = Covered(r)
    BY <1>2, <1>6, <1>7
  <1>9. Holder' = [k \in Periods |-> IF k \in Covered(r) THEN r ELSE Holder[k]]
    BY <1>6 DEF Holder
  <1>10. final' = (final \ Replaced(r)) \cup {<<r, row>> : row \in staging[r]}
    OBVIOUS
  <1>11. \A w \in staging[r] : KeyOf(r, w) \in Covered(r)
    BY <1>1 DEF IInv, Within
  <1>12. Data = {<<KeyOf(x[1], x[2]), x[1], x[2]>> : x \in final}
    BY DEF Data, KeyOf
  <1>13. Data' = {<<KeyOf(x[1], x[2]), x[1], x[2]>> : x \in final'}
    BY DEF Data, KeyOf
  <1>14. \A x \in Data' : x[1] \in Covered(r) => x[2] = r
    BY <1>10, <1>13 DEF Replaced
  <1>15. {x \in Data' : x[1] \notin Covered(r)} = {x \in Data : x[1] \notin Covered(r)}
    <2>1. {x \in final' : KeyOf(x[1], x[2]) \notin Covered(r)} =
          {x \in final : KeyOf(x[1], x[2]) \notin Covered(r)}
      BY <1>10, <1>11 DEF Replaced
    <2> QED
      BY <1>12, <1>13, <2>1
  <1>16. Ledger!Publish(r, Covered(r))
    BY <1>4, <1>5, <1>9, <1>14, <1>15 DEF Ledger!Publish
  <1> QED
    BY <1>4, <1>8, <1>16 DEF Ledger!LedgerNext

\* Every other step is invisible in the ledger.
LEMMA Invisible ==
    ASSUME IInv, [Next]_vars,
           ~\E r \in Runs, answered \in BOOLEAN : PromoteCommits(r, answered)
    PROVE  UNCHANGED Ledger!ledger
  <1> USE DEF Next, vars, Cleanup, fixedCleanupCandidates, cleanupFixedCandidate, CleanupFails,
          Execute, Environment, StageMemberSegment, FinalizeMemberCandidate, PromoteValidates,
          PromoteRetries, ReadBack, Fail, Finish, RequestCancellation, Abandon, Crash
  <1>0. status \in [Runs -> Status]
    BY DEF IInv, TypeOK, TablesOK
  <1>1. UNCHANGED <<kind, final, active>>
    BY DEF dataVars, BeginLoad, Claim
  <1>2. Succeeded' = Succeeded
    BY <1>0 DEF Succeeded, BeginLoad, Claim, Active
  <1>3. Holder' = Holder
    <2>1. CASE loadId' = loadId
      BY <1>1, <2>1 DEF Holder
    <2>2. CASE \E r \in Runs, L \in FrozenLocations : BeginLoad(r, L)
      BY <2>2, BeginLoadHolder
    <2> QED
      BY <2>1, <2>2 DEF loadVars, Claim
  <1>4. Data' = Data
    <2>1. CASE period' = period
      BY <1>1, <2>1 DEF Data
    <2>2. ASSUME NEW r \in Runs, NEW p \in Requests, Claim(r, p) PROVE Data' = Data
      <3>1. \A x \in final : x[1] # r
        <4>1. ~published[r]
          BY <2>2 DEF Claim, IInv, Phases
        <4>2. {x \in final : x[1] = r} = {}
          BY <4>1 DEF IInv, FinalMatchesPublications
        <4> QED
          BY <4>2
      <3>2. \A x \in final : x[1] \in Runs /\ period'[x[1]] = period[x[1]]
        BY <2>2, <3>1 DEF Claim, IInv, TypeOK, TablesOK
      <3> QED
        BY <1>1, <3>2 DEF Data
    <2> QED
      BY <2>1, <2>2 DEF BeginLoad
  <1> QED
    BY <1>2, <1>3, <1>4 DEF Ledger!ledger

\* Loads, pools, staging and cleanup implement the ledger: a key shows the
\* newest successful run that covers it, replaced whole and in one step.
THEOREM CoverageRefinement == Spec => ImplementsLedger
  <1>1. Init => Ledger!LedgerInit
    BY DEF Init, Ledger!LedgerInit, Holder, Succeeded, Data
  <1>2. IInv /\ [Next]_vars => [Ledger!LedgerNext]_(Ledger!ledger)
    BY CommitPublishes, Invisible
  <1> QED
    BY <1>1, <1>2, Inductive, PTL DEF Spec, ImplementsLedger, Ledger!LedgerSpec

\* Fixed runs in every state, for any periods, runs and rows: readers see whole
\* publications, success means published, and the owner is never refused.
THEOREM PublicationSafetyHolds == Spec => []PublicationSafety
  <1> QED
    BY FixedTypeCorrect, ReadersSeePublications, SuccessIsPublication, OwnerPublishes, PTL
       DEF PublicationSafety
=============================================================================
