------------------------- MODULE Configuration_proofs -------------------------
(***************************************************************************)
(* Proofs about Configuration, for every set of resources, valid manifest  *)
(* directories and requests.                                               *)
(***************************************************************************)
EXTENDS Configuration, FiniteSetTheorems, TLAPS

-----------------------------------------------------------------------------
(* Counting requests.                                                      *)

\* One more of a finite set is one more.
LEMMA OneMore ==
  ASSUME NEW S, IsFiniteSet(S), NEW D \in SUBSET S
  PROVE  /\ Cardinality(D) \in Nat /\ Cardinality(S) \in Nat /\ Cardinality(D) <= Cardinality(S)
         /\ \A x \in S \ D : Cardinality(D \union {x}) = Cardinality(D) + 1
<1>1. IsFiniteSet(D) /\ Cardinality(D) <= Cardinality(S)
  BY FS_Subset
<1>2. Cardinality(D) \in Nat /\ Cardinality(S) \in Nat
  BY <1>1, FS_CardinalityType
<1>3. \A x \in S \ D : Cardinality(D \union {x}) = Cardinality(D) + 1
  BY <1>1, FS_AddElement
<1> QED BY <1>1, <1>2, <1>3

DoneApplies == {a \in Applies : apply[a].step = "done"}
DoneEdits   == {e \in Edits : edit[e].step = "done"}

\* The count of finished requests is a number, and no more than there are requests.
LEMMA FinishedType ==
  /\ Finished \in Nat /\ 1 + Finished <= Count /\ Count \in Nat
  /\ Finished = Cardinality(DoneApplies) + Cardinality(DoneEdits)
  /\ Cardinality(DoneApplies) \in Nat /\ Cardinality(DoneEdits) \in Nat
<1>1. /\ Cardinality(DoneApplies) \in Nat /\ Cardinality(Applies) \in Nat
      /\ Cardinality(DoneApplies) <= Cardinality(Applies)
  BY RequestsAreFinite, OneMore DEF DoneApplies
<1>2. /\ Cardinality(DoneEdits) \in Nat /\ Cardinality(Edits) \in Nat
      /\ Cardinality(DoneEdits) <= Cardinality(Edits)
  BY RequestsAreFinite, OneMore DEF DoneEdits
<1>3. Finished = Cardinality(DoneApplies) + Cardinality(DoneEdits)
  BY DEF Finished, DoneApplies, DoneEdits
<1> QED BY <1>1, <1>2, <1>3 DEF Count

LEMMA FinishedTypeNext ==
  /\ Finished' \in Nat /\ 1 + Finished' <= Count /\ Count \in Nat
  /\ Finished' = Cardinality(DoneApplies') + Cardinality(DoneEdits')
  /\ Cardinality(DoneApplies') \in Nat /\ Cardinality(DoneEdits') \in Nat
<1>1. /\ Cardinality(DoneApplies') \in Nat /\ Cardinality(Applies) \in Nat
      /\ Cardinality(DoneApplies') <= Cardinality(Applies)
  <2>1. DoneApplies' \in SUBSET Applies
    BY DEF DoneApplies
  <2> QED BY <2>1, RequestsAreFinite, OneMore
<1>2. /\ Cardinality(DoneEdits') \in Nat /\ Cardinality(Edits) \in Nat
      /\ Cardinality(DoneEdits') <= Cardinality(Edits)
  <2>1. DoneEdits' \in SUBSET Edits
    BY DEF DoneEdits
  <2> QED BY <2>1, RequestsAreFinite, OneMore
<1>3. Finished' = Cardinality(DoneApplies') + Cardinality(DoneEdits')
  BY DEF Finished, DoneApplies, DoneEdits
<1> QED BY <1>1, <1>2, <1>3 DEF Count

\* An edit is over: one more request is.
EditEnds(e) == /\ edit[e].step # "done" /\ edit'[e].step = "done"
               /\ \A f \in Edits \ {e} : edit'[f] = edit[f]

LEMMA OneMoreEdit ==
  ASSUME NEW e \in Edits, EditEnds(e), UNCHANGED apply
  PROVE  Finished' = Finished + 1
<1>1. DoneEdits' = DoneEdits \union {e} /\ e \in Edits \ DoneEdits /\ DoneEdits \in SUBSET Edits
  BY DEF DoneEdits, EditEnds
<1>2. Cardinality(DoneEdits') = Cardinality(DoneEdits) + 1
  BY <1>1, RequestsAreFinite, OneMore
<1>3. DoneApplies' = DoneApplies
  BY DEF DoneApplies
<1> QED BY <1>2, <1>3, FinishedType, FinishedTypeNext

\* An apply is over.
ApplyEnds(a) == /\ apply[a].step # "done" /\ apply'[a].step = "done"
                /\ \A b \in Applies \ {a} : apply'[b] = apply[b]

LEMMA OneMoreApply ==
  ASSUME NEW a \in Applies, ApplyEnds(a), UNCHANGED edit
  PROVE  Finished' = Finished + 1
<1>1. /\ DoneApplies' = DoneApplies \union {a} /\ a \in Applies \ DoneApplies
      /\ DoneApplies \in SUBSET Applies
  BY DEF DoneApplies, ApplyEnds
<1>2. Cardinality(DoneApplies') = Cardinality(DoneApplies) + 1
  BY <1>1, RequestsAreFinite, OneMore
<1>3. DoneEdits' = DoneEdits
  BY DEF DoneEdits
<1> QED BY <1>2, <1>3, FinishedType, FinishedTypeNext

\* Nothing is over.
LEMMA NoMore ==
  ASSUME \A a \in Applies : apply'[a].step = "done" <=> apply[a].step = "done",
         \A e \in Edits : edit'[e].step = "done" <=> edit[e].step = "done"
  PROVE  Finished' = Finished
<1>1. DoneApplies' = DoneApplies /\ DoneEdits' = DoneEdits
  BY DEF DoneApplies, DoneEdits
<1> QED BY <1>1, FinishedType, FinishedTypeNext

-----------------------------------------------------------------------------
(* Rows.                                                                   *)

\* Bodies are of the type of a row's.
LEMMA BodyType ==
  ASSUME NEW n \in Names
  PROVE  Bodies(n) \subseteq (SUBSET Flags) \union (SUBSET Texts)
  BY DEF Bodies

LEMMA RowsGrow ==
  ASSUME NEW c \in Nat, NEW d \in Nat, c <= d
  PROVE  RowsUpTo(c) \subseteq RowsUpTo(d)
<1>1. 0 .. c \subseteq 0 .. d /\ 1 .. c \subseteq 1 .. d
  OBVIOUS
<1>2. SUBSET (Apps \X (1 .. c)) \subseteq SUBSET (Apps \X (1 .. d))
  BY <1>1
<1> QED BY <1>1, <1>2 DEF RowsUpTo

LEMMA RowsGrowOn ==
  ASSUME Finished <= Finished'
  PROVE  RowsUpTo(1 + Finished) \subseteq RowsUpTo(1 + Finished')
<1>1. PICK c \in Nat : c = Finished
  BY FinishedType
<1>2. PICK d \in Nat : d = Finished'
  BY FinishedTypeNext
<1>3. RowsUpTo(1 + c) \subseteq RowsUpTo(1 + d)
  BY <1>1, <1>2, RowsGrow
<1> QED BY <1>1, <1>2, <1>3

LEMMA NoRowIsNone ==
  /\ NoRow.id = 0 /\ NoRow.version = 0 /\ NoRow.ownership = "none" /\ NoRow.body = {}
  /\ NoRow.apps = {}
  /\ \A c \in Nat : NoRow \in RowsUpTo(c)
<1>1. \A c \in Nat : NoRow \in RowsUpTo(c)
  BY DEF NoRow, RowsUpTo
<1> QED BY <1>1 DEF NoRow

\* What a step makes of a row: nothing, or what it should be.
RowsFit ==
  /\ row' = [n \in Names |-> row'[n]] /\ born' \in [Names -> Nat]
  /\ \A n \in Names : /\ born[n] <= born'[n] /\ born'[n] <= 1 + Finished'
                      /\ row'[n] = row[n] \/ RowOK(n)'

\* Rows keep their shape, as counts only grow.
LEMMA RowsKeepOK ==
  ASSUME ConfigInv, RowsFit, Finished <= Finished'
  PROVE  /\ row' \in [Names -> RowsUpTo(1 + Finished')] /\ born' \in [Names -> Nat]
         /\ \A n \in Names : RowOK(n)'
<1>1. Finished \in Nat /\ Finished' \in Nat
  BY FinishedType, FinishedTypeNext
<1>2. RowsUpTo(1 + Finished) \subseteq RowsUpTo(1 + Finished')
  BY RowsGrowOn
<1>3. ASSUME NEW n \in Names, row'[n] = row[n] PROVE RowOK(n)'
  <2>1. RowOK(n) /\ born[n] <= born'[n] /\ born'[n] <= 1 + Finished'
    BY DEF ConfigInv, RowsFit
  <2>2. born[n] \in Nat /\ born'[n] \in Nat /\ row[n].id \in Nat
    BY <1>1 DEF ConfigInv, RowsFit, RowsUpTo
  <2>3. ASSUME NEW id \in row[n].apps PROVE id[2] <= born'[id[1]]
    <3>1. id \in Apps \X (1 .. 1 + Finished)
      BY DEF ConfigInv, RowsUpTo
    <3>2. id[1] \in Names /\ id[2] \in Int
      BY <1>1, <3>1 DEF Names
    <3>3. id[2] <= born[id[1]] /\ born[id[1]] <= born'[id[1]]
      BY <2>1, <3>2 DEF RowOK, RowsFit
    <3>4. born[id[1]] \in Nat /\ born'[id[1]] \in Nat
      BY <3>2 DEF ConfigInv, RowsFit
    <3> QED BY <3>2, <3>3, <3>4
  <2> QED BY <1>1, <1>2, <1>3, <2>1, <2>2, <2>3 DEF RowOK
<1>4. \A n \in Names : RowOK(n)'
  BY <1>3 DEF RowsFit
<1>5. \A n \in Names : row'[n] \in RowsUpTo(1 + Finished')
  BY <1>4 DEF RowOK
<1> QED BY <1>4, <1>5 DEF RowsFit

-----------------------------------------------------------------------------
(* What an administrator saw.                                              *)

\* A row that changes has another id or a later version.
RowMoves(n) ==
  \/ row'[n] = row[n]
  \/ row'[n] = NoRow
  \/ row'[n].id = row[n].id /\ row'[n].version > row[n].version
  \/ row'[n].id = born[n] + 1

\* The handlers of other edits see rows that move on, and so keep what they know.
LEMMA OtherEditOK ==
  ASSUME ConfigInv, RowsFit, Finished <= Finished', \A n \in Names : RowMoves(n),
         NEW e \in Edits, edit'[e] = edit[e]
  PROVE  EditOK(e)'
<1>1. Finished \in Nat /\ Finished' \in Nat
  BY FinishedType, FinishedTypeNext
<1>2. RowsUpTo(1 + Finished) \subseteq RowsUpTo(1 + Finished')
  BY RowsGrowOn
<1>3. EditOK(e) /\ edit[e] \in Editing
  BY DEF ConfigInv
<1>4. edit'[e] \in Editing'
  BY <1>2, <1>3 DEF Editing
<1>5. ASSUME edit[e].step \in {"open", "checked"}
      PROVE  LET n == edit[e].name  seen == edit[e].seen IN
             /\ n \in Names /\ seen.id \in 1 .. born'[n]
             /\ row'[n].id = seen.id =>
                  row'[n].version >= seen.version /\ (row'[n].version = seen.version => row'[n] = seen)
             /\ row'[n].id = seen.id /\ row'[n].version = seen.version =>
                  row[n].id = seen.id /\ row[n].version = seen.version
  <2>1. PICK n \in Names : n = edit[e].name
    BY <1>3, <1>5 DEF EditOK
  <2>2. PICK seen \in RowsUpTo(1 + Finished) : seen = edit[e].seen
    BY <1>3 DEF Editing
  <2>3. /\ seen.id \in 1 .. born[n]
        /\ row[n].id = seen.id =>
            row[n].version >= seen.version /\ (row[n].version = seen.version => row[n] = seen)
    BY <1>3, <1>5, <2>1, <2>2 DEF EditOK
  <2>4. /\ row[n].id \in Nat /\ row[n].version \in Nat
        /\ row'[n].id \in Nat /\ row'[n].version \in Nat
        /\ seen.id \in Nat /\ seen.version \in Nat
    BY <1>1, RowsKeepOK DEF ConfigInv, RowsUpTo
  <2>5. born[n] \in Nat /\ born'[n] \in Nat /\ born[n] <= born'[n]
    BY DEF ConfigInv, RowsFit
  <2>6. CASE row'[n] = row[n]
    BY <2>1, <2>2, <2>3, <2>5, <2>6
  <2>7. CASE row'[n] = NoRow
    BY <2>1, <2>2, <2>3, <2>4, <2>5, <2>7, NoRowIsNone
  <2>8. CASE row'[n].id = row[n].id /\ row'[n].version > row[n].version
    BY <2>1, <2>2, <2>3, <2>4, <2>5, <2>8
  <2>9. CASE row'[n].id = born[n] + 1
    BY <2>1, <2>2, <2>3, <2>4, <2>5, <2>9
  <2> QED BY <2>6, <2>7, <2>8, <2>9 DEF RowMoves
<1>6. ASSUME edit[e].step = "checked", SameVersion(e)'
      PROVE  SameVersion(e)
  BY <1>5, <1>6 DEF SameVersion
<1>7. /\ edit[e].step = "checked" => edit[e].name \in Apps
      /\ edit[e].step = "checked" /\ SameVersion(e)' =>
           /\ edit[e].seen.ownership # "manifest"
           /\ Publishable(Changed(edit[e].seen.body, edit[e].change))
  BY <1>3, <1>6 DEF EditOK
<1> QED BY <1>4, <1>5, <1>7 DEF EditOK
-----------------------------------------------------------------------------
(* Steps of the dashboard.                                                 *)

\* What is read back does not change by itself.
LEMMA SameInSync ==
  ASSUME InSync, UNCHANGED <<row, settings, deployed, causes>>
  PROVE  InSync'
  BY DEF InSync, Readable, ReadBackRows, Manifested, Live, CurrentManifests, CurrentInstance,
         RowToManifest, AppId

\* What a finished edit leaves of edits and of the count.
LEMMA FinishedEdit ==
  ASSUME ConfigInv, NEW e \in Edits, Finish(e), edit[e].step # "done", UNCHANGED apply
  PROVE  /\ Finished' = Finished + 1 /\ Finished <= Finished'
         /\ EditOK(e)' /\ edit' = [f \in Edits |-> edit'[f]]
         /\ \A f \in Edits \ {e} : edit'[f] = edit[f]
<1>1. NoRow \in RowsUpTo(1 + Finished)
  BY FinishedType, NoRowIsNone
<1>2. PICK w \in Editing : w = At("done") /\ w.step = "done"
  <2>1. PICK none \in RowsUpTo(1 + Finished) : none = NoRow
    BY <1>1
  <2>2. [set |-> {}, clear |-> {}] \in [set : SUBSET Flags, clear : SUBSET Flags]
    OBVIOUS
  <2>3. At("done") = [step |-> "done", name |-> "none", seen |-> none,
                      change |-> [set |-> {}, clear |-> {}]]
    BY <2>1 DEF At
  <2> QED BY <2>2, <2>3 DEF Editing
<1>3. edit' = [edit EXCEPT ![e] = w]
  BY <1>2 DEF Finish
<1>4. /\ edit'[e] = w /\ edit' = [f \in Edits |-> edit'[f]]
      /\ \A f \in Edits \ {e} : edit'[f] = edit[f]
  BY <1>3 DEF ConfigInv
<1>5. EditEnds(e)
  BY <1>2, <1>4 DEF EditEnds
<1>6. Finished' = Finished + 1
  BY <1>5, OneMoreEdit
<1>7. Finished \in Nat /\ Finished <= Finished'
  BY <1>6, FinishedType
<1>8. w \in Editing'
  BY <1>2, <1>7, RowsGrowOn DEF Editing
<1>9. EditOK(e)'
  BY <1>2, <1>4, <1>8 DEF EditOK
<1> QED BY <1>4, <1>6, <1>7, <1>9

\* A step of the dashboard keeps the invariant if the rows fit, the edit at work is
\* right, and what was applied last still is what there is.
LEMMA DashboardKeepsInv ==
  ASSUME ConfigInv, RowsFit, Finished <= Finished', \A n \in Names : RowMoves(n),
         UNCHANGED <<apply, clock, deployed>>, settings' \in Settings,
         NEW e \in Edits, EditOK(e)', edit' = [f \in Edits |-> edit'[f]],
         \A f \in Edits \ {e} : edit'[f] = edit[f],
         PublishedHasLaunchUri', InSync'
  PROVE  ConfigInv'
<1>1. \A f \in Edits : EditOK(f)'
  BY OtherEditOK
<1>2. edit' \in [Edits -> Editing']
  BY <1>1 DEF EditOK
<1>3. \A a \in Applies : ApplyOK(a)'
  BY DEF ConfigInv, ApplyOK, Begun
<1>4. ClockOK' /\ DeployedOK'
  BY DEF ConfigInv, ClockOK, DeployedOK
<1>5. apply' = [a \in Applies |-> apply'[a]]
  BY DEF ConfigInv
<1> QED BY <1>1, <1>2, <1>3, <1>4, <1>5, RowsKeepOK DEF ConfigInv

\* Steps that write no row.
LEMMA SameRowsFit ==
  ASSUME ConfigInv, UNCHANGED <<row, born>>, Finished <= Finished'
  PROVE  RowsFit /\ (\A n \in Names : RowMoves(n)) /\ PublishedHasLaunchUri'
<1>1. Finished \in Nat /\ Finished' \in Nat
  BY FinishedType, FinishedTypeNext
<1>2. \A n \in Names : born[n] \in 0 .. 1 + Finished
  BY DEF ConfigInv, RowOK
<1>3. \A n \in Names : born'[n] \in Nat /\ born'[n] <= 1 + Finished'
  BY <1>1, <1>2
<1>4. row' = [n \in Names |-> row'[n]] /\ born' \in [Names -> Nat]
  BY DEF ConfigInv
<1> QED BY <1>2, <1>3, <1>4 DEF ConfigInv, RowsFit, RowMoves, PublishedHasLaunchUri

LEMMA ReadKeepsInv ==
  ASSUME ConfigInv, NEW e \in Edits, NEW n \in Names, ReadResource(e, n)
  PROVE  ConfigInv'
<1>1. PICK h \in Editing : h = edit[e] /\ h.step = "idle"
  BY DEF ConfigInv, ReadResource, Idle
<1>2. PICK x \in RowsUpTo(1 + Finished) : x = row[n] /\ x.id # 0
  BY DEF ConfigInv, ReadResource, Live
<1> DEFINE w == [h EXCEPT !.step = "open", !.name = n, !.seen = x]
<1>3. w \in Editing /\ w.step = "open" /\ w.name = n /\ w.seen = x
  BY DEF Editing
<1>4. edit' = [edit EXCEPT ![e] = w]
  BY <1>1, <1>2 DEF ReadResource
<1> HIDE DEF w
<1>5. UNCHANGED <<row, born, settings, deployed, apply, clock, causes>>
  BY DEF ReadResource
<1>6. /\ edit'[e] = w /\ edit' = [f \in Edits |-> edit'[f]]
      /\ \A f \in Edits \ {e} : edit'[f] = edit[f]
  BY <1>4 DEF ConfigInv
<1>7. Finished' = Finished /\ Finished <= Finished'
  <2>1. \A f \in Edits : edit'[f].step = "done" <=> edit[f].step = "done"
    BY <1>1, <1>3, <1>6
  <2>2. \A a \in Applies : apply'[a].step = "done" <=> apply[a].step = "done"
    BY <1>5
  <2> QED BY <2>1, <2>2, NoMore, FinishedType
<1>8. EditOK(e)'
  <2>1. w \in Editing'
    BY <1>3, <1>7 DEF Editing
  <2>2. x.id \in 1 .. born[n] /\ x.version \in Nat
    BY <1>2, FinishedType DEF ConfigInv, RowOK, RowsUpTo
  <2> QED BY <1>2, <1>3, <1>5, <1>6, <2>1, <2>2 DEF EditOK
<1>9. settings' \in Settings /\ InSync'
  BY <1>5, SameInSync DEF ConfigInv
<1> QED BY <1>5, <1>6, <1>7, <1>8, <1>9, SameRowsFit, DashboardKeepsInv

LEMMA CheckKeepsInv ==
  ASSUME ConfigInv, NEW e \in Edits, NEW change \in Changes, CheckApplication(e, change)
  PROVE  ConfigInv'
<1>1. PICK h \in Editing : h = edit[e] /\ h.step = "open" /\ h.name \in Apps
  BY DEF ConfigInv, CheckApplication
<1> DEFINE v == [h EXCEPT !.step = "checked"]
           w == [v EXCEPT !.change = change]
           mid == [edit EXCEPT ![e] = v]
<1>2. v \in Editing /\ v.step = "checked" /\ v.name = h.name /\ v.seen = h.seen
  BY DEF Editing
<1>3. edit' = [mid EXCEPT ![e] = [mid[e] EXCEPT !.change = change]]
  BY <1>1 DEF CheckApplication
<1>4. mid[e] = v
  BY DEF ConfigInv
<1> HIDE DEF v
<1>5. /\ w \in Editing /\ w.step = "checked" /\ w.name = h.name /\ w.seen = h.seen
      /\ w.change = change
  BY <1>2 DEF Editing, Changes
<1>6. edit' = [edit EXCEPT ![e] = w]
  BY <1>3, <1>4
<1> HIDE DEF w
<1>7. UNCHANGED <<row, born, settings, deployed, apply, clock, causes>>
  BY DEF CheckApplication
<1>8. /\ edit'[e] = w /\ edit' = [f \in Edits |-> edit'[f]]
      /\ \A f \in Edits \ {e} : edit'[f] = edit[f]
  BY <1>6 DEF ConfigInv
<1>9. Finished' = Finished /\ Finished <= Finished'
  <2>1. \A f \in Edits : edit'[f].step = "done" <=> edit[f].step = "done"
    BY <1>1, <1>5, <1>8
  <2>2. \A a \in Applies : apply'[a].step = "done" <=> apply[a].step = "done"
    BY <1>7
  <2> QED BY <2>1, <2>2, NoMore, FinishedType
<1>10. EditOK(e)'
  <2>1. w \in Editing'
    BY <1>5, <1>9 DEF Editing
  <2>2. /\ h.name \in Names /\ h.seen.id \in 1 .. born[h.name]
        /\ row[h.name].id = h.seen.id =>
             row[h.name].version >= h.seen.version
             /\ (row[h.name].version = h.seen.version => row[h.name] = h.seen)
    BY <1>1 DEF ConfigInv, EditOK
  <2>3. /\ row[h.name].ownership # "manifest"
        /\ Publishable(Changed(row[h.name].body, change))
    BY <1>1 DEF CheckApplication, Publishable
  <2> QED BY <1>1, <1>5, <1>7, <1>8, <2>1, <2>2, <2>3 DEF EditOK, SameVersion
<1>11. settings' \in Settings /\ InSync'
  BY <1>7, SameInSync DEF ConfigInv
<1> QED BY <1>7, <1>8, <1>9, <1>10, <1>11, SameRowsFit, DashboardKeepsInv

LEMMA SettingsKeepInv ==
  ASSUME ConfigInv, NEW e \in Edits, PatchSettings(e) \/ ApplyElsewhere(e)
  PROVE  ConfigInv'
<1>1. PICK session \in Texts, tokens \in Texts : ChangeSettings(e, session, tokens)
  BY DEF PatchSettings, ApplyElsewhere, ConfigInv, Settings
<1>2. /\ UNCHANGED <<row, born, deployed, apply, clock>> /\ settings' \in Settings
      /\ causes' # {} /\ Finish(e) /\ edit[e].step # "done"
  BY <1>1 DEF ChangeSettings, Idle, Settings
<1>3. InSync'
  BY <1>2 DEF InSync
<1> QED BY <1>2, <1>3, FinishedEdit, SameRowsFit, DashboardKeepsInv
\* Manifests are kept, and an application's id is what it was, or new, or gone.
ManifestsKept ==
  /\ \A n \in Manifested(row) : row'[n] = row[n]
  /\ \A n \in Names \ Manifested(row) : n \notin Manifested(row')
  /\ \A a \in Apps : row'[a].id = row[a].id \/ row'[a].id = born[a] + 1 \/ row'[a].id = 0

\* In an environment in sync with a valid directory, a manifest's policy names
\* applications of the manifests only.
LEMMA SyncedPolicies ==
  ASSUME ConfigInv, causes = {}, deployed.stamp # 0, Readable(row, settings, deployed),
         NEW n \in ReadBackRows(row), NEW a \in Apps, Live(row, a), AppId(row, a) \in row[n].apps
  PROVE  a \in Manifested(row)
<1>1. PICK d \in Directories : deployed.directory = d
  BY DEF ConfigInv, DeployedOK
<1>2. d = CurrentManifests(row, settings, deployed)
  BY <1>1 DEF ConfigInv, InSync
<1>3. DOMAIN d.docs = ReadBackRows(row) /\ d.docs[n] = RowToManifest(row, n)
  BY <1>2 DEF CurrentManifests
<1>4. a \in d.docs[n].apps
  BY <1>3 DEF RowToManifest, Document
<1>5. d.docs[n].apps \subseteq IF n \in Policies THEN Apps \intersect DOMAIN d.docs ELSE {}
  BY <1>3, DirectoriesAreValid DEF ValidDirectory
<1>6. a \in ReadBackRows(row)
  BY <1>3, <1>4, <1>5
<1> QED BY <1>6 DEF ReadBackRows

LEMMA SyncStays ==
  ASSUME ConfigInv, ManifestsKept, UNCHANGED <<settings, deployed, causes>>
  PROVE  InSync'
<1> SUFFICES ASSUME causes = {}, deployed.stamp # 0, Readable(row', settings, deployed)
             PROVE  deployed.directory = CurrentManifests(row', settings, deployed)
  BY DEF InSync, Readable, ReadBackRows, Manifested, Live, CurrentManifests, CurrentInstance,
         RowToManifest, AppId
<1>1. ReadBackRows(row') = ReadBackRows(row)
  <2>1. \A n \in Manifested(row) : n \in Manifested(row')
    BY DEF ManifestsKept, Manifested, Live
  <2>2. Manifested(row') = Manifested(row)
    BY <2>1 DEF ManifestsKept, Manifested
  <2> QED BY <2>2 DEF ReadBackRows
<1>2. Readable(row, settings, deployed)
  BY <1>1 DEF Readable
<1>3. ASSUME NEW n \in ReadBackRows(row) PROVE RowToManifest(row', n) = RowToManifest(row, n)
  <2>1. row'[n] = row[n] /\ n \in Names
    BY <1>3 DEF ManifestsKept, ReadBackRows, Manifested
  <2>2. ASSUME NEW a \in Apps
        PROVE  (Live(row', a) /\ AppId(row', a) \in row[n].apps)
                 <=> (Live(row, a) /\ AppId(row, a) \in row[n].apps)
    <3>1. a \in Names /\ born[a] \in Nat
      BY DEF Names, ConfigInv
    <3>2. CASE row'[a].id = row[a].id
      BY <3>2 DEF Live, AppId
    <3>3. CASE row'[a].id = born[a] + 1 /\ row'[a].id # row[a].id
      <4>1. AppId(row', a) \notin row[n].apps
        <5>1. ASSUME AppId(row', a) \in row[n].apps PROVE FALSE
          <6>1. AppId(row', a) = <<a, born[a] + 1>>
            BY <3>3 DEF AppId
          <6>2. \A id \in row[n].apps : id[2] <= born[id[1]]
            BY <2>1 DEF ConfigInv, RowOK
          <6>3. born[a] + 1 <= born[a]
            BY <5>1, <6>1, <6>2
          <6> QED BY <3>1, <6>3
        <5> QED BY <5>1
      <4>2. ~(Live(row, a) /\ AppId(row, a) \in row[n].apps)
        <5>1. a \notin Manifested(row)
          BY <3>3 DEF ManifestsKept
        <5> QED BY <1>2, <1>3, <5>1, SyncedPolicies
      <4> QED BY <4>1, <4>2
    <3>4. CASE row'[a].id = 0 /\ row'[a].id # row[a].id
      <4>1. ~(Live(row, a) /\ AppId(row, a) \in row[n].apps)
        <5>1. a \notin Manifested(row)
          BY <3>4 DEF ManifestsKept
        <5> QED BY <1>2, <1>3, <5>1, SyncedPolicies
      <4> QED BY <3>4, <4>1 DEF Live
    <3> QED BY <3>2, <3>3, <3>4 DEF ManifestsKept
  <2> QED BY <2>1, <2>2 DEF RowToManifest
<1>4. CurrentManifests(row', settings, deployed) = CurrentManifests(row, settings, deployed)
  BY <1>1, <1>3 DEF CurrentManifests
<1> QED BY <1>2, <1>4 DEF ConfigInv, InSync

\* gen_random_uuid.
LEMMA BornGrows ==
  ASSUME ConfigInv, born' = BornOf(row'), NEW n \in Names, row'[n].id \in Nat
  PROVE  born'[n] \in Nat /\ born[n] <= born'[n] /\ row'[n].id <= born'[n]
         /\ born'[n] \in {born[n], row'[n].id}
<1>1. born'[n] = IF row'[n].id > born[n] THEN row'[n].id ELSE born[n]
  BY DEF BornOf
<1>2. born[n] \in Nat
  BY DEF ConfigInv
<1> QED BY <1>1, <1>2

\* A row the dashboard has changed.
Patched(n, body, ids) ==
  /\ row'[n] \in RowsUpTo(2 + Finished)
  /\ row'[n].id = row[n].id /\ row'[n].version = row[n].version + 1
  /\ row'[n].ownership = row[n].ownership
  /\ row'[n].body = body /\ row'[n].apps = ids

LEMMA PatchKeepsInv ==
  ASSUME ConfigInv, NEW e \in Edits, NEW n \in Names, NEW body \in Bodies(n), NEW ids,
         Patched(n, body, ids), n \notin Policies => ids = {},
         \A id \in ids : id \in Apps \X Nat /\ id[2] <= born[id[1]],
         row' = [m \in Names |-> row'[m]], \A m \in Names \ {n} : row'[m] = row[m],
         Live(row, n), row[n].ownership # "manifest",
         n \in Apps => Publishable(body),
         edit[e].step # "done", Finish(e), UNCHANGED <<born, settings, deployed, apply, clock, causes>>
  PROVE  ConfigInv'
<1>1. /\ Finished' = Finished + 1 /\ Finished <= Finished' /\ Finished \in Nat
      /\ EditOK(e)' /\ edit' = [f \in Edits |-> edit'[f]]
      /\ \A f \in Edits \ {e} : edit'[f] = edit[f]
  BY FinishedEdit, FinishedType
<1>2. \A m \in Names : born[m] \in 0 .. 1 + Finished
  BY DEF ConfigInv, RowOK
<1>3. RowOK(n)'
  <2>1. row[n].id # 0 /\ row[n].id <= born[n] /\ row[n].ownership # "none"
    BY DEF ConfigInv, RowOK, Live
  <2>2. row'[n] \in RowsUpTo(1 + Finished')
    BY <1>1 DEF Patched
  <2>3. born'[n] \in 0 .. 1 + Finished'
    BY <1>1, <1>2
  <2> QED BY <2>1, <2>2, <2>3 DEF RowOK, Patched
<1>4. RowsFit
  <2>1. \A m \in Names : born[m] <= born'[m] /\ born'[m] <= 1 + Finished'
    BY <1>1, <1>2
  <2>2. born' \in [Names -> Nat]
    BY DEF ConfigInv
  <2> QED BY <1>3, <2>1, <2>2 DEF RowsFit
<1>5. \A m \in Names : RowMoves(m)
  <2>1. row[n].version \in Nat
    BY <1>1 DEF ConfigInv, RowsUpTo
  <2>2. RowMoves(n)
    BY <2>1 DEF RowMoves, Patched
  <2> QED BY <2>2 DEF RowMoves
<1>6. PublishedHasLaunchUri'
  <2> SUFFICES ASSUME NEW a \in Apps, row'[a].ownership = "dashboard", "portal" \in row'[a].body
               PROVE  "launch" \in row'[a].body
    BY DEF PublishedHasLaunchUri
  <2>1. CASE a = n
    BY <2>1 DEF Patched, Publishable
  <2>2. CASE a # n
    <3>1. row'[a] = row[a]
      BY <2>2 DEF Names
    <3> QED BY <3>1 DEF ConfigInv, PublishedHasLaunchUri
  <2> QED BY <2>1, <2>2
<1>7. ManifestsKept
  <2>1. n \notin Manifested(row)
    BY DEF Manifested
  <2>2. n \notin Manifested(row')
    BY DEF Manifested, Patched
  <2>3. \A m \in Names \ {n} : m \in Manifested(row') => m \in Manifested(row)
    BY DEF Manifested, Live
  <2>4. \A a \in Apps : row'[a].id = row[a].id
    BY DEF Patched, Names
  <2>5. \A m \in Manifested(row) : row'[m] = row[m]
    BY <2>1 DEF Manifested
  <2> QED BY <2>2, <2>3, <2>4, <2>5 DEF ManifestsKept
<1>8. InSync'
  BY <1>7, SyncStays
<1>9. settings' \in Settings
  BY DEF ConfigInv
<1> QED BY <1>1, <1>4, <1>5, <1>6, <1>8, <1>9, DashboardKeepsInv

\* PATCH /applications/:id
LEMMA UpdateKeepsInv ==
  ASSUME ConfigInv, NEW e \in Edits, UpdateApplication(e)
  PROVE  ConfigInv'
<1>1. PICK n \in Apps : n = edit[e].name
  BY DEF ConfigInv, UpdateApplication, EditOK
<1>2. n \in Names /\ n \notin Policies
  BY NamesAreDisjoint DEF Names
<1>3. /\ row[n] = edit[e].seen /\ Live(row, n)
      /\ row[n].ownership # "manifest"
      /\ Publishable(Changed(row[n].body, edit[e].change))
  <2>1. EditOK(e) /\ SameVersion(e) /\ edit[e].step = "checked"
    BY DEF ConfigInv, UpdateApplication
  <2>2. row[n] = edit[e].seen /\ edit[e].seen.id # 0
    BY <1>1, <2>1 DEF EditOK, SameVersion
  <2> QED BY <1>1, <2>1, <2>2 DEF EditOK, Live
<1>4. PICK body \in Bodies(n) : body = Changed(row[n].body, edit[e].change)
  <2>1. row[n].body \in SUBSET Flags
    BY <1>1, <1>2, <1>3 DEF ConfigInv, RowOK, Live, Bodies
  <2>2. edit[e].change.set \in SUBSET Flags
    BY DEF ConfigInv, Editing
  <2> QED BY <1>1, <2>1, <2>2 DEF Changed, Bodies
<1>5. PICK x \in RowsUpTo(1 + Finished) : x = row[n]
  BY <1>2 DEF ConfigInv
<1> DEFINE v == [x EXCEPT !.body = body]
           w == [v EXCEPT !.version = x.version + 1]
           mid == [row EXCEPT ![n] = v]
<1>6. Finished \in Nat
  BY FinishedType
<1>7. PICK c \in Nat : c = 1 + Finished
  BY <1>6
<1>8. body \in (SUBSET Flags) \union (SUBSET Texts)
  BY <1>2, BodyType
<1>9. /\ v \in RowsUpTo(c) /\ v.id = x.id /\ v.version = x.version /\ v.ownership = x.ownership
      /\ v.body = body /\ v.apps = x.apps
  BY <1>5, <1>7, <1>8 DEF RowsUpTo
<1>10. row' = [mid EXCEPT ![n] = [mid[n] EXCEPT !.version = mid[n].version + 1]]
  BY <1>1, <1>4, <1>5 DEF UpdateApplication
<1>11. mid[n] = v
  BY <1>2 DEF ConfigInv
<1> HIDE DEF v
<1>12. /\ w \in RowsUpTo(c + 1) /\ w.id = x.id /\ w.version = x.version + 1
       /\ w.ownership = x.ownership /\ w.body = body /\ w.apps = x.apps
  <2>1. v \in RowsUpTo(c + 1) /\ x.version + 1 \in 0 .. c + 1
    BY <1>5, <1>7, <1>9, RowsGrow DEF RowsUpTo
  <2> QED BY <1>9, <2>1 DEF RowsUpTo
<1>13. row' = [row EXCEPT ![n] = w]
  BY <1>9, <1>10, <1>11
<1> HIDE DEF w
<1>14. /\ row'[n] = w /\ row' = [m \in Names |-> row'[m]]
       /\ \A m \in Names \ {n} : row'[m] = row[m]
  BY <1>2, <1>13 DEF ConfigInv
<1>15. x.apps = {}
  BY <1>2, <1>5 DEF ConfigInv, RowOK
<1>16. Patched(n, body, {})
  BY <1>5, <1>6, <1>7, <1>12, <1>14, <1>15 DEF Patched
<1>17. /\ Finish(e) /\ UNCHANGED <<born, settings, deployed, apply, clock, causes>>
       /\ edit[e].step # "done"
  BY DEF UpdateApplication
<1> QED BY <1>2, <1>3, <1>4, <1>14, <1>16, <1>17, PatchKeepsInv
\* The applications there are, as policies name them.
LEMMA LiveIds ==
  ASSUME ConfigInv, NEW id \in LiveAppIds
  PROVE  id \in Apps \X (1 .. 1 + Finished) /\ id[2] <= born[id[1]]
<1>1. PICK a \in Apps : id = AppId(row, a) /\ Live(row, a)
  BY DEF LiveAppIds
<1>2. a \in Names /\ RowOK(a)
  BY DEF Names, ConfigInv
<1>3. /\ row[a].id \in 1 .. 1 + Finished /\ row[a].id <= born[a]
  BY <1>1, <1>2, FinishedType DEF RowOK, RowsUpTo, Live
<1>4. id = <<a, row[a].id>>
  BY <1>1 DEF AppId
<1> QED BY <1>3, <1>4

\* PATCH /scopes/:id and /policies/:id
LEMMA OwnedKeepsInv ==
  ASSUME ConfigInv, NEW e \in Edits, NEW t \in Texts, NEW ids, UpdateOwned(e, {t}, ids),
         ids \subseteq LiveAppIds, edit[e].name \notin Policies => ids = {}
  PROVE  ConfigInv'
<1>1. PICK n \in Names : n = edit[e].name /\ n \notin Apps
  BY DEF ConfigInv, UpdateOwned, EditOK
<1>2. PICK body \in Bodies(n) : body = {t}
  BY <1>1 DEF Bodies
<1>3. row[n] = edit[e].seen /\ Live(row, n) /\ row[n].ownership = "dashboard"
  BY <1>1 DEF ConfigInv, UpdateOwned, EditOK, SameVersion, Live
<1>4. PICK x \in RowsUpTo(1 + Finished) : x = row[n]
  BY DEF ConfigInv
<1>5. PICK c \in Nat : c = 1 + Finished
  BY FinishedType
<1>6. ids \in SUBSET (Apps \X (1 .. c))
  BY <1>5, LiveIds
<1> DEFINE u == [x EXCEPT !.body = body]
           v == [u EXCEPT !.apps = ids]
           w == [v EXCEPT !.version = x.version + 1]
           m1 == [row EXCEPT ![n] = u]
           m2 == [m1 EXCEPT ![n] = v]
<1>7. body \in (SUBSET Flags) \union (SUBSET Texts)
  BY BodyType
<1>8. /\ u \in RowsUpTo(c) /\ u.id = x.id /\ u.version = x.version /\ u.ownership = x.ownership
      /\ u.body = body
  BY <1>4, <1>5, <1>7 DEF RowsUpTo
<1>9. m1[n] = u
  BY DEF ConfigInv
<1>10. row' = [[m1 EXCEPT ![n].apps = ids] EXCEPT ![n].version = @ + 1]
  BY <1>1, <1>2, <1>4 DEF UpdateOwned
<1>11. row' = [m2 EXCEPT ![n].version = @ + 1]
  BY <1>9, <1>10
<1> HIDE DEF u
<1>12. /\ v \in RowsUpTo(c) /\ v.id = x.id /\ v.version = x.version /\ v.ownership = x.ownership
       /\ v.body = body /\ v.apps = ids
  BY <1>6, <1>8 DEF RowsUpTo
<1>13. m2[n] = v
  BY DEF ConfigInv
<1>14. row' = [m2 EXCEPT ![n] = w]
  BY <1>11, <1>12, <1>13
<1> HIDE DEF v
<1>15. /\ w \in RowsUpTo(c + 1) /\ w.id = x.id /\ w.version = x.version + 1
       /\ w.ownership = x.ownership /\ w.body = body /\ w.apps = ids
  <2>1. v \in RowsUpTo(c + 1) /\ x.version + 1 \in 0 .. c + 1
    BY <1>4, <1>5, <1>12, RowsGrow DEF RowsUpTo
  <2> QED BY <1>12, <2>1 DEF RowsUpTo
<1> HIDE DEF w
<1>16. row' = [row EXCEPT ![n] = w]
  BY <1>14
<1>17. /\ row'[n] = w /\ row' = [m \in Names |-> row'[m]]
       /\ \A m \in Names \ {n} : row'[m] = row[m]
  BY <1>16 DEF ConfigInv
<1>18. Patched(n, body, ids)
  BY <1>4, <1>5, <1>15, <1>17, FinishedType DEF Patched
<1>19. \A id \in ids : id \in Apps \X Nat /\ id[2] <= born[id[1]]
  BY <1>5, <1>6, LiveIds
<1>20. /\ Finish(e) /\ UNCHANGED <<born, settings, deployed, apply, clock, causes>>
       /\ edit[e].step # "done"
  BY DEF UpdateOwned
<1> QED BY <1>1, <1>3, <1>17, <1>18, <1>19, <1>20, PatchKeepsInv

\* POST of a resource: the row is new, and so is its id.
LEMMA CreateKeepsInv ==
  ASSUME ConfigInv, NEW e \in Edits, NEW n \in Names, NEW body \in Bodies(n), NEW ids,
         Create(e, n, body, ids), ids \subseteq LiveAppIds, n \notin Policies => ids = {},
         n \in Apps => Publishable(body)
  PROVE  ConfigInv'
<1>1. /\ Finish(e) /\ UNCHANGED <<settings, deployed, apply, clock, causes>>
      /\ edit[e].step # "done" /\ ~Live(row, n) /\ born' = BornOf(row')
  BY DEF Create, Idle
<1>2. /\ Finished' = Finished + 1 /\ Finished <= Finished' /\ Finished \in Nat
      /\ EditOK(e)' /\ edit' = [f \in Edits |-> edit'[f]]
      /\ \A f \in Edits \ {e} : edit'[f] = edit[f]
  BY <1>1, FinishedEdit, FinishedType
<1>3. PICK c \in Nat : c = 1 + Finished
  BY FinishedType
<1>4. ids \in SUBSET (Apps \X (1 .. c))
  BY <1>3, LiveIds
<1>5. \A m \in Names : born[m] \in 0 .. c
  BY <1>3 DEF ConfigInv, RowOK
<1> DEFINE w == [id |-> born[n] + 1, version |-> 1, ownership |-> "dashboard",
                 body |-> body, apps |-> ids]
<1>6. /\ w \in RowsUpTo(c + 1) /\ w.id = born[n] + 1 /\ w.version = 1 /\ w.ownership = "dashboard"
      /\ w.body = body /\ w.apps = ids
  <2>1. ids \in SUBSET (Apps \X (1 .. c + 1))
    BY <1>4
  <2>2. body \in (SUBSET Flags) \union (SUBSET Texts)
    BY BodyType
  <2> QED BY <1>5, <2>1, <2>2 DEF RowsUpTo
<1>7. row' = [row EXCEPT ![n] = w]
  BY DEF Create
<1> HIDE DEF w
<1>8. /\ row'[n] = w /\ row' = [m \in Names |-> row'[m]]
      /\ \A m \in Names \ {n} : row'[m] = row[m]
  BY <1>7 DEF ConfigInv
<1>9. \A m \in Names : row'[m].id \in Nat
  <2>1. \A m \in Names : row[m].id \in Nat
    BY <1>3 DEF ConfigInv, RowsUpTo
  <2> QED BY <1>5, <1>6, <1>8, <2>1
<1>10. \A m \in Names : /\ born'[m] \in Nat /\ born[m] <= born'[m] /\ row'[m].id <= born'[m]
                        /\ born'[m] \in {born[m], row'[m].id}
  BY <1>1, <1>9, BornGrows
<1>11. \A m \in Names : born'[m] <= c + 1
  <2>1. \A m \in Names : row[m].id \in 0 .. c
    BY <1>3 DEF ConfigInv, RowsUpTo
  <2> QED BY <1>5, <1>6, <1>8, <1>10, <2>1
<1>12. born' \in [Names -> Nat]
  BY <1>1, <1>10 DEF BornOf
<1>13. RowOK(n)'
  <2>1. row'[n] \in RowsUpTo(1 + Finished')
    BY <1>2, <1>3, <1>6, <1>8
  <2>2. ASSUME NEW id \in ids PROVE id[2] <= born'[id[1]]
    <3>1. id \in Apps \X (1 .. c) /\ id[2] <= born[id[1]]
      BY <1>3, LiveIds
    <3>2. id[1] \in Names /\ id[2] \in Nat
      BY <3>1 DEF Names
    <3>3. born[id[1]] \in Nat /\ born'[id[1]] \in Nat /\ born[id[1]] <= born'[id[1]]
      BY <1>5, <1>10, <3>2
    <3> QED BY <3>1, <3>2, <3>3
  <2>3. born'[n] \in 0 .. 1 + Finished' /\ row'[n].id <= born'[n]
    BY <1>2, <1>3, <1>10, <1>11
  <2>4. row'[n].id # 0 /\ row'[n].body = body /\ row'[n].apps = ids /\ row'[n].ownership = "dashboard"
    BY <1>5, <1>6, <1>8
  <2> QED BY <2>1, <2>2, <2>3, <2>4 DEF RowOK
<1>14. RowsFit
  <2>1. \A m \in Names : born[m] <= born'[m] /\ born'[m] <= 1 + Finished'
    BY <1>2, <1>3, <1>10, <1>11
  <2> QED BY <1>8, <1>12, <1>13, <2>1 DEF RowsFit
<1>15. \A m \in Names : RowMoves(m)
  BY <1>6, <1>8 DEF RowMoves
<1>16. PublishedHasLaunchUri'
  <2> SUFFICES ASSUME NEW a \in Apps, row'[a].ownership = "dashboard", "portal" \in row'[a].body
               PROVE  "launch" \in row'[a].body
    BY DEF PublishedHasLaunchUri
  <2>1. CASE a = n
    BY <1>6, <1>8, <2>1 DEF Publishable
  <2>2. CASE a # n
    <3>1. row'[a] = row[a]
      BY <1>8, <2>2 DEF Names
    <3> QED BY <3>1 DEF ConfigInv, PublishedHasLaunchUri
  <2> QED BY <2>1, <2>2
<1>17. ManifestsKept
  <2>1. n \notin Manifested(row)
    BY <1>1 DEF Manifested
  <2>2. n \notin Manifested(row')
    BY <1>6, <1>8 DEF Manifested
  <2>3. \A m \in Names \ {n} : m \in Manifested(row') => m \in Manifested(row)
    BY <1>8 DEF Manifested, Live
  <2>4. \A a \in Apps : row'[a].id = row[a].id \/ row'[a].id = born[a] + 1
    BY <1>6, <1>8 DEF Names
  <2>5. \A m \in Manifested(row) : row'[m] = row[m]
    BY <1>8, <2>1 DEF Manifested
  <2> QED BY <2>2, <2>3, <2>4, <2>5 DEF ManifestsKept
<1>18. InSync'
  BY <1>1, <1>17, SyncStays
<1>19. settings' \in Settings
  BY <1>1 DEF ConfigInv
<1> QED BY <1>1, <1>2, <1>14, <1>15, <1>16, <1>18, <1>19, DashboardKeepsInv
\* DELETE /applications/:id takes the application from the policies that name it.
LEMMA DeleteKeepsInv ==
  ASSUME ConfigInv, NEW e \in Edits, DeleteApplication(e)
  PROVE  ConfigInv'
<1>1. PICK a \in Apps : /\ Idle(e) /\ Live(row, a) /\ row[a].ownership # "manifest"
                        /\ row' = WithoutApplication(row, a)
                        /\ Finish(e)
                        /\ UNCHANGED <<born, settings, deployed, apply, clock, causes>>
  BY DEF DeleteApplication
<1>2. a \in Names /\ a \notin Policies
  BY NamesAreDisjoint DEF Names
<1>3. /\ Finished' = Finished + 1 /\ Finished <= Finished' /\ Finished \in Nat
      /\ EditOK(e)' /\ edit' = [f \in Edits |-> edit'[f]]
      /\ \A f \in Edits \ {e} : edit'[f] = edit[f]
  BY <1>1, FinishedEdit, FinishedType DEF Idle
<1>4. PICK c \in Nat : c = 1 + Finished
  BY FinishedType
<1>5. /\ row' = [n \in Names |-> row'[n]] /\ row'[a] = NoRow
      /\ \A n \in Names \ {a} :
           \/ row'[n] = row[n] /\ ~(n \in Policies /\ AppId(row, a) \in row[n].apps)
           \/ /\ n \in Policies /\ AppId(row, a) \in row[n].apps
              /\ row'[n] = [row[n] EXCEPT !.apps = @ \ {AppId(row, a)}, !.version = @ + 1]
  <2>1. \A n \in Names : row'[n] = IF n = a THEN NoRow
          ELSE IF n \in Policies /\ AppId(row, a) \in row[n].apps
          THEN [row[n] EXCEPT !.apps = @ \ {AppId(row, a)}, !.version = @ + 1] ELSE row[n]
    BY <1>1 DEF WithoutApplication
  <2>2. row' = [n \in Names |-> row'[n]]
    BY <1>1 DEF WithoutApplication
  <2> QED BY <1>2, <2>1, <2>2
<1>6. ASSUME NEW n \in Names \ {a}, n \in Policies, AppId(row, a) \in row[n].apps
      PROVE  /\ row'[n] \in RowsUpTo(c + 1)
             /\ row'[n].id = row[n].id /\ row'[n].version = row[n].version + 1
             /\ row'[n].ownership = row[n].ownership /\ row'[n].body = row[n].body
             /\ row'[n].apps \subseteq row[n].apps /\ row[n].id # 0
  <2>1. PICK x \in RowsUpTo(c) : x = row[n]
    BY <1>4 DEF ConfigInv
  <2>2. PICK ids \in SUBSET x.apps : ids = x.apps \ {AppId(row, a)}
    OBVIOUS
  <2> DEFINE w == [x EXCEPT !.apps = ids, !.version = x.version + 1]
  <2>3. /\ w \in RowsUpTo(c + 1) /\ w.id = x.id /\ w.version = x.version + 1
        /\ w.ownership = x.ownership /\ w.body = x.body /\ w.apps = ids
    <3>1. x \in RowsUpTo(c + 1) /\ x.version + 1 \in 0 .. c + 1
      BY <1>4, <2>1, RowsGrow DEF RowsUpTo
    <3>2. ids \in SUBSET (Apps \X (1 .. c + 1))
      BY <3>1 DEF RowsUpTo
    <3> QED BY <3>1, <3>2 DEF RowsUpTo
  <2>4. row'[n] = w
    BY <1>5, <1>6, <2>1, <2>2
  <2> HIDE DEF w
  <2>5. row[n].id # 0
    BY <1>6, NoRowIsNone DEF ConfigInv, RowOK
  <2> QED BY <2>1, <2>3, <2>4, <2>5
<1>7. \A n \in Names : born[n] \in 0 .. c
  BY <1>4 DEF ConfigInv, RowOK
<1>8. ASSUME NEW n \in Names PROVE row'[n] = row[n] \/ RowOK(n)'
  <2>1. born'[n] = born[n] /\ born[n] \in 0 .. 1 + Finished'
    BY <1>1, <1>3, <1>4, <1>7
  <2>2. CASE n = a
    <3>1. RowsUpTo(1 + Finished') = RowsUpTo(c + 1) /\ NoRow \in RowsUpTo(c + 1)
      BY <1>3, <1>4, NoRowIsNone
    <3>2. row'[n] = NoRow /\ row'[n] \in RowsUpTo(1 + Finished')
      BY <1>5, <2>2, <3>1
    <3>3. row'[n].id = 0 /\ row'[n].apps = {} /\ row'[n].id <= born'[n]
      BY <1>7, <2>1, <3>2, NoRowIsNone, <1>4
    <3> QED BY <2>1, <3>2, <3>3 DEF RowOK
  <2>3. CASE n # a /\ n \in Policies /\ AppId(row, a) \in row[n].apps
    <3>1. /\ row'[n] \in RowsUpTo(1 + Finished')
          /\ row'[n].id = row[n].id /\ row'[n].ownership = row[n].ownership
          /\ row'[n].body = row[n].body /\ row'[n].apps \subseteq row[n].apps /\ row[n].id # 0
      BY <1>3, <1>4, <1>6, <2>3
    <3>2. /\ row[n].id <= born[n] /\ row[n].body \in Bodies(n) /\ row[n].ownership # "none"
          /\ \A id \in row[n].apps : id[2] <= born[id[1]]
      BY <3>1 DEF ConfigInv, RowOK
    <3>3. born' = born
      BY <1>1
    <3>4. \A id \in row'[n].apps : id[2] <= born'[id[1]]
      BY <3>1, <3>2, <3>3
    <3>5. row'[n].id <= born'[n] /\ row'[n].id # 0 /\ row'[n].body \in Bodies(n)
          /\ row'[n].ownership # "none" /\ born'[n] \in 0 .. 1 + Finished'
      BY <2>1, <3>1, <3>2
    <3> QED BY <2>3, <3>1, <3>4, <3>5 DEF RowOK
  <2> QED BY <1>5, <2>2, <2>3
<1>9. RowsFit
  <2>1. \A n \in Names : born[n] <= born'[n] /\ born'[n] <= 1 + Finished'
    BY <1>1, <1>3, <1>4, <1>7
  <2>2. born' \in [Names -> Nat]
    BY <1>1 DEF ConfigInv
  <2> QED BY <1>5, <1>8, <2>1, <2>2 DEF RowsFit
<1>10. \A n \in Names : RowMoves(n)
  <2>1. \A n \in Names : row[n].version \in Nat
    BY <1>4 DEF ConfigInv, RowsUpTo
  <2>2. RowMoves(a)
    BY <1>5 DEF RowMoves
  <2>3. ASSUME NEW n \in Names \ {a} PROVE RowMoves(n)
    <3>1. CASE row'[n] = row[n]
      BY <3>1 DEF RowMoves
    <3>2. CASE n \in Policies /\ AppId(row, a) \in row[n].apps
      <4>1. row'[n].id = row[n].id /\ row'[n].version = row[n].version + 1
        BY <1>6, <3>2
      <4> QED BY <2>1, <4>1 DEF RowMoves
    <3> QED BY <1>5, <3>1, <3>2
  <2> QED BY <2>2, <2>3
<1>11. \A b \in Apps : row'[b] = row[b] \/ row'[b] = NoRow
  BY <1>5, NamesAreDisjoint DEF Names
<1>12. PublishedHasLaunchUri'
  BY <1>11, NoRowIsNone DEF ConfigInv, PublishedHasLaunchUri
<1>13. Manifested(row') = Manifested(row)
  <2>1. a \notin Manifested(row) /\ a \notin Manifested(row')
    BY <1>1, <1>5, NoRowIsNone DEF Manifested
  <2>2. \A n \in Names \ {a} : n \in Manifested(row') <=> n \in Manifested(row)
    BY <1>5, <1>6 DEF Manifested, Live
  <2>3. Manifested(row) \subseteq Names /\ Manifested(row') \subseteq Names
    BY DEF Manifested
  <2> QED BY <2>1, <2>2, <2>3
<1>14. InSync'
  <2>1. ReadBackRows(row') = ReadBackRows(row)
    BY <1>13 DEF ReadBackRows
  <2> SUFFICES ASSUME causes = {}, deployed.stamp # 0, Readable(row, settings, deployed)
               PROVE  InSync'
    BY <1>1, <2>1 DEF InSync, Readable
  <2>2. \A n \in Manifested(row) : row'[n] = row[n]
    <3> SUFFICES ASSUME NEW n \in Manifested(row) PROVE row'[n] = row[n]
      OBVIOUS
    <3>1. n \in Names \ {a}
      BY <1>1 DEF Manifested
    <3>2. CASE n \in Policies
      <4>1. n \in ReadBackRows(row)
        BY <3>2, SystemScopesAreScopes, NamesAreDisjoint DEF ReadBackRows
      <4>2. a \notin Manifested(row)
        BY <1>1 DEF Manifested
      <4> QED BY <1>1, <1>5, <3>1, <4>1, <4>2, SyncedPolicies
    <3> QED BY <1>5, <3>1, <3>2
  <2>3. \A b \in Apps : row'[b].id = row[b].id \/ row'[b].id = 0
    BY <1>11, NoRowIsNone
  <2>4. ManifestsKept
    BY <1>13, <2>2, <2>3 DEF ManifestsKept
  <2> QED BY <1>1, <2>4, SyncStays
<1>15. settings' \in Settings
  BY <1>1 DEF ConfigInv
<1> QED BY <1>1, <1>3, <1>9, <1>10, <1>12, <1>14, <1>15, DashboardKeepsInv

LEMMA DashboardStepKeepsInv ==
  ASSUME ConfigInv, DashboardStep
  PROVE  ConfigInv'
<1>1. ASSUME NEW e \in Edits, NEW change \in Changes, CheckApplication(e, change) PROVE ConfigInv'
  BY <1>1, CheckKeepsInv
<1>2. ASSUME NEW e \in Edits, UpdateApplication(e) PROVE ConfigInv'
  BY <1>2, UpdateKeepsInv
<1>3. ASSUME NEW e \in Edits, PatchScope(e) PROVE ConfigInv'
  <2>1. PICK t \in Texts : UpdateOwned(e, {t}, {})
    BY <1>3 DEF PatchScope
  <2>2. {} \subseteq LiveAppIds
    OBVIOUS
  <2> QED BY <2>1, <2>2, OwnedKeepsInv
<1>4. ASSUME NEW e \in Edits, PatchPolicy(e) PROVE ConfigInv'
  <2>1. PICK t \in Texts, ids \in SUBSET LiveAppIds : UpdateOwned(e, {t}, ids)
    BY <1>4 DEF PatchPolicy
  <2>2. edit[e].name \in Policies
    BY <1>4 DEF PatchPolicy
  <2> QED BY <2>1, <2>2, OwnedKeepsInv
<1>5. ASSUME NEW e \in Edits, NEW n \in Names, ReadResource(e, n) PROVE ConfigInv'
  BY <1>5, ReadKeepsInv
<1>6. ASSUME NEW e \in Edits, CreateApplication(e) PROVE ConfigInv'
  <2>1. PICK a \in Apps, body \in SUBSET Flags :
          ("portal" \in body => "launch" \in body) /\ Create(e, a, body, {})
    BY <1>6 DEF CreateApplication
  <2>2. a \in Names /\ body \in Bodies(a) /\ Publishable(body) /\ {} \subseteq LiveAppIds
    BY <2>1 DEF Names, Bodies, Publishable
  <2> QED BY <2>1, <2>2, CreateKeepsInv
<1>7. ASSUME NEW e \in Edits, CreateScope(e) PROVE ConfigInv'
  <2>1. PICK n \in Scopes, t \in Texts : Create(e, n, {t}, {})
    BY <1>7 DEF CreateScope
  <2>2. n \in Names /\ n \notin Apps /\ {t} \in Bodies(n) /\ {} \subseteq LiveAppIds
    BY NamesAreDisjoint DEF Names, Bodies
  <2> QED BY <2>1, <2>2, CreateKeepsInv
<1>8. ASSUME NEW e \in Edits, CreatePolicy(e) PROVE ConfigInv'
  <2>1. PICK n \in Policies, t \in Texts, ids \in SUBSET LiveAppIds : Create(e, n, {t}, ids)
    BY <1>8 DEF CreatePolicy
  <2>2. n \in Names /\ n \notin Apps /\ {t} \in Bodies(n)
    BY NamesAreDisjoint DEF Names, Bodies
  <2> QED BY <2>1, <2>2, CreateKeepsInv
<1>9. ASSUME NEW e \in Edits, DeleteApplication(e) PROVE ConfigInv'
  BY <1>9, DeleteKeepsInv
<1>10. ASSUME NEW e \in Edits, PatchSettings(e) PROVE ConfigInv'
  BY <1>10, SettingsKeepInv
<1> QED BY <1>1, <1>2, <1>3, <1>4, <1>5, <1>6, <1>7, <1>8, <1>9, <1>10 DEF DashboardStep, PatchStep
-----------------------------------------------------------------------------
(* Steps of an apply.                                                      *)

\* What a plan writes is in its directory.
WritesDocuments(p) ==
  \A n \in DOMAIN p.plan : p.plan[n] \in {"create", "update"} => n \in DOMAIN p.directory.docs

\* Requests whose transaction has begun, over or not.
HasBegun(a) == apply[a].step \in {"begun", "done", "failed"}
Over == {[step |-> "idle"], [step |-> "done"], [step |-> "failed"]}

\* The stamps of transactions, in the order they began.
LEMMA ClockType ==
  ASSUME ConfigInv
  PROVE  /\ clock \in Nat /\ deployed.stamp \in 0 .. clock
         /\ \A a \in Applies : /\ apply[a].step \in {"idle", "planned", "begun", "done", "failed"}
                               /\ apply[a].step \in {"planned", "begun"} =>
                                    apply[a] \in Progress /\ WritesDocuments(apply[a])
<1>1. clock \in Nat
  <2>1. {a \in Applies : HasBegun(a)} \in SUBSET Applies
    OBVIOUS
  <2> QED BY <2>1, RequestsAreFinite, OneMore DEF ConfigInv, ClockOK, HasBegun
<1>2. ASSUME NEW a \in Applies
      PROVE  /\ apply[a].step \in {"idle", "planned", "begun", "done", "failed"}
             /\ apply[a].step \in {"planned", "begun"} =>
                  apply[a] \in Progress /\ WritesDocuments(apply[a])
  <2>1. CASE apply[a] \in Over
    BY <2>1 DEF Over
  <2>2. CASE apply[a] \in Progress /\ WritesDocuments(apply[a])
    BY <2>2 DEF Progress
  <2> QED BY <2>1, <2>2 DEF ConfigInv, ApplyOK, Over, WritesDocuments
<1>3. deployed.stamp \in 0 .. clock
  BY <1>1 DEF ConfigInv, DeployedOK
<1> QED BY <1>1, <1>2, <1>3

\* A transaction's stamp is its own.
LEMMA BegunStamp ==
  ASSUME ConfigInv, NEW a \in Applies, Begun(a)
  PROVE  /\ apply[a].stamp \in 1 .. clock /\ apply[a].stamp # deployed.stamp
         /\ \A b \in Applies \ {a} : Begun(b) => apply[b].stamp # apply[a].stamp
<1>1. apply[a] \notin Over
  BY DEF Begun, Over
<1> QED BY <1>1 DEF ConfigInv, ApplyOK, Over

\* One request moves on to p; the others stay as they were.
Moves(a, p) ==
  /\ apply' = [b \in Applies |-> apply'[b]] /\ apply'[a] = p
  /\ \A b \in Applies \ {a} : apply'[b] = apply[b]

LEMMA RequestMoves ==
  ASSUME ConfigInv, NEW a \in Applies, NEW p, apply' = [apply EXCEPT ![a] = p],
         p \in Over \/ (p \in Progress /\ WritesDocuments(p)),
         clock' \in Nat, clock <= clock',
         p.step = "begun" =>
           /\ p.stamp \in 1 .. clock' /\ p.stamp # deployed'.stamp
           /\ \A b \in Applies \ {a} : Begun(b) => apply[b].stamp # p.stamp,
         \A b \in Applies \ {a} : Begun(b) => apply[b].stamp # deployed'.stamp
  PROVE  Moves(a, p) /\ \A b \in Applies : ApplyOK(b)'
<1>1. Moves(a, p)
  BY DEF ConfigInv, Moves
<1>2. ASSUME NEW b \in Applies, NEW c \in Applies \ {b}, Begun(b)', Begun(c)'
      PROVE  apply'[c].stamp # apply'[b].stamp
  <2>1. CASE b = a
    BY <1>1, <1>2, <2>1 DEF Moves, Begun
  <2>2. CASE c = a
    BY <1>1, <1>2, <2>2 DEF Moves, Begun
  <2>3. CASE b # a /\ c # a
    <3>1. apply'[b] = apply[b] /\ apply'[c] = apply[c] /\ Begun(b) /\ Begun(c)
      BY <1>1, <1>2, <2>3 DEF Moves, Begun
    <3> QED BY <3>1, BegunStamp
  <2> QED BY <2>1, <2>2, <2>3
<1>3. ASSUME NEW b \in Applies, Begun(b)'
      PROVE  apply'[b].stamp \in 1 .. clock' /\ apply'[b].stamp # deployed'.stamp
  <2>1. CASE b = a
    BY <1>1, <1>3, <2>1 DEF Moves, Begun
  <2>2. CASE b # a
    <3>1. apply'[b] = apply[b] /\ Begun(b)
      BY <1>1, <1>3, <2>2 DEF Moves, Begun
    <3>2. apply[b].stamp \in 1 .. clock /\ clock \in Nat
      BY <3>1, BegunStamp, ClockType
    <3> QED BY <2>2, <3>1, <3>2
  <2> QED BY <2>1, <2>2
<1>4. ASSUME NEW b \in Applies
      PROVE  apply'[b] \in Over \/ (apply'[b] \in Progress /\ WritesDocuments(apply'[b]))
  <2>1. CASE b = a
    BY <1>1, <2>1 DEF Moves
  <2>2. CASE b # a
    <3>1. apply'[b] = apply[b]
      BY <1>1, <2>2 DEF Moves
    <3> QED BY <3>1 DEF ConfigInv, ApplyOK, Over, WritesDocuments
  <2> QED BY <2>1, <2>2
<1>5. ASSUME NEW b \in Applies PROVE ApplyOK(b)'
  <2>1. CASE apply'[b] \in Over
    BY <2>1 DEF ApplyOK, Over
  <2>2. CASE apply'[b] \in Progress /\ WritesDocuments(apply'[b])
    BY <1>2, <1>3, <2>2 DEF ApplyOK, WritesDocuments
  <2> QED BY <1>4, <2>1, <2>2
<1> QED BY <1>1, <1>5

\* A step that begins no transaction leaves the clock right.
LEMMA SameClock ==
  ASSUME ConfigInv, UNCHANGED clock, \A a \in Applies : HasBegun(a)' <=> HasBegun(a)
  PROVE  ClockOK'
<1>1. {a \in Applies : HasBegun(a)'} = {a \in Applies : HasBegun(a)}
  OBVIOUS
<1> QED BY <1>1 DEF ConfigInv, ClockOK, HasBegun

\* Edits while a request only moves on.
LEMMA EditsStay ==
  ASSUME ConfigInv, RowsFit, Finished <= Finished', \A n \in Names : RowMoves(n), UNCHANGED edit
  PROVE  edit' \in [Edits -> Editing'] /\ \A e \in Edits : EditOK(e)'
<1>1. \A e \in Edits : EditOK(e)'
  BY OtherEditOK
<1>2. edit' = [e \in Edits |-> edit'[e]]
  BY DEF ConfigInv
<1> QED BY <1>1, <1>2 DEF EditOK

\* A request that only moves on keeps the invariant.
LEMMA MovingKeepsInv ==
  ASSUME ConfigInv, NEW a \in Applies, NEW p, Moves(a, p), \A b \in Applies : ApplyOK(b)',
         apply[a].step # "done", p.step # "done", ClockOK', DeployedOK',
         UNCHANGED <<row, born, settings, deployed, edit, causes>>
  PROVE  ConfigInv'
<1>1. Finished' = Finished /\ Finished <= Finished'
  <2>1. \A b \in Applies : apply'[b].step = "done" <=> apply[b].step = "done"
    BY DEF Moves
  <2>2. \A e \in Edits : edit'[e].step = "done" <=> edit[e].step = "done"
    OBVIOUS
  <2> QED BY <2>1, <2>2, NoMore, FinishedType
<1>2. RowsFit /\ (\A n \in Names : RowMoves(n)) /\ PublishedHasLaunchUri'
  BY <1>1, SameRowsFit
<1>3. edit' \in [Edits -> Editing'] /\ \A e \in Edits : EditOK(e)'
  BY <1>1, <1>2, EditsStay
<1>4. settings' \in Settings /\ InSync'
  BY SameInSync DEF ConfigInv
<1>5. apply' = [b \in Applies |-> apply'[b]]
  BY DEF Moves
<1> QED BY <1>1, <1>2, <1>3, <1>4, <1>5, RowsKeepOK DEF ConfigInv

\* POST /config/apply, until it has its plan.
LEMMA PlanKeepsInv ==
  ASSUME ConfigInv, NEW a \in Applies, PlanApply(a)
  PROVE  ConfigInv'
<1>1. PICK current : current = CurrentManifests(row, settings, deployed)
  OBVIOUS
<1>2. PICK d \in Directories :
        apply' = [apply EXCEPT ![a] =
           [step |-> "planned", directory |-> d, stamp |-> 0, plan |-> BuildPlan(d, current),
            instance |-> current.instance = d.instance]]
  BY <1>1 DEF PlanApply
<1>3. PICK plan : plan = BuildPlan(d, current)
  OBVIOUS
<1>4. /\ plan \in Plans
      /\ \A n \in DOMAIN plan : plan[n] \in {"create", "update"} => n \in DOMAIN d.docs
  <2>1. DOMAIN current.docs \subseteq Names
    BY <1>1 DEF CurrentManifests, ReadBackRows, Manifested
  <2>2. DOMAIN d.docs \subseteq Names
    BY DirectoriesAreValid DEF ValidDirectory
  <2>3. PICK N \in SUBSET Names : N = DOMAIN d.docs \union DOMAIN current.docs
    BY <2>1, <2>2
  <2>4. plan \in [N -> Planned]
    BY <1>3, <2>3 DEF BuildPlan, Planned
  <2>5. plan \in Plans
    BY <2>4 DEF Plans
  <2>6. \A n \in N : plan[n] \in {"create", "update"} => n \in DOMAIN d.docs
    BY <1>3, <2>3 DEF BuildPlan
  <2> QED BY <2>4, <2>5, <2>6
<1>5. PICK i \in BOOLEAN : i = (current.instance = d.instance)
  OBVIOUS
<1> DEFINE p == [step |-> "planned", directory |-> d, stamp |-> 0, plan |-> plan, instance |-> i]
<1>6. p \in Progress /\ WritesDocuments(p) /\ p.step = "planned"
  BY <1>4 DEF Progress, WritesDocuments
<1>7. apply' = [apply EXCEPT ![a] = p]
  BY <1>2, <1>3, <1>5
<1> HIDE DEF p
<1>8. apply[a].step = "idle" /\ UNCHANGED <<row, born, settings, deployed, clock, edit, causes>>
  BY DEF PlanApply
<1>9. Moves(a, p) /\ \A b \in Applies : ApplyOK(b)'
  <2>1. clock' \in Nat /\ clock <= clock'
    BY <1>8, ClockType
  <2>2. \A b \in Applies \ {a} : Begun(b) => apply[b].stamp # deployed'.stamp
    BY <1>8, BegunStamp
  <2> QED BY <1>6, <1>7, <2>1, <2>2, RequestMoves
<1>10. ClockOK' /\ DeployedOK'
  <2>1. \A b \in Applies : HasBegun(b)' <=> HasBegun(b)
    BY <1>6, <1>8, <1>9 DEF HasBegun, Moves
  <2> QED BY <1>8, <2>1, SameClock DEF ConfigInv, DeployedOK
<1> QED BY <1>6, <1>8, <1>9, <1>10, MovingKeepsInv

\* BEGIN
LEMMA BeginKeepsInv ==
  ASSUME ConfigInv, NEW a \in Applies, BeginApply(a)
  PROVE  ConfigInv'
<1>1. PICK h \in Progress : h = apply[a] /\ h.step = "planned" /\ WritesDocuments(h)
  BY ClockType DEF BeginApply
<1>2. PICK c \in Nat : c = clock
  BY ClockType
<1>3. clock' = c + 1 /\ UNCHANGED <<row, born, settings, deployed, edit, causes>>
  BY <1>2 DEF BeginApply
<1> DEFINE v == [h EXCEPT !.step = "begun"]
           w == [v EXCEPT !.stamp = c + 1]
           mid == [apply EXCEPT ![a] = v]
<1>4. v \in Progress /\ v.step = "begun" /\ v.plan = h.plan /\ v.directory = h.directory
  BY DEF Progress
<1>5. apply' = [mid EXCEPT ![a] = [mid[a] EXCEPT !.stamp = c + 1]]
  BY <1>1, <1>2 DEF BeginApply
<1>6. mid[a] = v
  BY DEF ConfigInv
<1> HIDE DEF v
<1>7. /\ w \in Progress /\ w.step = "begun" /\ w.stamp = c + 1
      /\ w.plan = h.plan /\ w.directory = h.directory
  BY <1>4 DEF Progress
<1>8. apply' = [apply EXCEPT ![a] = w]
  BY <1>5, <1>6
<1> HIDE DEF w
<1>9. Moves(a, w) /\ \A b \in Applies : ApplyOK(b)'
  <2>1. WritesDocuments(w)
    BY <1>1, <1>7 DEF WritesDocuments
  <2>2. clock' \in Nat /\ clock <= clock' /\ w.stamp \in 1 .. clock'
    BY <1>2, <1>3, <1>7
  <2>3. \A b \in Applies \ {a} : Begun(b) => apply[b].stamp # w.stamp
    <3> SUFFICES ASSUME NEW b \in Applies \ {a}, Begun(b) PROVE apply[b].stamp # w.stamp
      OBVIOUS
    <3>1. apply[b].stamp \in 1 .. c
      BY <1>2, BegunStamp
    <3> QED BY <1>7, <3>1
  <2>4. w.stamp # deployed'.stamp
    BY <1>2, <1>3, <1>7, ClockType
  <2>5. \A b \in Applies \ {a} : Begun(b) => apply[b].stamp # deployed'.stamp
    BY <1>3, BegunStamp
  <2> QED BY <1>7, <1>8, <2>1, <2>2, <2>3, <2>4, <2>5, RequestMoves
<1>10. ClockOK'
  <2>1. PICK T \in SUBSET Applies : T = {b \in Applies : HasBegun(b)}
    OBVIOUS
  <2>2. a \in Applies \ T /\ {b \in Applies : HasBegun(b)'} = T \union {a}
    BY <1>1, <1>7, <1>9, <2>1 DEF HasBegun, Moves
  <2>3. Cardinality(T \union {a}) = Cardinality(T) + 1
    BY <2>2, RequestsAreFinite, OneMore
  <2> QED BY <1>2, <1>3, <2>1, <2>2, <2>3 DEF ConfigInv, ClockOK, HasBegun
<1>11. DeployedOK'
  <2>1. 1 .. clock \subseteq 1 .. clock'
    BY <1>2, <1>3
  <2> QED BY <1>3, <2>1 DEF ConfigInv, DeployedOK
<1> QED BY <1>1, <1>3, <1>7, <1>9, <1>10, <1>11, MovingKeepsInv

\* ROLLBACK
LEMMA FailKeepsInv ==
  ASSUME ConfigInv, NEW a \in Applies, FailApply(a)
  PROVE  ConfigInv'
<1>1. PICK p \in Over : p = [step |-> "failed"] /\ p.step = "failed"
  BY DEF Over
<1>2. /\ apply[a].step = "begun" /\ apply' = [apply EXCEPT ![a] = p]
      /\ UNCHANGED <<row, born, settings, deployed, clock, edit, causes>>
  BY <1>1 DEF FailApply
<1>3. Moves(a, p) /\ \A b \in Applies : ApplyOK(b)'
  <2>1. clock' \in Nat /\ clock <= clock'
    BY <1>2, ClockType
  <2>2. \A b \in Applies \ {a} : Begun(b) => apply[b].stamp # deployed'.stamp
    BY <1>2, BegunStamp
  <2> QED BY <1>1, <1>2, <2>1, <2>2, RequestMoves
<1>4. ClockOK' /\ DeployedOK'
  <2>1. \A b \in Applies : HasBegun(b)' <=> HasBegun(b)
    BY <1>1, <1>2, <1>3 DEF HasBegun, Moves
  <2> QED BY <1>2, <2>1, SameClock DEF ConfigInv, DeployedOK
<1> QED BY <1>1, <1>2, <1>3, <1>4, MovingKeepsInv
-----------------------------------------------------------------------------
(* What a plan writes.                                                     *)

\* An upserted row: what was declared, under the id it had or a new one; a row that
\* was not to be deleted keeps its id.
UpsertedFrom(n, doc, removed) ==
  /\ row'[n].ownership = "manifest" /\ row'[n].body = doc.body /\ row'[n].apps = IdsIn(row', doc)
  /\ \/ Live(row, n) /\ row'[n].id = row[n].id /\ row'[n].version = row[n].version + 1
     \/ row'[n].id = born[n] + 1 /\ row'[n].version = 1
  /\ ~removed /\ Live(row, n) => row'[n].id = row[n].id
  /\ row'[n] \in RowsUpTo(2 + Finished)

\* What the entries of a plan may make of a row; r has the applications they see.
Outcome(after, r, plan, docs, n) ==
  \/ \E x \in WrittenBy(plan, docs, n), before \in {row[n], NoRow} :
       /\ ~Removes(plan, n) => before = row[n]
       /\ after = Upserted(before, born[n] + 1, docs[x], IdsIn(r, docs[x]))
  \/ /\ after = NoRow /\ Removes(plan, n)
     /\ row[n].ownership = "manifest" \/ WrittenBy(plan, docs, n) # {}
  \/ /\ after = row[n] /\ WrittenBy(plan, docs, n) = {}
     /\ Removes(plan, n) => row[n].ownership # "manifest"

\* Every row is written as the plan says.
Committed(plan, docs) ==
  \A n \in Names :
    \/ \E x \in WrittenBy(plan, docs, n) : UpsertedFrom(n, docs[x], Removes(plan, n))
    \/ /\ row'[n] = NoRow /\ Removes(plan, n)
       /\ row[n].ownership = "manifest" \/ WrittenBy(plan, docs, n) # {}
    \/ /\ row'[n] = row[n] /\ WrittenBy(plan, docs, n) = {}
       /\ Removes(plan, n) => row[n].ownership # "manifest"

\* The row with what was declared.
FreshlyWritten(w, x, n, c, doc, ids) ==
  /\ w \in RowsUpTo(c + 1) /\ w.ownership = "manifest" /\ w.body = doc.body /\ w.apps = ids
  /\ IF x.id # 0 THEN w.id = x.id /\ w.version = x.version + 1
     ELSE w.id = born[n] + 1 /\ w.version = 1

LEMMA UpsertedRow ==
  ASSUME NEW c \in Nat, NEW n \in Names, NEW x \in RowsUpTo(c), born[n] \in 0 .. c,
         NEW body \in (SUBSET Flags) \union (SUBSET Texts), NEW doc, doc.body = body,
         NEW ids \in SUBSET (Apps \X (1 .. c + 1)), NEW w, w = Upserted(x, born[n] + 1, doc, ids)
  PROVE  FreshlyWritten(w, x, n, c, doc, ids)
<1>1. CASE x.id # 0
  <2>1. w = [x EXCEPT !.version = x.version + 1, !.ownership = "manifest",
                      !.body = body, !.apps = ids]
    BY <1>1 DEF Upserted
  <2>2. w = [id |-> x.id, version |-> x.version + 1, ownership |-> "manifest",
             body |-> body, apps |-> ids]
    BY <2>1 DEF RowsUpTo
  <2>3. x.id \in 0 .. c + 1 /\ x.version + 1 \in 0 .. c + 1
    BY DEF RowsUpTo
  <2> QED BY <1>1, <2>2, <2>3 DEF RowsUpTo, FreshlyWritten
<1>2. CASE x.id = 0
  <2>1. w = [id |-> born[n] + 1, version |-> 1, ownership |-> "manifest",
             body |-> body, apps |-> ids]
    BY <1>2 DEF Upserted
  <2> QED BY <1>2, <2>1 DEF RowsUpTo, FreshlyWritten
<1> QED BY <1>1, <1>2

\* An accepted plan for a valid directory.
Accepted(plan, docs) ==
  /\ plan \in Plans
  /\ \A n \in DOMAIN plan : plan[n] \in {"create", "update"} => n \in DOMAIN docs
  /\ \A n \in DOMAIN docs :
       /\ n \in Names \ (Scopes \ Slugs) /\ docs[n].body \in Bodies(n)
       /\ docs[n].of \in IF n \in Scopes THEN Scopes ELSE {n}
       /\ docs[n].apps \subseteq IF n \in Policies THEN Apps \intersect DOMAIN docs ELSE {}

\* A document and the row it writes are of one kind.
LEMMA SameKind ==
  ASSUME NEW plan, NEW docs, Accepted(plan, docs), NEW n \in Names,
         NEW x \in WrittenBy(plan, docs, n)
  PROVE  /\ x \in DOMAIN docs /\ docs[x].body \in Bodies(n) /\ docs[x].apps \subseteq Apps
         /\ n \notin Policies => docs[x].apps = {}
         /\ n \notin Scopes => n = x
         /\ n \in Scopes => x \in Scopes
<1>1. x \in DOMAIN docs /\ x \in Names /\ docs[x].body \in Bodies(x) /\ docs[x].of = n
      /\ docs[x].of \in (IF x \in Scopes THEN Scopes ELSE {x})
      /\ docs[x].apps \subseteq IF x \in Policies THEN Apps \intersect DOMAIN docs ELSE {}
  BY DEF Accepted, WrittenBy
<1>2. CASE x \in Scopes
  <2>1. n \in Scopes /\ n \notin Apps /\ x \notin Apps /\ x \notin Policies
    BY <1>1, <1>2, NamesAreDisjoint
  <2> QED BY <1>1, <1>2, <2>1 DEF Bodies
<1>3. CASE x \notin Scopes
  <2>1. n = x
    BY <1>1, <1>3
  <2> QED BY <1>1, <1>3, <2>1
<1> QED BY <1>2, <1>3

\* What applyEntry makes of a row.
LEMMA EntryOutcome ==
  ASSUME NEW plan, NEW docs, Accepted(plan, docs), NEW n \in Names, NEW r, r[n] = row[n]
  PROVE  Outcome(Entry(r, plan, docs, n), r, plan, docs, n)
<1>1. PICK writers : writers = WrittenBy(plan, docs, n)
  OBVIOUS
<1>2. PICK lasting \in SUBSET writers :
        lasting = IF Removes(plan, n) THEN {d \in writers : <<n, d>> \in KeyOrder} ELSE writers
  OBVIOUS
<1>3. PICK before : before = IF ~Removes(plan, n) THEN r[n]
                             ELSE IF writers = lasting THEN Deleted(r, n) ELSE NoRow
  OBVIOUS
<1>4. Entry(r, plan, docs, n) =
        IF lasting = {} THEN before
        ELSE LET doc == docs[CHOOSE d \in lasting : IsLast(d, lasting)]
             IN  Upserted(before, born[n] + 1, doc, IdsIn(r, doc))
  BY <1>1, <1>2, <1>3 DEF Entry
<1>5. /\ before \in {row[n], NoRow}
      /\ ~Removes(plan, n) => before = row[n]
      /\ before = row[n] \/ (Removes(plan, n) /\ (row[n].ownership = "manifest" \/ writers # lasting))
      /\ before = NoRow \/ ~Removes(plan, n) \/ row[n].ownership # "manifest"
  BY <1>3 DEF Deleted
<1>6. CASE lasting # {}
  <2>1. \E d \in lasting : IsLast(d, lasting)
    <3>1. CASE n \in Scopes
      <4>1. lasting \in (SUBSET Scopes) \ {{}}
        BY <1>1, <1>6, <3>1, SameKind
      <4> QED BY <4>1, KeysAreSorted
    <3>2. CASE n \notin Scopes
      <4>1. lasting = {n}
        BY <1>1, <1>6, <3>2, SameKind
      <4> QED BY <4>1 DEF IsLast
    <3> QED BY <3>1, <3>2
  <2>2. PICK x \in lasting : x = CHOOSE d \in lasting : IsLast(d, lasting)
    BY <2>1
  <2>3. Entry(r, plan, docs, n) = Upserted(before, born[n] + 1, docs[x], IdsIn(r, docs[x]))
    BY <1>4, <1>6, <2>2
  <2>4. x \in WrittenBy(plan, docs, n)
    BY <1>1
  <2> QED BY <1>5, <2>3, <2>4 DEF Outcome
<1>7. CASE lasting = {}
  <2>1. Entry(r, plan, docs, n) = before
    BY <1>4, <1>7
  <2>2. CASE ~Removes(plan, n)
    <3>1. WrittenBy(plan, docs, n) = {}
      BY <1>1, <1>2, <1>7, <2>2
    <3>2. Entry(r, plan, docs, n) = row[n]
      BY <1>5, <2>1, <2>2
    <3> QED BY <2>2, <3>1, <3>2 DEF Outcome
  <2>3. CASE Removes(plan, n) /\ writers = {}
    <3>1. before = Deleted(r, n)
      BY <1>3, <1>7, <2>3
    <3> QED BY <1>1, <2>1, <2>3, <3>1 DEF Outcome, Deleted
  <2>4. CASE Removes(plan, n) /\ writers # {}
    <3>1. before = NoRow
      BY <1>3, <1>7, <2>4
    <3> QED BY <1>1, <2>1, <2>4, <3>1 DEF Outcome
  <2> QED BY <2>2, <2>3, <2>4
<1> QED BY <1>6, <1>7

\* Applications first, then the policies that name them, then scopes.
LEMMA PlanIsCommitted ==
  ASSUME ConfigInv, NEW plan, NEW docs, Accepted(plan, docs), row' = ApplyPlan(row, plan, docs)
  PROVE  row' = [n \in Names |-> row'[n]] /\ Committed(plan, docs)
<1>1. PICK r1 : r1 = ApplyEntries(row, Apps, plan, docs)
  OBVIOUS
<1>2. PICK r2 : r2 = ApplyEntries(r1, Policies, plan, docs)
  OBVIOUS
<1>3. PICK r3 : r3 = row'
  OBVIOUS
<1>4. r3 = ApplyEntries(r2, Scopes, plan, docs)
  BY <1>1, <1>2, <1>3 DEF ApplyPlan
<1>5. r3 = [n \in Names |-> r3[n]]
  BY <1>4 DEF ApplyEntries
<1>6. \A n \in Names : /\ r1[n] = IF n \in Apps THEN Entry(row, plan, docs, n) ELSE row[n]
                       /\ r2[n] = IF n \in Policies THEN Entry(r1, plan, docs, n) ELSE r1[n]
                       /\ r3[n] = IF n \in Scopes THEN Entry(r2, plan, docs, n) ELSE r2[n]
  BY <1>1, <1>2, <1>4 DEF ApplyEntries
<1>7. \A a \in Apps : r1[a] = r3[a] /\ r2[a] = r3[a]
  BY <1>6, NamesAreDisjoint DEF Names
<1>8. \A x \in DOMAIN docs : docs[x].apps \subseteq Apps
  BY DEF Accepted
<1>9. ASSUME NEW x \in DOMAIN docs
      PROVE  IdsIn(r1, docs[x]) = IdsIn(r3, docs[x]) /\ IdsIn(r2, docs[x]) = IdsIn(r3, docs[x])
  BY <1>7, <1>8 DEF IdsIn, AppId, Live
<1>10. ASSUME NEW n \in Names PROVE Outcome(r3[n], r3, plan, docs, n)
  <2>1. PICK r \in {row, r1, r2} :
          /\ r[n] = row[n] /\ r3[n] = Entry(r, plan, docs, n)
          /\ \A x \in WrittenBy(plan, docs, n) : IdsIn(r, docs[x]) = IdsIn(r3, docs[x])
    <3>1. CASE n \in Apps
      <4>1. r3[n] = Entry(row, plan, docs, n)
        BY <1>6, <3>1, NamesAreDisjoint
      <4>2. \A x \in WrittenBy(plan, docs, n) : docs[x].apps = {}
        BY <3>1, NamesAreDisjoint, SameKind
      <4>3. \A x \in WrittenBy(plan, docs, n) : IdsIn(row, docs[x]) = IdsIn(r3, docs[x])
        BY <4>2 DEF IdsIn
      <4> QED BY <4>1, <4>3
    <3>2. CASE n \in Policies
      <4>1. r3[n] = Entry(r1, plan, docs, n) /\ r1[n] = row[n]
        BY <1>6, <3>2, NamesAreDisjoint
      <4>2. \A x \in WrittenBy(plan, docs, n) : IdsIn(r1, docs[x]) = IdsIn(r3, docs[x])
        BY <1>9, SameKind
      <4> QED BY <4>1, <4>2
    <3>3. CASE n \in Scopes
      <4>1. r3[n] = Entry(r2, plan, docs, n) /\ r2[n] = row[n]
        BY <1>6, <3>3, NamesAreDisjoint
      <4>2. \A x \in WrittenBy(plan, docs, n) : IdsIn(r2, docs[x]) = IdsIn(r3, docs[x])
        BY <1>9, SameKind
      <4> QED BY <4>1, <4>2
    <3> QED BY <3>1, <3>2, <3>3 DEF Names
  <2>2. Outcome(r3[n], r, plan, docs, n)
    BY <2>1, EntryOutcome
  <2> QED BY <2>1, <2>2 DEF Outcome
<1>11. PICK c \in Nat : c = 1 + Finished
  BY FinishedType
<1>12. \A n \in Names : row[n] \in RowsUpTo(c) /\ NoRow \in RowsUpTo(c) /\ born[n] \in 0 .. c
  BY <1>11, NoRowIsNone DEF ConfigInv, RowOK
<1>13. ASSUME NEW a \in Apps PROVE r3[a].id \in 0 .. c + 1
  <2>1. a \in Names /\ row[a].id \in 0 .. c + 1 /\ NoRow.id \in 0 .. c + 1
    BY <1>12, NoRowIsNone DEF Names, RowsUpTo
  <2>2. ASSUME NEW x \in RowsUpTo(c), NEW doc, NEW ids
        PROVE  Upserted(x, born[a] + 1, doc, ids).id \in 0 .. c + 1
    <3>1. CASE x.id # 0
      <4>1. PICK text : text = doc.body
        OBVIOUS
      <4>2. PICK w : w = Upserted(x, born[a] + 1, doc, ids)
        OBVIOUS
      <4>3. w = [x EXCEPT !.version = x.version + 1, !.ownership = "manifest",
                          !.body = text, !.apps = ids]
        BY <3>1, <4>1, <4>2 DEF Upserted
      <4>4. w = [id |-> x.id, version |-> x.version + 1, ownership |-> "manifest",
                 body |-> text, apps |-> ids]
        BY <4>3 DEF RowsUpTo
      <4>5. x.id \in 0 .. c + 1
        BY DEF RowsUpTo
      <4> QED BY <4>2, <4>4, <4>5
    <3>2. CASE x.id = 0
      <4>1. Upserted(x, born[a] + 1, doc, ids).id = born[a] + 1
        BY <3>2 DEF Upserted
      <4> QED BY <1>12, <2>1, <4>1
    <3> QED BY <3>1, <3>2
  <2> QED BY <1>10, <1>12, <2>1, <2>2 DEF Outcome
<1>14. ASSUME NEW x \in DOMAIN docs PROVE IdsIn(r3, docs[x]) \in SUBSET (Apps \X (1 .. c + 1))
  BY <1>8, <1>13 DEF IdsIn, AppId, Live
<1>15. ASSUME NEW n \in Names, NEW x \in WrittenBy(plan, docs, n), NEW before \in {row[n], NoRow},
              ~Removes(plan, n) => before = row[n],
              r3[n] = Upserted(before, born[n] + 1, docs[x], IdsIn(r3, docs[x]))
       PROVE  UpsertedFrom(n, docs[x], Removes(plan, n))
  <2>1. PICK doc : doc = docs[x]
    OBVIOUS
  <2>2. PICK body \in (SUBSET Flags) \union (SUBSET Texts) : body = doc.body
    BY <2>1, BodyType, SameKind
  <2>3. PICK ids \in SUBSET (Apps \X (1 .. c + 1)) : ids = IdsIn(r3, doc)
    BY <1>14, <2>1, SameKind
  <2>4. PICK w : w = r3[n]
    OBVIOUS
  <2>5. w = Upserted(before, born[n] + 1, doc, ids)
    BY <1>15, <2>1, <2>3, <2>4
  <2>6. before \in RowsUpTo(c) /\ born[n] \in 0 .. c
    BY <1>12
  <2>7. FreshlyWritten(w, before, n, c, doc, ids)
    BY <2>2, <2>5, <2>6, UpsertedRow
  <2>8. /\ w \in RowsUpTo(c + 1) /\ w.ownership = "manifest" /\ w.body = doc.body /\ w.apps = ids
        /\ \/ Live(row, n) /\ w.id = row[n].id /\ w.version = row[n].version + 1
           \/ w.id = born[n] + 1 /\ w.version = 1
        /\ ~Removes(plan, n) /\ Live(row, n) => w.id = row[n].id
    BY <1>15, <2>7, NoRowIsNone DEF FreshlyWritten, Live
  <2> QED BY <1>3, <1>11, <2>1, <2>3, <2>4, <2>8, FinishedType DEF UpsertedFrom
<1>16. ASSUME NEW n \in Names
       PROVE  \/ \E x \in WrittenBy(plan, docs, n) : UpsertedFrom(n, docs[x], Removes(plan, n))
              \/ /\ r3[n] = NoRow /\ Removes(plan, n)
                 /\ row[n].ownership = "manifest" \/ WrittenBy(plan, docs, n) # {}
              \/ /\ r3[n] = row[n] /\ WrittenBy(plan, docs, n) = {}
                 /\ Removes(plan, n) => row[n].ownership # "manifest"
  <2>1. Outcome(r3[n], r3, plan, docs, n)
    BY <1>10
  <2> QED BY <1>15, <2>1 DEF Outcome
<1>17. Committed(plan, docs)
  BY <1>3, <1>16 DEF Committed
<1> QED BY <1>3, <1>5, <1>17

\* What a commit makes of a row, one way or another.
LEMMA CommittedRow ==
  ASSUME NEW plan, NEW docs, Committed(plan, docs), NEW n \in Names
  PROVE  \/ \E x \in WrittenBy(plan, docs, n) : UpsertedFrom(n, docs[x], Removes(plan, n))
         \/ row'[n] = NoRow /\ (row[n].ownership = "manifest" \/ WrittenBy(plan, docs, n) # {})
         \/ row'[n] = row[n]
  BY DEF Committed

\* Ids are kept, new or gone.
LEMMA CommittedIds ==
  ASSUME ConfigInv, NEW plan, NEW docs, Accepted(plan, docs), Committed(plan, docs), NEW n \in Names
  PROVE  /\ row'[n].id = row[n].id \/ row'[n].id = born[n] + 1 \/ row'[n].id = 0
         /\ row'[n].id \in Nat /\ row'[n].id <= 2 + Finished
<1>1. row[n].id \in 0 .. 1 + Finished /\ born[n] \in 0 .. 1 + Finished /\ Finished \in Nat
  BY FinishedType DEF ConfigInv, RowOK, RowsUpTo
<1>2. CASE \E x \in WrittenBy(plan, docs, n) : UpsertedFrom(n, docs[x], Removes(plan, n))
  BY <1>1, <1>2 DEF UpsertedFrom
<1>3. CASE row'[n] = NoRow
  BY <1>1, <1>3, NoRowIsNone
<1>4. CASE row'[n] = row[n]
  BY <1>1, <1>4
<1> QED BY <1>2, <1>3, <1>4, CommittedRow

LEMMA CommitKeepsRows ==
  ASSUME ConfigInv, NEW plan, NEW docs, Accepted(plan, docs), Committed(plan, docs),
         row' = [n \in Names |-> row'[n]], born' = BornOf(row'), Finished' = Finished + 1
  PROVE  RowsFit /\ (\A n \in Names : RowMoves(n)) /\ PublishedHasLaunchUri'
<1>1. PICK c \in Nat : c = 1 + Finished /\ c + 1 = 1 + Finished'
  BY FinishedType
<1>2. \A n \in Names : /\ born[n] \in 0 .. c /\ row[n].id \in 0 .. c /\ row[n].version \in Nat
                       /\ row[n].id <= born[n]
  BY <1>1 DEF ConfigInv, RowOK, RowsUpTo
<1>3. \A n \in Names : row'[n].id \in Nat /\ row'[n].id <= c + 1
  BY <1>1, CommittedIds, FinishedType
<1>4. \A n \in Names : /\ born'[n] \in Nat /\ born[n] <= born'[n] /\ row'[n].id <= born'[n]
                       /\ born'[n] \in {born[n], row'[n].id}
  BY <1>3, BornGrows
<1>5. \A n \in Names : born'[n] \in 0 .. c + 1
  BY <1>2, <1>3, <1>4
<1>6. born' \in [Names -> Nat]
  BY <1>4 DEF BornOf
<1>7. ASSUME NEW n \in Names, NEW x \in WrittenBy(plan, docs, n),
             UpsertedFrom(n, docs[x], Removes(plan, n))
      PROVE  RowOK(n)' /\ RowMoves(n)
  <2>1. /\ x \in DOMAIN docs /\ docs[x].body \in Bodies(n) /\ docs[x].apps \subseteq Apps
        /\ n \notin Policies => docs[x].apps = {}
    BY SameKind
  <2>2. row'[n] \in RowsUpTo(1 + Finished') /\ born'[n] \in 0 .. 1 + Finished'
    BY <1>1, <1>5, <1>7, FinishedType DEF UpsertedFrom
  <2>3. row'[n].id # 0 /\ row'[n].id <= born'[n]
    BY <1>2, <1>4, <1>7 DEF UpsertedFrom, Live
  <2>4. \A id \in row'[n].apps : id[2] <= born'[id[1]]
    <3> SUFFICES ASSUME NEW id \in row'[n].apps PROVE id[2] <= born'[id[1]]
      OBVIOUS
    <3>1. PICK a \in Apps : id = <<a, row'[a].id>>
      BY <1>7, <2>1 DEF UpsertedFrom, IdsIn, AppId
    <3> QED BY <1>4, <3>1 DEF Names
  <2>5. n \notin Policies => row'[n].apps = {}
    BY <1>7, <2>1 DEF UpsertedFrom, IdsIn
  <2>6. row'[n].body \in Bodies(n) /\ row'[n].ownership # "none"
    BY <1>7, <2>1 DEF UpsertedFrom
  <2>7. RowOK(n)'
    BY <2>2, <2>3, <2>4, <2>5, <2>6 DEF RowOK
  <2>8. RowMoves(n)
    BY <1>2, <1>7 DEF RowMoves, UpsertedFrom
  <2> QED BY <2>7, <2>8
<1>8. ASSUME NEW n \in Names, row'[n] = NoRow
      PROVE  RowOK(n)' /\ RowMoves(n)
  <2>1. row'[n] \in RowsUpTo(1 + Finished')
    BY <1>1, <1>8, NoRowIsNone
  <2>2. row'[n].id = 0 /\ row'[n].apps = {} /\ row'[n].id <= born'[n] /\ born'[n] \in 0 .. 1 + Finished'
    BY <1>1, <1>5, <1>8, NoRowIsNone
  <2>3. RowOK(n)'
    BY <1>8, <2>1, <2>2 DEF RowOK
  <2> QED BY <1>8, <2>3 DEF RowMoves
<1>9. \A n \in Names : (row'[n] = row[n] \/ RowOK(n)') /\ RowMoves(n)
  <2> SUFFICES ASSUME NEW n \in Names PROVE (row'[n] = row[n] \/ RowOK(n)') /\ RowMoves(n)
    OBVIOUS
  <2>1. CASE row'[n] = row[n]
    BY <2>1 DEF RowMoves
  <2> QED BY <1>7, <1>8, <2>1, CommittedRow
<1>10. RowsFit
  <2>1. \A n \in Names : born[n] <= born'[n] /\ born'[n] <= 1 + Finished'
    BY <1>1, <1>4, <1>5
  <2> QED BY <1>6, <1>9, <2>1 DEF RowsFit
<1>11. PublishedHasLaunchUri'
  <2> SUFFICES ASSUME NEW a \in Apps, row'[a].ownership = "dashboard", "portal" \in row'[a].body
               PROVE  "launch" \in row'[a].body
    BY DEF PublishedHasLaunchUri
  <2>1. row'[a] = row[a]
    <3>1. a \in Names
      BY DEF Names
    <3> QED BY <3>1, CommittedRow, NoRowIsNone DEF UpsertedFrom
  <2> QED BY <2>1 DEF ConfigInv, PublishedHasLaunchUri
<1> QED BY <1>9, <1>10, <1>11

-----------------------------------------------------------------------------
(* A plan that is not stale brings what it was made for.                   *)

\* The plan is that of a valid directory, made of what there is.
Fresh(plan, d) ==
  /\ ValidDirectory(d) /\ Accepted(plan, d.docs)
  /\ plan = BuildPlan(d, CurrentManifests(row, settings, deployed))

LEMMA FreshPlan ==
  ASSUME NEW d, NEW plan, Fresh(plan, d)
  PROVE  /\ DOMAIN plan = DOMAIN d.docs \union ReadBackRows(row)
         /\ \A n \in DOMAIN plan : plan[n] =
              IF n \notin ReadBackRows(row) THEN "create"
              ELSE IF n \notin DOMAIN d.docs THEN "delete"
              ELSE IF d.docs[n] = RowToManifest(row, n) THEN "unchanged" ELSE "update"
         /\ ReadBackRows(row) \subseteq Names
<1>1. PICK current : current = CurrentManifests(row, settings, deployed)
  OBVIOUS
<1>2. /\ DOMAIN current.docs = ReadBackRows(row)
      /\ \A n \in ReadBackRows(row) : current.docs[n] = RowToManifest(row, n)
  BY <1>1 DEF CurrentManifests
<1>3. plan = [n \in DOMAIN d.docs \union ReadBackRows(row) |->
                IF n \notin ReadBackRows(row) THEN "create"
                ELSE IF n \notin DOMAIN d.docs THEN "delete"
                ELSE IF d.docs[n] = current.docs[n] THEN "unchanged" ELSE "update"]
  BY <1>1, <1>2 DEF Fresh, BuildPlan
<1> QED BY <1>2, <1>3 DEF ReadBackRows, Manifested

\* The document is the only one of its row, and the row is one that is read back.
HasItsRow(plan, docs, n) ==
  /\ n \in Names \ SystemScopes /\ docs[n].of = n /\ WrittenBy(plan, docs, n) \subseteq {n}

LEMMA OtherKindsHaveTheirRows ==
  ASSUME NEW plan, NEW docs, Accepted(plan, docs), NEW n \in DOMAIN docs, n \notin Scopes
  PROVE  HasItsRow(plan, docs, n)
<1>1. n \in Names /\ n \notin SystemScopes /\ docs[n].of = n
  BY SystemScopesAreScopes DEF Accepted
<1>2. WrittenBy(plan, docs, n) \subseteq {n}
  BY <1>1, SameKind
<1> QED BY <1>1, <1>2 DEF HasItsRow

LEMMA ReadBackHaveTheirRows ==
  ASSUME NEW d, NEW plan, Fresh(plan, d), AsReadBack(d), NEW n \in DOMAIN d.docs
  PROVE  HasItsRow(plan, d.docs, n)
<1>1. Accepted(plan, d.docs)
  BY DEF Fresh
<1>2. n \in Names \ SystemScopes /\ d.docs[n].of = n
  BY <1>1 DEF AsReadBack, Accepted
<1>3. \A x \in WrittenBy(plan, d.docs, n) : x \in DOMAIN d.docs /\ d.docs[x].of = n
  BY <1>1 DEF Accepted, WrittenBy
<1>4. WrittenBy(plan, d.docs, n) \subseteq {n}
  BY <1>3 DEF AsReadBack
<1> QED BY <1>2, <1>4 DEF HasItsRow

\* A row that has its document was written, or was what the document says already.
LEMMA DeclaredRow ==
  ASSUME ConfigInv, NEW d, NEW plan, Fresh(plan, d), Committed(plan, d.docs), NEW n \in DOMAIN d.docs,
         HasItsRow(plan, d.docs, n)
  PROVE  /\ n \in ReadBackRows(row')
         /\ \/ UpsertedFrom(n, d.docs[n], FALSE)
            \/ n \in ReadBackRows(row) /\ row'[n] = row[n] /\ d.docs[n] = RowToManifest(row, n)
<1>1. /\ n \in Names \ SystemScopes /\ WrittenBy(plan, d.docs, n) \subseteq {n} /\ n \in DOMAIN plan
      /\ d.docs[n].of = n
  <2>1. DOMAIN plan = DOMAIN d.docs \union ReadBackRows(row)
    BY FreshPlan
  <2> QED BY <2>1 DEF HasItsRow
<1>2. ~Removes(plan, n)
  BY FreshPlan DEF Removes
<1>3. CASE n \in WrittenBy(plan, d.docs, n)
  <2>1. UpsertedFrom(n, d.docs[n], FALSE)
    BY <1>1, <1>2, <1>3 DEF Committed, UpsertedFrom
  <2>2. born[n] \in Nat
    BY <1>1 DEF ConfigInv
  <2>3. n \in ReadBackRows(row')
    BY <1>1, <2>1, <2>2 DEF UpsertedFrom, ReadBackRows, Manifested, Live
  <2> QED BY <2>1, <2>3
<1>4. CASE n \notin WrittenBy(plan, d.docs, n)
  <2>1. WrittenBy(plan, d.docs, n) = {}
    BY <1>1, <1>4
  <2>2. plan[n] \notin {"create", "update"}
    BY <1>1, <1>4 DEF WrittenBy
  <2>3. n \in ReadBackRows(row) /\ d.docs[n] = RowToManifest(row, n)
    BY <1>1, <2>2, FreshPlan
  <2>4. row'[n] = row[n]
    BY <1>1, <1>2, <2>1 DEF Committed
  <2>5. n \in ReadBackRows(row')
    BY <2>3, <2>4 DEF ReadBackRows, Manifested, Live
  <2> QED BY <2>3, <2>4, <2>5
<1> QED BY <1>3, <1>4

\* The applications a declared policy names are there.
LEMMA DeclaredApplications ==
  ASSUME ConfigInv, NEW d, NEW plan, Fresh(plan, d), Committed(plan, d.docs), NEW n \in DOMAIN d.docs,
         NEW a \in d.docs[n].apps
  PROVE  /\ a \in Apps /\ a \in Names /\ a \in DOMAIN d.docs /\ a \in Manifested(row')
         /\ UpsertedFrom(a, d.docs[a], FALSE) \/ row'[a] = row[a]
<1>1. a \in Apps /\ a \in DOMAIN d.docs /\ a \notin Scopes /\ a \in Names
  BY NamesAreDisjoint DEF Fresh, Accepted, Names
<1>2. HasItsRow(plan, d.docs, a)
  BY <1>1, OtherKindsHaveTheirRows DEF Fresh
<1> QED BY <1>1, <1>2, DeclaredRow DEF ReadBackRows

\* What is read back of a declared row is the document.
LEMMA ReadBack ==
  ASSUME ConfigInv, NEW d, NEW plan, Fresh(plan, d), Committed(plan, d.docs), NEW n \in DOMAIN d.docs,
         HasItsRow(plan, d.docs, n), d.docs[n].spelling = "normal"
  PROVE  RowToManifest(row', n) = d.docs[n]
<1>1. n \in Names /\ d.docs[n].of = n /\ d.docs[n].apps \subseteq Apps
  BY DeclaredApplications DEF HasItsRow
<1>2. CASE UpsertedFrom(n, d.docs[n], FALSE)
  <2>1. row'[n].body = d.docs[n].body /\ row'[n].apps = IdsIn(row', d.docs[n])
    BY <1>2 DEF UpsertedFrom
  <2>2. \A a \in d.docs[n].apps : Live(row', a)
    BY DeclaredApplications DEF Manifested
  <2>3. {a \in Apps : Live(row', a) /\ AppId(row', a) \in IdsIn(row', d.docs[n])} = d.docs[n].apps
    BY <1>1, <2>2 DEF IdsIn, AppId
  <2>4. d.docs[n] = Document(d.docs[n].of, d.docs[n].body, d.docs[n].apps, d.docs[n].spelling)
    BY DEF Fresh, ValidDirectory
  <2> QED BY <1>1, <2>1, <2>3, <2>4 DEF RowToManifest, Document
<1>3. CASE row'[n] = row[n] /\ d.docs[n] = RowToManifest(row, n)
  <2>1. d.docs[n].apps = {a \in Apps : Live(row, a) /\ AppId(row, a) \in row[n].apps}
    BY <1>3 DEF RowToManifest, Document
  <2>2. ASSUME NEW a \in Apps
        PROVE  Live(row', a) /\ AppId(row', a) \in row[n].apps
                 <=> Live(row, a) /\ AppId(row, a) \in row[n].apps
    <3>1. a \in Names /\ born[a] \in Nat
      BY DEF Names, ConfigInv
    <3>2. row'[a].id = row[a].id \/ row'[a].id = born[a] + 1 \/ row'[a].id = 0
      BY <3>1, CommittedIds DEF Fresh
    <3>3. AppId(row', a) = <<a, row'[a].id>>
      BY DEF AppId
    <3>4. row'[a].id = born[a] + 1 => AppId(row', a) \notin row[n].apps
      <4> SUFFICES ASSUME row'[a].id = born[a] + 1, <<a, born[a] + 1>> \in row[n].apps PROVE FALSE
        BY <3>3
      <4>1. \A id \in row[n].apps : id[2] <= born[id[1]]
        BY <1>1 DEF ConfigInv, RowOK
      <4>2. born[a] + 1 <= born[a]
        BY <4>1
      <4> QED BY <3>1, <4>2
    <3>5. CASE row'[a].id = row[a].id
      BY <3>5 DEF Live, AppId
    <3>6. CASE row'[a].id # row[a].id
      <4>1. ~(Live(row', a) /\ AppId(row', a) \in row[n].apps)
        BY <3>2, <3>4, <3>6 DEF Live
      <4>2. ~(Live(row, a) /\ AppId(row, a) \in row[n].apps)
        <5> SUFFICES ASSUME Live(row, a), AppId(row, a) \in row[n].apps PROVE FALSE
          OBVIOUS
        <5>1. a \in d.docs[n].apps
          BY <2>1
        <5>2. UpsertedFrom(a, d.docs[a], FALSE) \/ row'[a] = row[a]
          BY <5>1, DeclaredApplications
        <5> QED BY <3>6, <5>2 DEF UpsertedFrom
      <4> QED BY <4>1, <4>2
    <3> QED BY <3>5, <3>6
  <2>3. {a \in Apps : Live(row', a) /\ AppId(row', a) \in row'[n].apps}
          = {a \in Apps : Live(row, a) /\ AppId(row, a) \in row[n].apps}
    BY <1>3, <2>2
  <2> QED BY <1>3, <2>3 DEF RowToManifest, Document
<1> QED BY <1>2, <1>3, DeclaredRow

\* The resources are what such a directory declares.
LEMMA PlanConverges ==
  ASSUME ConfigInv, NEW d, NEW plan, Fresh(plan, d), Committed(plan, d.docs), AsReadBack(d)
  PROVE  d.docs = [n \in ReadBackRows(row') |-> RowToManifest(row', n)]
<1>1. ASSUME NEW n \in DOMAIN d.docs
      PROVE  n \in Names /\ n \in ReadBackRows(row') /\ RowToManifest(row', n) = d.docs[n]
  <2>1. HasItsRow(plan, d.docs, n) /\ d.docs[n].spelling = "normal"
    BY ReadBackHaveTheirRows DEF AsReadBack
  <2> QED BY <2>1, DeclaredRow, ReadBack DEF HasItsRow
<1>2. ASSUME NEW n \in Names, n \notin DOMAIN d.docs PROVE n \notin ReadBackRows(row')
  <2>1. WrittenBy(plan, d.docs, n) = {}
    <3> SUFFICES ASSUME NEW x \in WrittenBy(plan, d.docs, n) PROVE FALSE
      OBVIOUS
    <3>1. x \in DOMAIN d.docs /\ d.docs[x].of = n
      BY DEF WrittenBy, Fresh, Accepted
    <3>2. x = n
      BY <3>1 DEF AsReadBack
    <3> QED BY <1>2, <3>1, <3>2
  <2>2. CASE n \in ReadBackRows(row)
    <3>1. Removes(plan, n)
      BY <1>2, <2>2, FreshPlan DEF Removes
    <3>2. row[n].ownership = "manifest"
      BY <2>2 DEF ReadBackRows, Manifested
    <3>3. row'[n] = NoRow
      BY <2>1, <3>1, <3>2 DEF Committed
    <3> QED BY <3>3, NoRowIsNone DEF ReadBackRows, Manifested
  <2>3. CASE n \notin ReadBackRows(row)
    <3>1. ~Removes(plan, n)
      BY <1>2, <2>3, FreshPlan DEF Removes
    <3>2. row'[n] = row[n]
      BY <2>1, <3>1 DEF Committed
    <3> QED BY <2>3, <3>2 DEF ReadBackRows, Manifested, Live
  <2> QED BY <2>2, <2>3
<1>3. ReadBackRows(row') = DOMAIN d.docs
  <2>1. ReadBackRows(row') \subseteq Names
    BY DEF ReadBackRows, Manifested
  <2> QED BY <1>1, <1>2, <2>1
<1>4. d.docs = [n \in DOMAIN d.docs |-> d.docs[n]]
  BY DEF Fresh, ValidDirectory
<1> QED BY <1>1, <1>3, <1>4

\* What a commit carries out.
LEMMA CommitIs ==
  ASSUME ConfigInv, NEW a \in Applies, CommitApply(a)
  PROVE  /\ apply[a] \in Progress /\ apply[a].step = "begun"
         /\ ValidDirectory(apply[a].directory)
         /\ Accepted(apply[a].plan, apply[a].directory.docs)
         /\ Committed(apply[a].plan, apply[a].directory.docs)
         /\ row' = [n \in Names |-> row'[n]] /\ born' = BornOf(row')
         /\ UNCHANGED <<clock, edit>>
<1>1. PICK h : h = apply[a]
  OBVIOUS
<1>2. /\ h.step = "begun" /\ row' = ApplyPlan(row, h.plan, h.directory.docs) /\ born' = BornOf(row')
      /\ UNCHANGED <<clock, edit>>
  BY <1>1 DEF CommitApply
<1>3. h \in Progress /\ WritesDocuments(h)
  BY <1>1, <1>2, ClockType
<1>4. h.directory \in Directories /\ h.plan \in Plans
  BY <1>3 DEF Progress
<1>5. ValidDirectory(h.directory)
  BY <1>4, DirectoriesAreValid
<1>6. Accepted(h.plan, h.directory.docs)
  BY <1>3, <1>4, <1>5 DEF Accepted, WritesDocuments, ValidDirectory
<1>7. row' = [n \in Names |-> row'[n]] /\ Committed(h.plan, h.directory.docs)
  BY <1>2, <1>6, PlanIsCommitted
<1> QED BY <1>1, <1>2, <1>3, <1>5, <1>6, <1>7

\* A commit without a cause for a drift leaves what its directory declares.
LEMMA CommitInSync ==
  ASSUME ConfigInv, NEW a \in Applies, CommitApply(a), causes' = {}
  PROVE  deployed'.directory = CurrentManifests(row', settings', deployed')
<1>1. PICK h \in Progress : h = apply[a]
  BY CommitIs
<1>2. PICK d \in Directories : d = h.directory
  BY DEF Progress
<1>3. PICK plan : plan = h.plan
  OBVIOUS
<1>4. /\ h.step = "begun" /\ ValidDirectory(d) /\ Accepted(plan, d.docs)
      /\ Committed(plan, d.docs)
  BY <1>1, <1>2, <1>3, CommitIs
<1>5. PICK fresh : fresh = CurrentManifests(row, settings, deployed)
  OBVIOUS
<1>6. /\ BuildPlan(d, fresh) = plan /\ h.instance = (fresh.instance = d.instance)
      /\ ~(h.stamp < deployed.stamp) /\ AsReadBack(d)
      /\ ~(deployed.stamp = 0 /\ h.instance /\ settings.tokens # Default)
  <2>1. causes' =
          {c \in {"stale plan", "order", "directory", "defaults"} :
             \/ c = "stale plan" /\ \/ BuildPlan(d, fresh) # plan
                                    \/ h.instance # (fresh.instance = d.instance)
             \/ c = "order" /\ h.stamp < deployed.stamp
             \/ c = "directory" /\ ~AsReadBack(d)
             \/ c = "defaults" /\ deployed.stamp = 0 /\ h.instance
                               /\ settings.tokens # Default}
    BY <1>1, <1>2, <1>3, <1>5 DEF CommitApply
  <2>2. "stale plan" \notin causes' /\ "order" \notin causes' /\ "directory" \notin causes'
        /\ "defaults" \notin causes'
    OBVIOUS
  <2> QED BY <2>1, <2>2
<1>7. h.stamp \in 1 .. clock /\ h.stamp # deployed.stamp /\ deployed.stamp \in 0 .. clock
      /\ clock \in Nat
  BY <1>1, <1>4, BegunStamp, ClockType DEF Begun
<1>8. deployed' = [stamp |-> h.stamp, directory |-> d] /\ h.stamp # 0
  <2>1. h.stamp > deployed.stamp
    BY <1>6, <1>7
  <2>2. deployed' = IF h.stamp > deployed.stamp THEN [stamp |-> h.stamp, directory |-> d] ELSE deployed
    BY <1>1, <1>2 DEF CommitApply
  <2> QED BY <1>7, <2>1, <2>2
<1>9. deployed'.directory = d /\ deployed'.stamp # 0
  BY <1>8
<1>10. d.instance = CurrentInstance(settings', deployed')
  <2>1. /\ settings' = IF h.instance THEN settings
                       ELSE [session |-> d.instance.session, tokens |-> d.instance.tokens]
    BY <1>1, <1>2 DEF CommitApply
  <2>2. d.instance = Instance(d.instance.session, d.instance.tokens, "normal")
    BY <1>4, <1>6 DEF ValidDirectory, AsReadBack
  <2>3. CASE h.instance
    <3>1. CurrentInstance(settings, deployed) = d.instance
      BY <1>5, <1>6, <2>3 DEF CurrentManifests
    <3>2. deployed.stamp = 0 => settings.tokens = Default
      BY <1>6, <2>3
    <3>3. Instance(settings.session, settings.tokens, "normal") = d.instance
      BY <3>1, <3>2 DEF CurrentInstance
    <3> QED BY <1>9, <2>1, <2>3, <3>3 DEF CurrentInstance
  <2>4. CASE ~h.instance
    BY <1>9, <2>1, <2>2, <2>4 DEF CurrentInstance
  <2> QED BY <2>3, <2>4 DEF Progress
<1>11. d.docs = [n \in ReadBackRows(row') |-> RowToManifest(row', n)]
  <2>1. Fresh(plan, d)
    BY <1>4, <1>5, <1>6 DEF Fresh
  <2> QED BY <1>4, <1>6, <2>1, PlanConverges
<1>12. d = [instance |-> d.instance, docs |-> d.docs, repeated |-> {}]
  BY <1>4, <1>6 DEF ValidDirectory, AsReadBack
<1> QED BY <1>9, <1>10, <1>11, <1>12 DEF CurrentManifests

\* COMMIT
LEMMA CommitKeepsInv ==
  ASSUME ConfigInv, NEW a \in Applies, CommitApply(a)
  PROVE  ConfigInv'
<1>1. PICK h \in Progress : h = apply[a]
  BY CommitIs
<1>2. PICK d \in Directories : d = h.directory
  BY DEF Progress
<1>3. /\ h.step = "begun" /\ ValidDirectory(d)
      /\ Accepted(h.plan, d.docs) /\ Committed(h.plan, d.docs)
      /\ row' = [n \in Names |-> row'[n]] /\ born' = BornOf(row')
      /\ UNCHANGED <<clock, edit>>
  BY <1>1, <1>2, CommitIs
<1>4. PICK p \in Over : p = [step |-> "done"] /\ p.step = "done"
  BY DEF Over
<1>5. apply' = [apply EXCEPT ![a] = p]
  BY <1>4 DEF CommitApply
<1>6. /\ h.stamp \in 1 .. clock
      /\ \A b \in Applies \ {a} : Begun(b) => apply[b].stamp # h.stamp
  BY <1>1, <1>3, BegunStamp DEF Begun
<1>7. deployed' = IF h.stamp > deployed.stamp THEN [stamp |-> h.stamp, directory |-> d] ELSE deployed
  BY <1>1, <1>2 DEF CommitApply
<1>8. Moves(a, p) /\ \A b \in Applies : ApplyOK(b)'
  <2>1. clock' \in Nat /\ clock <= clock'
    BY <1>3, ClockType
  <2>2. \A b \in Applies \ {a} : Begun(b) => apply[b].stamp # deployed'.stamp
    BY <1>6, <1>7, BegunStamp
  <2> QED BY <1>4, <1>5, <2>1, <2>2, RequestMoves
<1>9. Finished' = Finished + 1 /\ Finished <= Finished'
  <2>1. ApplyEnds(a)
    BY <1>1, <1>3, <1>4, <1>8 DEF ApplyEnds, Moves
  <2> QED BY <1>3, <2>1, OneMoreApply, FinishedType
<1>10. RowsFit /\ (\A n \in Names : RowMoves(n)) /\ PublishedHasLaunchUri'
  BY <1>3, <1>9, CommitKeepsRows
<1>11. edit' \in [Edits -> Editing'] /\ \A e \in Edits : EditOK(e)'
  BY <1>3, <1>9, <1>10, EditsStay
<1>12. ClockOK'
  <2>1. \A b \in Applies : HasBegun(b)' <=> HasBegun(b)
    BY <1>1, <1>3, <1>4, <1>8 DEF HasBegun, Moves
  <2> QED BY <1>3, <2>1, SameClock
<1>13. DeployedOK'
  BY <1>3, <1>6, <1>7 DEF ConfigInv, DeployedOK
<1>14. settings' \in Settings
  <2>1. settings' = IF h.instance THEN settings
                    ELSE [session |-> d.instance.session, tokens |-> d.instance.tokens]
    BY <1>1, <1>2 DEF CommitApply
  <2> QED BY <1>3, <2>1 DEF ConfigInv, Settings, ValidDirectory
<1>15. InSync'
  BY CommitInSync DEF InSync
<1>16. apply' = [b \in Applies |-> apply'[b]]
  BY <1>8 DEF Moves
<1> QED BY <1>8, <1>9, <1>10, <1>11, <1>12, <1>13, <1>14, <1>15, <1>16, RowsKeepOK DEF ConfigInv

-----------------------------------------------------------------------------
(* Every step.                                                             *)

LEMMA InitConfigInv ==
  Init => ConfigInv
<1> SUFFICES ASSUME Init PROVE ConfigInv
  OBVIOUS
<1>1. PICK there : row = [n \in Names |-> Seeded(n, there)]
  BY DEF Init
<1>2. Finished = 0
  <2>1. DoneApplies = {} /\ DoneEdits = {}
    BY DEF Init, DoneApplies, DoneEdits, At
  <2>2. Cardinality({}) = 0
    BY FS_EmptySet
  <2> QED BY <2>1, <2>2, FinishedType
<1>3. ASSUME NEW n \in Names
      PROVE  /\ row[n] = NoRow \/ /\ row[n].id = 1 /\ row[n].version = 1 /\ row[n].ownership = "dashboard"
                                  /\ row[n].body \in Bodies(n)
                                  /\ n \in Apps => row[n].body = Flags
                                  /\ n \notin Policies => row[n].apps = {}
                                  /\ row[n].apps \subseteq {<<a, 1>> : a \in Apps \intersect there}
             /\ row[n] \in RowsUpTo(1)
  <2>1. CASE n \notin there
    BY <1>1, <2>1, NoRowIsNone DEF Seeded
  <2>2. CASE n \in there
    <3>1. PICK b \in Bodies(n) : b = IF n \in Apps THEN Flags ELSE CHOOSE x \in Bodies(n) : TRUE
      BY DefaultIsAText DEF Bodies
    <3>2. PICK ids \in SUBSET {<<a, 1>> : a \in Apps \intersect there} :
            ids = IF n \in Policies THEN {<<a, 1>> : a \in Apps \intersect there} ELSE {}
      OBVIOUS
    <3>3. row[n] = [id |-> 1, version |-> 1, ownership |-> "dashboard", body |-> b, apps |-> ids]
      BY <1>1, <2>2, <3>1, <3>2 DEF Seeded
    <3>4. b \in (SUBSET Flags) \union (SUBSET Texts) /\ ids \in SUBSET (Apps \X (1 .. 1))
      BY BodyType
    <3>5. row[n] \in RowsUpTo(1)
      BY <3>3, <3>4 DEF RowsUpTo
    <3> QED BY <3>1, <3>2, <3>3, <3>5
  <2> QED BY <2>1, <2>2
<1>4. born = [n \in Names |-> row[n].id] /\ \A n \in Names : born[n] \in 0 .. 1 /\ row[n].id = born[n]
  <2>1. born = [n \in Names |-> row[n].id]
    BY DEF Init
  <2>2. \A n \in Names : row[n].id \in 0 .. 1
    BY <1>3, NoRowIsNone
  <2> QED BY <2>1, <2>2
<1>5. row \in [Names -> RowsUpTo(1 + Finished)] /\ born \in [Names -> Nat]
  BY <1>1, <1>2, <1>3, <1>4
<1>6. ASSUME NEW n \in Names PROVE RowOK(n)
  <2>1. row[n] \in RowsUpTo(1 + Finished) /\ born[n] \in 0 .. 1 + Finished /\ row[n].id <= born[n]
    BY <1>2, <1>3, <1>4
  <2>2. CASE row[n] = NoRow
    BY <2>1, <2>2, NoRowIsNone DEF RowOK
  <2>3. CASE row[n] # NoRow
    <3>1. /\ row[n].id = 1 /\ row[n].ownership = "dashboard" /\ row[n].body \in Bodies(n)
          /\ n \notin Policies => row[n].apps = {}
          /\ row[n].apps \subseteq {<<a, 1>> : a \in Apps \intersect there}
      BY <1>3, <2>3
    <3>2. \A id \in row[n].apps : id[2] <= born[id[1]]
      <4> SUFFICES ASSUME NEW a \in Apps \intersect there PROVE 1 <= born[a]
        BY <3>1
      <4>1. a \in Names /\ row[a].id = 1
        BY <1>1 DEF Names, Seeded
      <4> QED BY <1>4, <4>1
    <3> QED BY <2>1, <3>1, <3>2 DEF RowOK
  <2> QED BY <2>2, <2>3
<1>7. PublishedHasLaunchUri
  <2> SUFFICES ASSUME NEW a \in Apps, row[a].ownership = "dashboard" PROVE "launch" \in row[a].body
    BY DEF PublishedHasLaunchUri
  <2> QED BY <1>3, NoRowIsNone DEF Names, Flags
<1>8. settings \in Settings
  BY DefaultIsAText DEF Init, Settings
<1>9. apply = [a \in Applies |-> apply[a]] /\ (\A a \in Applies : apply[a] = [step |-> "idle"])
      /\ \A a \in Applies : ApplyOK(a)
  BY DEF Init, ApplyOK
<1>10. ClockOK
  <2>1. {a \in Applies : HasBegun(a)} = {}
    BY <1>9 DEF HasBegun
  <2> QED BY <2>1, FS_EmptySet DEF ClockOK, HasBegun, Init
<1>11. DeployedOK /\ InSync
  BY DEF Init, DeployedOK, InSync
<1>12. ASSUME NEW e \in Edits PROVE EditOK(e) /\ edit[e] \in Editing
  <2>1. NoRow \in RowsUpTo(1 + Finished)
    BY <1>2, NoRowIsNone
  <2>2. edit[e] = [step |-> "idle", name |-> "none", seen |-> NoRow, change |-> [set |-> {}, clear |-> {}]]
    BY DEF Init, At
  <2>3. edit[e] \in Editing
    BY <2>1, <2>2 DEF Editing
  <2> QED BY <2>2, <2>3 DEF EditOK
<1>13. edit \in [Edits -> Editing]
  BY <1>12 DEF Init
<1> QED BY <1>5, <1>6, <1>7, <1>8, <1>9, <1>10, <1>11, <1>12, <1>13 DEF ConfigInv

LEMMA NextKeepsConfigInv ==
  ConfigInv /\ [Next]_vars => ConfigInv'
<1> SUFFICES ASSUME ConfigInv, [Next]_vars PROVE ConfigInv'
  OBVIOUS
<1>1. ASSUME ApplyStep PROVE ConfigInv'
  BY <1>1, PlanKeepsInv, BeginKeepsInv, CommitKeepsInv, FailKeepsInv DEF ApplyStep
<1>2. CASE UNCHANGED vars
  <2>1. UNCHANGED <<row, born, settings, deployed, apply, clock, edit, causes>>
    BY <1>2 DEF vars
  <2>2. Finished' = Finished /\ Finished <= Finished'
    BY <2>1, NoMore, FinishedType
  <2>3. RowsFit /\ (\A n \in Names : RowMoves(n)) /\ PublishedHasLaunchUri'
    BY <2>1, <2>2, SameRowsFit
  <2>4. edit' \in [Edits -> Editing'] /\ \A e \in Edits : EditOK(e)'
    BY <2>1, <2>2, <2>3, EditsStay
  <2>5. /\ apply' = [a \in Applies |-> apply'[a]] /\ (\A a \in Applies : ApplyOK(a)')
        /\ ClockOK' /\ DeployedOK' /\ settings' \in Settings
    BY <2>1 DEF ConfigInv, ApplyOK, Begun, ClockOK, DeployedOK
  <2>6. InSync'
    BY <2>1, SameInSync DEF ConfigInv
  <2> QED BY <2>2, <2>3, <2>4, <2>5, <2>6, RowsKeepOK DEF ConfigInv
<1> QED BY <1>1, <1>2, DashboardStepKeepsInv, SettingsKeepInv DEF Next

-----------------------------------------------------------------------------

\* The inductive invariant of configuration: rows have the shape and the counts the
\* requests allow, clients know what they saw, and what was applied last is in force
\* unless there is a cause for a drift.
THEOREM ConfigInvariant == Spec => []ConfigInv
<1>1. Init => ConfigInv
  BY InitConfigInv
<1>2. ConfigInv /\ [Next]_vars => ConfigInv'
  BY NextKeepsConfigInv
<1> QED BY <1>1, <1>2, PTL DEF Spec

\* Rows, requests and deployments have their types, versions count the writes there
\* can have been, and a published application has a sign-in URL (applySchema, the
\* tables, PATCH /applications/:id).
THEOREM TypeCorrect == Spec => []TypeOK
<1>1. ConfigInv => TypeOK
  <2> SUFFICES ASSUME ConfigInv PROVE TypeOK
    OBVIOUS
  <2>1. RowsUpTo(1 + Finished) \subseteq Rows
    <3>1. PICK f \in Nat : f = Finished
      BY FinishedType
    <3>2. PICK k \in Nat : k = Count
      BY FinishedType
    <3>3. RowsUpTo(1 + f) \subseteq RowsUpTo(k)
      BY <3>1, <3>2, FinishedType, RowsGrow
    <3> QED BY <3>1, <3>2, <3>3 DEF Rows
  <2>2. row \in [Names -> Rows] /\ \A e \in Edits : edit[e].seen \in Rows
    BY <2>1 DEF ConfigInv, Editing
  <2>3. \A n \in Names : /\ row[n] = NoRow \/ row[n].body \in Bodies(n)
                         /\ row[n].id \in 0 .. born[n]
    <3>1. \A n \in Names : row[n].id \in Nat /\ born[n] \in Nat
      BY FinishedType DEF ConfigInv, RowsUpTo
    <3> QED BY <3>1 DEF ConfigInv, RowOK
  <2>4. clock \in 0 .. Cardinality(Applies)
    <3>1. PICK T \in SUBSET Applies :
            T = {a \in Applies : apply[a].step \in {"begun", "done", "failed"}}
      OBVIOUS
    <3>2. clock = Cardinality(T)
      BY <3>1 DEF ConfigInv, ClockOK
    <3>3. Cardinality(T) \in Nat /\ Cardinality(Applies) \in Nat /\ Cardinality(T) <= Cardinality(Applies)
      BY RequestsAreFinite, OneMore
    <3> QED BY <3>2, <3>3
  <2>5. \A e \in Edits : edit[e].step \in {"idle", "open", "checked", "done"}
    BY DEF ConfigInv, Editing
  <2> QED BY <2>2, <2>3, <2>4, <2>5, ClockType DEF TypeOK, ConfigInv
<1> QED BY <1>1, ConfigInvariant, PTL

\* GET /config/status reports a drift only with a cause: settings edited here or set by
\* another environment, a plan gone stale before its transaction had the lock,
\* transactions committed in another order than they began, a directory that is none the
\* server reads back, or default lifetimes taken for the workspace's by the first apply.
\* Edits of resources in the dashboard never are one.
THEOREM DriftHasACauseAlways == Spec => []DriftHasACause
<1>1. ConfigInv => DriftHasACause
  BY DEF ConfigInv, InSync, DriftHasACause, Status
<1> QED BY <1>1, ConfigInvariant, PTL
-----------------------------------------------------------------------------
(* What a step may not do.                                                 *)

\* A finished PATCH compared the version, and its row was what its client saw.
LEMMA PatchSawTheRow ==
  ASSUME ConfigInv, PatchStep, NEW e \in Edits, edit'[e].step = "done", edit[e].step # "done"
  PROVE  row[edit[e].name] = edit[e].seen
<1>1. ASSUME NEW f \in Edits, f # e, edit' = [edit EXCEPT ![f] = At("done")] PROVE FALSE
  BY <1>1 DEF ConfigInv
<1>2. ASSUME NEW change \in Changes, NEW f \in Edits, CheckApplication(f, change) PROVE FALSE
  <2>1. PICK h \in Editing : h = edit[f]
    BY DEF ConfigInv
  <2>2. edit' = [edit EXCEPT ![f] = [[h EXCEPT !.step = "checked"] EXCEPT !.change = change]]
    BY <1>2, <2>1 DEF CheckApplication, ConfigInv
  <2> DEFINE w == [[h EXCEPT !.step = "checked"] EXCEPT !.change = change]
  <2>3. w.step = "checked"
    BY DEF Editing
  <2> HIDE DEF w
  <2>4. edit'[f] = w /\ \A g \in Edits \ {f} : edit'[g] = edit[g]
    BY <2>2 DEF ConfigInv, w
  <2> QED BY <2>3, <2>4
<1>3. ASSUME SameVersion(e), edit[e].step \in {"open", "checked"}
      PROVE  row[edit[e].name] = edit[e].seen
  BY <1>3 DEF ConfigInv, EditOK, SameVersion
<1>4. ASSUME UpdateApplication(e) PROVE SameVersion(e) /\ edit[e].step \in {"open", "checked"}
  BY <1>4 DEF UpdateApplication
<1>5. ASSUME PatchScope(e) \/ PatchPolicy(e)
      PROVE  SameVersion(e) /\ edit[e].step \in {"open", "checked"}
  BY <1>5 DEF PatchScope, PatchPolicy, UpdateOwned
<1>6. ASSUME NEW f \in Edits, UpdateApplication(f) \/ PatchScope(f) \/ PatchPolicy(f)
      PROVE  f = e
  <2>1. edit' = [edit EXCEPT ![f] = At("done")]
    BY <1>6 DEF UpdateApplication, PatchScope, PatchPolicy, UpdateOwned, Finish
  <2> QED BY <1>1, <2>1
<1> QED BY <1>2, <1>3, <1>4, <1>5, <1>6 DEF PatchStep

\* No PATCH overwrites a change its client had not seen: the WHERE clause on the
\* version is enough, for a row that was deleted and made again too.
THEOREM NoLostUpdateAlways == Spec => NoLostUpdate
<1>1. ConfigInv /\ [Next]_vars =>
        [PatchStep => \A e \in Edits :
           edit'[e].step = "done" /\ edit[e].step # "done" => row[edit[e].name] = edit[e].seen]_vars
  BY PatchSawTheRow
<1> QED BY <1>1, ConfigInvariant, PTL DEF Spec, NoLostUpdate

\* Steps of the dashboard leave what a manifest owns.
LEMMA DashboardRespects ==
  ASSUME ConfigInv, DashboardStep, NEW n \in Manifested(row)
  PROVE  n \in Manifested(row') /\ row'[n].body = row[n].body
<1>1. n \in Names /\ row[n].id # 0 /\ row[n].ownership = "manifest"
  BY DEF Manifested, Live
<1>2. PICK x \in RowsUpTo(1 + Finished) : x = row[n]
  BY <1>1 DEF ConfigInv
<1>3. ASSUME UNCHANGED row PROVE n \in Manifested(row') /\ row'[n].body = row[n].body
  BY <1>3 DEF Manifested, Live
<1>4. ASSUME row'[n] = row[n] PROVE n \in Manifested(row') /\ row'[n].body = row[n].body
  BY <1>1, <1>4 DEF Manifested, Live
<1>5. ASSUME NEW e \in Edits, UpdateApplication(e) PROVE row'[n] = row[n]
  <2>1. EditOK(e) /\ edit[e].step = "checked" /\ SameVersion(e) /\ edit[e].name \in Apps
    BY <1>5 DEF ConfigInv, UpdateApplication, EditOK
  <2>2. row[edit[e].name] = edit[e].seen /\ edit[e].seen.ownership # "manifest"
    BY <2>1 DEF EditOK, SameVersion
  <2>3. n # edit[e].name
    BY <1>1, <2>2
  <2> QED BY <1>1, <1>5, <2>3 DEF UpdateApplication, ConfigInv
<1>6. ASSUME NEW e \in Edits, NEW body, NEW ids, UpdateOwned(e, body, ids) PROVE row'[n] = row[n]
  <2>1. n # edit[e].name
    BY <1>1, <1>6 DEF UpdateOwned
  <2> QED BY <1>1, <1>6, <2>1 DEF UpdateOwned, ConfigInv
<1>7. ASSUME NEW e \in Edits, NEW m \in Names, NEW body, NEW ids, Create(e, m, body, ids)
      PROVE  row'[n] = row[n]
  <2>1. n # m
    BY <1>1, <1>7 DEF Create, Live
  <2> QED BY <1>1, <1>7, <2>1 DEF Create, ConfigInv
<1>8. ASSUME NEW e \in Edits, DeleteApplication(e)
      PROVE  n \in Manifested(row') /\ row'[n].body = row[n].body
  <2>1. PICK a \in Apps : row[a].ownership # "manifest" /\ row' = WithoutApplication(row, a)
    BY <1>8 DEF DeleteApplication
  <2>2. n # a
    BY <1>1, <2>1
  <2>3. row'[n] = IF n \in Policies /\ AppId(row, a) \in x.apps
                  THEN [x EXCEPT !.apps = @ \ {AppId(row, a)}, !.version = @ + 1] ELSE x
    BY <1>1, <1>2, <2>1, <2>2 DEF WithoutApplication
  <2>4. row'[n].id = x.id /\ row'[n].ownership = x.ownership /\ row'[n].body = x.body
    BY <2>3 DEF RowsUpTo
  <2> QED BY <1>1, <1>2, <2>4 DEF Manifested, Live
<1>9. ASSUME NEW e \in Edits, NEW m \in Names, ReadResource(e, m) PROVE UNCHANGED row
  BY <1>9 DEF ReadResource
<1>10. ASSUME NEW e \in Edits, NEW change \in Changes, CheckApplication(e, change) PROVE UNCHANGED row
  BY <1>10 DEF CheckApplication
<1>11. ASSUME NEW e \in Edits, PatchSettings(e) PROVE UNCHANGED row
  BY <1>11 DEF PatchSettings, ChangeSettings
<1>12. ASSUME NEW e \in Edits, PatchScope(e) \/ PatchPolicy(e) PROVE row'[n] = row[n]
  BY <1>6, <1>12 DEF PatchScope, PatchPolicy
<1>13. ASSUME NEW e \in Edits, CreateApplication(e) \/ CreateScope(e) \/ CreatePolicy(e)
       PROVE  row'[n] = row[n]
  BY <1>7, <1>13 DEF CreateApplication, CreateScope, CreatePolicy, Names
<1> QED BY <1>3, <1>4, <1>5, <1>8, <1>9, <1>10, <1>11, <1>12, <1>13 DEF DashboardStep, PatchStep

\* An apply that does something was not idle, or only planned.
LEMMA OthersStay ==
  ASSUME ConfigInv, [Next]_vars, NEW a \in Applies, apply'[a] # apply[a]
  PROVE  PlanApply(a) \/ BeginApply(a) \/ CommitApply(a) \/ FailApply(a)
<1>1. ASSUME DashboardStep \/ (\E e \in Edits : ApplyElsewhere(e)) \/ UNCHANGED vars PROVE FALSE
  <2>1. UNCHANGED apply
    BY <1>1 DEF DashboardStep, PatchStep, CheckApplication, UpdateApplication, PatchScope,
                PatchPolicy, UpdateOwned, ReadResource, CreateApplication, CreateScope,
                CreatePolicy, Create, DeleteApplication, PatchSettings, ApplyElsewhere,
                ChangeSettings, vars
  <2> QED BY <2>1
<1>2. ASSUME NEW b \in Applies, b # a, PlanApply(b) \/ BeginApply(b) \/ CommitApply(b) \/ FailApply(b)
      PROVE  FALSE
  <2>1. apply'[a] = apply[a]
    BY <1>2 DEF PlanApply, BeginApply, CommitApply, FailApply, ConfigInv
  <2> QED BY <2>1
<1> QED BY <1>1, <1>2 DEF Next, ApplyStep

\* Applying manifests adopts rows of the dashboard, and removes one only when another
\* document of the directory declares it.
LEMMA AppliesRespect ==
  ASSUME ConfigInv, [Next]_vars, NEW a \in Applies, NEW n \in Names,
         apply'[a] # apply[a], row[n].ownership = "dashboard"
  PROVE  \/ row'[n].id = row[n].id
         \/ n \in Scopes /\ Claimed(apply[a].directory.docs, n)
<1>1. ASSUME PlanApply(a) \/ BeginApply(a) \/ FailApply(a) PROVE UNCHANGED row
  BY <1>1 DEF PlanApply, BeginApply, FailApply
<1>2. ASSUME CommitApply(a), row'[n].id # row[n].id
      PROVE  n \in Scopes /\ Claimed(apply[a].directory.docs, n)
  <2>1. PICK plan : plan = apply[a].plan
    OBVIOUS
  <2>2. PICK docs : docs = apply[a].directory.docs
    OBVIOUS
  <2>3. Accepted(plan, docs) /\ Committed(plan, docs)
    BY <1>2, <2>1, <2>2, CommitIs
  <2>4. Live(row, n)
    BY NoRowIsNone DEF ConfigInv, RowOK, Live
  <2>5. Removes(plan, n) /\ WrittenBy(plan, docs, n) # {}
    BY <1>2, <2>3, <2>4 DEF Committed, UpsertedFrom
  <2>6. PICK x \in WrittenBy(plan, docs, n) : TRUE
    BY <2>5
  <2>7. x # n /\ x \in DOMAIN docs /\ docs[x].of = n
    BY <2>3, <2>5, SameKind DEF WrittenBy, Removes
  <2>8. n \in Scopes
    BY <2>3, <2>7, SameKind
  <2> QED BY <2>2, <2>7, <2>8 DEF Claimed
<1> QED BY <1>1, <1>2, OthersStay

\* The dashboard leaves what a manifest declares, and applying manifests removes
\* nothing the dashboard owns, whatever either had read before, but for a scope that
\* a document of another name adopts in the same plan.
THEOREM OwnershipIsRespectedAlways == Spec => OwnershipIsRespected
<1>1. ConfigInv /\ [Next]_vars =>
        [/\ DashboardStep => \A n \in Manifested(row) :
              n \in Manifested(row') /\ row'[n].body = row[n].body
         /\ \A a \in Applies, n \in Names :
              apply'[a] # apply[a] /\ row[n].ownership = "dashboard" =>
                \/ row'[n].id = row[n].id
                \/ n \in Scopes /\ Claimed(apply[a].directory.docs, n)]_vars
  BY DashboardRespects, AppliesRespect
<1> QED BY <1>1, ConfigInvariant, PTL DEF Spec, OwnershipIsRespected

\* A policy that is declared for applications names one of them at least once its
\* plan, made of what there is, was carried out.
LEMMA DeclaredPolicyNamesSome ==
  ASSUME ConfigInv, NEW d, NEW plan, Fresh(plan, d), Committed(plan, d.docs),
         NEW n \in DOMAIN d.docs, n \in Policies, d.docs[n].apps # {}
  PROVE  row'[n].apps # {}
<1>1. HasItsRow(plan, d.docs, n)
  BY NamesAreDisjoint, OtherKindsHaveTheirRows DEF Fresh
<1>2. PICK b \in d.docs[n].apps : b \in Manifested(row')
  BY DeclaredApplications
<1>3. CASE UpsertedFrom(n, d.docs[n], FALSE)
  <2>1. AppId(row', b) \in row'[n].apps
    BY <1>2, <1>3 DEF UpsertedFrom, IdsIn, Manifested
  <2> QED BY <2>1
<1>4. CASE row'[n] = row[n] /\ d.docs[n] = RowToManifest(row, n)
  <2>1. d.docs[n].apps = {a \in Apps : Live(row, a) /\ AppId(row, a) \in row[n].apps}
    BY <1>4 DEF RowToManifest, Document
  <2>2. AppId(row, b) \in row[n].apps
    BY <2>1
  <2> QED BY <1>4, <2>2
<1> QED BY <1>1, <1>3, <1>4, DeclaredRow

LEMMA ApplyKeepsRestrictions ==
  ASSUME ConfigInv, [Next]_vars, NEW a \in Applies, NEW n \in Policies,
         apply[a].step = "begun", apply'[a].step = "done",
         n \in DOMAIN apply[a].directory.docs, apply[a].directory.docs[n].apps # {},
         Global(row', n)
  PROVE  "stale plan" \in causes'
<1>1. ~PlanApply(a) /\ ~BeginApply(a)
  BY DEF PlanApply, BeginApply
<1>2. ~FailApply(a)
  <2>1. apply = [b \in Applies |-> apply[b]]
    BY DEF ConfigInv
  <2>2. FailApply(a) => apply'[a] = [step |-> "failed"]
    BY <2>1 DEF FailApply
  <2> QED BY <2>2
<1>3. CommitApply(a)
  BY <1>1, <1>2, OthersStay
<1>4. ASSUME "stale plan" \notin causes' PROVE FALSE
  <2>1. PICK d : d = apply[a].directory
    OBVIOUS
  <2>2. PICK plan : plan = apply[a].plan
    OBVIOUS
  <2>3. ValidDirectory(d) /\ Accepted(plan, d.docs) /\ Committed(plan, d.docs)
    BY <1>3, <2>1, <2>2, CommitIs
  <2>4. BuildPlan(d, CurrentManifests(row, settings, deployed)) = plan
    BY <1>3, <1>4, <2>1, <2>2 DEF CommitApply
  <2>5. Fresh(plan, d)
    BY <2>3, <2>4 DEF Fresh
  <2>6. row'[n].apps # {}
    BY <2>1, <2>3, <2>5, DeclaredPolicyNamesSome
  <2> QED BY <2>6 DEF Global
<1> QED BY <1>4

\* Applying a policy for named applications leaves it with one at least, unless the
\* plan was stale: it never governs every application by accident.
THEOREM RestrictedStaysRestrictedAlways == Spec => RestrictedStaysRestricted
<1>1. ConfigInv /\ [Next]_vars =>
        [\A a \in Applies, n \in Policies :
           LET docs == apply[a].directory.docs
           IN  apply[a].step = "begun" /\ apply'[a].step = "done" =>
                 (n \in DOMAIN docs /\ docs[n].apps # {} /\ Global(row', n)
                    => "stale plan" \in causes')]_vars
  BY ApplyKeepsRestrictions
<1> QED BY <1>1, ConfigInvariant, PTL DEF Spec, RestrictedStaysRestricted
=============================================================================
