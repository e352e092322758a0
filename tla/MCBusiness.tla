----------------------------- MODULE MCBusiness -----------------------------
(***************************************************************************)
(* Small instances of apps/fin and of the parts of apps/asset that do not  *)
(* move stock.  They share no variable, so an instance looks at one        *)
(* question at a time: focus is chosen in the initial state and never      *)
(* changes.                                                                *)
(***************************************************************************)
EXTENDS MCAssetLocks, FinProjects, XlsxPool, FixedAssets

VARIABLE focus

businessVars == <<vars, finVars, poolVars, assetVars, focus>>

Row(year) == [name |-> "n", year |-> year]
SomeFiles == {<<Row(1)>>, <<Row(0), Row(2)>>}
OneRequest == CHOOSE r \in Requests : TRUE
\* Bounds.  An import is overtaken by one change; one more shows what comes
\* after it.
FewChanges == \A p, q \in Projects : p # q => project'[p].rev + project'[q].rev <= MaxRev
\* Enough for two imports of one user: short files, nothing skipped, one change
\* of a project.
ShortImports ==
  /\ \A r \in Requests : Len(request'[r].file) <= 1 /\ request'[r].picks.skip = {}
  /\ \A p \in Projects : project'[p].rev <= 1

BusinessInit ==
  /\ focus \in {"locks", "edits", "imports", "workbooks", "repairs", "codes"}
  /\ Init /\ FinInit /\ PoolInit /\ FixedAssetsInit
  /\ focus # "edits" => \A p \in Projects : project[p].state = "free"
  /\ focus # "repairs" => \A a \in Assets : asset[a].usage = "IDLE"

\* Two transactions are enough for an asset and its orders.
TwoHandlers == CHOOSE S \in SUBSET Handlers : Cardinality(S) = 2

BusinessNext ==
  \/ focus = "locks" /\ Next /\ UNCHANGED <<finVars, poolVars, assetVars, focus>>
  \/ /\ focus = "edits"
     /\ \/ ImportStep(OneRequest)
        \/ \E e \in Editors : EditStep(e)
        \/ \E p \in Projects, k \in Keys : CreateProject(p, k)
     /\ FewChanges
     /\ UNCHANGED <<vars, poolVars, assetVars, focus>>
  \/ /\ focus = "imports" /\ (\E r \in Requests : ImportStep(r) \/ ClockStep(r)) /\ ShortImports
     /\ UNCHANGED <<vars, poolVars, assetVars, focus>>
  \/ focus = "workbooks" /\ PoolNext /\ UNCHANGED <<vars, finVars, assetVars, focus>>
  \/ /\ focus = "repairs" /\ (\E h \in TwoHandlers : RepairStep(h) \/ RegisterStep(h) \/ Refused(h))
     /\ UNCHANGED <<vars, finVars, poolVars, focus>>
  \/ /\ focus = "codes" /\ (\E h \in Handlers : CodeStep(h) \/ Refused(h))
     /\ UNCHANGED <<vars, finVars, poolVars, focus>>

BusinessSpec ==
  /\ BusinessInit /\ [][BusinessNext]_businessVars
  /\ \A w \in Places : WF_poolVars(Post(w) \/ Die(w)) /\ WF_poolVars(Receive(w)) /\ WF_poolVars(Replace(w))
=============================================================================
