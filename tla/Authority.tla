------------------------------ MODULE Authority -----------------------------
(***************************************************************************)
(* Who may do what: site roles, employee grants and permission groups, the *)
(* reconciliation of the permission catalog, deactivation and restoration  *)
(* of accounts, and the authorization context cached in Redis that every   *)
(* guarded request is decided by (platform-core, modules/backstage).       *)
(*                                                                         *)
(* A grant is a function code: its data scope is left out, no property     *)
(* tells scopes apart.  Operations run in PostgreSQL transactions at READ  *)
(* COMMITTED; a transaction that reads before it locks has a step for      *)
(* each, and rows it has locked stay in "held" until it ends.              *)
(***************************************************************************)
EXTENDS Naturals, FiniteSets

CONSTANTS People, Functions, PermissionManage, Procs, MaxPv, MaxDv, None

ASSUME AuthorityAssumption == PermissionManage \in Functions /\ IsFiniteSet(People)

VARIABLES
  status,   \* users.status: PENDING_ACTIVATION, ACTIVE or DEACTIVATED
  super,    \* users.is_super_admin
  pv,       \* users.permission_version
  lv,       \* users.lifecycle_version
  grants,   \* employee_grants
  catalog,  \* codes registered in backstage.functions
  dv,       \* permission_catalog_meta.catalog_version
  group,    \* the items of the permission group, None when deleted
  cache,    \* auth:context:<user> in Redis
  held,     \* users rows locked by a process
  op        \* the operation each process is in the middle of

people == <<status, super, pv, lv, grants>>
authorityVars == <<people, catalog, dv, group, cache, held, op>>

NoOp == [step |-> "none"]
Doing(p, step) == op[p].step = step
Become(p, o) == op' = [op EXCEPT ![p] = o]
End(p) == op' = [op EXCEPT ![p] = NoOp] /\ held' = [held EXCEPT ![p] = {}]
Abort(p) == End(p) /\ UNCHANGED <<people, catalog, dv, group, cache>>

Deleted(u) == status[u] = "DEACTIVATED"
ActiveSupers == {u \in People : super[u] /\ status[u] = "ACTIVE"}
LockedByOthers(p) == UNION {held[q] : q \in Procs \ {p}}

AuthorityInit ==
  /\ status = [u \in People |-> "ACTIVE"]
  /\ super \in {s \in [People -> BOOLEAN] : \E u \in People : s[u]}
  /\ pv = [u \in People |-> 0]
  /\ lv = [u \in People |-> 0]
  /\ grants = [u \in People |-> {}]
  /\ catalog = Functions
  /\ dv = 0
  /\ group = None
  /\ cache = [u \in People |-> None]
  /\ held = [p \in Procs |-> {}]
  /\ op = [p \in Procs |-> NoOp]

-----------------------------------------------------------------------------
(* Site roles: super-admin.service.ts *)

\* appoint: assertOperatorStillSuper and the target's row are read without a
\* lock; the update names the target by id alone.
AppointRead(p, o, t) ==
  /\ Doing(p, "none") /\ super[o] /\ ~Deleted(o)
  /\ status[t] = "ACTIVE" /\ ~super[t]
  /\ Become(p, [step |-> "appoint", target |-> t])
  /\ UNCHANGED <<people, catalog, dv, group, cache, held>>

Appoint(p) ==
  /\ Doing(p, "appoint")
  /\ LET t == op[p].target IN
       /\ t \notin LockedByOthers(p) /\ pv[t] < MaxPv
       /\ super' = [super EXCEPT ![t] = TRUE]
       /\ pv' = [pv EXCEPT ![t] = @ + 1]
  /\ End(p)
  /\ UNCHANGED <<status, lv, grants, catalog, dv, group, cache>>

CountSupers(p) == UNCHANGED held

\* SELECT ... WHERE is_super_admin AND status = 'ACTIVE' ... FOR UPDATE
LockSupers(p) ==
  /\ ActiveSupers \cap LockedByOthers(p) = {}
  /\ held' = [held EXCEPT ![p] = ActiveSupers]

DemoteLock(p, o, t) ==
  /\ Doing(p, "none") /\ super[o] /\ ~Deleted(o)
  /\ LockSupers(p)
  /\ o \in ActiveSupers
  /\ ~Deleted(t) /\ super[t]
  /\ status[t] = "ACTIVE" => Cardinality(ActiveSupers) > 1
  /\ Become(p, [step |-> "demote", target |-> t])
  /\ UNCHANGED <<people, catalog, dv, group, cache>>

Demote(p) ==
  /\ Doing(p, "demote")
  /\ LET t == op[p].target IN
       /\ t \notin LockedByOthers(p) /\ pv[t] < MaxPv
       /\ super' = [super EXCEPT ![t] = FALSE]
       /\ pv' = [pv EXCEPT ![t] = @ + 1]
  /\ End(p)
  /\ UNCHANGED <<status, lv, grants, catalog, dv, group, cache>>

-----------------------------------------------------------------------------
(* Deactivation and restoration: user-lifecycle.service.ts *)

\* loadDeactivationTargets reads the targets first and locks the active
\* super administrators afterwards.
DeactivateRead(p, o, T) ==
  /\ Doing(p, "none") /\ ~Deleted(o)
  /\ T # {} /\ o \notin T
  /\ \A t \in T : ~Deleted(t) /\ (super[t] => super[o])
  /\ Become(p, [step |-> "targets", targets |-> T, lv |-> lv,
                supers |-> {t \in T : super[t] /\ status[t] = "ACTIVE"}])
  /\ UNCHANGED <<people, catalog, dv, group, cache, held>>

DeactivateLock(p) ==
  /\ Doing(p, "targets")
  /\ LockSupers(p)
  /\ IF op[p].supers # {} /\ Cardinality(ActiveSupers) <= Cardinality(op[p].supers)
       THEN op' = [op EXCEPT ![p] = [step |-> "refused"]]
       ELSE op' = [op EXCEPT ![p].step = "deactivate"]
  /\ UNCHANGED <<people, catalog, dv, group, cache>>

\* USER_BATCH_BLOCKED rolls the transaction back.
DeactivateRefused(p) == Doing(p, "refused") /\ Abort(p)

\* lockUserRowsForUpdate, then one conditional update per target: a target
\* whose lifecycle version moved undoes the batch.
Deactivate(p) ==
  /\ Doing(p, "deactivate")
  /\ LET T == op[p].targets IN
       /\ T \cap LockedByOthers(p) = {}
       /\ IF \E t \in T : lv[t] # op[p].lv[t] THEN Abort(p)
          ELSE /\ status' = [u \in People |-> IF u \in T THEN "DEACTIVATED" ELSE status[u]]
               /\ lv' = [u \in People |-> IF u \in T THEN lv[u] + 1 ELSE lv[u]]
               /\ End(p)
               /\ UNCHANGED <<super, pv, grants, catalog, dv, group, cache>>

\* confirmRestore: the rows and the catalog are read, hr applies its side,
\* and the transaction revokes the grants that catalog no longer has.
RestoreRead(p, o, t) ==
  /\ Doing(p, "none") /\ ~Deleted(o) /\ Deleted(t)
  /\ super[t] => super[o]
  /\ Become(p, [step |-> "restore", target |-> t, seen |-> lv[t], catalog |-> catalog])
  /\ UNCHANGED <<people, catalog, dv, group, cache, held>>

NextPv(t) == [pv EXCEPT ![t] = @ + 1]

Restore(p) ==
  /\ Doing(p, "restore")
  /\ LET t == op[p].target IN
       /\ t \notin LockedByOthers(p) /\ pv[t] < MaxPv
       /\ IF lv[t] # op[p].seen \/ ~Deleted(t) THEN Abort(p)
          ELSE /\ status' = [status EXCEPT ![t] = "ACTIVE"]
               /\ lv' = [lv EXCEPT ![t] = @ + 1]
               /\ pv' = NextPv(t)
               /\ grants' = [grants EXCEPT ![t] = @ \cap op[p].catalog]
               /\ End(p)
               /\ UNCHANGED <<super, catalog, dv, group, cache>>

-----------------------------------------------------------------------------
(* Grants: grant.service.ts *)

Manageable(o, bySuper, t) == ~Deleted(t) /\ t # o /\ (super[t] => bySuper)
MayManage(o, t) == ~Deleted(o) /\ Manageable(o, super[o], t)

\* validateGrantItems, with the operator's role and the catalog C the handler
\* has read.
ValidItems(bySuper, C, items) == items \subseteq C /\ (PermissionManage \in items => bySuper)

InScope(bySuper, C) == C \ (IF bySuper THEN {} ELSE {PermissionManage})

\* getEmployeeGrants reads the account with its version, the catalog and the
\* grants, with no transaction around the three.
OpenForm(p, t) ==
  /\ Doing(p, "none") /\ ~Deleted(t)
  /\ Become(p, [step |-> "listing", target |-> t, pv |-> pv[t], listed |-> {}, shown |-> {},
                operator |-> t, super |-> FALSE, catalog |-> {}])
  /\ UNCHANGED <<people, catalog, dv, group, cache, held>>

ListCatalog(p) ==
  /\ Doing(p, "listing")
  /\ op' = [op EXCEPT ![p].step = "showing", ![p].listed = catalog]
  /\ UNCHANGED <<people, catalog, dv, group, cache, held>>

\* The form shows the grants that catalog has.
ShowGrants(p) ==
  /\ Doing(p, "showing")
  /\ op' = [op EXCEPT ![p].step = "form", ![p].shown = grants[op[p].target] \cap op[p].listed]
  /\ UNCHANGED <<people, catalog, dv, group, cache, held>>

\* saveEmployeeGrants reads the operator and the catalog before its transaction.
LoadOperator(p, o) ==
  /\ Doing(p, "form") /\ ~Deleted(o)
  /\ op' = [op EXCEPT ![p].step = "saving", ![p].operator = o, ![p].super = super[o]]
  /\ UNCHANGED <<people, catalog, dv, group, cache, held>>

LoadCatalog(p) ==
  /\ Doing(p, "saving")
  /\ op' = [op EXCEPT ![p].step = "save", ![p].catalog = catalog]
  /\ UNCHANGED <<people, catalog, dv, group, cache, held>>

SaveRefused(p, items) ==
  LET t == op[p].target IN
    \/ ~Manageable(op[p].operator, op[p].super, t)
    \/ ~ValidItems(op[p].super, op[p].catalog, items)
    \/ pv[t] # op[p].pv

\* What a save takes away unless it is asked for again.
Replaced(p) == grants[op[p].target] \cap InScope(op[p].super, op[p].catalog)

SaveEmployeeGrants(p, items) ==
  /\ Doing(p, "save")
  /\ LET t == op[p].target IN
       /\ t \notin LockedByOthers(p) /\ pv[t] < MaxPv
       /\ IF SaveRefused(p, items) THEN Abort(p)
          ELSE /\ grants' = [grants EXCEPT ![t] = (@ \ Replaced(p)) \cup items]
               /\ pv' = NextPv(t)
               /\ End(p)
               /\ UNCHANGED <<status, super, lv, catalog, dv, group, cache>>

\* expandGroups skips the items the catalog no longer has.
Expanded(withGroup) == IF withGroup /\ group # None THEN group \cap catalog ELSE {}

Quietly(T) == pv
Bumped(T) == [u \in People |-> IF u \in T THEN pv[u] + 1 ELSE pv[u]]

BatchGrant(o, T, items, withGroup) ==
  LET added == items \cup Expanded(withGroup)
      changed == {t \in T : ~(added \subseteq grants[t])}
  IN  /\ \A t \in T : MayManage(o, t) /\ pv[t] < MaxPv
      /\ withGroup => group # None
      /\ ValidItems(super[o], catalog, added) /\ changed # {}
      /\ T \cap UNION {held[q] : q \in Procs} = {}
      /\ grants' = [u \in People |-> IF u \in changed THEN grants[u] \cup added ELSE grants[u]]
      /\ pv' = Bumped(changed)
      /\ UNCHANGED <<status, super, lv, catalog, dv, group, cache, held, op>>

BatchRevoke(o, T) ==
  LET scope == InScope(super[o], catalog)
      changed == {t \in T : grants[t] \cap scope # {}}
  IN  /\ \A t \in T : MayManage(o, t) /\ pv[t] < MaxPv
      /\ changed # {}
      /\ T \cap UNION {held[q] : q \in Procs} = {}
      /\ grants' = [u \in People |-> IF u \in changed THEN grants[u] \ scope ELSE grants[u]]
      /\ pv' = Bumped(changed)
      /\ UNCHANGED <<status, super, lv, catalog, dv, group, cache, held, op>>

\* createGroup and updateGroup: permission-group.service.ts
SaveGroup(o, items) ==
  /\ ~Deleted(o) /\ ValidItems(super[o], catalog, items) /\ group # items
  /\ group' = items
  /\ UNCHANGED <<people, catalog, dv, cache, held, op>>

BatchDeleteGroups(o) ==
  /\ ~Deleted(o) /\ group # None
  /\ group' = None
  /\ UNCHANGED <<people, catalog, dv, cache, held, op>>

-----------------------------------------------------------------------------
(* The catalog: permission-catalog.reconcile.ts, run at every start. *)

NextDv == dv + 1

\* A function the new release no longer defines is deleted; the grants that
\* name it stay in the table.
ReconcileCatalog(C) ==
  /\ C # catalog /\ dv < MaxDv
  /\ catalog' = C
  /\ dv' = NextDv
  /\ UNCHANGED <<people, group, cache, held, op>>

-----------------------------------------------------------------------------
(* loadAuthContext: authorization.service.ts *)

Versions(u) == [pv |-> IF Deleted(u) THEN 0 ELSE pv[u], dv |-> dv]

\* What rebuildAuthContext would find now.
Context(u) ==
  [super |-> super[u] /\ ~Deleted(u),
   codes |-> IF Deleted(u) \/ super[u] THEN {} ELSE grants[u] \cap catalog]

ReadVersions(p, u) ==
  /\ Doing(p, "none")
  /\ Become(p, [step |-> "cached", user |-> u, v |-> Versions(u)])
  /\ UNCHANGED <<people, catalog, dv, group, cache, held>>

ReadCache(p) ==
  /\ Doing(p, "cached")
  /\ LET c == cache[op[p].user] IN
       IF c # None /\ c.v = op[p].v THEN Become(p, NoOp)
       ELSE op' = [op EXCEPT ![p].step = "rebuildUser"]
  /\ UNCHANGED <<people, catalog, dv, group, cache, held>>

RebuildUser(p) ==
  /\ Doing(p, "rebuildUser")
  /\ LET u == op[p].user IN
       Become(p, [step |-> IF Context(u).super \/ Deleted(u) THEN "write" ELSE "rebuildGrants",
                  user |-> u, v |-> op[p].v, super |-> Context(u).super, codes |-> {}])
  /\ UNCHANGED <<people, catalog, dv, group, cache, held>>

RebuildGrants(p) ==
  /\ Doing(p, "rebuildGrants")
  /\ op' = [op EXCEPT ![p].step = "rebuildCodes", ![p].codes = grants[op[p].user]]
  /\ UNCHANGED <<people, catalog, dv, group, cache, held>>

RebuildCodes(p) ==
  /\ Doing(p, "rebuildCodes")
  /\ op' = [op EXCEPT ![p].step = "write", ![p].codes = @ \cap catalog]
  /\ UNCHANGED <<people, catalog, dv, group, cache, held>>

\* writeAuthContextCache stamps the entry with the versions read at first.
StampNow(p) == Versions(op[p].user)
StampRead(p) == op[p].v

WriteCache(p) ==
  /\ Doing(p, "write")
  /\ cache' = [cache EXCEPT ![op[p].user] =
                 [v |-> StampRead(p), super |-> op[p].super, codes |-> op[p].codes]]
  /\ Become(p, NoOp)
  /\ UNCHANGED <<people, catalog, dv, group, held>>

CacheExpires(u) ==
  /\ cache[u] # None
  /\ cache' = [cache EXCEPT ![u] = None]
  /\ UNCHANGED <<people, catalog, dv, group, held, op>>

-----------------------------------------------------------------------------
ContextStep ==
  \/ \E p \in Procs : \/ \E u \in People : ReadVersions(p, u)
                      \/ ReadCache(p) \/ RebuildUser(p) \/ RebuildGrants(p) \/ RebuildCodes(p)
                      \/ WriteCache(p)
  \/ \E u \in People : CacheExpires(u)

FormStep ==
  \E p \in Procs : \/ \E t \in People : OpenForm(p, t)
                   \/ ListCatalog(p) \/ ShowGrants(p) \/ LoadCatalog(p)
                   \/ \E o \in People : LoadOperator(p, o)
                   \/ \E items \in SUBSET Functions : SaveEmployeeGrants(p, items)

BatchStep ==
  \/ \E o \in People, T \in SUBSET People :
       \/ \E items \in SUBSET Functions, g \in BOOLEAN : BatchGrant(o, T, items, g)
       \/ BatchRevoke(o, T)
  \/ \E C \in SUBSET Functions : ReconcileCatalog(C)

GroupStep ==
  \E o \in People : \/ \E items \in SUBSET Functions : SaveGroup(o, items)
                   \/ BatchDeleteGroups(o)

AppointStep == \E p \in Procs : Appoint(p) \/ \E o, t \in People : AppointRead(p, o, t)

DemoteStep == \E p \in Procs : Demote(p) \/ \E o, t \in People : DemoteLock(p, o, t)

LifecycleStep ==
  \E p \in Procs :
    \/ \E o \in People, T \in SUBSET People : DeactivateRead(p, o, T)
    \/ DeactivateLock(p) \/ DeactivateRefused(p) \/ Deactivate(p)
    \/ \E o, t \in People : RestoreRead(p, o, t)
    \/ Restore(p)

AuthorityNext ==
  \/ ContextStep \/ FormStep \/ BatchStep \/ GroupStep
  \/ AppointStep \/ DemoteStep \/ LifecycleStep

AuthoritySpec == AuthorityInit /\ [][AuthorityNext]_authorityVars

-----------------------------------------------------------------------------
\* A cached context whose versions still match is what the tables say now: a
\* guard that reuses it decides as one that reads them (loadAuthContext).
CacheCurrent ==
  \A u \in People : cache[u] # None /\ ~Deleted(u) /\ cache[u].v = Versions(u) =>
    [super |-> cache[u].super, codes |-> cache[u].codes] = Context(u)

\* A permission version names one set of grants: as long as the version the
\* form was opened with holds, the form shows every grant its catalog has, and
\* a save that passes the version check takes away only what its author was
\* shown.  One exception: a function registered again between the form's read
\* of the catalog and the save's is taken away unseen (saveEmployeeGrants).
FormCurrent ==
  \A p \in Procs : op[p].step \in {"form", "saving", "save"} /\ op[p].pv = pv[op[p].target] =>
    /\ op[p].shown = grants[op[p].target] \cap op[p].listed
    /\ Doing(p, "save") => Replaced(p) \subseteq op[p].shown \cup (op[p].catalog \ op[p].listed)

\* The platform keeps a super administrator who can log in, whatever roles,
\* deactivations and restorations overlap, with one exception: a batch that
\* read its target before the target was appointed does not count it among
\* the super administrators it is about to remove (loadDeactivationTargets).
LastSuperStays ==
  [][ActiveSupers # {} /\ ActiveSupers' = {} =>
       \E p \in Procs : /\ Doing(p, "deactivate") /\ op'[p] = NoOp
                        /\ op[p].supers # op[p].targets \cap ActiveSupers]_authorityVars
=============================================================================
