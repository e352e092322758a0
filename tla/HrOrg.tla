------------------------------- MODULE HrOrg --------------------------------
(***************************************************************************)
(* The organisation kept by apps/hr: the department tree, positions and    *)
(* the departments they apply to, the members of departments, position     *)
(* applications and their approval, and what happens to all of it when an  *)
(* account is deactivated and restored by platform-core.                   *)
(*                                                                         *)
(* An operation is one PostgreSQL transaction at READ COMMITTED, and none  *)
(* of them locks what it reads.  It reads and decides in one step and      *)
(* writes in another (Commit...); what other transactions commit in        *)
(* between it does not see, or only in part.  Foreign keys and unique      *)
(* indexes are checked where the write happens, and a transaction they     *)
(* refuse is rolled back.  The lifecycle task reaches hr late, and as      *)
(* often as the outbox repeats it.                                         *)
(***************************************************************************)
EXTENDS Naturals, FiniteSets

CONSTANTS Departments, Positions, Employees, Applications, Txs,
          MaxLv,      \* bound on users.lifecycle_version
          NoDept, NoPos

ASSUME HrOrgAssumption == NoDept \notin Departments /\ NoPos \notin Positions

VARIABLES
  dept,      \* departments.status, ABSENT before the row, GONE after it
  parent,    \* departments.parent_id
  pos,       \* positions.status, ABSENT before the row, GONE after it
  selfApply, \* positions.allow_self_apply
  fits,      \* position_departments
  memberOf,  \* user_departments
  holds,     \* user_positions.position_id
  owned,     \* departments that assets of the asset service name
  app,       \* position change requests
  applied,   \* how often the effect of a request was applied
  acct,      \* users.status: ACTIVE or DEACTIVATED
  lv,        \* users.lifecycle_version
  restored,  \* the lifecycle version restoreApply last ran for
  tasks,     \* deactivation tasks that may still be delivered
  tx,        \* the transactions in progress
  overtaken  \* history: those of them a rival has committed during

tree == <<dept, parent>>
jobs == <<pos, selfApply, fits>>
staff == <<memberOf, holds>>
requests == <<app, applied>>
accounts == <<acct, lv, restored, tasks>>
hrOrgVars == <<tree, jobs, staff, owned, requests, accounts, tx, overtaken>>
progress == <<tx, overtaken>>

NoTx == [op |-> "none"]
NoApp == [status |-> "NONE"]
Exists(d) == dept[d] \in {"ACTIVE", "DISABLED"}
PositionExists(p) == pos[p] \in {"ACTIVE", "DISABLED"}

HrOrgInit ==
  /\ \E D \in SUBSET Departments : dept = [d \in Departments |-> IF d \in D THEN "ACTIVE" ELSE "ABSENT"]
  /\ parent = [d \in Departments |-> NoDept]
  /\ pos \in [Positions -> {"ABSENT", "ACTIVE"}]
  /\ selfApply = [p \in Positions |-> TRUE]
  /\ \E D \in SUBSET {d \in Departments : Exists(d)} :
       fits = [p \in Positions |-> IF PositionExists(p) THEN D ELSE {}]
  /\ memberOf = [u \in Employees |-> {}]
  /\ holds = [u \in Employees |-> NoPos]
  /\ owned = {}
  /\ app = [a \in Applications |-> NoApp]
  /\ applied = [a \in Applications |-> 0]
  /\ acct = [u \in Employees |-> "ACTIVE"]
  /\ lv = [u \in Employees |-> 0]
  /\ restored = [u \in Employees |-> 0]
  /\ tasks = {}
  /\ tx = [t \in Txs |-> NoTx]
  /\ overtaken = {}

Begin(t, o) ==
  /\ tx[t] = NoTx
  /\ tx' = [tx EXCEPT ![t] = o]
  /\ overtaken' = overtaken \ {t}

\* Two transactions that decide about the same thing: two moves in the tree;
\* a position's departments and any assignment; two assignments of one employee.
Assigning == {"assignDepartments", "assignPosition", "approve"}

Rival(o, c) ==
  \/ o.op = "moveDepartment" /\ c.op = "moveDepartment"
  \/ o.op = "positionDepartments" /\ c.op \in Assigning
  \/ o.op \in Assigning /\ c.op = "positionDepartments"
  \/ o.op \in Assigning /\ c.op \in Assigning /\ c.user = o.user

Ends(t) == tx' = [tx EXCEPT ![t] = NoTx]

Commits(t, op) ==
  /\ tx[t].op = op /\ Ends(t)
  /\ overtaken' = (overtaken \ {t}) \cup {s \in Txs \ {t} : Rival(tx[s], tx[t])}

\* A constraint refuses the write, a check fails, or the connection is lost.
RollBack(t) ==
  /\ tx[t] # NoTx /\ Ends(t)
  /\ overtaken' = overtaken \ {t}
  /\ UNCHANGED <<tree, jobs, staff, owned, requests, accounts>>

\* Rows are replaced by a deletion and an insertion.  Rows committed since they
\* were read ("seen") stay if the deletion began before that commit; the
\* unique index refuses to insert one of them again.
Missed(rows, seen, new) == {m \in {{}, rows \ seen} : m \cap new = {}}

-----------------------------------------------------------------------------
(* Departments: department.service.ts *)

\* isDescendant climbs from a department towards the root, past no department
\* twice: what it meets is the least set that holds d and climbs.
Climbs(C) == \A x \in C : parent[x] # NoDept => parent[x] \in C

Above(d) == {x \in Departments : \A C \in SUBSET Departments : d \in C /\ Climbs(C) => x \in C}

CreateDepartment(t, d, up) ==
  /\ dept[d] = "ABSENT"
  /\ up # NoDept => dept[up] = "ACTIVE"
  /\ Begin(t, [op |-> "createDepartment", dept |-> d, parent |-> up])
  /\ UNCHANGED <<tree, jobs, staff, owned, requests, accounts>>

\* Of update's fields only the status matters here.
UpdateDepartment(t, d, status) ==
  /\ Exists(d) /\ dept[d] # status
  /\ Begin(t, [op |-> "updateDepartment", dept |-> d, status |-> status])
  /\ UNCHANGED <<tree, jobs, staff, owned, requests, accounts>>

AnyParent(d, up) == up # d
NoDescendant(d, up) == d \notin Above(up)

MoveDepartment(t, d, up) ==
  /\ Exists(d) /\ parent[d] # up
  /\ up # NoDept => dept[up] = "ACTIVE" /\ NoDescendant(d, up)
  /\ Begin(t, [op |-> "moveDepartment", dept |-> d, parent |-> up])
  /\ UNCHANGED <<tree, jobs, staff, owned, requests, accounts>>

\* deleteBatch clears the assets of the departments over HTTP before its own
\* transaction commits.
DeleteDepartments(t, D) ==
  /\ D # {} /\ \A d \in D : Exists(d)
  /\ \A c \in Departments : Exists(c) => parent[c] \notin D
  /\ Begin(t, [op |-> "deleteDepartments", depts |-> D])
  /\ owned' = owned \ D
  /\ UNCHANGED <<tree, jobs, staff, requests, accounts>>

\* A department named by a foreign key is gone: the transaction fails.
Dangling(up) == up # NoDept /\ ~Exists(up)

CommitDepartment(t) ==
  /\ LET d == tx[t].dept
         up == tx[t].parent IN
       \/ /\ Commits(t, "createDepartment")
          /\ dept[d] = "ABSENT" /\ ~Dangling(up)
          /\ dept' = [dept EXCEPT ![d] = "ACTIVE"]
          /\ parent' = [parent EXCEPT ![d] = up]
       \/ /\ Commits(t, "updateDepartment")
          /\ Exists(d)
          /\ dept' = [dept EXCEPT ![d] = tx[t].status]
          /\ UNCHANGED parent
       \/ /\ Commits(t, "moveDepartment")
          /\ Exists(d) /\ ~Dangling(up)
          /\ parent' = [parent EXCEPT ![d] = up]
          /\ UNCHANGED dept
  /\ UNCHANGED <<jobs, staff, owned, requests, accounts>>

\* The parent's foreign key restricts, those of members and positions cascade.
CommitDeleteDepartments(t) ==
  /\ Commits(t, "deleteDepartments")
  /\ LET D == tx[t].depts IN
       /\ \A c \in Departments : Exists(c) => parent[c] \notin D
       /\ dept' = [d \in Departments |-> IF d \in D THEN "GONE" ELSE dept[d]]
       /\ parent' = [d \in Departments |-> IF d \in D THEN NoDept ELSE parent[d]]
       /\ fits' = [p \in Positions |-> fits[p] \ D]
       /\ memberOf' = [u \in Employees |-> memberOf[u] \ D]
  /\ UNCHANGED <<pos, selfApply, holds, owned, requests, accounts>>

\* The asset service gives an asset to a department it reads from hr.
AssignAsset(d) ==
  /\ Exists(d) /\ d \notin owned
  /\ owned' = owned \cup {d}
  /\ UNCHANGED <<tree, jobs, staff, requests, accounts, progress>>

-----------------------------------------------------------------------------
(* Positions: position.service.ts *)

\* assertDepartmentsExist: a disabled department stays if it is there already.
Selectable(D, current) == \A d \in D : Exists(d) /\ (dept[d] = "ACTIVE" \/ d \in current)

CreatePosition(t, p, D) ==
  /\ pos[p] = "ABSENT" /\ Selectable(D, {})
  /\ Begin(t, [op |-> "createPosition", pos |-> p, depts |-> D])
  /\ UNCHANGED <<tree, jobs, staff, owned, requests, accounts>>

UpdatePosition(t, p, status, self) ==
  /\ PositionExists(p) /\ <<pos[p], selfApply[p]>> # <<status, self>>
  /\ Begin(t, [op |-> "updatePosition", pos |-> p, status |-> status, self |-> self])
  /\ UNCHANGED <<tree, jobs, staff, owned, requests, accounts>>

NobodyAsked(p, D) == TRUE
HoldersFit(p, D) == \A u \in Employees : holds[u] = p => memberOf[u] \subseteq D

UpdatePositionDepartments(t, p, D) ==
  /\ PositionExists(p) /\ fits[p] # D /\ Selectable(D, fits[p])
  /\ HoldersFit(p, D)
  /\ Begin(t, [op |-> "positionDepartments", pos |-> p, depts |-> D, seen |-> fits[p]])
  /\ UNCHANGED <<tree, jobs, staff, owned, requests, accounts>>

DeletePositions(t, P) ==
  /\ P # {} /\ \A p \in P : PositionExists(p)
  /\ Begin(t, [op |-> "deletePositions", poses |-> P])
  /\ UNCHANGED <<tree, jobs, staff, owned, requests, accounts>>

CommitPosition(t) ==
  /\ LET p == tx[t].pos IN
       \/ /\ Commits(t, "createPosition")
          /\ pos[p] = "ABSENT" /\ \A d \in tx[t].depts : Exists(d)
          /\ pos' = [pos EXCEPT ![p] = "ACTIVE"]
          /\ selfApply' = [selfApply EXCEPT ![p] = FALSE]
          /\ fits' = [fits EXCEPT ![p] = tx[t].depts]
       \/ /\ Commits(t, "updatePosition")
          /\ PositionExists(p)
          /\ pos' = [pos EXCEPT ![p] = tx[t].status]
          /\ selfApply' = [selfApply EXCEPT ![p] = tx[t].self]
          /\ UNCHANGED fits
       \/ /\ Commits(t, "positionDepartments")
          /\ PositionExists(p) /\ \A d \in tx[t].depts : Exists(d)
          /\ \E m \in Missed(fits[p], tx[t].seen, tx[t].depts) :
               fits' = [fits EXCEPT ![p] = tx[t].depts \cup m]
          /\ UNCHANGED <<pos, selfApply>>
  /\ UNCHANGED <<tree, staff, owned, requests, accounts>>

\* user_positions.position_id is set to null.
CommitDeletePositions(t) ==
  /\ Commits(t, "deletePositions")
  /\ LET P == tx[t].poses IN
       /\ pos' = [p \in Positions |-> IF p \in P THEN "GONE" ELSE pos[p]]
       /\ fits' = [p \in Positions |-> IF p \in P THEN {} ELSE fits[p]]
       /\ holds' = [u \in Employees |-> IF holds[u] \in P THEN NoPos ELSE holds[u]]
  /\ UNCHANGED <<tree, selfApply, memberOf, owned, requests, accounts>>

-----------------------------------------------------------------------------
(* Members: org-structure.service.ts *)

AssignDepartments(t, u, D) ==
  /\ memberOf[u] # D /\ \A d \in D : dept[d] = "ACTIVE"
  /\ holds[u] # NoPos => D \subseteq fits[holds[u]]
  /\ Begin(t, [op |-> "assignDepartments", user |-> u, depts |-> D, seen |-> memberOf[u]])
  /\ UNCHANGED <<tree, jobs, staff, owned, requests, accounts>>

AssignPosition(t, u, p) ==
  /\ holds[u] # p /\ pos[p] = "ACTIVE"
  /\ memberOf[u] \subseteq fits[p]
  /\ Begin(t, [op |-> "assignPosition", user |-> u, pos |-> p])
  /\ UNCHANGED <<tree, jobs, staff, owned, requests, accounts>>

CommitStaff(t) ==
  /\ LET u == tx[t].user IN
       \/ /\ Commits(t, "assignDepartments")
          /\ \A d \in tx[t].depts : Exists(d)
          /\ \E m \in Missed(memberOf[u], tx[t].seen, tx[t].depts) :
               memberOf' = [memberOf EXCEPT ![u] = tx[t].depts \cup m]
          /\ UNCHANGED holds
       \/ /\ Commits(t, "assignPosition")
          /\ PositionExists(tx[t].pos)
          /\ holds' = [holds EXCEPT ![u] = tx[t].pos]
          /\ UNCHANGED memberOf
  /\ UNCHANGED <<tree, jobs, owned, requests, accounts>>

-----------------------------------------------------------------------------
(* Position applications: position-application.service.ts and the approval *)
(* of hr-approval.service.ts.                                               *)

Available(d, p) == dept[d] = "ACTIVE" /\ pos[p] = "ACTIVE" /\ selfApply[p] /\ d \in fits[p]

\* assertSubmittable.  The session guard let the request in; the account may
\* be deactivated before it commits.
Submit(t, u, d, p) ==
  /\ acct[u] = "ACTIVE"
  /\ Cardinality(memberOf[u]) <= 1
  /\ Available(d, p)
  /\ Begin(t, [op |-> "submit", user |-> u, dept |-> d, pos |-> p])
  /\ UNCHANGED <<tree, jobs, staff, owned, requests, accounts>>

Pending(a) == app[a].status = "PENDING"

\* createRequestHead; the partial unique index allows one pending request.
\* "at" stands for submitted_at: the lifecycle version of that moment.
CommitSubmit(t, a) ==
  /\ Commits(t, "submit")
  /\ app[a] = NoApp
  /\ LET u == tx[t].user IN
       /\ ~\E b \in Applications : Pending(b) /\ app[b].user = u
       /\ app' = [app EXCEPT ![a] = [status |-> "PENDING", user |-> u, dept |-> tx[t].dept,
                                     pos |-> tx[t].pos, at |-> lv[u]]]
  /\ UNCHANGED <<tree, jobs, staff, owned, applied, accounts>>

\* process: the head is read, then assertApplicantActive.
Approve(t, a) ==
  /\ Pending(a) /\ acct[app[a].user] = "ACTIVE"
  /\ Begin(t, [op |-> "deciding", app |-> a, user |-> app[a].user, dept |-> app[a].dept,
               pos |-> app[a].pos])
  /\ UNCHANGED <<tree, jobs, staff, owned, requests, accounts>>

\* apply reads the applicant's departments and the target once more.
CheckApproval(t) ==
  /\ tx[t].op = "deciding"
  /\ LET u == tx[t].user IN
       /\ Cardinality(memberOf[u]) <= 1 /\ Available(tx[t].dept, tx[t].pos)
       /\ tx' = [tx EXCEPT ![t] = [op |-> "approve", app |-> @.app, user |-> u, dept |-> @.dept,
                                   pos |-> @.pos, seen |-> memberOf[u]]]
  /\ UNCHANGED <<tree, jobs, staff, owned, requests, accounts, overtaken>>

\* process with REJECT, and cancel by the applicant.
Close(t, a, status) ==
  /\ Pending(a)
  /\ Begin(t, [op |-> "close", app |-> a, status |-> status])
  /\ UNCHANGED <<tree, jobs, staff, owned, requests, accounts>>

\* updateMany ... WHERE status = 'PENDING' AND version = the one read: it holds
\* the head's row until the end, so its outcome is that of the commit.
AnyHead(a) == TRUE
HeadUnchanged(a) == Pending(a)

CommitApprove(t) ==
  /\ Commits(t, "approve")
  /\ LET a == tx[t].app
         u == tx[t].user
         d == tx[t].dept IN
       /\ HeadUnchanged(a) /\ Exists(d) /\ PositionExists(tx[t].pos)
       /\ app' = [app EXCEPT ![a].status = "APPROVED"]
       /\ applied' = [applied EXCEPT ![a] = @ + 1]
       /\ \E m \in Missed(memberOf[u], tx[t].seen, {d}) : memberOf' = [memberOf EXCEPT ![u] = {d} \cup m]
       /\ holds' = [holds EXCEPT ![u] = tx[t].pos]
  /\ UNCHANGED <<tree, jobs, owned, accounts>>

CommitClose(t) ==
  /\ Commits(t, "close")
  /\ Pending(tx[t].app)
  /\ app' = [app EXCEPT ![tx[t].app].status = tx[t].status]
  /\ UNCHANGED <<tree, jobs, staff, owned, applied, accounts>>

-----------------------------------------------------------------------------
(* Deactivation and restoration: platform-core's user-lifecycle.service.ts, *)
(* the worker's account-lifecycle task, hr's lifecycle.service.ts.          *)

DeactivateAccount(u) ==
  /\ acct[u] = "ACTIVE" /\ lv[u] < MaxLv
  /\ acct' = [acct EXCEPT ![u] = "DEACTIVATED"]
  /\ lv' = [lv EXCEPT ![u] = @ + 1]
  /\ tasks' = tasks \cup {[user |-> u, at |-> lv[u] + 1]}
  /\ UNCHANGED <<tree, jobs, staff, owned, requests, restored, progress>>

AllPending(a, at) == TRUE
SubmittedBy(a, at) == app[a].at < at

\* cancelPendingPositionApplications: submitted_at <= deactivated_at.
Cancelled(u, at) ==
  [a \in Applications |->
     IF Pending(a) /\ app[a].user = u /\ SubmittedBy(a, at)
       THEN [status |-> "CANCELLED", user |-> u, dept |-> app[a].dept, pos |-> app[a].pos,
             at |-> app[a].at, auto |-> at]
       ELSE app[a]]

\* processAccountLifecycle; the outbox may run it again.
RunLifecycleTask(k) ==
  /\ k \in tasks
  /\ app' = Cancelled(k.user, k.at)
  /\ tasks' \in {tasks, tasks \ {k}}
  /\ UNCHANGED <<tree, jobs, staff, owned, applied, acct, lv, restored, progress>>

Kept(u) == {d \in memberOf[u] : dept[d] = "ACTIVE"}

\* computeCompatibility
PositionCleared(u) ==
  \/ Kept(u) = {}
  \/ pos[holds[u]] # "ACTIVE"
  \/ ~(Kept(u) \subseteq fits[holds[u]])

RestoreApply(u) ==
  /\ acct[u] = "DEACTIVATED" /\ lv[u] < MaxLv
  /\ app' = Cancelled(u, lv[u])
  /\ memberOf' = [memberOf EXCEPT ![u] = Kept(u)]
  /\ holds' = [holds EXCEPT ![u] = IF @ # NoPos /\ PositionCleared(u) THEN NoPos ELSE @]
  /\ restored' = [restored EXCEPT ![u] = lv[u]]
  /\ UNCHANGED <<tree, jobs, owned, applied, acct, lv, tasks, progress>>

\* confirmRestore's own transaction, after hr has answered.
RestoreAccount(u) ==
  /\ acct[u] = "DEACTIVATED" /\ restored[u] = lv[u]
  /\ acct' = [acct EXCEPT ![u] = "ACTIVE"]
  /\ lv' = [lv EXCEPT ![u] = @ + 1]
  /\ UNCHANGED <<tree, jobs, staff, owned, requests, restored, tasks, progress>>

-----------------------------------------------------------------------------
DisablingStep ==
  \E t \in Txs :
    \/ \E d \in Departments, status \in {"ACTIVE", "DISABLED"} : UpdateDepartment(t, d, status)
    \/ CommitDepartment(t)

ClosingStep ==
  \E t \in Txs : CommitDeleteDepartments(t) \/ \E D \in SUBSET Departments : DeleteDepartments(t, D)

TreeStep ==
  \/ DisablingStep \/ ClosingStep
  \/ \E t \in Txs, d \in Departments, up \in Departments \cup {NoDept} :
       CreateDepartment(t, d, up) \/ MoveDepartment(t, d, up)

AssetStep == \E d \in Departments : AssignAsset(d)

PositionStatusStep ==
  \E t \in Txs :
    \/ \E p \in Positions, status \in {"ACTIVE", "DISABLED"}, self \in BOOLEAN :
         UpdatePosition(t, p, status, self)
    \/ CommitPosition(t)

PositionStep ==
  \E t \in Txs :
    \/ \E p \in Positions, D \in SUBSET Departments :
         CreatePosition(t, p, D) \/ UpdatePositionDepartments(t, p, D)
    \/ \E P \in SUBSET Positions : DeletePositions(t, P)
    \/ CommitPosition(t) \/ CommitDeletePositions(t)

StaffStep ==
  \E t \in Txs :
    \/ \E u \in Employees : \/ \E D \in SUBSET Departments : AssignDepartments(t, u, D)
                            \/ \E p \in Positions : AssignPosition(t, u, p)
    \/ CommitStaff(t)

ApplicationStep ==
  \E t \in Txs :
    \/ \E u \in Employees, d \in Departments, p \in Positions : Submit(t, u, d, p)
    \/ \E a \in Applications :
         \/ CommitSubmit(t, a) \/ Approve(t, a)
         \/ \E status \in {"REJECTED", "CANCELLED"} : Close(t, a, status)
    \/ CheckApproval(t) \/ CommitApprove(t) \/ CommitClose(t)

AccountLifecycle ==
  \/ \E u \in Employees : DeactivateAccount(u) \/ RestoreApply(u) \/ RestoreAccount(u)
  \/ \E k \in tasks : RunLifecycleTask(k)

RollBackStep == \E t \in Txs : RollBack(t)

HrOrgNext ==
  \/ TreeStep \/ AssetStep \/ PositionStatusStep \/ PositionStep
  \/ StaffStep \/ ApplicationStep \/ AccountLifecycle \/ RollBackStep

HrOrgSpec == HrOrgInit /\ [][HrOrgNext]_hrOrgVars

-----------------------------------------------------------------------------
\* The employee's position applies to all of the employee's departments.
Fits(u) == holds[u] # NoPos => memberOf[u] \subseteq fits[holds[u]]

\* The department is not above itself.
InOrder(d) == parent[d] # NoDept => d \notin Above(parent[d])

Overtook(ops, t) == tx[t].op \in ops /\ t \in overtaken /\ tx'[t] = NoTx

\* A position that stops fitting its holder, and a department that comes to be
\* above itself, are the work of one commit that a rival overtook: nothing in
\* the code keeps two of them apart (updateDepartments, assignDepartments,
\* assignPosition, apply; move).  No other overlap does it, no cascade,
\* restoration or late approval, and no operation that nothing overtook.
OrganisationSound ==
  [][/\ \A u \in Employees : Fits(u) /\ ~Fits(u)' =>
          \E t \in Txs : Overtook(Assigning \cup {"positionDepartments"}, t)
     /\ \A d \in Departments : InOrder(d) /\ ~InOrder(d)' =>
          \E t \in Txs : Overtook({"moveDepartment"}, t)]_hrOrgVars

\* The effect of a request is applied exactly once if it was approved and
\* never otherwise, whoever decides at the same time (process, cancel,
\* cancelPendingPositionApplications).
ApprovedApplied ==
  \A a \in Applications : applied[a] = IF app[a].status = "APPROVED" THEN 1 ELSE 0

\* An account that is back has no pending application from before its
\* deactivation, however late the task, and the task of an earlier
\* deactivation never cancels what was submitted since (restoreApply,
\* cancelPendingPositionApplications).
RestoredClean ==
  \A a \in Applications :
    /\ Pending(a) /\ acct[app[a].user] = "ACTIVE" => app[a].at + 1 >= lv[app[a].user]
    /\ "auto" \in DOMAIN app[a] => app[a].at < app[a].auto
=============================================================================
