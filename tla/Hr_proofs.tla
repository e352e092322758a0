------------------------------ MODULE Hr_proofs ------------------------------
(***************************************************************************)
(* apps/hr for any number of employees, departments, applications,         *)
(* transactions and submissions: an approved application takes effect      *)
(* once, a restored account has no application of an earlier life, the     *)
(* organisation stays sound unless two operations on the same thing        *)
(* overlap, an idempotency key creates one overtime batch, and no two      *)
(* batches that stand overlap.                                             *)
(***************************************************************************)
EXTENDS HrOrg, HrOvertime, TLAPS

-----------------------------------------------------------------------------
(* Position applications.                                                  *)

(* A request head, and one that a deactivation has cancelled.              *)
Plain(s, u, d, p, n) == [status |-> s, user |-> u, dept |-> d, pos |-> p, at |-> n]
Swept(u, d, p, n, k) ==
  [status |-> "CANCELLED", user |-> u, dept |-> d, pos |-> p, at |-> n, auto |-> k]

IsPlain(h) == \E s, d, p : \E u \in Employees, n \in Nat : h = Plain(s, u, d, p, n)
IsAuto(h) == \E u, d, p, n, k : n < k /\ h = Swept(u, d, p, n, k)
IsHead(h) == h = NoApp \/ IsPlain(h) \/ IsAuto(h)

LEMMA HeadFields ==
  /\ NoApp.status = "NONE" /\ "auto" \notin DOMAIN NoApp
  /\ \A s, u, d, p, n :
       /\ Plain(s, u, d, p, n).status = s /\ Plain(s, u, d, p, n).user = u
       /\ Plain(s, u, d, p, n).at = n /\ "auto" \notin DOMAIN Plain(s, u, d, p, n)
  /\ \A u, d, p, n, k :
       /\ Swept(u, d, p, n, k).status = "CANCELLED"
       /\ Swept(u, d, p, n, k).at = n /\ Swept(u, d, p, n, k).auto = k
  BY DEF NoApp, Plain, Swept

LEMMA Decided ==
  ASSUME NEW h, IsPlain(h), NEW x
  PROVE  /\ IsPlain([h EXCEPT !.status = x]) /\ [h EXCEPT !.status = x].status = x
<1>1. PICK s, u, d, p, n : u \in Employees /\ n \in Nat /\ h = Plain(s, u, d, p, n)
  BY DEF IsPlain
<1>2. [h EXCEPT !.status = x] = Plain(x, u, d, p, n)
  BY <1>1 DEF Plain
<1>3. IsPlain(Plain(x, u, d, p, n))
  BY <1>1 DEF IsPlain
<1> QED
  BY <1>2, <1>3, HeadFields

(* What a pending application's moment of submission says about the lives  *)
(* of its account: not before the present one, nor, once hr has prepared   *)
(* the restoration, before the deactivation.                               *)
Since(h) ==
  /\ acct[h.user] = "ACTIVE" => h.at + 1 >= lv[h.user]
  /\ acct[h.user] = "DEACTIVATED" /\ restored[h.user] = lv[h.user] => h.at >= lv[h.user]

Sound(h) == IsHead(h) /\ (h.status = "PENDING" => IsPlain(h) /\ Since(h))
Count(h) == IF h.status = "APPROVED" THEN 1 ELSE 0

TxFits(o) ==
  /\ o.op = "submit" => o.user \in Employees
  /\ o.op \in {"deciding", "approve", "close"} => o.app \in Applications
  /\ o.op = "close" => o.status \in {"REJECTED", "CANCELLED"}

TxsFit == (\E S : tx \in [Txs -> S]) /\ \A t \in Txs : TxFits(tx[t])

AccountsTyped ==
  /\ acct \in [Employees -> {"ACTIVE", "DEACTIVATED"}]
  /\ lv \in [Employees -> Nat] /\ restored \in [Employees -> Nat]
  /\ \A u \in Employees : restored[u] <= lv[u]

HeadsSound ==
  /\ \E S : app \in [Applications -> S]
  /\ applied \in [Applications -> Nat]
  /\ \A a \in Applications : Sound(app[a]) /\ applied[a] = Count(app[a])

AppInv == TxsFit /\ AccountsTyped /\ HeadsSound

LEMMA PendingIsPlain ==
  ASSUME AppInv, NEW a \in Applications, Pending(a)
  PROVE  IsPlain(app[a]) /\ app[a].user \in Employees /\ app[a].at \in Nat
<1>1. IsPlain(app[a])
  BY DEF AppInv, HeadsSound, Sound, Pending
<1> QED
  BY <1>1, HeadFields DEF IsPlain

(* Transactions come and go.                                               *)
LEMMA OneTx ==
  ASSUME TxsFit, NEW t \in Txs, NEW o, TxFits(o), tx' = [tx EXCEPT ![t] = o]
  PROVE  TxsFit'
<1>1. PICK S : tx \in [Txs -> S]
  BY DEF TxsFit
<1>2. tx' \in [Txs -> S \cup {o}]
  BY <1>1
<1>3. \A x \in Txs : TxFits(tx'[x])
  BY <1>1 DEF TxsFit
<1> QED
  BY <1>2, <1>3 DEF TxsFit

LEMMA NoTxFits == TxFits(NoTx)
  BY DEF TxFits, NoTx

(* The applications stay as they are.                                      *)
LEMMA AppsStay ==
  ASSUME AppInv, TxsFit', UNCHANGED <<app, applied, acct, lv, restored>>
  PROVE  AppInv'
  BY DEF AppInv, AccountsTyped, HeadsSound, Sound, Since

(* One application gets another head.                                      *)
LEMMA OneHead ==
  ASSUME AppInv, TxsFit', UNCHANGED <<acct, lv, restored>>,
         NEW a \in Applications, NEW h, Sound(h), app' = [app EXCEPT ![a] = h],
         applied' = [applied EXCEPT ![a] = Count(h)]
  PROVE  AppInv'
<1>1. PICK S : app \in [Applications -> S]
  BY DEF AppInv, HeadsSound
<1>2. app' \in [Applications -> S \cup {h}] /\ app'[a] = h
      /\ \A b \in Applications \ {a} : app'[b] = app[b]
  BY <1>1
<1>3. applied \in [Applications -> Nat] /\ Count(h) \in Nat
  BY DEF AppInv, HeadsSound, Count
<1>4. applied' \in [Applications -> Nat] /\ applied'[a] = Count(h)
      /\ \A b \in Applications \ {a} : applied'[b] = applied[b]
  BY <1>3
<1>5. \A x : Sound(x) => Sound(x)'
  BY DEF Sound, Since
<1>6. HeadsSound'
  BY <1>2, <1>4, <1>5 DEF AppInv, HeadsSound
<1>7. AccountsTyped'
  BY DEF AppInv, AccountsTyped
<1> QED
  BY <1>6, <1>7 DEF AppInv

(* The organisation's editors: any transaction but those of applications.  *)
LEMMA EditorSteps ==
  ASSUME AppInv, TreeStep \/ AssetStep \/ PositionStatusStep \/ PositionStep \/ StaffStep \/ RollBackStep
  PROVE  AppInv'
<1>1. ASSUME NEW t \in Txs, NEW o, TxFits(o), tx' = [tx EXCEPT ![t] = o], UNCHANGED <<requests, accounts>>
      PROVE  AppInv'
  BY <1>1, OneTx, AppsStay DEF AppInv, requests, accounts
<1>2. ASSUME NEW t \in Txs, NEW o, o.op \notin {"submit", "deciding", "approve", "close"}, Begin(t, o),
             UNCHANGED <<requests, accounts>>
      PROVE  AppInv'
  BY <1>1, <1>2 DEF Begin, TxFits
<1>3. ASSUME NEW t \in Txs, NEW op, Commits(t, op), UNCHANGED <<requests, accounts>> PROVE AppInv'
  BY <1>1, <1>3, NoTxFits DEF Commits, Ends
<1>4. ASSUME NEW t \in Txs, CommitDepartment(t) \/ CommitDeleteDepartments(t) \/ CommitPosition(t)
                            \/ CommitDeletePositions(t) \/ CommitStaff(t)
      PROVE  AppInv'
  BY <1>3, <1>4 DEF CommitDepartment, CommitDeleteDepartments, CommitPosition, CommitDeletePositions,
                    CommitStaff
<1>5. ASSUME NEW t \in Txs, NEW d, NEW x,
             \/ CreateDepartment(t, d, x) \/ UpdateDepartment(t, d, x) \/ MoveDepartment(t, d, x)
             \/ DeleteDepartments(t, x) \/ CreatePosition(t, d, x) \/ UpdatePositionDepartments(t, d, x)
             \/ DeletePositions(t, x) \/ AssignDepartments(t, d, x) \/ AssignPosition(t, d, x)
             \/ \E y : UpdatePosition(t, d, x, y)
      PROVE  AppInv'
  <2>1. PICK o : Begin(t, o) /\ o.op \notin {"submit", "deciding", "approve", "close"}
                /\ UNCHANGED <<requests, accounts>>
    <3>1. CASE CreateDepartment(t, d, x)
      BY <3>1 DEF CreateDepartment
    <3>2. CASE UpdateDepartment(t, d, x)
      BY <3>2 DEF UpdateDepartment
    <3>3. CASE MoveDepartment(t, d, x)
      BY <3>3 DEF MoveDepartment
    <3>4. CASE DeleteDepartments(t, x)
      BY <3>4 DEF DeleteDepartments
    <3>5. CASE CreatePosition(t, d, x)
      BY <3>5 DEF CreatePosition
    <3>6. CASE UpdatePositionDepartments(t, d, x)
      BY <3>6 DEF UpdatePositionDepartments
    <3>7. CASE DeletePositions(t, x)
      BY <3>7 DEF DeletePositions
    <3>8. CASE AssignDepartments(t, d, x)
      BY <3>8 DEF AssignDepartments
    <3>9. CASE AssignPosition(t, d, x)
      BY <3>9 DEF AssignPosition
    <3>10. CASE \E y : UpdatePosition(t, d, x, y)
      BY <3>10 DEF UpdatePosition
    <3> QED
      BY <1>5, <3>1, <3>2, <3>3, <3>4, <3>5, <3>6, <3>7, <3>8, <3>9, <3>10
  <2> QED
    BY <1>2, <2>1
<1>6. ASSUME NEW d, AssignAsset(d) PROVE AppInv'
  <2>1. UNCHANGED <<requests, accounts, tx>>
    BY <1>6 DEF AssignAsset, progress
  <2>2. TxsFit'
    BY <2>1 DEF AppInv, TxsFit
  <2> QED
    BY <2>1, <2>2, AppsStay DEF requests, accounts
<1>7. ASSUME NEW t \in Txs, RollBack(t) PROVE AppInv'
  BY <1>1, <1>7, NoTxFits DEF RollBack, Ends
<1> QED
  BY <1>4, <1>5, <1>6, <1>7
     DEF TreeStep, ClosingStep, DisablingStep, AssetStep, PositionStatusStep, PositionStep, StaffStep,
         RollBackStep

(* Submission, approval, rejection and cancellation by the applicant.      *)
LEMMA ApplicationSteps ==
  ASSUME AppInv, ApplicationStep
  PROVE  AppInv'
<1>1. ASSUME NEW t \in Txs, NEW o, TxFits(o), Begin(t, o), UNCHANGED <<requests, accounts>>
      PROVE  AppInv'
  BY <1>1, OneTx, AppsStay DEF AppInv, requests, accounts, Begin
<1>2. ASSUME NEW t \in Txs, NEW u \in Employees, NEW d, NEW p, Submit(t, u, d, p) PROVE AppInv'
  <2>1. TxFits([op |-> "submit", user |-> u, dept |-> d, pos |-> p])
    BY DEF TxFits
  <2> QED
    BY <1>1, <1>2, <2>1 DEF Submit
<1>3. ASSUME NEW t \in Txs, NEW a \in Applications, Approve(t, a) PROVE AppInv'
  <2>1. TxFits([op |-> "deciding", app |-> a, user |-> app[a].user, dept |-> app[a].dept, pos |-> app[a].pos])
    BY DEF TxFits
  <2> QED
    BY <1>1, <1>3, <2>1 DEF Approve
<1>4. ASSUME NEW t \in Txs, NEW a \in Applications, NEW status \in {"REJECTED", "CANCELLED"},
             Close(t, a, status)
      PROVE  AppInv'
  <2>1. TxFits([op |-> "close", app |-> a, status |-> status])
    BY DEF TxFits
  <2> QED
    BY <1>1, <1>4, <2>1 DEF Close
<1>5. ASSUME NEW t \in Txs, NEW op, Commits(t, op) PROVE TxsFit' /\ tx[t].op = op /\ TxFits(tx[t])
  BY <1>5, OneTx, NoTxFits DEF AppInv, Commits, Ends, TxsFit
<1>6. ASSUME NEW t \in Txs, NEW a \in Applications, CommitSubmit(t, a) PROVE AppInv'
  <2> DEFINE u == tx[t].user
             h == [status |-> "PENDING", user |-> u, dept |-> tx[t].dept, pos |-> tx[t].pos, at |-> lv[u]]
  <2>1. TxsFit' /\ u \in Employees /\ UNCHANGED <<applied, acct, lv, restored>> /\ app[a] = NoApp
    BY <1>5, <1>6 DEF CommitSubmit, TxFits, accounts
  <2>2. lv[u] \in Nat /\ restored[u] <= lv[u]
    BY <2>1 DEF AppInv, AccountsTyped
  <2>3. h = Plain("PENDING", u, tx[t].dept, tx[t].pos, lv[u])
    BY DEF Plain
  <2>4. app' = [app EXCEPT ![a] = h]
    BY <1>6 DEF CommitSubmit
  <2> HIDE DEF h, u
  <2>5. Sound(h) /\ Count(h) = 0
    <3>1. IsPlain(h) /\ h.status = "PENDING" /\ h.user = u /\ h.at = lv[u]
      BY <2>1, <2>2, <2>3, HeadFields DEF IsPlain
    <3> QED
      BY <2>2, <3>1 DEF Sound, IsHead, Since, Count
  <2>6. applied' = [applied EXCEPT ![a] = Count(h)]
    BY <2>1, <2>5, HeadFields DEF AppInv, HeadsSound, Count
  <2> QED
    BY <2>1, <2>4, <2>5, <2>6, OneHead
<1>7. ASSUME NEW a \in Applications, Pending(a), NEW x, x # "PENDING"
      PROVE  LET h == [app[a] EXCEPT !.status = x]
             IN  Sound(h) /\ Count(h) = (IF x = "APPROVED" THEN 1 ELSE 0) /\ applied[a] = 0
  <2> DEFINE h == [app[a] EXCEPT !.status = x]
  <2>1. IsPlain(h) /\ h.status = x
    BY <1>7, PendingIsPlain, Decided
  <2>2. applied[a] = 0
    BY <1>7 DEF AppInv, HeadsSound, Count, Pending
  <2> HIDE DEF h
  <2>3. Sound(h) /\ Count(h) = IF x = "APPROVED" THEN 1 ELSE 0
    BY <1>7, <2>1 DEF Sound, IsHead, Count
  <2> QED
    BY <2>2, <2>3 DEF h
<1>8. ASSUME NEW t \in Txs, CommitApprove(t) PROVE AppInv'
  <2> DEFINE a == tx[t].app
             h == [app[a] EXCEPT !.status = "APPROVED"]
  <2>1. TxsFit' /\ a \in Applications /\ UNCHANGED <<acct, lv, restored>>
    BY <1>5, <1>8 DEF CommitApprove, TxFits, accounts
  <2>2. /\ Pending(a) /\ app' = [app EXCEPT ![a].status = "APPROVED"]
        /\ applied' = [applied EXCEPT ![a] = @ + 1]
    BY <1>8 DEF CommitApprove, HeadUnchanged
  <2>3. app' = [app EXCEPT ![a] = h]
    BY <2>2
  <2>4. Sound(h) /\ Count(h) = 1 /\ applied[a] = 0
    BY <1>7, <2>1, <2>2
  <2> HIDE DEF h, a
  <2>5. applied' = [applied EXCEPT ![a] = Count(h)]
    BY <2>2, <2>4
  <2> QED
    BY <2>1, <2>3, <2>4, <2>5, OneHead
<1>9. ASSUME NEW t \in Txs, CommitClose(t) PROVE AppInv'
  <2> DEFINE a == tx[t].app
             h == [app[a] EXCEPT !.status = tx[t].status]
  <2>1. TxsFit' /\ a \in Applications /\ tx[t].status \in {"REJECTED", "CANCELLED"}
        /\ UNCHANGED <<applied, acct, lv, restored>>
    BY <1>5, <1>9 DEF CommitClose, TxFits, accounts
  <2>2. Pending(a) /\ app' = [app EXCEPT ![a].status = tx[t].status]
    BY <1>9 DEF CommitClose
  <2>3. app' = [app EXCEPT ![a] = h]
    BY <2>2
  <2>4. Sound(h) /\ Count(h) = 0 /\ applied[a] = 0
    BY <1>7, <2>1, <2>2
  <2>5. applied' = [applied EXCEPT ![a] = Count(h)]
    BY <2>1, <2>4 DEF AppInv, HeadsSound
  <2> HIDE DEF h, a
  <2> QED
    BY <2>1, <2>3, <2>4, <2>5, OneHead
<1>10. ASSUME NEW t \in Txs, CheckApproval(t) PROVE AppInv'
  <2>1. PICK o : /\ tx' = [tx EXCEPT ![t] = o] /\ o.op = "approve" /\ o.app = tx[t].app
                 /\ tx[t].op = "deciding" /\ UNCHANGED <<requests, accounts>>
    BY <1>10 DEF CheckApproval
  <2>2. TxFits(o)
    BY <2>1 DEF AppInv, TxsFit, TxFits
  <2> QED
    BY <2>1, <2>2, OneTx, AppsStay DEF AppInv, requests, accounts
<1> QED
  BY <1>2, <1>3, <1>4, <1>6, <1>8, <1>9, <1>10 DEF ApplicationStep

(* Deactivation cancels what is pending, whoever asks for it.              *)
LEMMA CancelledSound ==
  ASSUME AppInv, NEW u, NEW life, NEW a \in Applications
  PROVE  /\ IsHead(Cancelled(u, life)[a])
         /\ Count(Cancelled(u, life)[a]) = Count(app[a])
         /\ Cancelled(u, life)[a].status = "PENDING" =>
              /\ Cancelled(u, life)[a] = app[a] /\ Pending(a)
              /\ ~(app[a].user = u /\ app[a].at < life)
<1> DEFINE h == Cancelled(u, life)[a]
<1>1. CASE Pending(a) /\ app[a].user = u /\ SubmittedBy(a, life)
  <2>1. h = Swept(u, app[a].dept, app[a].pos, app[a].at, life)
    BY <1>1 DEF Cancelled, Swept
  <2>2. app[a].at < life
    BY <1>1 DEF SubmittedBy
  <2>3. IsAuto(h) /\ h.status = "CANCELLED"
    BY <2>1, <2>2, HeadFields DEF IsAuto
  <2> HIDE DEF h
  <2>4. IsHead(h) /\ Count(h) = Count(app[a])
    BY <1>1, <2>3 DEF IsHead, Count, Pending
  <2> QED
    BY <2>3, <2>4 DEF h
<1>2. CASE ~(Pending(a) /\ app[a].user = u /\ SubmittedBy(a, life))
  <2>1. h = app[a]
    BY <1>2 DEF Cancelled
  <2> QED
    BY <1>2, <2>1 DEF AppInv, HeadsSound, Sound, Pending, SubmittedBy
<1> QED
  BY <1>1, <1>2

(* An account goes and comes back.                                         *)
LEMMA LifecycleSteps ==
  ASSUME AppInv, AccountLifecycle
  PROVE  AppInv'
<1>1. UNCHANGED tx => TxsFit'
  BY DEF AppInv, TxsFit
<1>2. /\ acct \in [Employees -> {"ACTIVE", "DEACTIVATED"}]
      /\ lv \in [Employees -> Nat] /\ restored \in [Employees -> Nat]
      /\ \A u \in Employees : restored[u] <= lv[u]
  BY DEF AppInv, AccountsTyped
<1>3. ASSUME NEW a \in Applications, Pending(a)
      PROVE  IsPlain(app[a]) /\ app[a].user \in Employees /\ app[a].at \in Nat /\ Since(app[a])
  BY <1>3, PendingIsPlain DEF AppInv, HeadsSound, Sound, Pending
<1>4. ASSUME UNCHANGED app, \A a \in Applications : Pending(a) => Since(app[a])', UNCHANGED applied
      PROVE  HeadsSound'
  BY <1>4 DEF AppInv, HeadsSound, Sound, Pending
<1>5. ASSUME NEW u, NEW life, app' = Cancelled(u, life), UNCHANGED applied,
             \A a \in Applications : \A h :
               h = app[a] /\ Pending(a) /\ ~(h.user = u /\ h.at < life) => Since(h)'
      PROVE  HeadsSound'
  <2>1. \A a \in Applications : Sound(app[a])' /\ applied[a] = Count(app'[a])
    <3> SUFFICES ASSUME NEW a \in Applications
                 PROVE  Sound(app[a])' /\ applied[a] = Count(app'[a])
      OBVIOUS
    <3>1. /\ IsHead(app'[a]) /\ Count(app'[a]) = Count(app[a])
          /\ app'[a].status = "PENDING" =>
               app'[a] = app[a] /\ Pending(a) /\ ~(app[a].user = u /\ app[a].at < life)
      BY <1>5, CancelledSound
    <3>2. ASSUME app'[a].status = "PENDING" PROVE IsPlain(app'[a]) /\ Since(app[a])'
      <4>1. PICK h : h = app[a]
        OBVIOUS
      <4>2. Since(h)' /\ IsPlain(h) /\ app'[a] = h
        BY <1>3, <1>5, <3>1, <3>2, <4>1
      <4> QED
        BY <4>2
    <3>3. applied[a] = Count(app[a])
      BY DEF AppInv, HeadsSound
    <3> QED
      BY <3>1, <3>2, <3>3 DEF Sound
  <2>2. \E S : app' \in [Applications -> S]
    <3>1. Cancelled(u, life) \in [Applications -> {Cancelled(u, life)[a] : a \in Applications}]
      BY DEF Cancelled
    <3> QED
      BY <1>5, <3>1
  <2> QED
    BY <1>5, <2>1, <2>2 DEF AppInv, HeadsSound
<1>6. ASSUME NEW u \in Employees, DeactivateAccount(u) PROVE AppInv'
  <2>1. /\ acct' = [acct EXCEPT ![u] = "DEACTIVATED"] /\ lv' = [lv EXCEPT ![u] = @ + 1]
        /\ UNCHANGED <<app, applied, restored, tx>>
    BY <1>6 DEF DeactivateAccount, requests, progress
  <2>2. AccountsTyped'
    BY <1>2, <2>1 DEF AccountsTyped
  <2>3. \A a \in Applications : Pending(a) => Since(app[a])'
    BY <1>2, <1>3, <2>1 DEF Since
  <2> QED
    BY <1>1, <1>4, <2>1, <2>2, <2>3 DEF AppInv
<1>7. ASSUME NEW u \in Employees, RestoreApply(u) PROVE AppInv'
  <2>1. /\ app' = Cancelled(u, lv[u]) /\ restored' = [restored EXCEPT ![u] = lv[u]]
        /\ UNCHANGED <<applied, acct, lv, tx>> /\ acct[u] = "DEACTIVATED"
    BY <1>7 DEF RestoreApply, progress
  <2>2. AccountsTyped'
    BY <1>2, <2>1 DEF AccountsTyped
  <2>3. \A a \in Applications : \A h :
          h = app[a] /\ Pending(a) /\ ~(h.user = u /\ h.at < lv[u]) => Since(h)'
    BY <1>2, <1>3, <2>1 DEF Since
  <2> QED
    BY <1>1, <1>5, <2>1, <2>2, <2>3 DEF AppInv
<1>8. ASSUME NEW u \in Employees, RestoreAccount(u) PROVE AppInv'
  <2>1. /\ acct' = [acct EXCEPT ![u] = "ACTIVE"] /\ lv' = [lv EXCEPT ![u] = @ + 1]
        /\ acct[u] = "DEACTIVATED" /\ restored[u] = lv[u]
        /\ UNCHANGED <<app, applied, restored, tx>>
    BY <1>8 DEF RestoreAccount, requests, progress
  <2>2. AccountsTyped'
    BY <1>2, <2>1 DEF AccountsTyped
  <2>3. \A a \in Applications : Pending(a) => Since(app[a])'
    BY <1>2, <1>3, <2>1 DEF Since
  <2> QED
    BY <1>1, <1>4, <2>1, <2>2, <2>3 DEF AppInv
<1>9. ASSUME NEW k, RunLifecycleTask(k) PROVE AppInv'
  <2>1. app' = Cancelled(k.user, k.at) /\ UNCHANGED <<applied, acct, lv, restored, tx>>
    BY <1>9 DEF RunLifecycleTask, progress
  <2>2. AccountsTyped'
    BY <2>1 DEF AppInv, AccountsTyped
  <2>3. \A a \in Applications : \A h : h = app[a] /\ Pending(a) => Since(h)'
    BY <1>3, <2>1 DEF Since
  <2> QED
    BY <1>1, <1>5, <2>1, <2>2, <2>3 DEF AppInv
<1> QED
  BY <1>6, <1>7, <1>8, <1>9 DEF AccountLifecycle

LEMMA AppInvAlways == HrOrgSpec => []AppInv
<1>1. HrOrgInit => AppInv
  <2> SUFFICES ASSUME HrOrgInit PROVE AppInv
    OBVIOUS
  <2>1. TxsFit
    BY NoTxFits DEF HrOrgInit, TxsFit
  <2>2. AccountsTyped
    BY DEF HrOrgInit, AccountsTyped
  <2>3. Sound(NoApp) /\ Count(NoApp) = 0
    BY HeadFields DEF Sound, IsHead, Count
  <2>4. app \in [Applications -> {NoApp}] /\ applied = [a \in Applications |-> 0]
    BY DEF HrOrgInit
  <2>5. HeadsSound
    BY <2>3, <2>4 DEF HeadsSound
  <2> QED
    BY <2>1, <2>2, <2>5 DEF AppInv
<1>2. AppInv /\ [HrOrgNext]_hrOrgVars => AppInv'
  <2> SUFFICES ASSUME AppInv, [HrOrgNext]_hrOrgVars PROVE AppInv'
    OBVIOUS
  <2>1. CASE UNCHANGED hrOrgVars
    <3>1. UNCHANGED <<tx, app, applied, acct, lv, restored>>
      BY <2>1 DEF hrOrgVars, requests, accounts
    <3>2. TxsFit'
      BY <3>1 DEF AppInv, TxsFit
    <3> QED
      BY <3>1, <3>2, AppsStay
  <2> QED
    BY <2>1, EditorSteps, ApplicationSteps, LifecycleSteps DEF HrOrgNext
<1> QED
  BY <1>1, <1>2, PTL DEF HrOrgSpec

(* ApprovedApplied for any number of applications and transactions: the    *)
(* effect is written with the change of a status that is still pending.    *)
THEOREM AlwaysApprovedApplied == HrOrgSpec => []ApprovedApplied
<1>1. AppInv => ApprovedApplied
  BY DEF AppInv, HeadsSound, Count, ApprovedApplied
<1> QED
  BY <1>1, AppInvAlways, PTL

(* RestoredClean for any number of employees and lives, and however often  *)
(* and late the tasks of their deactivations run: hr cancels, before the   *)
(* account is restored, what was submitted before it was deactivated.      *)
THEOREM AlwaysRestoredClean == HrOrgSpec => []RestoredClean
<1>1. ASSUME AppInv, NEW a \in Applications
      PROVE  /\ Pending(a) /\ acct[app[a].user] = "ACTIVE" => app[a].at + 1 >= lv[app[a].user]
             /\ "auto" \in DOMAIN app[a] => app[a].at < app[a].auto
  <2>1. Sound(app[a])
    BY <1>1 DEF AppInv, HeadsSound
  <2>2. "auto" \in DOMAIN app[a] => IsAuto(app[a])
    BY <2>1, HeadFields DEF Sound, IsHead, IsPlain
  <2> QED
    BY <2>1, <2>2, HeadFields DEF Sound, Since, Pending, IsAuto
<1>2. AppInv => RestoredClean
  BY <1>1 DEF RestoredClean
<1> QED
  BY <1>2, AppInvAlways, PTL

-----------------------------------------------------------------------------
(* Overtime.                                                               *)

(* A submission has its request once it is done, and what was sent stays.  *)
KeyInv ==
  /\ (\E S : at \in [Submissions -> S]) /\ \E S : sent \in [Submissions -> S]
  /\ \E S : decision \in [Submissions -> S]
  /\ \A s \in Submissions : decision[s] # "NONE" => at[s] = "created"
  /\ OncePerKey

(* A submission that moves without creating anything.                      *)
LEMMA MovesOn ==
  ASSUME KeyInv, NEW s \in Submissions, NEW from, NEW to, from # "created", Moves(s, from, to),
         UNCHANGED <<sent, decision>>
  PROVE  KeyInv'
<1>1. PICK S : at \in [Submissions -> S]
  BY DEF KeyInv
<1>2. at' \in [Submissions -> S \cup {to}]
  BY <1>1 DEF Moves
<1>3. \A r \in Submissions : decision'[r] # "NONE" => at'[r] = "created"
  BY <1>1 DEF KeyInv, Moves
<1> QED
  BY <1>2, <1>3 DEF KeyInv, OncePerKey, SameKey

(* OncePerKey for any submissions, lists, slots and keys, though the log   *)
(* is read without a lock: a commit finds the key in the unique index.     *)
THEOREM AlwaysOncePerKey == HrOvertimeSpec => []OncePerKey
<1>1. HrOvertimeInit => KeyInv
  <2> SUFFICES ASSUME HrOvertimeInit PROVE KeyInv
    OBVIOUS
  <2>1. /\ sent \in [Submissions -> {NotSent}] /\ at \in [Submissions -> {"unsent"}]
        /\ decision \in [Submissions -> {"NONE"}]
    BY DEF HrOvertimeInit
  <2> QED
    BY <2>1 DEF KeyInv, OncePerKey
<1>2. KeyInv /\ [HrOvertimeNext]_overtimeVars => KeyInv'
  <2> SUFFICES ASSUME KeyInv, [HrOvertimeNext]_overtimeVars PROVE KeyInv'
    OBVIOUS
  <2>1. ASSUME UNCHANGED <<sent, at, decision>> PROVE KeyInv'
    BY <2>1 DEF KeyInv, OncePerKey, SameKey
  <2>2. ASSUME NEW s \in Submissions, ResolveHoliday(s) \/ TryReplay(s) \/ Lock(s) \/ CheckOverlap(s)
        PROVE  KeyInv'
    BY <2>1, <2>2, MovesOn DEF ResolveHoliday, TryReplay, Lock, CheckOverlap
  <2>3. ASSUME NEW s \in Submissions, NEW o, NEW l, NEW slot, NEW k, SubmitOvertime(s, o, l, slot, k)
        PROVE  KeyInv'
    <3> DEFINE body == [operator |-> o, users |-> l, slot |-> slot, key |-> k]
    <3>1. PICK S : sent \in [Submissions -> S]
      BY DEF KeyInv
    <3>2. /\ at[s] = "unsent" /\ sent' = [sent EXCEPT ![s] = body] /\ UNCHANGED decision
          /\ \E to : Moves(s, "unsent", to)
      BY <2>3 DEF SubmitOvertime, Moves
    <3>3. decision[s] = "NONE"
      BY <3>2 DEF KeyInv
    <3> HIDE DEF body
    <3>4. sent' \in [Submissions -> S \cup {body}] /\ \A r \in Submissions \ {s} : sent'[r] = sent[r]
      BY <3>1, <3>2
    <3>5. (\E T : at' \in [Submissions -> T])
          /\ \A r \in Submissions : decision'[r] # "NONE" => at'[r] = "created"
      <4>1. PICK T : at \in [Submissions -> T]
        BY DEF KeyInv
      <4>2. PICK to : at' = [at EXCEPT ![s] = to]
        BY <3>2 DEF Moves
      <4>3. at' \in [Submissions -> T \cup {to}]
        BY <4>1, <4>2
      <4> QED
        BY <3>2, <3>3, <4>1, <4>2, <4>3 DEF KeyInv
    <3>6. OncePerKey'
      BY <3>2, <3>3, <3>4 DEF KeyInv, OncePerKey, SameKey
    <3> QED
      BY <3>2, <3>4, <3>5, <3>6 DEF KeyInv
  <2>4. ASSUME NEW s \in Submissions, Commit(s) PROVE KeyInv'
    <3>1. CASE ~KeyFree(s)
      BY <2>4, <3>1, MovesOn DEF Commit
    <3>2. CASE KeyFree(s)
      <4>1. /\ at' = [at EXCEPT ![s] = "created"] /\ UNCHANGED sent
            /\ decision' = [decision EXCEPT ![s] = "PENDING"]
        BY <2>4, <3>2 DEF Commit, Moves
      <4>2. PICK S, T : at \in [Submissions -> S] /\ decision \in [Submissions -> T]
        BY DEF KeyInv
      <4>3. at' \in [Submissions -> S \cup {"created"}] /\ decision' \in [Submissions -> T \cup {"PENDING"}]
        BY <4>1, <4>2
      <4>4. \A r \in Submissions : decision'[r] # "NONE" => at'[r] = "created"
        BY <4>1, <4>2 DEF KeyInv
      <4>5. \A r \in Submissions : decision[r] # "NONE" => ~SameKey(s, r)
        BY <3>2 DEF KeyFree, Logged
      <4>6. OncePerKey'
        BY <4>1, <4>2, <4>5 DEF KeyInv, OncePerKey, SameKey
      <4> QED
        BY <4>1, <4>3, <4>4, <4>6 DEF KeyInv
    <3> QED
      BY <3>1, <3>2
  <2>5. ASSUME NEW s \in Submissions, NEW c, NEW status, Process(s, c, status) PROVE KeyInv'
    <3>1. /\ decision[s] = "PENDING" /\ decision' = [decision EXCEPT ![s] = status]
          /\ UNCHANGED <<sent, at>>
      BY <2>5 DEF Process
    <3>2. PICK T : decision \in [Submissions -> T]
      BY DEF KeyInv
    <3>3. decision' \in [Submissions -> T \cup {status}]
          /\ \A r \in Submissions : decision'[r] # "NONE" => decision[r] # "NONE"
      BY <3>1, <3>2
    <3> QED
      BY <3>1, <3>3 DEF KeyInv, OncePerKey, SameKey
  <2>6. ASSUME NEW u, LosesEligibility(u) PROVE KeyInv'
    BY <2>1, <2>6 DEF LosesEligibility
  <2>7. CASE UNCHANGED overtimeVars
    BY <2>1, <2>7 DEF overtimeVars
  <2> QED
    BY <2>2, <2>3, <2>4, <2>5, <2>6, <2>7 DEF HrOvertimeNext, SubmissionStep
<1>3. KeyInv => OncePerKey
  BY DEF KeyInv
<1> QED
  BY <1>1, <1>2, <1>3, PTL DEF HrOvertimeSpec

(* Whoever writes holds the locks of all its employees and has found them  *)
(* free, and no lock has two holders.                                      *)
Writers ==
  \A s \in Submissions : at[s] = "writing" =>
    /\ ToSet(sent[s].users) \subseteq held[s]
    /\ \A u \in ToSet(sent[s].users) : ~Taken(u, sent[s].slot)

OneHolder == \A s, r \in Submissions : s # r => held[s] \cap held[r] = {}

OverlapInv ==
  /\ held = [s \in Submissions |-> held[s]] /\ at = [s \in Submissions |-> at[s]]
  /\ sent = [s \in Submissions |-> sent[s]] /\ decision = [s \in Submissions |-> decision[s]]
  /\ \A s \in Submissions : decision[s] # "NONE" => at[s] = "created"
  /\ OneHolder /\ Writers /\ NoOverlap

(* Two lines overlap whichever of them is looked at first.                 *)
LEMMA OverlapsBoth == \A a, b : Overlaps(a, b) <=> Overlaps(b, a)
BY DEF Overlaps

(* A submission moves, nobody begins to write, and no request changes.     *)
LEMMA OthersWait ==
  ASSUME OverlapInv, NEW s \in Submissions, NEW to, at[s] # "unsent", at[s] # "created", to # "writing",
         at' = [at EXCEPT ![s] = to], to # "unsent",
         UNCHANGED <<sent, decision>>, held' = [held EXCEPT ![s] = {}] \/ UNCHANGED held
  PROVE  OverlapInv'
<1>1. /\ at' = [r \in Submissions |-> at'[r]] /\ held' = [r \in Submissions |-> held'[r]]
      /\ \A r \in Submissions \ {s} : at'[r] = at[r] /\ held'[r] = held[r]
      /\ at'[s] = to
      /\ held'[s] \subseteq held[s]
  BY DEF OverlapInv
<1>2. OneHolder'
  BY <1>1 DEF OverlapInv, OneHolder
<1>3. Writers'
  BY <1>1 DEF OverlapInv, Writers, Taken
<1>4. NoOverlap'
  BY DEF OverlapInv, NoOverlap
<1> QED
  BY <1>1, <1>2, <1>3, <1>4 DEF OverlapInv

LEMMA OverlapStep ==
  ASSUME OverlapInv, [HrOvertimeNext]_overtimeVars
  PROVE  OverlapInv'
<1>1. ASSUME NEW s \in Submissions, ResolveHoliday(s) \/ TryReplay(s) PROVE OverlapInv'
  <2>1. PICK to : at' = [at EXCEPT ![s] = to] /\ to \notin {"writing", "unsent"} /\ at[s] \notin {"unsent", "created"}
    BY <1>1 DEF ResolveHoliday, TryReplay, Moves, Replayed
  <2> QED
    BY <1>1, <2>1, OthersWait DEF ResolveHoliday, TryReplay
<1>2. ASSUME NEW s \in Submissions, Lock(s) PROVE OverlapInv'
  <2>1. PICK u \in Unlocked(s) : (\A r \in Submissions : u \notin held[r]) /\ held' = [held EXCEPT ![s] = @ \cup {u}]
    BY <1>2 DEF Lock, NextLock
  <2>2. /\ held' = [r \in Submissions |-> held'[r]]
        /\ held'[s] = held[s] \cup {u} /\ \A r \in Submissions \ {s} : held'[r] = held[r]
    BY <2>1 DEF OverlapInv
  <2>3. OneHolder'
    BY <2>1, <2>2 DEF OverlapInv, OneHolder
  <2> QED
    BY <1>2, <2>2, <2>3 DEF Lock, OverlapInv, Writers, Taken, NoOverlap
<1>3. ASSUME NEW s \in Submissions, CheckOverlap(s) PROVE OverlapInv'
  <2> DEFINE free == \A u \in ToSet(sent[s].users) : ~Taken(u, sent[s].slot)
  <2>1. at[s] = "locking" /\ ToSet(sent[s].users) \subseteq held[s] /\ UNCHANGED <<sent, decision>>
    BY <1>3 DEF CheckOverlap, AllLocked, Unlocked
  <2>2. CASE free
    <3>1. at' = [at EXCEPT ![s] = "writing"] /\ UNCHANGED held
      BY <1>3, <2>2 DEF CheckOverlap, Moves
    <3>2. /\ at' = [r \in Submissions |-> at'[r]]
          /\ at'[s] = "writing" /\ \A r \in Submissions \ {s} : at'[r] = at[r]
      BY <3>1 DEF OverlapInv
    <3>3. Writers'
      BY <2>1, <2>2, <3>1, <3>2 DEF OverlapInv, Writers, Taken
    <3> QED
      BY <2>1, <3>1, <3>2, <3>3 DEF OverlapInv, OneHolder, NoOverlap
  <2>3. CASE ~free
    <3>1. at' = [at EXCEPT ![s] = "refused"] /\ held' = [held EXCEPT ![s] = {}]
      BY <1>3, <2>3 DEF CheckOverlap, Moves, Unlock
    <3> QED
      BY <2>1, <3>1, OthersWait
  <2> QED
    BY <2>2, <2>3
<1>4. ASSUME NEW s \in Submissions, NEW o, NEW l, NEW slot, NEW k, SubmitOvertime(s, o, l, slot, k)
      PROVE  OverlapInv'
  <2>1. PICK body : body = [operator |-> o, users |-> l, slot |-> slot, key |-> k]
    OBVIOUS
  <2>2. PICK to : at' = [at EXCEPT ![s] = to] /\ to \in {"valid", "refused"} /\ at[s] = "unsent"
    BY <1>4 DEF SubmitOvertime, Moves
  <2>3. sent' = [sent EXCEPT ![s] = body] /\ UNCHANGED <<held, decision>>
    BY <1>4, <2>1 DEF SubmitOvertime
  <2>4. /\ at' = [r \in Submissions |-> at'[r]] /\ sent' = [r \in Submissions |-> sent'[r]]
        /\ at'[s] = to /\ sent'[s] = body
        /\ \A r \in Submissions \ {s} : at'[r] = at[r] /\ sent'[r] = sent[r]
    BY <2>2, <2>3 DEF OverlapInv
  <2>5. decision[s] = "NONE" /\ at'[s] # "writing"
    BY <2>2, <2>4 DEF OverlapInv
  <2>6. Writers'
    BY <2>3, <2>4, <2>5 DEF OverlapInv, Writers, Taken
  <2>7. NoOverlap'
    BY <2>3, <2>4, <2>5 DEF OverlapInv, NoOverlap
  <2> QED
    BY <2>1, <2>3, <2>4, <2>5, <2>6, <2>7 DEF OverlapInv, OneHolder
<1>5. ASSUME NEW s \in Submissions, Commit(s) PROVE OverlapInv'
  <2>1. at[s] = "writing" /\ UNCHANGED sent /\ held' = [held EXCEPT ![s] = {}]
    BY <1>5 DEF Commit, Moves, Unlock
  <2>2. CASE ~KeyFree(s)
    <3>1. PICK to : at' = [at EXCEPT ![s] = to] /\ to \in {"replayed", "refused"}
      BY <1>5, <2>2 DEF Commit, Moves, Replayed
    <3> QED
      BY <1>5, <2>1, <2>2, <3>1, OthersWait DEF Commit
  <2>3. CASE KeyFree(s)
    <3>1. at' = [at EXCEPT ![s] = "created"] /\ decision' = [decision EXCEPT ![s] = "PENDING"]
      BY <1>5, <2>3 DEF Commit, Moves
    <3>2. /\ at' = [r \in Submissions |-> at'[r]] /\ decision' = [r \in Submissions |-> decision'[r]]
          /\ held' = [r \in Submissions |-> held'[r]]
          /\ at'[s] = "created" /\ decision'[s] = "PENDING" /\ held'[s] = {}
          /\ \A r \in Submissions \ {s} : at'[r] = at[r] /\ decision'[r] = decision[r] /\ held'[r] = held[r]
      BY <2>1, <3>1 DEF OverlapInv
    <3>3. OneHolder'
      BY <3>2 DEF OverlapInv, OneHolder
    <3>4. \A r \in Submissions \ {s} : at[r] = "writing" => ToSet(sent[r].users) \cap ToSet(sent[s].users) = {}
      BY <2>1 DEF OverlapInv, OneHolder, Writers
    <3>5. \A r \in Submissions \ {s} : at[r] = "writing" => \A u \in ToSet(sent[r].users) : ~Taken(u, sent[r].slot)'
      BY <2>1, <3>2, <3>4 DEF OverlapInv, Writers, Taken
    <3>6. Writers'
      BY <2>1, <3>2, <3>5 DEF OverlapInv, Writers
    <3>7. ASSUME NEW r \in Submissions \ {s}, decision[r] \in {"PENDING", "APPROVED"},
                 ToSet(sent[s].users) \cap ToSet(sent[r].users) # {}
          PROVE  ~Overlaps(sent[s].slot, sent[r].slot) /\ ~Overlaps(sent[r].slot, sent[s].slot)
      BY <2>1, <3>7, OverlapsBoth DEF OverlapInv, Writers, Taken
    <3>8. NoOverlap'
      BY <2>1, <3>2, <3>7 DEF OverlapInv, NoOverlap
    <3> QED
      BY <2>1, <3>2, <3>3, <3>6, <3>8 DEF OverlapInv
  <2> QED
    BY <2>2, <2>3
<1>6. ASSUME NEW s \in Submissions, NEW c, NEW status, Process(s, c, status) PROVE OverlapInv'
  <2>1. /\ decision[s] = "PENDING" /\ decision' = [decision EXCEPT ![s] = status] /\ UNCHANGED <<sent, at, held>>
    BY <1>6 DEF Process
  <2>2. /\ decision' = [r \in Submissions |-> decision'[r]]
        /\ \A r \in Submissions : decision'[r] # decision[r] => decision[r] = "PENDING"
    BY <2>1 DEF OverlapInv
  <2>3. Writers'
    BY <2>1, <2>2 DEF OverlapInv, Writers, Taken
  <2>4. NoOverlap'
    BY <2>1, <2>2 DEF OverlapInv, NoOverlap
  <2> QED
    BY <2>1, <2>2, <2>3, <2>4 DEF OverlapInv, OneHolder
<1>7. ASSUME UNCHANGED <<sent, at, held, decision>> PROVE OverlapInv'
  BY <1>7 DEF OverlapInv, OneHolder, Writers, Taken, NoOverlap
<1>8. ASSUME NEW u, LosesEligibility(u) PROVE OverlapInv'
  BY <1>7, <1>8 DEF LosesEligibility
<1>9. CASE UNCHANGED overtimeVars
  BY <1>7, <1>9 DEF overtimeVars
<1> QED
  BY <1>1, <1>2, <1>3, <1>4, <1>5, <1>6, <1>8, <1>9 DEF HrOvertimeNext, SubmissionStep

(* NoOverlap for any submissions, lists of employees and slots: the locks  *)
(* of all employees are held from the check until the commit.              *)
THEOREM AlwaysNoOverlap == HrOvertimeSpec => []NoOverlap
<1>1. HrOvertimeInit => OverlapInv
  BY DEF HrOvertimeInit, OverlapInv, OneHolder, Writers, NoOverlap
<1>2. OverlapInv /\ [HrOvertimeNext]_overtimeVars => OverlapInv'
  BY OverlapStep
<1>3. OverlapInv => NoOverlap
  BY DEF OverlapInv
<1> QED
  BY <1>1, <1>2, <1>3, PTL DEF HrOvertimeSpec

-----------------------------------------------------------------------------
(* The organisation.                                                       *)

(* What each operation names.                                              *)
Asked(o) ==
  /\ o.op = "createDepartment" => o.dept \in Departments /\ o.parent \in Departments \cup {NoDept}
  /\ o.op = "updateDepartment" => o.status \in {"ACTIVE", "DISABLED"}
  /\ o.op = "moveDepartment" => o.dept \in Departments /\ o.parent \in Departments \cup {NoDept}
  /\ o.op = "deleteDepartments" => o.depts \subseteq Departments
  /\ o.op = "updatePosition" => o.status \in {"ACTIVE", "DISABLED"}
  /\ o.op = "positionDepartments" => o.pos \in Positions
  /\ o.op = "deletePositions" => o.poses \subseteq Positions
  /\ o.op = "assignDepartments" => o.user \in Employees /\ o.depts \subseteq Departments
  /\ o.op = "assignPosition" => o.user \in Employees /\ o.pos \in Positions
  /\ o.op = "close" => o.app \in Applications /\ o.status # "PENDING"
  /\ o.op \in {"submit", "deciding", "approve"} =>
       o.user \in Employees /\ o.dept \in Departments /\ o.pos \in Positions

(* What an operation has found when it decided, as far as it is still true *)
(* when it writes, or else the write fails.                                *)
MoveStands(o) ==
  o.parent # NoDept => dept[o.parent] # "ABSENT" /\ o.dept \notin Above(o.parent)
DepartmentsStand(o) ==
  /\ memberOf[o.user] \subseteq o.seen
  /\ holds[o.user] # NoPos => \A d \in o.depts : d \in fits[holds[o.user]] \/ dept[d] = "GONE"
PositionStands(o) ==
  pos[o.pos] = "GONE" \/ (PositionExists(o.pos) /\ memberOf[o.user] \subseteq fits[o.pos])
ApprovalStands(o) ==
  /\ memberOf[o.user] \subseteq o.seen
  /\ dept[o.dept] = "GONE" \/ pos[o.pos] = "GONE" \/ (PositionExists(o.pos) /\ o.dept \in fits[o.pos])

Stands(o) ==
  /\ o.op = "moveDepartment" => MoveStands(o)
  /\ o.op = "positionDepartments" => HoldersFit(o.pos, o.depts)
  /\ o.op = "assignDepartments" => DepartmentsStand(o)
  /\ o.op = "assignPosition" => PositionStands(o)
  /\ o.op = "approve" => ApprovalStands(o)

(* It stands for every transaction no rival has overtaken.                 *)
TxInv ==
  /\ tx = [t \in Txs |-> tx[t]]
  /\ \A t \in Txs : Asked(tx[t]) /\ (t \notin overtaken => Stands(tx[t]))

(* The tree: every parent exists.                                          *)
TreeInv ==
  /\ dept = [d \in Departments |-> dept[d]] /\ parent \in [Departments -> Departments \cup {NoDept}]
  /\ \A d \in Departments : parent[d] # NoDept => Exists(d) /\ Exists(parent[d])

(* The staff: who holds a position holds one that exists.                  *)
StaffInv ==
  /\ pos = [p \in Positions |-> pos[p]] /\ fits = [p \in Positions |-> fits[p]]
  /\ memberOf = [u \in Employees |-> memberOf[u]] /\ holds = [u \in Employees |-> holds[u]]
  /\ \A u \in Employees : holds[u] # NoPos => holds[u] \in Positions /\ PositionExists(holds[u])

(* A pending application names an employee, a department and a position.   *)
Names(h) ==
  h.status = "PENDING" => \E n : \E u \in Employees, d \in Departments, p \in Positions :
                            h = Plain("PENDING", u, d, p, n)

NamesInv == app = [a \in Applications |-> app[a]] /\ \A a \in Applications : Names(app[a])

OrgInv == TxInv /\ TreeInv /\ StaffInv /\ NamesInv

(* What a step does to the employees and to the tree.                      *)
StepSound ==
  /\ \A u \in Employees : Fits(u) /\ ~Fits(u)' =>
       \E t \in Txs : Overtook(Assigning \cup {"positionDepartments"}, t)
  /\ \A d \in Departments : InOrder(d) /\ ~InOrder(d)' =>
       \E t \in Txs : Overtook({"moveDepartment"}, t)

(* Another set closed under the parent relation: d is not above up if one  *)
(* holds up without d, and if d is not above up there is one.              *)
LEMMA ClosedSet ==
  ASSUME NEW d \in Departments, NEW up
  PROVE  d \notin Above(up) <=> \E C \in SUBSET Departments : up \in C /\ Climbs(C) /\ d \notin C
BY DEF Above

(* The tree loses edges: what was not above is not above.                  *)
LEMMA EdgesGo ==
  ASSUME parent \in [Departments -> Departments \cup {NoDept}],
         parent' \in [Departments -> Departments \cup {NoDept}],
         \A d \in Departments : parent'[d] \in {parent[d], NoDept},
         NEW x \in Departments, NEW up, x \notin Above(up)
  PROVE  x \notin Above(up)'
<1>1. PICK C \in SUBSET Departments : up \in C /\ Climbs(C) /\ x \notin C
  BY ClosedSet
<1>2. Climbs(C)'
  BY <1>1 DEF Climbs
<1> QED
  BY <1>1, <1>2 DEF Above

(* A department moves below one it is not above.                           *)
LEMMA EdgeComes ==
  ASSUME parent \in [Departments -> Departments \cup {NoDept}],
         NEW d \in Departments, NEW up \in Departments, d \notin Above(up),
         parent' = [parent EXCEPT ![d] = up],
         NEW x \in Departments, InOrder(x)
  PROVE  InOrder(x)'
<1>1. PICK U \in SUBSET Departments : up \in U /\ Climbs(U) /\ d \notin U
  BY ClosedSet
<1>2. parent'[d] = up /\ \A y \in Departments \ {d} : parent'[y] = parent[y]
  OBVIOUS
<1>3. Climbs(U)'
  BY <1>1, <1>2 DEF Climbs
<1>4. ASSUME parent'[x] # NoDept PROVE x \notin Above(parent[x])'
  <2>1. CASE x = d
    BY <1>1, <1>2, <1>3, <2>1 DEF Above
  <2>2. CASE x # d
    <3>1. parent'[x] = parent[x] /\ parent[x] # NoDept
      BY <1>2, <1>4, <2>2
    <3>2. PICK A \in SUBSET Departments : parent[x] \in A /\ Climbs(A) /\ x \notin A
      BY <1>4, <3>1, ClosedSet DEF InOrder
    <3>3. ASSUME NEW C \in SUBSET Departments, parent[x] \in C, x \notin C, Climbs(C)'
          PROVE  x \notin Above(parent[x])'
      BY <1>4, <3>1, <3>3 DEF Above
    <3>4. CASE x \in U
      <4>1. Climbs(U \cap A)'
        BY <1>1, <1>2, <3>2 DEF Climbs
      <4>2. parent[x] \in U
        BY <1>1, <3>1, <3>4 DEF Climbs
      <4> QED
        BY <3>2, <3>3, <4>1, <4>2
    <3>5. CASE x \notin U
      <4>1. Climbs(U \cup A)'
        BY <1>1, <1>2, <3>2 DEF Climbs
      <4> QED
        BY <3>2, <3>3, <3>5, <4>1
    <3> QED
      BY <3>4, <3>5
  <2> QED
    BY <2>1, <2>2
<1> QED
  BY <1>4 DEF InOrder

(* A new department is below nothing's climb: no parent names it yet.      *)
LEMMA LeafComes ==
  ASSUME TreeInv, NEW d \in Departments, dept[d] = "ABSENT", NEW up \in Departments \cup {NoDept},
         up # d, parent' = [parent EXCEPT ![d] = up],
         NEW x \in Departments, NEW y \in Departments, y # d, x \notin Above(y)
  PROVE  x \notin Above(y)'
<1>1. PICK C \in SUBSET Departments : y \in C /\ Climbs(C) /\ x \notin C
  BY ClosedSet
<1>2. \A c \in Departments : parent[c] # d
  BY HrOrgAssumption DEF TreeInv, Exists
<1>3. Climbs(C \ {d})'
  BY <1>1, <1>2 DEF Climbs, TreeInv
<1> QED
  BY <1>1, <1>3 DEF Above

LEMMA TreeSame ==
  ASSUME TreeInv, UNCHANGED <<dept, parent>>
  PROVE  TreeInv' /\ \A d \in Departments : InOrder(d) => InOrder(d)'
BY DEF TreeInv, InOrder, Above, Climbs, Exists

LEMMA StaffSame ==
  ASSUME StaffInv, UNCHANGED <<pos, fits, memberOf, holds>>
  PROVE  StaffInv' /\ \A u \in Employees : Fits(u) => Fits(u)'
BY DEF StaffInv, Fits, PositionExists

LEMMA NamesSame ==
  ASSUME NamesInv, UNCHANGED app
  PROVE  NamesInv'
BY DEF NamesInv, Names

LEMMA StandsSame ==
  ASSUME UNCHANGED <<dept, parent, pos, fits, memberOf, holds>>, NEW x, Stands(x)
  PROVE  Stands(x)'
BY DEF Stands, MoveStands, DepartmentsStand, PositionStands, ApprovalStands, HoldersFit, PositionExists,
       Above, Climbs

(* A transaction begins, goes on or is rolled back.                        *)
LEMMA TxChanges ==
  ASSUME OrgInv, NEW t \in Txs, NEW o, Asked(o), Stands(o), tx' = [tx EXCEPT ![t] = o],
         overtaken \ {t} \subseteq overtaken',
         UNCHANGED <<dept, parent, pos, fits, memberOf, holds, app>>
  PROVE  OrgInv' /\ StepSound
<1>1. tx' = [s \in Txs |-> tx'[s]] /\ tx'[t] = o /\ \A s \in Txs \ {t} : tx'[s] = tx[s]
  BY DEF OrgInv, TxInv
<1>2. \A x : Stands(x) => Stands(x)'
  BY StandsSame
<1>3. \A s \in Txs : Asked(tx'[s]) /\ (s \notin overtaken' => Stands(tx'[s]))
  BY <1>1 DEF OrgInv, TxInv
<1>4. TxInv'
  BY <1>1, <1>2, <1>3 DEF TxInv, Asked
<1> QED
  BY <1>4, TreeSame, StaffSame, NamesSame DEF OrgInv, StepSound

LEMMA OrgBegins ==
  ASSUME OrgInv, NEW t \in Txs, NEW o, Asked(o), Stands(o), Begin(t, o),
         UNCHANGED <<tree, jobs, staff, requests>>
  PROVE  OrgInv' /\ StepSound
BY TxChanges DEF Begin, tree, jobs, staff, requests

(* A transaction commits: what it overtakes need not stand any more.       *)
LEMMA OrgCommits ==
  ASSUME OrgInv, NEW t \in Txs, NEW op, op # "none", Commits(t, op),
         \A x : Asked(x) /\ Stands(x) /\ ~Rival(x, tx[t]) => Stands(x)'
  PROVE  TxInv'
<1>1. tx' = [s \in Txs |-> tx'[s]] /\ tx'[t] = NoTx /\ \A s \in Txs \ {t} : tx'[s] = tx[s]
  BY DEF OrgInv, TxInv, Commits, Ends
<1>2. Asked(NoTx) /\ Stands(NoTx)'
  BY DEF Asked, Stands, NoTx
<1>3. ASSUME NEW s \in Txs \ {t}, s \notin overtaken' PROVE Stands(tx[s]) /\ ~Rival(tx[s], tx[t])
  BY <1>3 DEF OrgInv, TxInv, Commits
<1>4. ASSUME NEW s \in Txs PROVE Asked(tx'[s]) /\ (s \notin overtaken' => Stands(tx[s])')
  <2>1. PICK x : x = tx[s]
    OBVIOUS
  <2>2. CASE s = t
    BY <1>1, <1>2, <2>2
  <2>3. CASE s # t
    <3>1. tx'[s] = x /\ Asked(x)
      BY <1>1, <2>1, <2>3 DEF OrgInv, TxInv
    <3>2. s \notin overtaken' => Stands(x)'
      BY <1>3, <2>1, <2>3, <3>1
    <3> QED
      BY <3>1, <3>2
  <2> QED
    BY <2>2, <2>3
<1> QED
  BY <1>1, <1>4 DEF TxInv, Asked

(* What a transaction that commits had found.                              *)
LEMMA Committed ==
  ASSUME OrgInv, NEW t \in Txs, NEW op, op # "none", Commits(t, op)
  PROVE  /\ tx[t].op = op /\ Asked(tx[t]) /\ (t \notin overtaken => Stands(tx[t]))
         /\ \A ops : op \in ops /\ t \in overtaken => Overtook(ops, t)
<1>1. tx'[t] = NoTx
  BY DEF OrgInv, TxInv, Commits, Ends
<1> QED
  BY <1>1 DEF OrgInv, TxInv, Commits, Overtook

(* Departments.                                                            *)
LEMMA TreeBegins ==
  ASSUME OrgInv, NEW t \in Txs,
         \/ \E d \in Departments : \E up \in Departments \cup {NoDept} :
              CreateDepartment(t, d, up) \/ MoveDepartment(t, d, up)
         \/ \E d \in Departments : \E status \in {"ACTIVE", "DISABLED"} : UpdateDepartment(t, d, status)
         \/ \E D \in SUBSET Departments : DeleteDepartments(t, D)
  PROVE  OrgInv' /\ StepSound
<1>1. ASSUME NEW d \in Departments, NEW up \in Departments \cup {NoDept}, CreateDepartment(t, d, up)
      PROVE  OrgInv' /\ StepSound
  <2> DEFINE o == [op |-> "createDepartment", dept |-> d, parent |-> up]
  <2>1. Asked(o) /\ Stands(o)
    BY DEF Asked, Stands
  <2> HIDE DEF o
  <2>2. Begin(t, o) /\ UNCHANGED <<tree, jobs, staff, requests>>
    BY <1>1 DEF CreateDepartment, o
  <2> QED
    BY <2>1, <2>2, OrgBegins
<1>2. ASSUME NEW d \in Departments, NEW up \in Departments \cup {NoDept}, MoveDepartment(t, d, up)
      PROVE  OrgInv' /\ StepSound
  <2> DEFINE o == [op |-> "moveDepartment", dept |-> d, parent |-> up]
  <2>1. up # NoDept => dept[up] = "ACTIVE" /\ d \notin Above(up)
    BY <1>2 DEF MoveDepartment, NoDescendant
  <2>2. Asked(o) /\ Stands(o)
    BY <2>1 DEF Asked, Stands, MoveStands
  <2> HIDE DEF o
  <2>3. Begin(t, o) /\ UNCHANGED <<tree, jobs, staff, requests>>
    BY <1>2 DEF MoveDepartment, o
  <2> QED
    BY <2>2, <2>3, OrgBegins
<1>3. ASSUME NEW d \in Departments, NEW status \in {"ACTIVE", "DISABLED"}, UpdateDepartment(t, d, status)
      PROVE  OrgInv' /\ StepSound
  <2> DEFINE o == [op |-> "updateDepartment", dept |-> d, status |-> status]
  <2>1. Asked(o) /\ Stands(o)
    BY DEF Asked, Stands
  <2> HIDE DEF o
  <2>2. Begin(t, o) /\ UNCHANGED <<tree, jobs, staff, requests>>
    BY <1>3 DEF UpdateDepartment, o
  <2> QED
    BY <2>1, <2>2, OrgBegins
<1>4. ASSUME NEW D \in SUBSET Departments, DeleteDepartments(t, D) PROVE OrgInv' /\ StepSound
  <2> DEFINE o == [op |-> "deleteDepartments", depts |-> D]
  <2>1. Asked(o) /\ Stands(o)
    BY DEF Asked, Stands
  <2> HIDE DEF o
  <2>2. Begin(t, o) /\ UNCHANGED <<tree, jobs, staff, requests>>
    BY <1>4 DEF DeleteDepartments, o
  <2> QED
    BY <2>1, <2>2, OrgBegins
<1> QED
  BY <1>1, <1>2, <1>3, <1>4

LEMMA CommitsCreateDepartment ==
  ASSUME OrgInv, NEW t \in Txs, Commits(t, "createDepartment"),
         dept[tx[t].dept] = "ABSENT", ~Dangling(tx[t].parent),
         dept' = [dept EXCEPT ![tx[t].dept] = "ACTIVE"],
         parent' = [parent EXCEPT ![tx[t].dept] = tx[t].parent],
         UNCHANGED <<pos, fits, memberOf, holds, app>>
  PROVE  OrgInv' /\ StepSound
<1>1. PICK d \in Departments, up \in Departments \cup {NoDept} : d = tx[t].dept /\ up = tx[t].parent
  BY Committed DEF Asked
<1>2. /\ dept = [c \in Departments |-> dept[c]] /\ parent \in [Departments -> Departments \cup {NoDept}]
      /\ \A c \in Departments : parent[c] # NoDept => Exists(c) /\ Exists(parent[c])
  BY DEF OrgInv, TreeInv
<1>3. dept' = [c \in Departments |-> dept'[c]] /\ dept'[d] = "ACTIVE"
      /\ \A c \in Departments \ {d} : dept'[c] = dept[c]
  BY <1>1, <1>2
<1>4. parent' \in [Departments -> Departments \cup {NoDept}] /\ parent'[d] = up
      /\ \A c \in Departments \ {d} : parent'[c] = parent[c]
  BY <1>1, <1>2
<1>5. up # NoDept => up \in Departments /\ Exists(up) /\ up # d
  BY <1>1 DEF Dangling, Exists
<1>6. TreeInv'
  BY <1>2, <1>3, <1>4, <1>5 DEF TreeInv, Exists
<1>7. ASSUME NEW x \in Departments, NEW y \in Departments, y # d, x \notin Above(y) PROVE x \notin Above(y)'
  <2>1. up # d /\ parent' = [parent EXCEPT ![d] = up] /\ dept[d] = "ABSENT" /\ TreeInv
    BY <1>1, <1>5, HrOrgAssumption DEF OrgInv
  <2> QED
    BY <1>7, <2>1, LeafComes
<1>8. ASSUME NEW x \in Departments, InOrder(x) PROVE InOrder(x)'
  <2>1. CASE x = d
    <3>1. Climbs(Departments \ {d})
      BY <1>1, <1>2, HrOrgAssumption DEF Climbs, Exists
    <3>2. up # NoDept => d \notin Above(up)
      BY <1>5, <3>1, ClosedSet
    <3> QED
      BY <1>4, <1>5, <1>7, <2>1, <3>2 DEF InOrder
  <2>2. CASE x # d
    <3>1. parent'[x] = parent[x]
      BY <1>4, <2>2
    <3>2. parent[x] # NoDept => parent[x] \in Departments /\ parent[x] # d
      BY <1>1, <1>2 DEF Exists
    <3>3. \A y : y = parent[x] => (x \notin Above(y) /\ y # NoDept => x \notin Above(y)')
      BY <1>7, <3>2
    <3>4. PICK y : y = parent[x]
      OBVIOUS
    <3> QED
      BY <1>8, <3>1, <3>3, <3>4 DEF InOrder
  <2> QED
    BY <2>1, <2>2
<1>9. ASSUME NEW x, Asked(x), Stands(x) PROVE Stands(x)'
  <2>1. ASSUME x.op = "moveDepartment", x.parent # NoDept
        PROVE  dept'[x.parent] # "ABSENT" /\ x.dept \notin Above(x.parent)'
    <3>1. PICK y \in Departments : y = x.parent
      BY <1>9, <2>1 DEF Asked
    <3>2. dept[y] # "ABSENT" /\ x.dept \notin Above(y) /\ x.dept \in Departments
      BY <1>9, <2>1, <3>1 DEF Stands, MoveStands, Asked
    <3>3. y # d
      BY <1>1, <3>2
    <3> QED
      BY <1>3, <1>7, <3>1, <3>2, <3>3
  <2>2. \A c \in Departments : dept[c] = "GONE" => dept'[c] = "GONE"
    BY <1>1, <1>3
  <2> QED
    BY <1>9, <2>1, <2>2 DEF Asked, Stands, MoveStands, DepartmentsStand, PositionStands, ApprovalStands, HoldersFit,
                            PositionExists
<1>10. TxInv'
  BY <1>9, OrgCommits
<1> QED
  BY <1>6, <1>8, <1>10, StaffSame, NamesSame DEF OrgInv, StepSound

LEMMA CommitsUpdateDepartment ==
  ASSUME OrgInv, NEW t \in Txs, Commits(t, "updateDepartment"), Exists(tx[t].dept),
         dept' = [dept EXCEPT ![tx[t].dept] = tx[t].status],
         UNCHANGED <<parent, pos, fits, memberOf, holds, app>>
  PROVE  OrgInv' /\ StepSound
<1>1. PICK d, status : d = tx[t].dept /\ status = tx[t].status
  OBVIOUS
<1>2. status \in {"ACTIVE", "DISABLED"} /\ Exists(d) /\ dept' = [dept EXCEPT ![d] = status]
  BY <1>1, Committed DEF Asked
<1>3. /\ dept' = [c \in Departments |-> dept'[c]]
      /\ \A c \in Departments : /\ Exists(c) => Exists(c)'
                                /\ dept[c] = "GONE" => dept'[c] = "GONE"
                                /\ dept[c] # "ABSENT" => dept'[c] # "ABSENT"
  BY <1>2 DEF OrgInv, TreeInv, Exists
<1>4. TreeInv'
  BY <1>3 DEF OrgInv, TreeInv, Exists
<1>5. \A x, y : x \notin Above(y) => x \notin Above(y)'
  BY DEF Above, Climbs
<1>6. \A x : Asked(x) /\ Stands(x) => Stands(x)'
  BY <1>3, <1>5 DEF Asked, Stands, MoveStands, DepartmentsStand, PositionStands, ApprovalStands, HoldersFit,
                    PositionExists
<1>7. TxInv'
  BY <1>6, OrgCommits
<1>8. \A x \in Departments : InOrder(x) => InOrder(x)'
  BY DEF InOrder, Above, Climbs
<1> QED
  BY <1>4, <1>7, <1>8, StaffSame, NamesSame DEF OrgInv, StepSound

LEMMA CommitsMoveDepartment ==
  ASSUME OrgInv, NEW t \in Txs, Commits(t, "moveDepartment"), Exists(tx[t].dept), ~Dangling(tx[t].parent),
         parent' = [parent EXCEPT ![tx[t].dept] = tx[t].parent],
         UNCHANGED <<dept, pos, fits, memberOf, holds, app>>
  PROVE  OrgInv' /\ StepSound
<1>1. PICK d \in Departments, up \in Departments \cup {NoDept} : d = tx[t].dept /\ up = tx[t].parent
  BY Committed DEF Asked
<1>2. /\ parent \in [Departments -> Departments \cup {NoDept}] /\ parent' = [parent EXCEPT ![d] = up]
      /\ Exists(d) /\ (up # NoDept => up \in Departments /\ Exists(up))
  BY <1>1 DEF OrgInv, TreeInv, Dangling
<1>3. TreeInv'
  BY <1>2 DEF OrgInv, TreeInv, Exists
<1>4. ASSUME NEW x, Stands(x), ~Rival(x, tx[t]) PROVE Stands(x)'
  <2>1. x.op # "moveDepartment"
    BY <1>4, Committed DEF Rival
  <2> QED
    BY <1>4, <2>1 DEF Stands, DepartmentsStand, PositionStands, ApprovalStands, HoldersFit, PositionExists
<1>5. TxInv'
  BY <1>4, OrgCommits
<1>6. ASSUME NEW x \in Departments, InOrder(x), t \notin overtaken PROVE InOrder(x)'
  <2>1. up # NoDept => d \notin Above(up)
    BY <1>1, <1>6, Committed DEF Stands, MoveStands
  <2>2. CASE up # NoDept
    BY <1>2, <1>6, <2>1, <2>2, EdgeComes
  <2>3. CASE up = NoDept
    <3>1. /\ parent' \in [Departments -> Departments \cup {NoDept}]
          /\ \A c \in Departments : parent'[c] \in {parent[c], NoDept}
      BY <1>2, <2>3
    <3>2. parent'[x] # NoDept => parent'[x] = parent[x]
      BY <3>1
    <3>3. \A y : x \notin Above(y) => x \notin Above(y)'
      BY <1>2, <3>1, EdgesGo
    <3> QED
      BY <1>6, <3>2, <3>3 DEF InOrder
  <2> QED
    BY <2>2, <2>3
<1>7. t \in overtaken => Overtook({"moveDepartment"}, t)
  BY Committed
<1> QED
  BY <1>3, <1>5, <1>6, <1>7, StaffSame, NamesSame DEF OrgInv, StepSound

LEMMA TreeCommits ==
  ASSUME OrgInv, NEW t \in Txs, CommitDepartment(t)
  PROVE  OrgInv' /\ StepSound
BY CommitsCreateDepartment, CommitsUpdateDepartment, CommitsMoveDepartment
   DEF CommitDepartment, jobs, staff, requests

LEMMA TreeDeletes ==
  ASSUME OrgInv, NEW t \in Txs, CommitDeleteDepartments(t)
  PROVE  OrgInv' /\ StepSound
<1>1. PICK D : D = tx[t].depts
  OBVIOUS
<1>2. /\ dept' = [d \in Departments |-> IF d \in D THEN "GONE" ELSE dept[d]]
      /\ parent' = [d \in Departments |-> IF d \in D THEN NoDept ELSE parent[d]]
      /\ fits' = [p \in Positions |-> fits[p] \ D]
      /\ memberOf' = [u \in Employees |-> memberOf[u] \ D]
      /\ \A c \in Departments : Exists(c) => parent[c] \notin D
      /\ Commits(t, "deleteDepartments") /\ UNCHANGED <<pos, holds, app>>
  BY <1>1 DEF CommitDeleteDepartments, requests
<1>3. D \subseteq Departments
  BY <1>1, <1>2, Committed DEF Asked
<1>4. parent' \in [Departments -> Departments \cup {NoDept}]
      /\ \A d \in Departments : parent'[d] \in {parent[d], NoDept}
  BY <1>2 DEF OrgInv, TreeInv
<1>5. \A x \in Departments : \A y : x \notin Above(y) => x \notin Above(y)'
  BY <1>4, EdgesGo DEF OrgInv, TreeInv
<1>6. TreeInv'
  <2>1. \A d \in Departments : parent'[d] # NoDept => Exists(d)' /\ Exists(parent[d])'
    BY <1>2 DEF OrgInv, TreeInv, Exists
  <2> QED
    BY <1>2, <1>4, <2>1 DEF TreeInv
<1>7. StaffInv' /\ \A u \in Employees : Fits(u) => Fits(u)'
  BY <1>2 DEF OrgInv, StaffInv, PositionExists, Fits
<1>8. ASSUME NEW x, Asked(x), Stands(x) PROVE Stands(x)'
  <2>1. ASSUME x.op = "moveDepartment" PROVE MoveStands(x)'
    <3>1. ASSUME NEW y \in Departments, dept[y] # "ABSENT", x.dept \notin Above(y)
          PROVE  dept'[y] # "ABSENT" /\ x.dept \notin Above(y)'
      BY <1>2, <1>5, <1>8, <2>1, <3>1 DEF Asked
    <3> QED
      BY <1>8, <2>1, <3>1 DEF Asked, Stands, MoveStands
  <2>2. ASSUME x.op = "assignDepartments" PROVE DepartmentsStand(x)'
    <3>1. holds[x.user] # NoPos => holds[x.user] \in Positions
      BY <1>8, <2>2 DEF Asked, OrgInv, StaffInv
    <3>2. memberOf'[x.user] \subseteq memberOf[x.user]
      BY <1>2, <1>8, <2>2 DEF Asked
    <3>3. \A p \in Positions, d \in Departments :
            d \in fits[p] \/ dept[d] = "GONE" => d \in fits'[p] \/ dept'[d] = "GONE"
      BY <1>2
    <3> QED
      BY <1>2, <1>8, <2>2, <3>1, <3>2, <3>3 DEF Stands, DepartmentsStand, Asked
  <2>3. ASSUME x.op = "approve" PROVE ApprovalStands(x)'
    BY <1>2, <1>8, <2>3 DEF Stands, ApprovalStands, Asked, PositionExists
  <2>4. ASSUME x.op = "assignPosition" PROVE PositionStands(x)'
    BY <1>2, <1>8, <2>4 DEF Stands, PositionStands, Asked, PositionExists
  <2>5. ASSUME x.op = "positionDepartments" PROVE HoldersFit(x.pos, x.depts)'
    BY <1>2, <1>8, <2>5 DEF Stands, HoldersFit
  <2> QED
    BY <2>1, <2>2, <2>3, <2>4, <2>5 DEF Stands
<1>9. TxInv'
  BY <1>2, <1>8, OrgCommits
<1>10. ASSUME NEW x \in Departments, InOrder(x) PROVE InOrder(x)'
  <2>1. parent'[x] # NoDept => parent'[x] = parent[x]
    BY <1>4
  <2> QED
    BY <1>5, <1>10, <2>1 DEF InOrder
<1> QED
  BY <1>2, <1>6, <1>7, <1>9, <1>10, NamesSame DEF OrgInv, StepSound

(* Positions.                                                              *)
LEMMA PositionBegins ==
  ASSUME OrgInv, NEW t \in Txs,
         \/ \E p \in Positions :
              \/ \E D \in SUBSET Departments : CreatePosition(t, p, D) \/ UpdatePositionDepartments(t, p, D)
              \/ \E status \in {"ACTIVE", "DISABLED"}, self \in BOOLEAN : UpdatePosition(t, p, status, self)
         \/ \E P \in SUBSET Positions : DeletePositions(t, P)
  PROVE  OrgInv' /\ StepSound
<1>1. ASSUME NEW p \in Positions, NEW D, CreatePosition(t, p, D) PROVE OrgInv' /\ StepSound
  <2> DEFINE o == [op |-> "createPosition", pos |-> p, depts |-> D]
  <2>1. Asked(o) /\ Stands(o)
    BY DEF Asked, Stands
  <2> HIDE DEF o
  <2>2. Begin(t, o) /\ UNCHANGED <<tree, jobs, staff, requests>>
    BY <1>1 DEF CreatePosition, o
  <2> QED
    BY <2>1, <2>2, OrgBegins
<1>2. ASSUME NEW p \in Positions, NEW D, UpdatePositionDepartments(t, p, D) PROVE OrgInv' /\ StepSound
  <2> DEFINE o == [op |-> "positionDepartments", pos |-> p, depts |-> D, seen |-> fits[p]]
  <2>1. HoldersFit(p, D)
    BY <1>2 DEF UpdatePositionDepartments
  <2>2. Asked(o) /\ Stands(o)
    BY <2>1 DEF Asked, Stands
  <2> HIDE DEF o
  <2>3. Begin(t, o) /\ UNCHANGED <<tree, jobs, staff, requests>>
    BY <1>2 DEF UpdatePositionDepartments, o
  <2> QED
    BY <2>2, <2>3, OrgBegins
<1>3. ASSUME NEW p \in Positions, NEW status \in {"ACTIVE", "DISABLED"}, NEW self,
             UpdatePosition(t, p, status, self)
      PROVE  OrgInv' /\ StepSound
  <2> DEFINE o == [op |-> "updatePosition", pos |-> p, status |-> status, self |-> self]
  <2>1. Asked(o) /\ Stands(o)
    BY DEF Asked, Stands
  <2> HIDE DEF o
  <2>2. Begin(t, o) /\ UNCHANGED <<tree, jobs, staff, requests>>
    BY <1>3 DEF UpdatePosition, o
  <2> QED
    BY <2>1, <2>2, OrgBegins
<1>4. ASSUME NEW P \in SUBSET Positions, DeletePositions(t, P) PROVE OrgInv' /\ StepSound
  <2> DEFINE o == [op |-> "deletePositions", poses |-> P]
  <2>1. Asked(o) /\ Stands(o)
    BY DEF Asked, Stands
  <2> HIDE DEF o
  <2>2. Begin(t, o) /\ UNCHANGED <<tree, jobs, staff, requests>>
    BY <1>4 DEF DeletePositions, o
  <2> QED
    BY <2>1, <2>2, OrgBegins
<1> QED
  BY <1>1, <1>2, <1>3, <1>4

LEMMA CommitsPositionDepartments ==
  ASSUME OrgInv, NEW t \in Txs, Commits(t, "positionDepartments"), NEW m,
         fits' = [fits EXCEPT ![tx[t].pos] = tx[t].depts \cup m],
         UNCHANGED <<dept, parent, pos, memberOf, holds, app>>
  PROVE  OrgInv' /\ StepSound
<1>1. PICK p, D : p \in Positions /\ p = tx[t].pos /\ D = tx[t].depts
  BY Committed DEF Asked
<1>2. fits' = [q \in Positions |-> fits'[q]] /\ \A q \in Positions : fits'[q] = IF q = p THEN D \cup m ELSE fits[q]
  BY <1>1 DEF OrgInv, StaffInv
<1>3. StaffInv'
  BY <1>2 DEF OrgInv, StaffInv, PositionExists
<1>4. ASSUME NEW u \in Employees, Fits(u), t \notin overtaken PROVE Fits(u)'
  <2>1. HoldersFit(p, D)
    BY <1>1, <1>4, Committed DEF Stands
  <2> QED
    BY <1>2, <1>4, <2>1 DEF OrgInv, StaffInv, Fits, HoldersFit
<1>5. ASSUME NEW x, Stands(x), ~Rival(x, tx[t]) PROVE Stands(x)'
  <2>1. x.op \notin Assigning
    BY <1>5, Committed DEF Rival
  <2> QED
    BY <1>5, <2>1 DEF Stands, Assigning, MoveStands, HoldersFit, Above, Climbs
<1>6. TxInv'
  BY <1>5, OrgCommits
<1>7. t \in overtaken => Overtook(Assigning \cup {"positionDepartments"}, t)
  BY Committed
<1> QED
  BY <1>3, <1>4, <1>6, <1>7, TreeSame, NamesSame DEF OrgInv, StepSound

LEMMA PositionCommits ==
  ASSUME OrgInv, NEW t \in Txs, CommitPosition(t)
  PROVE  OrgInv' /\ StepSound
<1>1. UNCHANGED <<dept, parent, memberOf, holds, app>>
  BY DEF CommitPosition, tree, staff, requests
<1>2. PICK o : o = tx[t]
  OBVIOUS
<1>3. CASE /\ Commits(t, "createPosition") /\ pos[o.pos] = "ABSENT"
           /\ pos' = [pos EXCEPT ![o.pos] = "ACTIVE"] /\ fits' = [fits EXCEPT ![o.pos] = o.depts]
  <2>1. /\ pos' = [p \in Positions |-> pos'[p]] /\ fits' = [p \in Positions |-> fits'[p]]
        /\ \A p \in Positions : /\ PositionExists(p) => PositionExists(p)' /\ fits'[p] = fits[p]
                                /\ pos[p] = "GONE" => pos'[p] = "GONE"
    BY <1>3 DEF OrgInv, StaffInv, PositionExists
  <2>2. StaffInv' /\ \A u \in Employees : Fits(u) => Fits(u)'
    BY <1>1, <2>1 DEF OrgInv, StaffInv, Fits
  <2>3. ASSUME NEW x, Asked(x), Stands(x) PROVE Stands(x)'
    <3>1. x.op = "assignDepartments" => DepartmentsStand(x)'
      BY <1>1, <2>1, <2>3 DEF OrgInv, StaffInv, Asked, Stands, DepartmentsStand
    <3> QED
      BY <1>1, <2>1, <2>3, <3>1
         DEF Asked, Stands, MoveStands, PositionStands, ApprovalStands, HoldersFit, Above, Climbs
  <2>4. TxInv'
    BY <1>3, <2>3, OrgCommits
  <2> QED
    BY <1>1, <2>2, <2>4, TreeSame, NamesSame DEF OrgInv, StepSound
<1>4. CASE /\ Commits(t, "updatePosition") /\ PositionExists(o.pos) /\ UNCHANGED fits
           /\ pos' = [pos EXCEPT ![o.pos] = o.status]
  <2>1. o.status \in {"ACTIVE", "DISABLED"}
    BY <1>2, <1>4, Committed DEF Asked
  <2>2. /\ pos' = [p \in Positions |-> pos'[p]]
        /\ \A p \in Positions : /\ PositionExists(p) => PositionExists(p)'
                                /\ pos[p] = "GONE" => pos'[p] = "GONE"
    BY <1>4, <2>1 DEF OrgInv, StaffInv, PositionExists
  <2>3. StaffInv' /\ \A u \in Employees : Fits(u) => Fits(u)'
    BY <1>1, <1>4, <2>2 DEF OrgInv, StaffInv, Fits
  <2>4. \A x : Asked(x) /\ Stands(x) => Stands(x)'
    BY <1>1, <1>4, <2>2
       DEF Asked, Stands, MoveStands, DepartmentsStand, PositionStands, ApprovalStands, HoldersFit, Above, Climbs
  <2>5. TxInv'
    BY <1>4, <2>4, OrgCommits
  <2> QED
    BY <1>1, <2>3, <2>5, TreeSame, NamesSame DEF OrgInv, StepSound
<1>5. CASE /\ Commits(t, "positionDepartments") /\ UNCHANGED pos
           /\ \E m : fits' = [fits EXCEPT ![o.pos] = o.depts \cup m]
  BY <1>1, <1>2, <1>5, CommitsPositionDepartments
<1> QED
  BY <1>2, <1>3, <1>4, <1>5 DEF CommitPosition

LEMMA PositionDeletes ==
  ASSUME OrgInv, NEW t \in Txs, CommitDeletePositions(t)
  PROVE  OrgInv' /\ StepSound
<1>1. PICK P : P = tx[t].poses
  OBVIOUS
<1>2. /\ pos' = [p \in Positions |-> IF p \in P THEN "GONE" ELSE pos[p]]
      /\ fits' = [p \in Positions |-> IF p \in P THEN {} ELSE fits[p]]
      /\ holds' = [u \in Employees |-> IF holds[u] \in P THEN NoPos ELSE holds[u]]
      /\ UNCHANGED <<dept, parent, memberOf, app>> /\ Commits(t, "deletePositions")
  BY <1>1 DEF CommitDeletePositions, tree, requests
<1>3. P \subseteq Positions /\ NoPos \notin P
  BY <1>1, <1>2, Committed, HrOrgAssumption DEF Asked
<1>4. StaffInv' /\ \A u \in Employees : Fits(u) => Fits(u)'
  BY <1>2 DEF OrgInv, StaffInv, Fits, PositionExists
<1>5. ASSUME NEW x, Asked(x), Stands(x) PROVE Stands(x)'
  <2>1. ASSUME x.op = "assignDepartments" PROVE DepartmentsStand(x)'
    <3>1. x.user \in Employees /\ DepartmentsStand(x)
      BY <1>5, <2>1 DEF Asked, Stands
    <3> QED
      BY <1>2, <3>1 DEF OrgInv, StaffInv, DepartmentsStand
  <2>2. ASSUME x.op = "approve" PROVE ApprovalStands(x)'
    BY <1>2, <1>5, <2>2 DEF Stands, ApprovalStands, Asked, PositionExists
  <2>3. ASSUME x.op = "assignPosition" PROVE PositionStands(x)'
    BY <1>2, <1>5, <2>3 DEF Stands, PositionStands, Asked, PositionExists
  <2>4. ASSUME x.op = "positionDepartments" PROVE HoldersFit(x.pos, x.depts)'
    <3>1. HoldersFit(x.pos, x.depts) /\ x.pos # NoPos
      BY <1>5, <2>4, HrOrgAssumption DEF Asked, Stands
    <3> QED
      BY <1>2, <3>1 DEF HoldersFit
  <2>5. x.op = "moveDepartment" => MoveStands(x)'
    BY <1>2, <1>5 DEF Stands, MoveStands, Above, Climbs
  <2> QED
    BY <2>1, <2>2, <2>3, <2>4, <2>5 DEF Stands
<1>6. TxInv'
  BY <1>2, <1>5, OrgCommits
<1> QED
  BY <1>2, <1>4, <1>6, TreeSame, NamesSame DEF OrgInv, StepSound

(* Members.                                                                *)
LEMMA StaffBegins ==
  ASSUME OrgInv, NEW t \in Txs, NEW u \in Employees,
         \/ \E D \in SUBSET Departments : AssignDepartments(t, u, D)
         \/ \E p \in Positions : AssignPosition(t, u, p)
  PROVE  OrgInv' /\ StepSound
<1>1. ASSUME NEW D \in SUBSET Departments, AssignDepartments(t, u, D) PROVE OrgInv' /\ StepSound
  <2> DEFINE o == [op |-> "assignDepartments", user |-> u, depts |-> D, seen |-> memberOf[u]]
  <2>1. holds[u] # NoPos => D \subseteq fits[holds[u]]
    BY <1>1 DEF AssignDepartments
  <2>2. Asked(o) /\ Stands(o)
    BY <2>1 DEF Asked, Stands, DepartmentsStand
  <2> HIDE DEF o
  <2>3. Begin(t, o) /\ UNCHANGED <<tree, jobs, staff, requests>>
    BY <1>1 DEF AssignDepartments, o
  <2> QED
    BY <2>2, <2>3, OrgBegins
<1>2. ASSUME NEW p \in Positions, AssignPosition(t, u, p) PROVE OrgInv' /\ StepSound
  <2> DEFINE o == [op |-> "assignPosition", user |-> u, pos |-> p]
  <2>1. memberOf[u] \subseteq fits[p] /\ PositionExists(p)
    BY <1>2 DEF AssignPosition, PositionExists
  <2>2. Asked(o) /\ Stands(o)
    BY <2>1 DEF Asked, Stands, PositionStands
  <2> HIDE DEF o
  <2>3. Begin(t, o) /\ UNCHANGED <<tree, jobs, staff, requests>>
    BY <1>2 DEF AssignPosition, o
  <2> QED
    BY <2>2, <2>3, OrgBegins
<1> QED
  BY <1>1, <1>2

(* One employee is assigned: the others' rows stay.                        *)
LEMMA OneAssigned ==
  ASSUME OrgInv, NEW t \in Txs, NEW op \in Assigning, Commits(t, op),
         NEW D, NEW h, h # NoPos => h \in Positions /\ PositionExists(h),
         memberOf' = [memberOf EXCEPT ![tx[t].user] = D], holds' = [holds EXCEPT ![tx[t].user] = h],
         t \notin overtaken /\ h # NoPos => D \subseteq fits[h],
         UNCHANGED <<dept, parent, pos, fits>>
  PROVE  TxInv' /\ TreeInv' /\ StaffInv' /\ StepSound
<1>1. PICK u \in Employees : u = tx[t].user
  BY Committed DEF Asked, Assigning
<1>2. /\ memberOf' = [v \in Employees |-> memberOf'[v]] /\ holds' = [v \in Employees |-> holds'[v]]
      /\ memberOf'[u] = D /\ holds'[u] = h
      /\ \A v \in Employees \ {u} : memberOf'[v] = memberOf[v] /\ holds'[v] = holds[v]
  BY <1>1 DEF OrgInv, StaffInv
<1>3. StaffInv'
  BY <1>2 DEF OrgInv, StaffInv, PositionExists
<1>4. ASSUME NEW v \in Employees, Fits(v), t \notin overtaken PROVE Fits(v)'
  BY <1>2, <1>4 DEF Fits
<1>5. ASSUME NEW x, Asked(x), Stands(x), ~Rival(x, tx[t]) PROVE Stands(x)'
  <2>1. x.op # "positionDepartments" /\ (x.op \in Assigning => x.user \in Employees \ {u})
    BY <1>1, <1>5, Committed DEF Rival, Asked, Assigning
  <2>2. x.op = "assignDepartments" => DepartmentsStand(x)'
    BY <1>2, <1>5, <2>1 DEF Stands, DepartmentsStand, Assigning
  <2>3. x.op = "assignPosition" => PositionStands(x)'
    BY <1>2, <1>5, <2>1 DEF Stands, PositionStands, PositionExists, Assigning
  <2>4. x.op = "approve" => ApprovalStands(x)'
    BY <1>2, <1>5, <2>1 DEF Stands, ApprovalStands, PositionExists, Assigning
  <2> QED
    BY <1>5, <2>1, <2>2, <2>3, <2>4 DEF Stands, MoveStands, Above, Climbs
<1>6. TxInv'
  BY <1>5, OrgCommits DEF Assigning
<1>7. t \in overtaken => Overtook(Assigning \cup {"positionDepartments"}, t)
  BY Committed DEF Assigning
<1> QED
  BY <1>3, <1>4, <1>6, <1>7, TreeSame DEF OrgInv, StepSound

(* Nobody has added rows since they were read: none is missed.             *)
LEMMA NoneMissed ==
  ASSUME NEW rows, NEW seen, rows \subseteq seen, NEW new, NEW m \in Missed(rows, seen, new)
  PROVE  m = {}
BY DEF Missed

LEMMA StaffCommits ==
  ASSUME OrgInv, NEW t \in Txs, CommitStaff(t)
  PROVE  OrgInv' /\ StepSound
<1>1. UNCHANGED <<dept, parent, pos, fits, app>>
  BY DEF CommitStaff, tree, jobs, requests
<1>2. PICK o : o = tx[t]
  OBVIOUS
<1>3. CASE Commits(t, "assignDepartments")
  <2>1. PICK m \in Missed(memberOf[o.user], o.seen, o.depts) :
          memberOf' = [memberOf EXCEPT ![o.user] = o.depts \cup m]
    BY <1>2, <1>3 DEF CommitStaff, Commits
  <2>2. UNCHANGED holds /\ (\A d \in o.depts : Exists(d)) /\ o.user \in Employees
    BY <1>2, <1>3, Committed DEF CommitStaff, Commits, Asked
  <2>3. PICK h : h = holds[o.user]
    OBVIOUS
  <2>4. h # NoPos => h \in Positions /\ PositionExists(h)
    BY <2>2, <2>3 DEF OrgInv, StaffInv
  <2>5. t \notin overtaken /\ h # NoPos => o.depts \cup m \subseteq fits[h]
    <3>1. ASSUME t \notin overtaken, h # NoPos PROVE o.depts \cup m \subseteq fits[h]
      <4>1. DepartmentsStand(o)
        BY <1>2, <1>3, <3>1, Committed DEF Stands
      <4>2. m = {}
        BY <2>1, <4>1, NoneMissed DEF DepartmentsStand
      <4> QED
        BY <2>2, <2>3, <3>1, <4>1, <4>2 DEF DepartmentsStand, Exists
    <3> QED
      BY <3>1
  <2>6. holds' = [holds EXCEPT ![o.user] = h]
    BY <2>2, <2>3 DEF OrgInv, StaffInv
  <2> QED
    BY <1>1, <1>2, <1>3, <2>1, <2>4, <2>5, <2>6, OneAssigned, NamesSame DEF OrgInv, Assigning
<1>4. CASE Commits(t, "assignPosition")
  <2>1. /\ PositionExists(o.pos) /\ holds' = [holds EXCEPT ![o.user] = o.pos]
        /\ UNCHANGED memberOf /\ o.user \in Employees /\ o.pos \in Positions
    BY <1>2, <1>4, Committed DEF CommitStaff, Commits, Asked
  <2>2. t \notin overtaken => memberOf[o.user] \subseteq fits[o.pos]
    BY <1>2, <1>4, <2>1, Committed DEF Stands, PositionStands, PositionExists
  <2>3. PICK D : D = memberOf[o.user]
    OBVIOUS
  <2>4. memberOf' = [memberOf EXCEPT ![o.user] = D]
    BY <2>1, <2>3 DEF OrgInv, StaffInv
  <2>5. PICK p : p = o.pos
    OBVIOUS
  <2> QED
    BY <1>1, <1>2, <1>4, <2>1, <2>2, <2>3, <2>4, <2>5, OneAssigned, NamesSame DEF OrgInv, Assigning
<1> QED
  BY <1>3, <1>4 DEF CommitStaff

(* Applications.                                                           *)
LEMMA OrgApplicationSteps ==
  ASSUME OrgInv, ApplicationStep
  PROVE  OrgInv' /\ StepSound
<1>1. ASSUME NEW t \in Txs, NEW u \in Employees, NEW d \in Departments, NEW p \in Positions, Submit(t, u, d, p)
      PROVE  OrgInv' /\ StepSound
  <2> DEFINE o == [op |-> "submit", user |-> u, dept |-> d, pos |-> p]
  <2>1. Asked(o) /\ Stands(o)
    BY DEF Asked, Stands
  <2> HIDE DEF o
  <2>2. Begin(t, o) /\ UNCHANGED <<tree, jobs, staff, requests>>
    BY <1>1 DEF Submit, o
  <2> QED
    BY <2>1, <2>2, OrgBegins
<1>2. ASSUME NEW a \in Applications, Pending(a)
      PROVE  /\ app[a].user \in Employees /\ app[a].dept \in Departments /\ app[a].pos \in Positions
             /\ \A s : s # "PENDING" => Names([app[a] EXCEPT !.status = s])
  <2>1. PICK n : \E u \in Employees, d \in Departments, p \in Positions : app[a] = Plain("PENDING", u, d, p, n)
    BY <1>2 DEF OrgInv, NamesInv, Names, Pending
  <2>2. PICK u \in Employees, d \in Departments, p \in Positions : app[a] = Plain("PENDING", u, d, p, n)
    BY <2>1
  <2>3. app[a].user = u /\ app[a].dept = d /\ app[a].pos = p
    BY <2>2 DEF Plain
  <2>4. \A s : [app[a] EXCEPT !.status = s].status = s
    BY <2>2 DEF Plain
  <2> QED
    BY <2>3, <2>4 DEF Names
<1>3. ASSUME NEW t \in Txs, NEW a \in Applications, Approve(t, a) PROVE OrgInv' /\ StepSound
  <2> DEFINE o == [op |-> "deciding", app |-> a, user |-> app[a].user, dept |-> app[a].dept, pos |-> app[a].pos]
  <2>1. Asked(o) /\ Stands(o)
    BY <1>2, <1>3 DEF Approve, Asked, Stands
  <2>2. Begin(t, o) /\ UNCHANGED <<tree, jobs, staff, requests>>
    BY <1>3 DEF Approve
  <2> HIDE DEF o
  <2> QED
    BY <2>1, <2>2, OrgBegins
<1>4. ASSUME NEW t \in Txs, CheckApproval(t) PROVE OrgInv' /\ StepSound
  <2>1. PICK c : c = tx[t]
    OBVIOUS
  <2> DEFINE o == [op |-> "approve", app |-> c.app, user |-> c.user, dept |-> c.dept, pos |-> c.pos,
                   seen |-> memberOf[c.user]]
  <2>2. c.op = "deciding" /\ c.user \in Employees /\ c.dept \in Departments /\ c.pos \in Positions
    BY <1>4, <2>1 DEF CheckApproval, OrgInv, TxInv, Asked
  <2>3. tx' = [tx EXCEPT ![t] = o] /\ UNCHANGED <<overtaken, dept, parent, pos, fits, memberOf, holds, app>>
    BY <1>4, <2>1 DEF CheckApproval, tree, jobs, staff, requests
  <2>4. Available(c.dept, c.pos)
    BY <1>4, <2>1 DEF CheckApproval
  <2>5. Asked(o) /\ Stands(o)
    BY <2>2, <2>4 DEF Asked, Stands, ApprovalStands, Available, PositionExists
  <2> HIDE DEF o
  <2> QED
    BY <2>3, <2>5, TxChanges
<1>5. ASSUME NEW t \in Txs, NEW a \in Applications, NEW status \in {"REJECTED", "CANCELLED"},
             Close(t, a, status)
      PROVE  OrgInv' /\ StepSound
  <2> DEFINE o == [op |-> "close", app |-> a, status |-> status]
  <2>1. Asked(o) /\ Stands(o)
    BY DEF Asked, Stands
  <2> HIDE DEF o
  <2>2. Begin(t, o) /\ UNCHANGED <<tree, jobs, staff, requests>>
    BY <1>5 DEF Close, o
  <2> QED
    BY <2>1, <2>2, OrgBegins
<1>6. ASSUME NEW a, NEW h, Names(h), app' = [app EXCEPT ![a] = h] PROVE NamesInv'
  <2>1. app' = [b \in Applications |-> app'[b]] /\ \A b \in Applications : app'[b] \in {h, app[b]}
    BY <1>6 DEF OrgInv, NamesInv
  <2>2. \A b \in Applications : Names(app'[b])
    BY <1>6, <2>1 DEF OrgInv, NamesInv
  <2> QED
    BY <2>1, <2>2 DEF NamesInv, Names
<1>7. ASSUME NEW t \in Txs, NEW op \in {"submit", "close"}, Commits(t, op),
             UNCHANGED <<dept, parent, pos, fits, memberOf, holds>>
      PROVE  TxInv' /\ TreeInv' /\ StaffInv' /\ StepSound
  <2>1. TxInv'
    BY <1>7, OrgCommits, StandsSame
  <2> QED
    BY <1>7, <2>1, TreeSame, StaffSame DEF OrgInv, StepSound
<1>8. ASSUME NEW t \in Txs, NEW a \in Applications, CommitSubmit(t, a) PROVE OrgInv' /\ StepSound
  <2>1. PICK o, n : o = tx[t] /\ n = lv[o.user]
    OBVIOUS
  <2>2. o.user \in Employees /\ o.dept \in Departments /\ o.pos \in Positions
    BY <1>8, <2>1, Committed DEF CommitSubmit, Asked
  <2>3. app' = [app EXCEPT ![a] = Plain("PENDING", o.user, o.dept, o.pos, n)]
    BY <1>8, <2>1 DEF CommitSubmit, Plain
  <2>4. Names(Plain("PENDING", o.user, o.dept, o.pos, n))
    BY <2>2 DEF Names
  <2>5. NamesInv'
    BY <1>6, <2>3, <2>4
  <2> QED
    BY <1>7, <1>8, <2>5 DEF CommitSubmit, OrgInv, tree, jobs, staff
<1>9. ASSUME NEW t \in Txs, CommitApprove(t) PROVE OrgInv' /\ StepSound
  <2>1. PICK o : o = tx[t]
    OBVIOUS
  <2>2. /\ Commits(t, "approve") /\ Pending(o.app) /\ Exists(o.dept) /\ PositionExists(o.pos)
        /\ app' = [app EXCEPT ![o.app].status = "APPROVED"]
        /\ holds' = [holds EXCEPT ![o.user] = o.pos] /\ UNCHANGED <<dept, parent, pos, fits>>
    BY <1>9, <2>1 DEF CommitApprove, HeadUnchanged, tree, jobs
  <2>3. PICK m \in Missed(memberOf[o.user], o.seen, {o.dept}) :
          memberOf' = [memberOf EXCEPT ![o.user] = {o.dept} \cup m]
    BY <1>9, <2>1 DEF CommitApprove
  <2>4. o.pos \in Positions
    BY <2>1, <2>2, Committed DEF Asked
  <2>5. t \notin overtaken => {o.dept} \cup m \subseteq fits[o.pos]
    <3>1. ASSUME t \notin overtaken PROVE ApprovalStands(o)
      BY <2>1, <2>2, <3>1, Committed DEF Stands
    <3>2. t \notin overtaken => m = {}
      BY <2>3, <3>1, NoneMissed DEF ApprovalStands
    <3> QED
      BY <2>2, <3>1, <3>2 DEF ApprovalStands, Exists, PositionExists
  <2>6. TxInv' /\ TreeInv' /\ StaffInv' /\ StepSound
    BY <2>1, <2>2, <2>3, <2>4, <2>5, OneAssigned DEF Assigning
  <2>7. NamesInv'
    <3>1. CASE o.app \in Applications
      BY <1>2, <1>6, <2>2, <3>1
    <3>2. CASE o.app \notin Applications
      BY <2>2, <3>2, NamesSame DEF OrgInv, NamesInv
    <3> QED
      BY <3>1, <3>2
  <2> QED
    BY <2>6, <2>7 DEF OrgInv
<1>10. ASSUME NEW t \in Txs, CommitClose(t) PROVE OrgInv' /\ StepSound
  <2>1. PICK o : o = tx[t]
    OBVIOUS
  <2>2. Commits(t, "close") /\ Pending(o.app) /\ app' = [app EXCEPT ![o.app].status = o.status]
        /\ UNCHANGED <<dept, parent, pos, fits, memberOf, holds>>
    BY <1>10, <2>1 DEF CommitClose, tree, jobs, staff
  <2>3. o.app \in Applications /\ o.status # "PENDING"
    BY <2>1, <2>2, Committed DEF Asked
  <2>4. NamesInv'
    BY <1>2, <1>6, <2>2, <2>3
  <2> QED
    BY <1>7, <2>2, <2>4 DEF OrgInv
<1> QED
  BY <1>1, <1>3, <1>4, <1>5, <1>8, <1>9, <1>10 DEF ApplicationStep

(* Deactivation and restoration: members leave, and positions are cleared, *)
(* possibly between the two steps of a transaction.                        *)
LEMMA OrgLifecycleSteps ==
  ASSUME OrgInv, AccountLifecycle
  PROVE  OrgInv' /\ StepSound
<1>1. ASSUME NEW u, NEW life, app' = Cancelled(u, life) PROVE NamesInv'
  <2>1. app' = [a \in Applications |-> app'[a]]
    BY <1>1 DEF Cancelled
  <2>2. ASSUME NEW a \in Applications PROVE app'[a] = app[a] \/ app'[a].status = "CANCELLED"
    BY <1>1 DEF Cancelled
  <2> QED
    BY <2>1, <2>2 DEF OrgInv, NamesInv, Names
<1>2. ASSUME UNCHANGED <<tx, overtaken>>, \A x : Stands(x) => Stands(x)' PROVE TxInv'
  BY <1>2 DEF OrgInv, TxInv, Asked
<1>3. ASSUME UNCHANGED <<tx, overtaken, dept, parent, pos, fits, memberOf, holds>>
      PROVE  TxInv' /\ TreeInv' /\ StaffInv' /\ StepSound
  <2>1. TxInv'
    BY <1>2, <1>3, StandsSame
  <2> QED
    BY <1>3, <2>1, TreeSame, StaffSame DEF OrgInv, StepSound
<1>4. ASSUME NEW u, DeactivateAccount(u) \/ RestoreAccount(u) PROVE OrgInv' /\ StepSound
  BY <1>3, <1>4, NamesSame
     DEF DeactivateAccount, RestoreAccount, OrgInv, tree, jobs, staff, requests, progress
<1>5. ASSUME NEW k, RunLifecycleTask(k) PROVE OrgInv' /\ StepSound
  BY <1>1, <1>3, <1>5 DEF RunLifecycleTask, OrgInv, tree, jobs, staff, progress
<1>6. ASSUME NEW u \in Employees, RestoreApply(u) PROVE OrgInv' /\ StepSound
  <2>1. /\ memberOf' = [memberOf EXCEPT ![u] = Kept(u)]
        /\ holds' = [holds EXCEPT ![u] = IF @ # NoPos /\ PositionCleared(u) THEN NoPos ELSE @]
        /\ UNCHANGED <<tx, overtaken, dept, parent, pos, fits>> /\ app' = Cancelled(u, lv[u])
    BY <1>6 DEF RestoreApply, tree, jobs, progress
  <2>2. /\ memberOf' = [v \in Employees |-> memberOf'[v]] /\ holds' = [v \in Employees |-> holds'[v]]
        /\ \A v \in Employees : memberOf'[v] \subseteq memberOf[v] /\ holds'[v] \in {holds[v], NoPos}
    BY <2>1 DEF OrgInv, StaffInv, Kept
  <2>3. StaffInv' /\ \A v \in Employees : Fits(v) => Fits(v)'
    BY <2>1, <2>2 DEF OrgInv, StaffInv, Fits, PositionExists
  <2>4. ASSUME NEW x, Asked(x), Stands(x) PROVE Stands(x)'
    <3>1. x.op = "assignDepartments" => DepartmentsStand(x)'
      BY <2>1, <2>2, <2>4 DEF Asked, Stands, DepartmentsStand
    <3>2. x.op = "assignPosition" => PositionStands(x)'
      BY <2>1, <2>2, <2>4 DEF Asked, Stands, PositionStands, PositionExists
    <3>3. x.op = "approve" => ApprovalStands(x)'
      BY <2>1, <2>2, <2>4 DEF Asked, Stands, ApprovalStands, PositionExists
    <3>4. x.op = "positionDepartments" => HoldersFit(x.pos, x.depts)'
      BY <2>1, <2>2, <2>4, HrOrgAssumption DEF Asked, Stands, HoldersFit
    <3>5. x.op = "moveDepartment" => MoveStands(x)'
      BY <2>1, <2>4 DEF Stands, MoveStands, Above, Climbs
    <3> QED
      BY <3>1, <3>2, <3>3, <3>4, <3>5 DEF Stands
  <2>5. TxInv'
    BY <2>1, <2>4 DEF OrgInv, TxInv, Asked
  <2> QED
    BY <1>1, <2>1, <2>3, <2>5, TreeSame DEF OrgInv, StepSound
<1> QED
  BY <1>4, <1>5, <1>6 DEF AccountLifecycle

LEMMA OrgStep ==
  ASSUME OrgInv, [HrOrgNext]_hrOrgVars
  PROVE  OrgInv' /\ StepSound
<1>1. ASSUME UNCHANGED <<tx, overtaken, dept, parent, pos, fits, memberOf, holds, app>>
      PROVE  OrgInv' /\ StepSound
  <2>1. TxInv'
    BY <1>1, StandsSame DEF OrgInv, TxInv, Asked
  <2> QED
    BY <1>1, <2>1, TreeSame, StaffSame, NamesSame DEF OrgInv, StepSound
<1>2. CASE TreeStep
  BY <1>2, TreeBegins, TreeCommits, TreeDeletes DEF TreeStep, ClosingStep, DisablingStep
<1>3. CASE AssetStep
  BY <1>1, <1>3 DEF AssetStep, AssignAsset, tree, jobs, staff, requests, progress
<1>4. CASE PositionStatusStep \/ PositionStep
  BY <1>4, PositionBegins, PositionCommits, PositionDeletes DEF PositionStatusStep, PositionStep
<1>5. CASE StaffStep
  BY <1>5, StaffBegins, StaffCommits DEF StaffStep
<1>6. CASE RollBackStep
  <2>1. Asked(NoTx) /\ Stands(NoTx)
    BY DEF Asked, Stands, NoTx
  <2> QED
    BY <1>6, <2>1, TxChanges DEF RollBackStep, RollBack, Ends, tree, jobs, staff, requests
<1>7. CASE UNCHANGED hrOrgVars
  BY <1>1, <1>7 DEF hrOrgVars, tree, jobs, staff, requests
<1> QED
  BY <1>2, <1>3, <1>4, <1>5, <1>6, <1>7, OrgApplicationSteps, OrgLifecycleSteps DEF HrOrgNext

(* OrganisationSound for any departments, positions, employees and number  *)
(* of transactions that overlap: unless a rival commits in between, what   *)
(* an operation found when it decided still holds when it writes, or the   *)
(* write fails; a restoration that comes in between only takes members and *)
(* positions away, and what a deletion takes away never comes back.        *)
THEOREM OrganisationStaysSound == HrOrgSpec => OrganisationSound
<1>1. HrOrgInit => OrgInv
  <2> SUFFICES ASSUME HrOrgInit PROVE OrgInv
    OBVIOUS
  <2>1. TxInv
    BY DEF HrOrgInit, TxInv, Asked, Stands, NoTx
  <2>2. TreeInv
    BY DEF HrOrgInit, TreeInv
  <2>3. StaffInv
    BY DEF HrOrgInit, StaffInv
  <2>4. NamesInv
    BY DEF HrOrgInit, NamesInv, Names, NoApp
  <2> QED
    BY <2>1, <2>2, <2>3, <2>4 DEF OrgInv
<1>2. OrgInv /\ [HrOrgNext]_hrOrgVars => OrgInv' /\ [StepSound]_hrOrgVars
  BY OrgStep
<1> QED
  BY <1>1, <1>2, PTL DEF HrOrgSpec, OrganisationSound, StepSound
=============================================================================
