----------------------------- MODULE FixedAssets -----------------------------
(***************************************************************************)
(* apps/asset: the status of a fixed asset, the repair orders that drive   *)
(* it, and the QR codes that are printed for it.                           *)
(*                                                                         *)
(* A handler reads in its transaction and writes later in the same one;    *)
(* between the two, other transactions commit.  What it writes under a     *)
(* condition is compared with the row as it is then; what it writes by id  *)
(* is not.                                                                 *)
(***************************************************************************)
EXTENDS Naturals, FiniteSets

CONSTANTS
  Assets,     \* rows of asset.assets
  Orders,     \* rows of asset.repair_orders
  Codes,      \* rows of asset.qr_codes
  Handlers    \* transactions that run at the same time

VARIABLES
  asset,     \* [deleted, usage]
  order,     \* [of, status, version, pre]: the asset, status and preStatus of an order
  code,      \* [of, status] of a QR code
  handler    \* what a transaction has read and what it is about to write

assetVars == <<asset, order, code, handler>>

InService == {"IDLE", "IN_USE"}
InRepair == {"PENDING_REPAIR", "REPAIRING"}
None == "none"
NoOrder == [of |-> None, status |-> "NONE", version |-> 0, pre |-> "IDLE"]
NoCode == [of |-> None, status |-> "NONE"]
AtRest == [op |-> "idle", on |-> None, saw |-> None]

FixedAssetsInit ==
  /\ asset \in [Assets -> [deleted : {FALSE}, usage : InService \cup {"SCRAPPED"}]]
  /\ order = [o \in Orders |-> NoOrder]
  /\ code = [c \in Codes |-> NoCode]
  /\ handler = [h \in Handlers |-> AtRest]

Active(o) == order[o].status \in {"PENDING", "REPAIRING"}

\* qr_codes_target_active_unique covers the codes that are not revoked.
OnlyActive(c) == code[c].status = "ACTIVE"
Counted(c) == code[c].status \in {"ACTIVE", "DISABLED"}

Reads(h, op, on, saw) ==
  /\ handler[h] = AtRest
  /\ handler' = [handler EXCEPT ![h] = [op |-> op, on |-> on, saw |-> saw]]
  /\ UNCHANGED <<asset, order, code>>

\* The transaction ends with what the next action says, or fails.
Ends(h, op) ==
  /\ handler[h].op = op
  /\ handler' = [handler EXCEPT ![h] = AtRest]

Refused(h) ==
  /\ handler[h] # AtRest
  /\ handler' = [handler EXCEPT ![h] = AtRest]
  /\ UNCHANGED <<asset, order, code>>

Use(a, usage) == asset' = [asset EXCEPT ![a].usage = usage]

-----------------------------------------------------------------------------
(* The repair orders. *)

Register(h, a) ==
  /\ ~asset[a].deleted /\ asset[a].usage \in InService
  /\ Reads(h, "register", a, asset[a].usage)

\* updateMany where usageStatus is what was read; P2002 while another order of
\* the asset is active.
CommitRegister(h, o) ==
  LET a == handler[h].on IN
  /\ Ends(h, "register")
  /\ asset[a].usage = handler[h].saw
  /\ order[o] = NoOrder /\ \A p \in Orders : Active(p) => order[p].of # a
  /\ Use(a, "PENDING_REPAIR")
  /\ order' = [order EXCEPT ![o] = [of |-> a, status |-> "PENDING", version |-> 0, pre |-> handler[h].saw]]
  /\ UNCHANGED code

\* cancel, start and complete read the order, then its asset.
Handle(h, o, op) ==
  /\ order[o] # NoOrder /\ ~asset[order[o].of].deleted
  /\ Reads(h, op, o, order[o].version)

\* updateMany where status and version, which must meet the order.
MeetsOrder(h, from) ==
  LET o == handler[h].on IN order[o].status = from /\ order[o].version = handler[h].saw

\* A bug that would not notice: the number of updated orders is not looked at.
MovedIfMet(h, from, to) ==
  order' = IF MeetsOrder(h, from)
             THEN [order EXCEPT ![handler[h].on].status = to, ![handler[h].on].version = @ + 1]
             ELSE order

Moved(h, from, to) ==
  /\ MeetsOrder(h, from)
  /\ order' = [order EXCEPT ![handler[h].on].status = to, ![handler[h].on].version = @ + 1]

CommitCancel(h) ==
  /\ Ends(h, "cancel") /\ Moved(h, "PENDING", "CANCELLED")
  /\ Use(order[handler[h].on].of, order[handler[h].on].pre)
  /\ UNCHANGED code

CommitStart(h) ==
  /\ Ends(h, "start") /\ Moved(h, "PENDING", "REPAIRING")
  /\ Use(order[handler[h].on].of, "REPAIRING")
  /\ UNCHANGED code

CommitComplete(h, post) ==
  /\ Ends(h, "complete") /\ Moved(h, "REPAIRING", "COMPLETED")
  /\ Use(order[handler[h].on].of, post)
  /\ UNCHANGED code

-----------------------------------------------------------------------------
(* The register of assets: written by id. *)

UpdateAsset(h, a) ==
  ~asset[a].deleted /\ asset[a].usage \notin InRepair /\ Reads(h, "update", a, None)

CommitUpdateAsset(h, usage) ==
  /\ Ends(h, "update") /\ Use(handler[h].on, usage)
  /\ UNCHANGED <<order, code>>

Scrap(h, a) ==
  ~asset[a].deleted /\ asset[a].usage \in InService /\ Reads(h, "scrap", a, None)

CommitScrap(h) ==
  /\ Ends(h, "scrap") /\ Use(handler[h].on, "SCRAPPED")
  /\ UNCHANGED <<order, code>>

\* batchDelete of one asset: not in use, no active order.
DeleteAsset(h, a) ==
  /\ ~asset[a].deleted /\ asset[a].usage # "IN_USE"
  /\ \A o \in Orders : Active(o) => order[o].of # a
  /\ Reads(h, "delete", a, None)

CommitDeleteAsset(h) ==
  /\ Ends(h, "delete") /\ ~asset[handler[h].on].deleted
  /\ asset' = [asset EXCEPT ![handler[h].on].deleted = TRUE]
  /\ UNCHANGED <<order, code>>

-----------------------------------------------------------------------------
(* The QR codes of an asset. *)

CreateCode(h, a) == ~asset[a].deleted /\ Reads(h, "createCode", a, None)

\* P2002 while the asset has a code that is not revoked.
CommitCreateCode(h, c) ==
  /\ Ends(h, "createCode")
  /\ code[c] = NoCode /\ \A d \in Codes : Counted(d) => code[d].of # handler[h].on
  /\ code' = [code EXCEPT ![c] = [of |-> handler[h].on, status |-> "ACTIVE"]]
  /\ UNCHANGED <<asset, order>>

\* action: refused for a code that is read as revoked.
ChangeCode(h, c, op) == code[c].status \in {"ACTIVE", "DISABLED"} /\ Reads(h, op, c, None)

CommitSwitch(h, op, status) ==
  LET c == handler[h].on IN
  /\ Ends(h, op)
  /\ code' = [code EXCEPT ![c].status = status]
  /\ \A d \in Codes \ {c} : Counted(d) => code[d].of # code[c].of
  /\ UNCHANGED <<asset, order>>

CommitRegenerate(h, c) ==
  LET old == handler[h].on IN
  /\ Ends(h, "regenerate")
  /\ code[c] = NoCode
  /\ \A d \in Codes \ {old} : Counted(d) => code[d].of # code[old].of
  /\ code' = [code EXCEPT ![old].status = "REVOKED", ![c] = [of |-> code[old].of, status |-> "ACTIVE"]]
  /\ UNCHANGED <<asset, order>>

-----------------------------------------------------------------------------
RepairStep(h) ==
  \/ \E a \in Assets : Register(h, a)
  \/ \E o \in Orders : CommitRegister(h, o) \/ Handle(h, o, "cancel") \/ Handle(h, o, "start")
                         \/ Handle(h, o, "complete")
  \/ CommitCancel(h) \/ CommitStart(h)
  \/ \E post \in InService : CommitComplete(h, post)

RegisterStep(h) ==
  \/ \E a \in Assets : UpdateAsset(h, a) \/ Scrap(h, a) \/ DeleteAsset(h, a)
  \/ \E usage \in InService : CommitUpdateAsset(h, usage)
  \/ CommitScrap(h) \/ CommitDeleteAsset(h)

CodeStep(h) ==
  \/ \E a \in Assets : CreateCode(h, a)
  \/ \E c \in Codes : CommitCreateCode(h, c) \/ CommitRegenerate(h, c)
                        \/ ChangeCode(h, c, "disable") \/ ChangeCode(h, c, "enable")
                        \/ ChangeCode(h, c, "regenerate")
  \/ CommitSwitch(h, "disable", "DISABLED") \/ CommitSwitch(h, "enable", "ACTIVE")

FixedAssetsNext == \E h \in Handlers : RepairStep(h) \/ RegisterStep(h) \/ CodeStep(h) \/ Refused(h)

FixedAssetsSpec == FixedAssetsInit /\ [][FixedAssetsNext]_assetVars

-----------------------------------------------------------------------------
\* prds/asset/prd.md:51: the repair statuses are driven by the repair orders.
\* An asset is pending repair or in repair only while it has the order that can
\* take it out of that status, however orders are cancelled, started and
\* completed at once and the asset is edited meanwhile (repair.service.ts).
RepairHasOrder ==
  \A a \in Assets : asset[a].usage \in InRepair =>
    \E o \in Orders : order[o].of = a
      /\ order[o].status = IF asset[a].usage = "REPAIRING" THEN "REPAIRING" ELSE "PENDING"

\* prds/asset/prd.md:165: a code that was revoked never works again, though
\* ENABLE and DISABLE write by id what they read before the revocation
\* committed (qr.service.ts:239): the code that replaced it, active or
\* disabled, is in the way.
RevokedForGood ==
  [][\A c \in Codes : code[c].status = "REVOKED" => code'[c].status = "REVOKED"]_assetVars
=============================================================================
