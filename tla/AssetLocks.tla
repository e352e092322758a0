----------------------------- MODULE AssetLocks -----------------------------
(***************************************************************************)
(* The rows every operation of apps/asset locks, in order.  Statements     *)
(* that only take locks nobody else asks for (the head of a request, the   *)
(* quota's advisory lock, which claims take last) are left out, and so are *)
(* locations created by the transaction itself.  One lock stands for the   *)
(* batches of a location.                                                  *)
(***************************************************************************)
EXTENDS RowLocks, SequencesExt

CONSTANTS
  Items,        \* inventory_items ids
  Consumable,   \* [Items -> consumables ids]
  Records,      \* borrow_records ids
  RecordItem,   \* [Records -> Items]
  Operations,   \* the operations that run
  MaxLines      \* bound: lines of one request

AssetOperations == {"submit", "issue", "stockIn", "release", "transfer", "correct", "return",
                    "writeOff", "settle", "submitActions", "submitSettlement", "editConsumable",
                    "deleteConsumable"}

ASSUME AssetLocksAssumption ==
  /\ Items \subseteq Nat /\ Records \subseteq Nat /\ MaxLines \in Nat
  /\ RecordItem \in [Records -> Items]
  /\ Operations \subseteq AssetOperations

Consumables == {Consumable[i] : i \in Items}

AssetRows == ({"item", "batches"} \X Items) \cup ({"consumable"} \X Consumables)
               \cup ({"record"} \X Records)

Exclusive(kind, id) == [row |-> <<kind, id>>, mode |-> "update"]
Shared(kind, id) == [row |-> <<kind, id>>, mode |-> "keyShare"]

Item(i) == Exclusive("item", i)
BatchesOf(i) == Exclusive("batches", i)
ConsumableOf(i) == Exclusive("consumable", Consumable[i])
Record(x) == Exclusive("record", x)

(* The lines of a request, in the order in which they were sent.           *)
LinesOf(S) == UNION {SetToSeqs(T) : T \in {T \in SUBSET S : Cardinality(T) \in 1 .. MaxLines}}
InOrder(S) == CHOOSE s \in SetToSeqs(S) : \A j, k \in DOMAIN s : j < k => s[j] < s[k]
Sorted(lines) == InOrder(Range(lines))
Each(op(_), lines) == FlattenSeq([k \in DOMAIN lines |-> op(lines[k])])

(* lockInventoryItems and lockInventoryItem join the consumable, and a     *)
(* FOR UPDATE without OF locks the joined row too.                         *)
LockItem(i) == <<Item(i), ConsumableOf(i)>>
LockItems(lines) == Each(LockItem, Sorted(lines))

(* allocateFifoBatches for each line.                                      *)
Allocate(lines) == [k \in DOMAIN lines |-> BatchesOf(lines[k])]
LockRecords(lines) == [k \in DOMAIN lines |-> Record(lines[k])]

(* Mutant: restoreRecord as it was before, the batches before the item.    *)
RestoreBatchesFirst(x) == <<BatchesOf(RecordItem[x])>> \o LockItem(RecordItem[x])

(* restoreRecord: the item, then the batches the record took.              *)
Restore(x) == LockItem(RecordItem[x]) \o <<BatchesOf(RecordItem[x])>>

(* ClaimService.submit, AgentClaimService.submit, StockChangeService.submit *)
Submits == {LockItems(lines) : lines \in LinesOf(Items)}

(* applyApproved of claims and stock changes.                              *)
Issues == {LockItems(lines) \o Allocate(lines) : lines \in LinesOf(Items)}

(* StockInService.applyApproved at locations that exist.                   *)
StockIns == {LockItems(lines) : lines \in LinesOf(Items)}

(* applyRelease updates one line after another.                            *)
Releases == {[k \in DOMAIN lines |-> Item(lines[k])] : lines \in LinesOf(Items)}

Pairs == {p \in Items \X Items : p[1] # p[2] /\ Consumable[p[1]] = Consumable[p[2]]}

(* TransferService.create and InventoryService.correctBatch between two    *)
(* locations of one consumable.                                            *)
Moves == {LockItems(p) \o <<BatchesOf(p[1])>> : p \in Pairs}

(* applyReturnApproved: record, item and batches of each line.             *)
ReturnLine(x) == <<Record(x)>> \o Restore(x)
Returns == {Each(ReturnLine, lines) : lines \in LinesOf(Records)}

(* applyWriteOffApproved and submitBorrowAction: the records of the lines. *)
RecordActions == {LockRecords(lines) : lines \in LinesOf(Records)}

(* AgentSettlementService.applyApproved and both direct disposals: the     *)
(* records in ascending order, then the lines that return something.       *)
Settling(lines, R) ==
  LockRecords(Sorted(lines))
    \o FlattenSeq([k \in DOMAIN lines |-> IF lines[k] \in R THEN Restore(lines[k]) ELSE <<>>])
Settlements == {Settling(lines, R) : lines \in LinesOf(Records), R \in SUBSET Records}

(* AgentSettlementService.submit inserts lines that refer to the records.  *)
SettlementDrafts ==
  {[k \in DOMAIN lines |-> Shared("record", lines[k])] : lines \in LinesOf(Records)}

Edits == {<<Exclusive("consumable", c)>> : c \in Consumables}

(* ConsumableService.batchDelete of one consumable, which deletes its      *)
(* locations in the order of their ids.                                    *)
Deletions ==
  {LET items == InOrder({i \in Items : Consumable[i] = c})
   IN [k \in DOMAIN items |-> Item(items[k])] \o <<Exclusive("consumable", c)>> : c \in Consumables}

ProgramsOf(operation) ==
  CASE operation = "submit" -> Submits
    [] operation = "issue" -> Issues
    [] operation = "stockIn" -> StockIns
    [] operation = "release" -> Releases
    [] operation \in {"transfer", "correct"} -> Moves
    [] operation = "return" -> Returns
    [] operation \in {"writeOff", "submitActions"} -> RecordActions
    [] operation = "settle" -> Settlements
    [] operation = "submitSettlement" -> SettlementDrafts
    [] operation = "editConsumable" -> Edits
    [] operation = "deleteConsumable" -> Deletions

AssetPrograms == UNION {ProgramsOf(operation) : operation \in Operations}
=============================================================================
