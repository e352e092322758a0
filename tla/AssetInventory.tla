--------------------------- MODULE AssetInventory ---------------------------
(***************************************************************************)
(* The consumables half of the asset service: stock by location and batch, *)
(* requests that reserve stock until somebody decides them, borrowing and  *)
(* its return, and one employee's quota (apps/asset; the overdue scan of   *)
(* apps/worker).                                                           *)
(*                                                                         *)
(* Every operation is one PostgreSQL transaction.  What it reads under a   *)
(* row lock (inventory_items, borrow_records, the quota's advisory lock)   *)
(* it commits in the same step.  What it reads without a lock and uses     *)
(* later is a step of its own: the head of a request somebody decides, the *)
(* open records a settlement covers, the references of a consumable that   *)
(* is being deleted.                                                       *)
(*                                                                         *)
(* One consumable is modelled with its stock at several locations.         *)
(***************************************************************************)
EXTENDS Integers, FiniteSets, Functions

CONSTANTS
  Items,          \* ids of inventory_items rows, one per (spec, warehouse)
  Reusable,       \* consumables.type is REUSABLE, not DISPOSABLE
  QuotaLimit,     \* quota_limit of the cycle, or max_holding
  InitialStock,   \* [Items -> Nat]: one batch received before
  Types,          \* the request types that are submitted
  MaxRequests,    \* bound: approval_requests rows
  MaxBatches,     \* bound: batches rows
  Orders,         \* bound: [Items -> Nat] functions a request may ask for
  MaxLine,        \* bound: quantity of one line of the other requests
  Dates,          \* bound: received_at values
  Deciders,       \* people deciding requests at the same time
  Features        \* other operations that happen

RequestTypes == {"STOCK_IN", "STOCK_CHANGE", "CONSUMABLE_REQUEST", "AGENT_REQUEST",
                 "RETURN", "WRITE_OFF", "AGENT_SETTLEMENT"}
FeatureKinds == {"transfer", "correct", "disable", "delete", "deactivate", "overdue"}

ASSUME AssetAssumption ==
  /\ MaxRequests \in Nat /\ MaxBatches \in Nat
  /\ Items \subseteq 1 .. MaxBatches
  /\ Reusable \in BOOLEAN /\ QuotaLimit \in Nat
  /\ InitialStock \in [Items -> Nat]
  /\ Types \subseteq RequestTypes
  /\ Orders \subseteq [Items -> Nat] /\ MaxLine \in Nat
  /\ Dates \subseteq Nat
  /\ "scan" \notin Deciders
  /\ Features \subseteq FeatureKinds

Requests == 1 .. MaxRequests
Batches == 1 .. MaxBatches

(* An approved request lends at most one record per line.                  *)
Records == Requests \X Items
ItemOf(rec) == rec[2]

Issuing == {"CONSUMABLE_REQUEST", "AGENT_REQUEST"}
Reserving == Issuing \cup {"STOCK_CHANGE"}
Acting == {"RETURN", "WRITE_OFF", "AGENT_SETTLEMENT"}

VARIABLES
  (* inventory_items *)
  rows, book, reserved,
  (* batches; `touched` have a stock flow other than STOCK_IN *)
  batchItem, remaining, received, touched,
  (* approval_requests with their lines; a version only grows with a decision *)
  type, status, lines, ret, off, ref,
  (* borrow_records and borrow_batch_allocations *)
  returned, writtenOff, issued, back,
  (* quota_occupations *)
  quota,
  (* consumables.status, the deletion that has counted no reference *)
  consumable, deleting,
  (* backstage.user_accounts: the employee's account *)
  active,
  (* what a decision under way has read *)
  seen

stockVars == <<rows, book, reserved, batchItem, remaining, received, touched>>
headVars == <<type, status, lines, ret, off, ref>>
lendVars == <<returned, writtenOff, issued, back>>
otherVars == <<consumable, deleting, active>>
vars == <<stockVars, headVars, lendVars, quota, otherVars, seen>>

Zero(S) == [x \in S |-> 0]
NoItem == 0
Nobody == [req |-> 0, action |-> "none"]
Actions == {"APPROVE", "REJECT", "CANCEL", "OVERDUE"}
Statuses == {"NONE", "DRAFT", "PENDING", "APPROVED", "REJECTED", "CANCELLED"}

TypeOK ==
  /\ rows \subseteq Items
  /\ book \in [Items -> Nat] /\ reserved \in [Items -> Nat]
  /\ batchItem \in [Batches -> Items \cup {NoItem}]
  /\ remaining \in [Batches -> Nat] /\ received \in [Batches -> Nat]
  /\ touched \subseteq Batches
  /\ type \in [Requests -> RequestTypes \cup {"none"}]
  /\ status \in [Requests -> Statuses]
  /\ lines \in [Requests -> [Items -> Nat]]
  /\ ret \in [Requests -> [Records -> Nat]] /\ off \in [Requests -> [Records -> Nat]]
  /\ ref \in [Requests -> Requests \cup {0}]
  /\ returned \in [Records -> Nat] /\ writtenOff \in [Records -> Nat]
  /\ issued \in [Records -> [Batches -> Nat]] /\ back \in [Records -> [Batches -> Nat]]
  /\ quota \in [Requests -> {"NONE", "RESERVED", "CONSUMED", "RELEASED"}]
  /\ consumable \in {"ACTIVE", "DISABLED", "DELETED"}
  /\ deleting \in BOOLEAN /\ active \in BOOLEAN
  /\ seen \in [Deciders \cup {"scan"} -> [req : Requests \cup {0}, action : Actions \cup {"none"}]]

(* The stock before the first request: one batch per location that has any. *)
Init ==
  /\ rows = {i \in Items : InitialStock[i] > 0}
  /\ book = InitialStock /\ reserved = Zero(Items)
  /\ batchItem = [b \in Batches |-> IF b \in rows THEN b ELSE NoItem]
  /\ remaining = [b \in Batches |-> IF b \in rows THEN InitialStock[b] ELSE 0]
  /\ received = Zero(Batches) /\ touched = {}
  /\ type = [r \in Requests |-> "none"] /\ status = [r \in Requests |-> "NONE"]
  /\ lines = [r \in Requests |-> Zero(Items)]
  /\ ret = [r \in Requests |-> Zero(Records)] /\ off = [r \in Requests |-> Zero(Records)]
  /\ ref = Zero(Requests)
  /\ returned = Zero(Records) /\ writtenOff = Zero(Records)
  /\ issued = [rec \in Records |-> Zero(Batches)]
  /\ back = [rec \in Records |-> Zero(Batches)]
  /\ quota = [r \in Requests |-> "NONE"]
  /\ consumable = "ACTIVE" /\ deleting = FALSE /\ active = TRUE
  /\ seen = [d \in Deciders \cup {"scan"} |-> Nobody]

-----------------------------------------------------------------------------
(* What the statements read *)

Sum(f) == SumFunction(f)
Capped(n, max) == IF n < 0 THEN 0 ELSE IF n > max THEN max ELSE n

(* ORDER BY received_at ASC, id ASC.                                       *)
Before(b, c) == received[b] < received[c] \/ (received[b] = received[c] /\ b < c)
BatchesAt(i) == {b \in Batches : batchItem[b] = i}

(* allocateFifoBatches: what batch b gives to an outflow of q at i.        *)
Taken(i, q, b) ==
  LET older == {c \in BatchesAt(i) : Before(c, b)}
  IN Capped(q - Sum([c \in older |-> remaining[c]]), remaining[b])

InStock(i) == Sum([b \in BatchesAt(i) |-> remaining[b]])

(* The quantity of a borrow record, 0 when there is none.                  *)
Qty(rec) ==
  LET r == rec[1]
  IN IF Reusable /\ type[r] \in Issuing /\ status[r] = "APPROVED" THEN lines[r][ItemOf(rec)] ELSE 0
Open(rec) == Qty(rec) - returned[rec] - writtenOff[rec]
Personal(rec) == type[rec[1]] = "CONSUMABLE_REQUEST"
OpenAt(i) == \E rec \in Records : ItemOf(rec) = i /\ Open(rec) > 0

(* Mutant: the other pending returns and write-offs are not subtracted.    *)
AvailableOpen(rec, r) == Open(rec)

(* availableActionQty, to the transaction that decides r (0: to any other). *)
Available(rec, r) ==
  Open(rec) - Sum([q \in {q \in Requests \ {r} : status[q] = "PENDING"
                                               /\ type[q] \in {"RETURN", "WRITE_OFF"}}
                     |-> ret[q][rec] + off[q][rec]])

(* Mutant: every batch gets back all it gave.                              *)
RestoredWhole(rec, n, b) == IF n > 0 THEN issued[rec][b] - back[rec][b] ELSE 0

(* restoreRecord: what batch b gets back when n of rec return; the batch   *)
(* the record took last comes first.                                       *)
Restored(rec, n, b) ==
  LET later == {c \in Batches : issued[rec][c] > 0 /\ Before(b, c)}
  IN Capped(n - Sum([c \in later |-> issued[rec][c] - back[rec][c]]), issued[rec][b] - back[rec][b])

(* assertQuota: what the employee has used of the limit.                   *)
QuotaUsed ==
  IF Reusable
    THEN Sum([rec \in {x \in Records : Personal(x) /\ ItemOf(x) \in rows} |-> Open(rec)])
       + Sum([r \in {q \in Requests : quota[q] = "RESERVED"} |-> Sum(lines[r])])
    ELSE Sum([r \in {q \in Requests : quota[q] \in {"RESERVED", "CONSUMED"}} |-> Sum(lines[r])])

(* Mutant: what the employee has used already is not counted.              *)
WithinQuotaOnly(order) == Sum(order) <= QuotaLimit

WithinQuota(order) == QuotaUsed + Sum(order) <= QuotaLimit

Lines(order) == {i \in Items : order[i] > 0}

(* The lowest n ids of batches that do not exist yet.                      *)
Unused == {b \in Batches : batchItem[b] = NoItem}
Fresh(n) == {b \in Unused : Cardinality({c \in Unused : c <= b}) <= n}

-----------------------------------------------------------------------------
(* Submitting requests *)

(* Ids are handed out in order.                                            *)
NextId(r) == status[r] = "NONE" /\ \A q \in 1 .. r - 1 : status[q] # "NONE"

(* createRequestHead with its lines.                                       *)
NewHead(r, newStatus, newType, order, returns, writeOffs, of) ==
  /\ type' = [type EXCEPT ![r] = newType]
  /\ status' = [status EXCEPT ![r] = newStatus]
  /\ lines' = [lines EXCEPT ![r] = order]
  /\ ret' = [ret EXCEPT ![r] = returns] /\ off' = [off EXCEPT ![r] = writeOffs]
  /\ ref' = [ref EXCEPT ![r] = of]

NoActs == Zero(Records)

(* The rows of every line are locked first; the whole order fits or none.  *)
FitsStock(order) ==
  /\ Lines(order) # {} /\ Lines(order) \subseteq rows
  /\ \A i \in Lines(order) : book[i] - reserved[i] >= order[i]

(* Mutant: reserved_quantity is set, not incremented.                      *)
ReserveOnce(order) ==
  reserved' = [i \in Items |-> IF order[i] > 0 THEN order[i] ELSE reserved[i]]

Reserve(order) == reserved' = [i \in Items |-> reserved[i] + order[i]]

(* ClaimService.submit, AgentClaimService.submit, StockChangeService.submit *)
SubmitReserving(r) ==
  /\ NextId(r)
  /\ \E t \in Reserving \cap Types, order \in Orders :
       /\ FitsStock(order)
       /\ t \in Issuing => active /\ consumable = "ACTIVE"
       /\ t = "CONSUMABLE_REQUEST" => WithinQuota(order)
       /\ Reserve(order)
       /\ NewHead(r, "PENDING", t, order, NoActs, NoActs, 0)
       /\ quota' = [quota EXCEPT ![r] = IF t = "CONSUMABLE_REQUEST" THEN "RESERVED" ELSE "NONE"]
       /\ UNCHANGED <<rows, book, batchItem, remaining, received, touched, lendVars, otherVars, seen>>

(* StockInService.submit: nothing is reserved.                             *)
SubmitStockIn(r) ==
  /\ NextId(r) /\ "STOCK_IN" \in Types
  /\ consumable = "ACTIVE"
  /\ \E order \in Orders :
       /\ Lines(order) # {}
       /\ NewHead(r, "PENDING", "STOCK_IN", order, NoActs, NoActs, 0)
       /\ UNCHANGED <<stockVars, lendVars, quota, otherVars, seen>>

(* The employee's own open records.                                        *)
OwnOpen == {x \in Records : Personal(x) /\ Open(x) > 0}
NonEmpty(S) == (SUBSET S) \ {{}}

(* BorrowService.submitBorrowAction: returns or write-offs of own records. *)
SubmitBorrowAction(r) ==
  /\ NextId(r) /\ active
  /\ \E t \in {"RETURN", "WRITE_OFF"} \cap Types, recs \in NonEmpty(OwnOpen) :
       \E n \in [recs -> 1 .. MaxLine] :
         LET acts == [x \in Records |-> IF x \in recs THEN n[x] ELSE 0]
         IN /\ \A x \in recs : n[x] <= Available(x, 0)
            /\ IF t = "RETURN" THEN NewHead(r, "PENDING", t, Zero(Items), acts, NoActs, 0)
                               ELSE NewHead(r, "PENDING", t, Zero(Items), NoActs, acts, 0)
            /\ UNCHANGED <<stockVars, lendVars, quota, otherVars, seen>>

OpenOf(list) == {x \in Records : x[1] = list /\ Open(x) > 0}

(* Every open record of the shared list, each quantity split between       *)
(* returning and writing off.                                              *)
Split(list, n) == DOMAIN n = OpenOf(list) /\ \A x \in DOMAIN n : n[x] <= Open(x)
Kept(n) == [x \in Records |-> IF x \in DOMAIN n THEN n[x] ELSE 0]

(* Mutant: what is not returned is not written off.                        *)
LostNothing(n) == NoActs

Lost(n) == [x \in Records |-> IF x \in DOMAIN n THEN Open(x) - n[x] ELSE 0]

(* AgentSettlementService.submit reads the open records without a lock ... *)
DraftSettlement(r) ==
  /\ NextId(r) /\ active /\ "AGENT_SETTLEMENT" \in Types
  /\ \E list \in {q \in Requests : type[q] = "AGENT_REQUEST"} :
       \E n \in [OpenOf(list) -> 0 .. MaxLine] :
         /\ OpenOf(list) # {} /\ Split(list, n)
         /\ NewHead(r, "DRAFT", "AGENT_SETTLEMENT", Zero(Items), Kept(n), Lost(n), list)
         /\ UNCHANGED <<stockVars, lendVars, quota, otherVars, seen>>

(* ... and inserts its head, unless the partial unique index on            *)
(* ref_request_id finds another pending settlement of the list: then the   *)
(* transaction is rolled back.                                             *)
InsertSettlement(r) ==
  /\ status[r] = "DRAFT"
  /\ LET taken == \E q \in Requests : /\ status[q] = "PENDING" /\ type[q] = "AGENT_SETTLEMENT"
                                     /\ ref[q] = ref[r]
     IN status' = [status EXCEPT ![r] = IF taken THEN "NONE" ELSE "PENDING"]
  /\ UNCHANGED <<stockVars, type, lines, ret, off, ref, lendVars, quota, otherVars, seen>>

-----------------------------------------------------------------------------
(* Deciding requests: the head is read first, the rest is one transaction  *)

Clear(d) == seen' = [seen EXCEPT ![d] = Nobody]

(* processInner and cancelInner: the head must be PENDING.                 *)
ReadHead(d, r) ==
  /\ seen[d] = Nobody
  /\ status[r] = "PENDING"
  /\ \E a \in {"APPROVE", "REJECT", "CANCEL"} :
       /\ a = "CANCEL" /\ type[r] \notin {"STOCK_IN", "STOCK_CHANGE"} => active
       /\ seen' = [seen EXCEPT ![d] = [req |-> r, action |-> a]]
  /\ UNCHANGED <<stockVars, headVars, lendVars, quota, otherVars>>

(* listOverduePending: the oldest first, so a row whose release throws     *)
(* stands before all the others in every scan.                             *)
ReadOverdue ==
  /\ "overdue" \in Features
  /\ seen["scan"] = Nobody
  /\ \E r \in Requests :
       /\ status[r] = "PENDING" /\ \A q \in 1 .. r - 1 : status[q] # "PENDING"
       /\ seen' = [seen EXCEPT !["scan"] = [req |-> r, action |-> "OVERDUE"]]
  /\ UNCHANGED <<stockVars, headVars, lendVars, quota, otherVars>>

(* cleanupEmptyItem of the locations in S, once `keep` are lent out.       *)
Swept(S, newBook, newReserved, keep) ==
  rows \ {i \in S : newBook[i] = 0 /\ newReserved[i] = 0 /\ i \notin keep /\ ~OpenAt(i)}

(* applyApproved of claims, agent claims and stock changes.                *)
CanIssue(r) ==
  \A i \in Lines(lines[r]) : i \in rows /\ reserved[i] >= lines[r][i] /\ InStock(i) >= lines[r][i]

Issue(r) ==
  LET order == lines[r]
      lends == Reusable /\ type[r] \in Issuing
      out == [b \in Batches |-> IF batchItem[b] \in Items
                                  THEN Taken(batchItem[b], order[batchItem[b]], b) ELSE 0]
      newBook == [i \in Items |-> book[i] - order[i]]
      newReserved == [i \in Items |-> reserved[i] - order[i]]
  IN /\ book' = newBook /\ reserved' = newReserved
     /\ remaining' = [b \in Batches |-> remaining[b] - out[b]]
     /\ touched' = touched \cup {b \in Batches : out[b] > 0}
     /\ issued' = [rec \in Records |->
                     IF lends /\ rec[1] = r
                       THEN [b \in Batches |-> IF batchItem[b] = ItemOf(rec) THEN out[b] ELSE 0]
                       ELSE issued[rec]]
     /\ rows' = Swept(Lines(order), newBook, newReserved, IF lends THEN Lines(order) ELSE {})
     /\ quota' = [quota EXCEPT ![r] = IF @ = "RESERVED" THEN "CONSUMED" ELSE @]
     /\ UNCHANGED <<batchItem, received, returned, writtenOff, back>>

(* Mutant: the consumable is not looked up again.                          *)
CanReceiveAlways(r) == TRUE

CanReceive(r) == consumable # "DELETED"

(* StockInService.applyApproved: a batch per line, at a location that is   *)
(* created when it does not exist.                                         *)
Receive(r) ==
  LET order == lines[r]
      new == Fresh(Cardinality(Lines(order)))
  IN \E f \in Bijection(new, Lines(order)), date \in Dates :
       /\ rows' = rows \cup Lines(order)
       /\ book' = [i \in Items |-> book[i] + order[i]]
       /\ batchItem' = [b \in Batches |-> IF b \in new THEN f[b] ELSE batchItem[b]]
       /\ remaining' = [b \in Batches |-> IF b \in new THEN order[f[b]] ELSE remaining[b]]
       /\ received' = [b \in Batches |-> IF b \in new THEN date ELSE received[b]]
       /\ UNCHANGED <<reserved, touched, lendVars, quota>>

(* restoreRecord and writeOffRecord for every line, by the transaction     *)
(* that decides r; the CHECK of borrow_records is the last condition.      *)
CanAct(returns, writeOffs, r) ==
  \A rec \in Records :
    LET allocated == Sum([b \in Batches |-> issued[rec][b] - back[rec][b]])
    IN /\ returns[rec] > 0 => /\ returns[rec] <= Available(rec, r)
                              /\ returns[rec] <= allocated
                              /\ ItemOf(rec) \in rows
                              /\ \A b \in Batches : issued[rec][b] > 0 => batchItem[b] = ItemOf(rec)
       /\ writeOffs[rec] > 0 => writeOffs[rec] <= Available(rec, r)
       /\ returned[rec] + writtenOff[rec] + returns[rec] + writeOffs[rec] <= Qty(rec)

ReturnedTo(i, returns, writeOffs) ==
  Sum([rec \in {x \in Records : ItemOf(x) = i} |-> returns[rec]])

Act(returns, writeOffs) ==
  LET restored(b) == Sum([rec \in Records |-> Restored(rec, returns[rec], b)])
  IN /\ returned' = [rec \in Records |-> returned[rec] + returns[rec]]
     /\ writtenOff' = [rec \in Records |-> writtenOff[rec] + writeOffs[rec]]
     /\ back' = [rec \in Records |->
                   [b \in Batches |-> back[rec][b] + Restored(rec, returns[rec], b)]]
     /\ remaining' = [b \in Batches |-> remaining[b] + restored(b)]
     /\ book' = [i \in Items |-> book[i] + ReturnedTo(i, returns, writeOffs)]
     /\ touched' = touched \cup {b \in Batches : restored(b) > 0}
     /\ UNCHANGED <<rows, reserved, batchItem, received, issued, quota>>

(* The side effect of an approval; one that throws rolls the whole         *)
(* decision back and the request stays PENDING.                            *)
CanApply(r) ==
  CASE type[r] = "STOCK_IN" -> CanReceive(r)
    [] type[r] \in Reserving -> CanIssue(r)
    [] OTHER -> CanAct(ret[r], off[r], r)

Apply(r) ==
  \/ type[r] = "STOCK_IN" /\ Receive(r)
  \/ type[r] \in Reserving /\ Issue(r)
  \/ type[r] \in Acting /\ Act(ret[r], off[r])

(* applyRelease skips a location whose reservation is too small; the       *)
(* overdue scan subtracts anyway and would break the CHECK of the table.   *)
CanRelease(r, a) ==
  a = "OVERDUE" /\ type[r] \in Reserving => \A i \in rows : reserved[i] >= lines[r][i]

Release(r) ==
  /\ reserved' = [i \in Items |->
       IF type[r] \in Reserving /\ i \in rows /\ reserved[i] >= lines[r][i]
         THEN reserved[i] - lines[r][i] ELSE reserved[i]]
  /\ quota' = [quota EXCEPT ![r] = IF @ = "RESERVED" THEN "RELEASED" ELSE @]
  /\ UNCHANGED <<rows, book, batchItem, remaining, received, touched, lendVars>>

(* Mutant: the update of the head has no condition on status and version.  *)
StillPendingAlways(r) == status[r] # "NONE"

(* WHERE status = 'PENDING' AND version = head.version.                    *)
StillPending(r) == status[r] = "PENDING"

Outcome(a) ==
  CASE a = "APPROVE" -> "APPROVED" [] a = "REJECT" -> "REJECTED" [] OTHER -> "CANCELLED"

(* The transaction commits: the head's conditional update and the side     *)
(* effect, or nothing when another decision came first or one of them      *)
(* failed.                                                                 *)
Decide(d) ==
  /\ seen[d] # Nobody
  /\ LET r == seen[d].req
         a == seen[d].action
     IN IF StillPending(r) /\ (IF a = "APPROVE" THEN CanApply(r) ELSE CanRelease(r, a))
          THEN /\ a = "APPROVE" /\ type[r] = "STOCK_IN" =>
                    Cardinality(Unused) >= Cardinality(Lines(lines[r]))
               /\ status' = [status EXCEPT ![r] = Outcome(a)]
               /\ IF a = "APPROVE" THEN Apply(r) ELSE Release(r)
          ELSE UNCHANGED <<stockVars, status, lendVars, quota>>
  /\ Clear(d)
  /\ UNCHANGED <<type, lines, ret, off, ref, otherVars>>

-----------------------------------------------------------------------------
(* Operations without a request *)

(* TransferService.create: the batches that leave i arrive at j as         *)
(* sub-batches of the same date.                                           *)
Transfer(i, j) ==
  /\ "transfer" \in Features
  /\ i \in rows /\ i # j
  /\ \E q \in 1 .. MaxLine :
       /\ book[i] - reserved[i] >= q /\ InStock(i) >= q
       /\ LET gives == {b \in BatchesAt(i) : Taken(i, q, b) > 0}
              new == Fresh(Cardinality(gives))
              newBook == [book EXCEPT ![i] = @ - q, ![j] = @ + q]
          IN /\ Cardinality(new) = Cardinality(gives)
             /\ \E f \in Bijection(new, gives) :
                  /\ \A b, c \in new : b < c => Before(f[b], f[c])
                  /\ batchItem' = [b \in Batches |-> IF b \in new THEN j ELSE batchItem[b]]
                  /\ received' = [b \in Batches |-> IF b \in new THEN received[f[b]] ELSE received[b]]
                  /\ remaining' = [b \in Batches |->
                       IF b \in new THEN Taken(i, q, f[b])
                       ELSE IF b \in gives THEN remaining[b] - Taken(i, q, b) ELSE remaining[b]]
             /\ touched' = touched \cup gives \cup new
             /\ book' = newBook
             /\ rows' = Swept({i}, newBook, reserved, {}) \cup {j}
  /\ UNCHANGED <<reserved, headVars, lendVars, quota, otherVars, seen>>

(* Mutant: the stock flows of the batch are not asked for.                 *)
MovableUntouched(b) == reserved[batchItem[b]] = 0

(* correctBatch: no flow but STOCK_IN, and nothing reserved at the source. *)
Movable(b) == b \notin touched /\ reserved[batchItem[b]] = 0

(* InventoryService.correctBatch with another spec or warehouse.           *)
Correct(b, j) ==
  /\ "correct" \in Features
  /\ batchItem[b] \in rows /\ batchItem[b] # j
  /\ Movable(b)
  /\ remaining[b] > 0
  /\ LET i == batchItem[b]
         newBook == [book EXCEPT ![i] = @ - remaining[b], ![j] = @ + remaining[b]]
     IN /\ book' = newBook
        /\ rows' = Swept({i}, newBook, reserved, {}) \cup {j}
  /\ batchItem' = [batchItem EXCEPT ![b] = j]
  /\ touched' = touched \cup {b}
  /\ UNCHANGED <<reserved, remaining, received, headVars, lendVars, quota, otherVars, seen>>

(* The account is deactivated or restored by the backstage service.        *)
SetActive ==
  /\ "deactivate" \in Features
  /\ active' = ~active
  /\ UNCHANGED <<stockVars, headVars, lendVars, quota, consumable, deleting, seen>>

(* DisposalService.dispose: records of a deactivated employee.             *)
Dispose ==
  /\ ~active
  /\ \E recs \in NonEmpty(OwnOpen) :
       \E n \in [recs -> 1 .. MaxLine], returning \in SUBSET recs :
         LET returns == [x \in Records |-> IF x \in returning THEN n[x] ELSE 0]
             writeOffs == [x \in Records |-> IF x \in recs \ returning THEN n[x] ELSE 0]
         IN /\ CanAct(returns, writeOffs, 0)
            /\ Act(returns, writeOffs)
            /\ UNCHANGED <<headVars, otherVars, seen>>

(* disposeAgentSettle: the whole shared list of a deactivated proxy, when  *)
(* no settlement of it is pending.                                         *)
DisposeAgentSettle ==
  /\ ~active
  /\ \E list \in {q \in Requests : type[q] = "AGENT_REQUEST"} :
       \E n \in [OpenOf(list) -> 0 .. MaxLine] :
         /\ \A q \in Requests : ~(status[q] = "PENDING" /\ type[q] = "AGENT_SETTLEMENT" /\ ref[q] = list)
         /\ OpenOf(list) # {} /\ Split(list, n)
         /\ CanAct(Kept(n), Lost(n), 0)
         /\ Act(Kept(n), Lost(n))
         /\ UNCHANGED <<headVars, otherVars, seen>>

(* ConsumableService.update of the status.                                 *)
SetStatus ==
  /\ "disable" \in Features
  /\ consumable # "DELETED"
  /\ consumable' = IF consumable = "ACTIVE" THEN "DISABLED" ELSE "ACTIVE"
  /\ UNCHANGED <<stockVars, headVars, lendVars, quota, deleting, active, seen>>

(* countReferenced: stock, open records, pending lines.                    *)
Referenced ==
  \/ \E i \in rows : book[i] > 0 \/ reserved[i] > 0 \/ OpenAt(i)
  \/ \E r \in Requests : status[r] = "PENDING" /\ (type[r] = "STOCK_IN" \/ type[r] \in Reserving)

(* ConsumableService.batchDelete counts without a lock ...                 *)
CountReferences ==
  /\ "delete" \in Features
  /\ consumable # "DELETED" /\ ~deleting /\ ~Referenced
  /\ deleting' = TRUE
  /\ UNCHANGED <<stockVars, headVars, lendVars, quota, consumable, active, seen>>

(* ... and deletes whatever rows there are by then.                        *)
DeleteConsumable ==
  /\ deleting
  /\ deleting' = FALSE
  /\ consumable' = "DELETED"
  /\ rows' = {}
  /\ book' = Zero(Items) /\ reserved' = Zero(Items)
  /\ UNCHANGED <<batchItem, remaining, received, touched, headVars, lendVars, quota, active, seen>>

-----------------------------------------------------------------------------
Submit(r) ==
  \/ SubmitReserving(r) \/ SubmitStockIn(r) \/ SubmitBorrowAction(r)
  \/ DraftSettlement(r) \/ InsertSettlement(r)

Scan == ReadOverdue \/ Decide("scan")

Next ==
  \/ \E r \in Requests : Submit(r) \/ \E d \in Deciders : ReadHead(d, r)
  \/ \E d \in Deciders : Decide(d)
  \/ Scan
  \/ \E i, j \in Items : Transfer(i, j)
  \/ \E b \in Batches, j \in Items : Correct(b, j)
  \/ SetActive \/ Dispose \/ DisposeAgentSettle
  \/ SetStatus \/ CountReferences \/ DeleteConsumable

Spec == Init /\ [][Next]_vars

(* The overdue scan runs for ever (a repeated background task), and what   *)
(* it has read it decides.                                                 *)
FairSpec == Spec /\ WF_vars(ReadOverdue) /\ WF_vars(Decide("scan"))

-----------------------------------------------------------------------------
(* Properties *)

Pending(types) == {r \in Requests : status[r] = "PENDING" /\ type[r] \in types}
Approved(types) == {r \in Requests : status[r] = "APPROVED" /\ type[r] \in types}
Total(S) == Sum([r \in S |-> Sum(lines[r])])

(* What is reserved at a location is what the pending requests ask of it:  *)
(* decisions, cancellations and the overdue scan release each reservation  *)
(* once, and no location with a reservation is cleaned up.                 *)
ReservedIsPending ==
  \A i \in Items : reserved[i] = Sum([r \in Pending(Reserving) |-> lines[r][i]])

(* The book quantity of a location is what its batches hold, and covers    *)
(* the reservations (FIFO outflow, sub-batches, corrections, returns).     *)
BookIsBatches ==
  \A i \in Items : book[i] = InStock(i) /\ reserved[i] <= book[i]

(* Nothing is lost or made: all that was received is in stock, taken out   *)
(* by a stock change, consumed, or lent and not returned.                  *)
StockConserved ==
  Sum(InitialStock) + Total(Approved({"STOCK_IN"}))
    = Sum(book) + Total(Approved(Reserving)) - Sum(returned)

(* Quantities never go below zero, and the three accounts of stock agree:  *)
(* reservations with requests, book quantities with batches, and the whole *)
(* with what came in and went out (the CHECKs of inventory_items, claim,   *)
(* borrow and transfer services).                                          *)
StockSound == TypeOK /\ ReservedIsPending /\ BookIsBatches /\ StockConserved

(* A borrow record can always be returned: what its batches still owe is   *)
(* what it has not returned, they are where it was lent from, and that     *)
(* location exists while the record is open (cleanupEmptyItem, transfers   *)
(* and corrections leave them alone).                                      *)
Returnable ==
  \A rec \in Records :
    /\ Sum([b \in Batches |-> issued[rec][b] - back[rec][b]]) = Qty(rec) - returned[rec]
    /\ Open(rec) > 0 => /\ ItemOf(rec) \in rows
                        /\ \A b \in Batches : issued[rec][b] > 0 => batchItem[b] = ItemOf(rec)

(* Pending returns and write-offs never ask for more than is open, so each *)
(* of them can still be approved (direct disposal excludes them too).      *)
ActionsFit ==
  \A rec \in Records :
    /\ Open(rec) >= 0
    /\ Personal(rec) =>
         Sum([r \in Pending({"RETURN", "WRITE_OFF"}) |-> ret[r][rec] + off[r][rec]]) <= Open(rec)

(* The employee's claims, pending, consumed or still held, stay within the *)
(* limit, and the quota table counts exactly them.                         *)
QuotaKept ==
  LET claims == IF Reusable THEN Pending({"CONSUMABLE_REQUEST"})
                ELSE Pending({"CONSUMABLE_REQUEST"}) \cup Approved({"CONSUMABLE_REQUEST"})
      held == Sum([rec \in {x \in Records : Personal(x)} |-> Open(rec)])
  IN QuotaUsed = Total(claims) + held /\ QuotaUsed <= QuotaLimit

(* Every pending request is decided in the end: the release of an overdue  *)
(* one never throws, so it does not block the scan.                        *)
PendingEnds == \A r \in Requests : status[r] = "PENDING" ~> status[r] # "PENDING"

(* A shared list is settled as a whole or not at all, by its settlement    *)
(* request or directly, also when both were under way at once.             *)
SettledWhole ==
  \A list \in Approved({"AGENT_REQUEST"}) :
    LET lent == {x \in Records : x[1] = list /\ Qty(x) > 0}
    IN (\A x \in lent : Open(x) = Qty(x)) \/ (\A x \in lent : Open(x) = 0)

(* Whatever was under way when a consumable was deleted, no stock of it    *)
(* appears afterwards.                                                     *)
NothingAfterDeletion == consumable = "DELETED" => rows = {}

=============================================================================
