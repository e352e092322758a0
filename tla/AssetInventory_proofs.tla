------------------------ MODULE AssetInventory_proofs ------------------------
(***************************************************************************)
(* The stock accounts of the consumables for any number of locations,      *)
(* batches, requests, quantities and people deciding: what is reserved,    *)
(* booked, lent and counted against a quota, as long as the consumable is  *)
(* not deleted; and what no operation does once it is.                     *)
(***************************************************************************)
EXTENDS AssetInventory, Sums_proofs

-----------------------------------------------------------------------------
(* What the invariant adds up, as operators of the variables' values: the  *)
(* same operators speak of the state before a step and after it.           *)

AskTerm(st, ty, li, i) ==
  [r \in Requests |-> IF st[r] = "PENDING" /\ ty[r] \in Reserving THEN li[r][i] ELSE 0]
AskedAt(st, ty, li, i) == SumFunction(AskTerm(st, ty, li, i))

HoldTerm(bi, rem, i) == [b \in Batches |-> IF bi[b] = i THEN rem[b] ELSE 0]
HeldAt(bi, rem, i) == SumFunction(HoldTerm(bi, rem, i))

FlowTerm(st, ty, li, K) ==
  [r \in Requests |-> IF st[r] = "APPROVED" /\ ty[r] \in K THEN SumFunction(li[r]) ELSE 0]
Flow(st, ty, li, K) == SumFunction(FlowTerm(st, ty, li, K))

LendsIn(st, ty, r) == Reusable /\ ty[r] \in Issuing /\ st[r] = "APPROVED"
Lent(st, ty, li, rec) == IF LendsIn(st, ty, rec[1]) THEN li[rec[1]][rec[2]] ELSE 0
Owed(is, ba) == SumFunction([b \in Batches |-> is[b] - ba[b]])

BorrowActs == {"RETURN", "WRITE_OFF"}
ActTerm(st, ty, re, wo, rec) ==
  [r \in Requests |-> IF st[r] = "PENDING" /\ ty[r] \in BorrowActs THEN re[r][rec] + wo[r][rec] ELSE 0]
ActsOn(st, ty, re, wo, rec) == SumFunction(ActTerm(st, ty, re, wo, rec))

ClaimTerm(st, ty, li) ==
  [r \in Requests |-> IF ty[r] = "CONSUMABLE_REQUEST"
                         /\ (st[r] = "PENDING" \/ (~Reusable /\ st[r] = "APPROVED"))
                        THEN SumFunction(li[r]) ELSE 0]
Claims(st, ty, li) == SumFunction(ClaimTerm(st, ty, li))

KeepTerm(st, ty, li, rt, wo) ==
  [rec \in Records |-> IF ty[rec[1]] = "CONSUMABLE_REQUEST"
                         THEN Lent(st, ty, li, rec) - rt[rec] - wo[rec] ELSE 0]
Keeps(st, ty, li, rt, wo) == SumFunction(KeepTerm(st, ty, li, rt, wo))

-----------------------------------------------------------------------------
(* The inductive invariant.                                                *)

StockTyped ==
  /\ rows \subseteq Items
  /\ book \in [Items -> Nat] /\ reserved \in [Items -> Nat]
  /\ batchItem \in [Batches -> Items \cup {NoItem}]
  /\ remaining \in [Batches -> Nat] /\ received \in [Batches -> Nat]
  /\ touched \subseteq Batches

Quantities == [Items -> Nat]
RecordQuantities == [Records -> Nat]

HeadTyped ==
  /\ type \in [Requests -> RequestTypes \cup {"none"}]
  /\ status \in [Requests -> Statuses]
  /\ lines \in [Requests -> Quantities]
  /\ ret \in [Requests -> RecordQuantities] /\ off \in [Requests -> RecordQuantities]
  /\ ref \in [Requests -> Requests \cup {0}]

LendTyped ==
  /\ returned \in RecordQuantities /\ writtenOff \in RecordQuantities
  /\ issued \in [Records -> [Batches -> Nat]] /\ back \in [Records -> [Batches -> Nat]]

QuotaTyped == quota \in [Requests -> {"NONE", "RESERVED", "CONSUMED", "RELEASED"}]

(* A decision under way has read a request.                                *)
OthersTyped ==
  /\ consumable \in {"ACTIVE", "DISABLED", "DELETED"}
  /\ deleting \in BOOLEAN /\ active \in BOOLEAN
  /\ seen \in [Deciders \cup {"scan"} -> [req : Requests \cup {0}, action : Actions \cup {"none"}]]
  /\ \A d \in Deciders \cup {"scan"} : seen[d] # Nobody => seen[d].req \in Requests

(* The three accounts of stock; a location that was cleaned up held        *)
(* nothing.                                                                *)
StockInv ==
  \A i \in Items :
    /\ reserved[i] = AskedAt(status, type, lines, i)
    /\ book[i] = HeldAt(batchItem, remaining, i)
    /\ reserved[i] <= book[i]
    /\ i \notin rows => book[i] = 0

FlowInv ==
  SumFunction(InitialStock) + Flow(status, type, lines, {"STOCK_IN"})
    = SumFunction(book) + Flow(status, type, lines, Reserving) - SumFunction(returned)

(* A borrow record: its batches stay where they are, for they are touched; *)
(* a request that lent nothing has none.                                   *)
LendInv ==
  \A rec \in Records :
    /\ Owed(issued[rec], back[rec]) = Lent(status, type, lines, rec) - returned[rec]
    /\ \A b \in Batches :
         /\ back[rec][b] <= issued[rec][b]
         /\ issued[rec][b] > 0 => b \in touched /\ batchItem[b] = rec[2]
    /\ ~LendsIn(status, type, rec[1]) =>
         /\ returned[rec] = 0 /\ writtenOff[rec] = 0
         /\ \A b \in Batches : issued[rec][b] = 0 /\ back[rec][b] = 0
    /\ returned[rec] + writtenOff[rec] <= Lent(status, type, lines, rec)
    /\ returned[rec] + writtenOff[rec] < Lent(status, type, lines, rec) => rec[2] \in rows

(* What pending requests ask of a record: returns and write-offs of        *)
(* personal records fit what is open, a settlement asks for all that its   *)
(* list was lent.                                                          *)
PersonalActs ==
  \A r \in Requests : status[r] = "PENDING" /\ type[r] \in BorrowActs =>
    \A rec \in Records : ret[r][rec] + off[r][rec] > 0 =>
      LendsIn(status, type, rec[1]) /\ type[rec[1]] = "CONSUMABLE_REQUEST"

SettlementActs ==
  \A r \in Requests : status[r] \in {"DRAFT", "PENDING"} /\ type[r] = "AGENT_SETTLEMENT" =>
    /\ ref[r] \in Requests /\ LendsIn(status, type, ref[r]) /\ type[ref[r]] = "AGENT_REQUEST"
    /\ \A rec \in Records : ret[r][rec] + off[r][rec] =
                              IF rec[1] = ref[r] THEN Lent(status, type, lines, rec) ELSE 0

ActsFitOpen ==
  \A rec \in Records : type[rec[1]] = "CONSUMABLE_REQUEST" =>
    ActsOn(status, type, ret, off, rec)
      <= Lent(status, type, lines, rec) - returned[rec] - writtenOff[rec]

(* A shared list has given nothing back, or all.                           *)
WholeLists ==
  \A list \in Requests : LendsIn(status, type, list) /\ type[list] = "AGENT_REQUEST" =>
    \/ \A rec \in Records : rec[1] = list => returned[rec] + writtenOff[rec] = 0
    \/ \A rec \in Records : rec[1] = list =>
         returned[rec] + writtenOff[rec] = Lent(status, type, lines, rec)

Drafts == \A r \in Requests : status[r] = "DRAFT" => type[r] = "AGENT_SETTLEMENT"

ActInv == PersonalActs /\ SettlementActs /\ ActsFitOpen /\ WholeLists /\ Drafts

QuotaInv ==
  /\ \A r \in Requests :
       /\ quota[r] = "RESERVED" <=> status[r] = "PENDING" /\ type[r] = "CONSUMABLE_REQUEST"
       /\ quota[r] = "CONSUMED" <=> status[r] = "APPROVED" /\ type[r] = "CONSUMABLE_REQUEST"
  /\ Claims(status, type, lines) + Keeps(status, type, lines, returned, writtenOff) <= QuotaLimit

Typed == StockTyped /\ HeadTyped /\ LendTyped /\ QuotaTyped /\ OthersTyped
IInv == Typed /\ StockInv /\ FlowInv /\ LendInv /\ ActInv /\ QuotaInv

LEMMA TypedIsTypeOK == Typed => TypeOK
  BY DEF Typed, StockTyped, HeadTyped, LendTyped, QuotaTyped, OthersTyped, TypeOK, Quantities,
         RecordQuantities

LEMMA AllFinite ==
  /\ IsFiniteSet(Requests) /\ IsFiniteSet(Items) /\ IsFiniteSet(Batches) /\ IsFiniteSet(Records)
  /\ Requests \subseteq Nat \ {0} /\ Items \subseteq Nat \ {0} /\ Batches \subseteq Nat \ {0}
  /\ NoItem \notin Items
<1>1. IsFiniteSet(Requests) /\ IsFiniteSet(Batches)
  BY AssetAssumption, FS_Interval DEF Requests, Batches
<1>2. Items \subseteq Batches
  BY AssetAssumption DEF Batches
<1>3. IsFiniteSet(Items)
  BY <1>1, <1>2, FS_Subset
<1>4. IsFiniteSet(Records)
  BY <1>1, <1>3, FS_Product DEF Records
<1>5. Requests \subseteq Nat \ {0} /\ Batches \subseteq Nat \ {0}
  BY AssetAssumption DEF Requests, Batches
<1> QED
  BY <1>1, <1>2, <1>3, <1>4, <1>5 DEF NoItem

-----------------------------------------------------------------------------
(* One request's head moves: the sums change by its term.                  *)

LEMMA TermTypes ==
  ASSUME NEW st, NEW ty, NEW li \in [Requests -> Quantities]
  PROVE  /\ \A i \in Items : AskTerm(st, ty, li, i) \in [Requests -> Nat]
         /\ \A K : FlowTerm(st, ty, li, K) \in [Requests -> Nat]
         /\ ClaimTerm(st, ty, li) \in [Requests -> Nat]
         /\ \A rec \in Records : Lent(st, ty, li, rec) \in Nat
<1>1. \A r \in Requests : li[r] \in [Items -> Nat] /\ SumFunction(li[r]) \in Nat
  <2>1. \A f \in [Items -> Nat] : SumFunction(f) \in Nat
    BY AllFinite, SumNat
  <2> QED
    BY <2>1 DEF Quantities
<1>2. \A i \in Items : AskTerm(st, ty, li, i) \in [Requests -> Nat]
  BY <1>1 DEF AskTerm
<1>3. \A K : FlowTerm(st, ty, li, K) \in [Requests -> Nat]
  BY <1>1 DEF FlowTerm
<1>4. ClaimTerm(st, ty, li) \in [Requests -> Nat]
  BY <1>1 DEF ClaimTerm
<1>5. \A rec \in Records : Lent(st, ty, li, rec) \in Nat
  BY <1>1 DEF Lent, Records
<1> QED
  BY <1>2, <1>3, <1>4, <1>5

LEMMA NatSums ==
  /\ \A f \in [Requests -> Nat] : SumFunction(f) \in Nat
  /\ \A f \in [Items -> Nat] : SumFunction(f) \in Nat
  /\ \A f \in [Batches -> Nat] : SumFunction(f) \in Nat
  /\ \A f \in [Records -> Nat] : SumFunction(f) \in Nat
  /\ \A f \in [Records -> Int] : SumFunction(f) \in Int
<1>1. IsFiniteSet(Requests) /\ IsFiniteSet(Items) /\ IsFiniteSet(Batches) /\ IsFiniteSet(Records)
  BY AllFinite
<1>2. \A f \in [Requests -> Nat] : SumFunction(f) \in Nat
  BY ONLY <1>1, SumNat
<1>3. \A f \in [Items -> Nat] : SumFunction(f) \in Nat
  BY ONLY <1>1, SumNat
<1>4. \A f \in [Batches -> Nat] : SumFunction(f) \in Nat
  BY ONLY <1>1, SumNat
<1>5. \A f \in [Records -> Nat] : SumFunction(f) \in Nat
  BY ONLY <1>1, SumNat
<1>6. \A f \in [Records -> Int] : SumFunction(f) \in Int
  BY ONLY <1>1, SumInt
<1> QED
  BY <1>2, <1>3, <1>4, <1>5, <1>6

LEMMA Accounts ==
  ASSUME NEW st, NEW ty, NEW li \in [Requests -> Quantities]
  PROVE  /\ \A i \in Items : AskedAt(st, ty, li, i) \in Nat
         /\ \A K : Flow(st, ty, li, K) \in Nat
         /\ Claims(st, ty, li) \in Nat
         /\ \A rt \in RecordQuantities : \A wo \in RecordQuantities : Keeps(st, ty, li, rt, wo) \in Int
<1>1. \A i \in Items : AskedAt(st, ty, li, i) \in Nat
  BY TermTypes, NatSums DEF AskedAt
<1>2. \A K : Flow(st, ty, li, K) \in Nat
  BY TermTypes, NatSums DEF Flow
<1>3. Claims(st, ty, li) \in Nat
  BY TermTypes, NatSums DEF Claims
<1>4. ASSUME NEW rt \in RecordQuantities, NEW wo \in RecordQuantities PROVE Keeps(st, ty, li, rt, wo) \in Int
  <2>1. PICK g : g = KeepTerm(st, ty, li, rt, wo)
    OBVIOUS
  <2>2. \A rec \in Records : Lent(st, ty, li, rec) \in Nat /\ rt[rec] \in Nat /\ wo[rec] \in Nat
    BY TermTypes DEF RecordQuantities
  <2>3. \A rec \in Records : g[rec] \in Int
    BY <2>1, <2>2 DEF KeepTerm
  <2>4. g \in [Records -> Int]
    BY <2>1, <2>3 DEF KeepTerm
  <2> QED
    BY <2>1, <2>4, NatSums DEF Keeps
<1> QED
  BY <1>1, <1>2, <1>3, <1>4

HeadsApart(r) ==
  \A q \in Requests \ {r} :
    /\ status'[q] = status[q] /\ type'[q] = type[q] /\ lines'[q] = lines[q]
    /\ ret'[q] = ret[q] /\ off'[q] = off[q] /\ ref'[q] = ref[q]

LEMMA HeadMoves ==
  ASSUME HeadTyped, HeadTyped', NEW r \in Requests, HeadsApart(r)
  PROVE  /\ \A i \in Items : AskedAt(status', type', lines', i)
              = AskedAt(status, type, lines, i) - AskTerm(status, type, lines, i)[r]
                  + AskTerm(status', type', lines', i)[r]
         /\ \A K : Flow(status', type', lines', K)
              = Flow(status, type, lines, K) - FlowTerm(status, type, lines, K)[r]
                  + FlowTerm(status', type', lines', K)[r]
         /\ Claims(status', type', lines')
              = Claims(status, type, lines) - ClaimTerm(status, type, lines)[r]
                  + ClaimTerm(status', type', lines')[r]
<1>1. lines \in [Requests -> Quantities] /\ lines' \in [Requests -> Quantities]
  BY DEF HeadTyped
<1>2. ASSUME NEW f \in [Requests -> Nat], NEW g \in [Requests -> Nat], \A q \in Requests \ {r} : g[q] = f[q]
      PROVE  SumFunction(g) = SumFunction(f) - f[r] + g[r]
  <2>1. f \in [Requests -> Int] /\ g \in [Requests -> Int] /\ IsFiniteSet(Requests)
    BY AllFinite
  <2> QED
    BY ONLY <1>2, <2>1, SumChanges
<1>3. ASSUME NEW i \in Items
      PROVE  AskedAt(status', type', lines', i)
               = AskedAt(status, type, lines, i) - AskTerm(status, type, lines, i)[r]
                   + AskTerm(status', type', lines', i)[r]
  <2>1. PICK f, g : f = AskTerm(status, type, lines, i) /\ g = AskTerm(status', type', lines', i)
    OBVIOUS
  <2>2. f \in [Requests -> Nat] /\ g \in [Requests -> Nat]
    BY <1>1, <2>1, TermTypes
  <2>3. \A q \in Requests \ {r} : g[q] = f[q]
    BY <2>1 DEF AskTerm, HeadsApart
  <2> QED
    BY <1>2, <2>1, <2>2, <2>3 DEF AskedAt
<1>4. ASSUME NEW K
      PROVE  Flow(status', type', lines', K)
               = Flow(status, type, lines, K) - FlowTerm(status, type, lines, K)[r]
                   + FlowTerm(status', type', lines', K)[r]
  <2>1. PICK f, g : f = FlowTerm(status, type, lines, K) /\ g = FlowTerm(status', type', lines', K)
    OBVIOUS
  <2>2. f \in [Requests -> Nat] /\ g \in [Requests -> Nat]
    BY <1>1, <2>1, TermTypes
  <2>3. \A q \in Requests \ {r} : g[q] = f[q]
    BY <2>1 DEF FlowTerm, HeadsApart
  <2> QED
    BY <1>2, <2>1, <2>2, <2>3 DEF Flow
<1>5. Claims(status', type', lines')
        = Claims(status, type, lines) - ClaimTerm(status, type, lines)[r]
            + ClaimTerm(status', type', lines')[r]
  <2>1. PICK f, g : f = ClaimTerm(status, type, lines) /\ g = ClaimTerm(status', type', lines')
    OBVIOUS
  <2>2. f \in [Requests -> Nat] /\ g \in [Requests -> Nat]
    BY <1>1, <2>1, TermTypes
  <2>3. \A q \in Requests \ {r} : g[q] = f[q]
    BY <2>1 DEF ClaimTerm, HeadsApart
  <2> QED
    BY <1>2, <2>1, <2>2, <2>3 DEF Claims
<1> QED
  BY <1>3, <1>4, <1>5

(* A head that is replaced.                                                *)
LEMMA NewHeads ==
  ASSUME HeadTyped, NEW r \in Requests, NEW s \in Statuses, NEW t \in RequestTypes,
         NEW order \in Quantities, NEW returns \in RecordQuantities, NEW writeOffs \in RecordQuantities,
         NEW of \in Requests \cup {0}, NewHead(r, s, t, order, returns, writeOffs, of)
  PROVE  /\ HeadTyped' /\ HeadsApart(r)
         /\ status'[r] = s /\ type'[r] = t /\ lines'[r] = order
         /\ ret'[r] = returns /\ off'[r] = writeOffs /\ ref'[r] = of
  BY DEF HeadTyped, NewHead, HeadsApart

(* The status of a head changes.                                           *)
LEMMA NewStatus ==
  ASSUME HeadTyped, NEW r \in Requests, NEW s \in Statuses, status' = [status EXCEPT ![r] = s],
         UNCHANGED <<type, lines, ret, off, ref>>
  PROVE  /\ HeadTyped' /\ HeadsApart(r)
         /\ status'[r] = s /\ type'[r] = type[r] /\ lines'[r] = lines[r]
  BY DEF HeadTyped, HeadsApart

-----------------------------------------------------------------------------
(* What is lent and what is asked of it, when no record changes.           *)

(* A loan, once made, stays the loan it is.                                *)
LoansStay ==
  \A q \in Requests : LendsIn(status, type, q) =>
    LendsIn(status', type', q) /\ type'[q] = type[q] /\ lines'[q] = lines[q]
NoNewLoans ==
  \A q \in Requests : LendsIn(status', type', q) => LendsIn(status, type, q)

LEMMA LoansApart ==
  ASSUME HeadTyped, NEW r \in Requests, HeadsApart(r), ~LendsIn(status, type, r)
  PROVE  LoansStay /\ (~LendsIn(status', type', r) => NoNewLoans)
  BY DEF HeadTyped, HeadsApart, LoansStay, NoNewLoans, LendsIn

LEMMA SameLent ==
  ASSUME LoansStay, NoNewLoans
  PROVE  \A rec \in Records : Lent(status', type', lines', rec) = Lent(status, type, lines, rec)
  BY DEF LoansStay, NoNewLoans, Lent, Records

(* Records stay returnable while locations that go have nothing open and   *)
(* touched batches stay.                                                   *)
LEMMA LendKept ==
  ASSUME Typed, LendInv, LoansStay, NoNewLoans, UNCHANGED lendVars, touched \subseteq touched',
         \A b \in touched : batchItem[b] \in Items => batchItem'[b] = batchItem[b],
         \A rec \in Records : returned[rec] + writtenOff[rec] < Lent(status, type, lines, rec)
                              /\ rec[2] \in rows => rec[2] \in rows'
  PROVE  LendInv'
<1>1. UNCHANGED <<returned, writtenOff, issued, back>>
  BY DEF lendVars
<1>2. \A rec \in Records : Lent(status', type', lines', rec) = Lent(status, type, lines, rec)
  BY SameLent
<1>3. \A rec \in Records : rec[1] \in Requests /\ rec[2] \in Items
  BY DEF Records
<1>4. \A rec \in Records : ~LendsIn(status', type', rec[1]) => ~LendsIn(status, type, rec[1])
  BY <1>3 DEF LoansStay
<1>5. \A rec \in Records : \A b \in Batches :
        issued[rec][b] > 0 => b \in touched' /\ batchItem'[b] = rec[2]
  BY <1>3 DEF LendInv
<1>6. \A rec \in Records : returned[rec] + writtenOff[rec] < Lent(status, type, lines, rec) => rec[2] \in rows'
  BY DEF LendInv
<1> QED
  BY <1>1, <1>2, <1>4, <1>5, <1>6 DEF LendInv

LEMMA SameKeeps ==
  ASSUME Typed, LendInv, LoansStay, NoNewLoans, UNCHANGED <<returned, writtenOff>>
  PROVE  Keeps(status', type', lines', returned', writtenOff')
           = Keeps(status, type, lines, returned, writtenOff)
<1>1. PICK f, g : /\ f = KeepTerm(status, type, lines, returned, writtenOff)
                  /\ g = KeepTerm(status', type', lines', returned', writtenOff')
  OBVIOUS
<1>2. ASSUME NEW rec \in Records PROVE g[rec] = f[rec]
  <2>1. rec[1] \in Requests /\ Lent(status', type', lines', rec) = Lent(status, type, lines, rec)
    BY SameLent DEF Records
  <2>2. CASE LendsIn(status, type, rec[1])
    BY <1>1, <2>1, <2>2 DEF KeepTerm, LoansStay
  <2>3. CASE ~LendsIn(status, type, rec[1])
    <3>1. returned[rec] = 0 /\ writtenOff[rec] = 0 /\ Lent(status, type, lines, rec) = 0
      BY <2>3 DEF LendInv, Lent
    <3> QED
      BY <1>1, <2>1, <3>1 DEF KeepTerm
  <2> QED
    BY <2>2, <2>3
<1>3. f = g
  BY <1>1, <1>2 DEF KeepTerm
<1> QED
  BY <1>1, <1>3 DEF Keeps

-----------------------------------------------------------------------------
(* What the statements read, in the terms of the invariant.                *)

LEMMA OpenIs ==
  ASSUME Typed, NEW rec \in Records
  PROVE  /\ rec[1] \in Requests /\ rec[2] \in Items
         /\ Lent(status, type, lines, rec) \in Nat /\ returned[rec] \in Nat /\ writtenOff[rec] \in Nat
         /\ Qty(rec) = Lent(status, type, lines, rec)
         /\ Open(rec) = Lent(status, type, lines, rec) - returned[rec] - writtenOff[rec]
<1>1. rec[1] \in Requests /\ rec[2] \in Items
  BY DEF Records
<1>2. Lent(status, type, lines, rec) \in Nat
  <2>1. lines \in [Requests -> Quantities]
    BY DEF Typed, HeadTyped
  <2> QED
    BY <2>1, TermTypes
<1>3. returned[rec] \in Nat /\ writtenOff[rec] \in Nat
  BY DEF Typed, LendTyped, RecordQuantities
<1>4. Qty(rec) = Lent(status, type, lines, rec)
  BY DEF Qty, Lent, LendsIn, ItemOf
<1> QED
  BY <1>1, <1>2, <1>3, <1>4 DEF Open

LEMMA InStockIs ==
  ASSUME StockTyped, NEW i \in Items
  PROVE  InStock(i) = HeldAt(batchItem, remaining, i) /\ InStock(i) \in Nat
<1>1. PICK T : T = BatchesAt(i)
  OBVIOUS
<1>2. PICK f, g : f = HoldTerm(batchItem, remaining, i) /\ g = [b \in T |-> remaining[b]]
  OBVIOUS
<1>3. /\ T \subseteq Batches /\ f \in [Batches -> Nat] /\ g \in [T -> Nat]
      /\ \A b \in T : f[b] = g[b]
      /\ \A b \in Batches \ T : f[b] = 0
  BY <1>1, <1>2 DEF BatchesAt, StockTyped, HoldTerm
<1>4. f \in [Batches -> Int] /\ g \in [T -> Int] /\ IsFiniteSet(Batches)
  BY <1>3, AllFinite
<1>5. SumFunction(f) = SumFunction(g)
  BY ONLY <1>3, <1>4, SumWithin
<1>6. SumFunction(f) \in Nat
  BY ONLY <1>3, <1>4, SumNat
<1>7. InStock(i) = SumFunction(g) /\ HeldAt(batchItem, remaining, i) = SumFunction(f)
  BY <1>1, <1>2 DEF InStock, Sum, HeldAt
<1> QED
  BY <1>5, <1>6, <1>7

LEMMA ActTypes ==
  ASSUME HeadTyped, NEW rec \in Records
  PROVE  ActTerm(status, type, ret, off, rec) \in [Requests -> Nat]
  BY DEF HeadTyped, ActTerm, RecordQuantities

(* What a transaction may still act on, when r's own lines count or not.   *)
LEMMA AvailableIs ==
  ASSUME Typed, NEW rec \in Records, NEW r \in Requests \cup {0}
  PROVE  Available(rec, r) = Open(rec) - ActsOn(status, type, ret, off, rec)
           + IF r \in Requests THEN ActTerm(status, type, ret, off, rec)[r] ELSE 0
<1>1. PICK T : T = {q \in Requests \ {r} : status[q] = "PENDING" /\ type[q] \in {"RETURN", "WRITE_OFF"}}
  OBVIOUS
<1>2. PICK f, g, h : /\ f = ActTerm(status, type, ret, off, rec)
                     /\ g = [q \in T |-> ret[q][rec] + off[q][rec]]
                     /\ h = [q \in Requests |-> IF q = r THEN 0 ELSE f[q]]
  OBVIOUS
<1>3. f \in [Requests -> Nat]
  BY <1>2, ActTypes DEF Typed
<1>4. /\ T \subseteq Requests /\ g \in [T -> Int] /\ h \in [Requests -> Int] /\ f \in [Requests -> Int]
      /\ \A q \in T : h[q] = g[q]
      /\ \A q \in Requests \ T : h[q] = 0
  <2>1. ASSUME NEW q \in T PROVE h[q] = g[q] /\ g[q] \in Int
    BY <1>1, <1>2, <1>3 DEF ActTerm, BorrowActs
  <2>2. ASSUME NEW q \in Requests \ T PROVE h[q] = 0
    BY <1>1, <1>2, <1>3 DEF ActTerm, BorrowActs
  <2>3. g \in [T -> Int]
    <3>1. g = [q \in T |-> g[q]]
      BY <1>2
    <3> QED
      BY <2>1, <3>1
  <2>4. T \subseteq Requests /\ h \in [Requests -> Int] /\ f \in [Requests -> Int]
    BY <1>1, <1>2, <1>3
  <2> QED
    BY <2>1, <2>2, <2>3, <2>4
<1>6. IsFiniteSet(Requests)
  BY AllFinite
<1>5. SumFunction(h) = SumFunction(g)
  BY ONLY <1>4, <1>6, SumWithin
<1>7. SumFunction(h) = SumFunction(f) - IF r \in Requests THEN f[r] ELSE 0
  <2>1. CASE r \in Requests
    <3>1. SumFunction(h) = SumFunction(f) - f[r] + h[r]
      <4>1. \A q \in Requests \ {r} : h[q] = f[q]
        BY <1>2
      <4> QED
        BY ONLY <1>4, <1>6, <2>1, <4>1, SumChanges
    <3>2. h[r] = 0 /\ SumFunction(f) \in Int /\ f[r] \in Int
      <4>1. SumFunction(f) \in Int
        BY ONLY <1>4, <1>6, SumInt
      <4> QED
        BY <1>2, <1>3, <2>1, <4>1
    <3> QED
      BY <2>1, <3>1, <3>2
  <2>2. CASE r \notin Requests
    <3>1. h = f
      BY <1>2, <1>3, <2>2
    <3>2. SumFunction(f) \in Int
      BY ONLY <1>4, <1>6, SumInt
    <3> QED
      BY <2>2, <3>1, <3>2
  <2> QED
    BY <2>1, <2>2
<1>8. /\ Available(rec, r) = Open(rec) - SumFunction(g)
      /\ ActsOn(status, type, ret, off, rec) = SumFunction(f)
  BY <1>1, <1>2 DEF Available, ActsOn, Sum
<1>9. SumFunction(f) \in Int /\ Open(rec) \in Int /\ (r \in Requests => f[r] \in Int)
  <2>1. SumFunction(f) \in Int
    BY ONLY <1>4, <1>6, SumInt
  <2> QED
    BY <1>3, <2>1, OpenIs
<1> QED
  BY <1>2, <1>5, <1>7, <1>8, <1>9

LEMMA AllocatedIs ==
  ASSUME Typed, NEW rec \in Records
  PROVE  /\ Sum([b \in Batches |-> issued[rec][b] - back[rec][b]]) = Owed(issued[rec], back[rec])
         /\ Owed(issued[rec], back[rec]) \in Int
<1>1. PICK f : f = [b \in Batches |-> issued[rec][b] - back[rec][b]]
  OBVIOUS
<1>2. f \in [Batches -> Int]
  BY <1>1 DEF Typed, LendTyped
<1>3. SumFunction(f) \in Int
  BY ONLY <1>2, AllFinite, SumInt
<1> QED
  BY <1>1, <1>3 DEF Sum, Owed

LEMMA AccountsNow ==
  ASSUME Typed
  PROVE  /\ \A i \in Items : AskedAt(status, type, lines, i) \in Nat
         /\ \A K : Flow(status, type, lines, K) \in Nat
         /\ Claims(status, type, lines) \in Nat /\ Claims(status, type, lines) \in Int
         /\ Keeps(status, type, lines, returned, writtenOff) \in Int
<1>1. lines \in [Requests -> Quantities] /\ returned \in RecordQuantities /\ writtenOff \in RecordQuantities
  BY DEF Typed, HeadTyped, LendTyped
<1>2. /\ \A i \in Items : AskedAt(status, type, lines, i) \in Nat
      /\ \A K : Flow(status, type, lines, K) \in Nat
      /\ Claims(status, type, lines) \in Nat
  BY <1>1, Accounts
<1>3. Keeps(status, type, lines, returned, writtenOff) \in Int
  BY <1>1, Accounts
<1> QED
  BY <1>2, <1>3

(* A sum over some elements, when the others count nothing.                *)
LEMMA Filtered ==
  ASSUME NEW S, IsFiniteSet(S), NEW T, T \subseteq S, NEW f \in [S -> Int], NEW g,
         g = [x \in T |-> g[x]], \A x \in T : g[x] = f[x], \A x \in S \ T : f[x] = 0
  PROVE  SumFunction(g) = SumFunction(f)
<1>1. g \in [T -> Int] /\ \A x \in T : f[x] = g[x]
  OBVIOUS
<1> QED
  BY <1>1, SumWithin

LEMMA LineSums ==
  ASSUME HeadTyped, NEW r \in Requests
  PROVE  SumFunction(lines[r]) \in Nat /\ lines[r] \in [Items -> Nat]
<1>1. \A f \in [Items -> Nat] : SumFunction(f) \in Nat
  BY AllFinite, SumNat
<1> QED
  BY <1>1 DEF HeadTyped, Quantities

LEMMA HeldIs ==
  ASSUME Typed, LendInv, NEW T, T \subseteq {x \in Records : Personal(x)},
         \A x \in Records : Personal(x) /\ x[2] \in rows => x \in T
  PROVE  Sum([x \in T |-> Open(x)]) = Keeps(status, type, lines, returned, writtenOff)
<1>1. PICK f, g : f = KeepTerm(status, type, lines, returned, writtenOff) /\ g = [x \in T |-> Open(x)]
  OBVIOUS
<1>2. ASSUME NEW x \in Records PROVE f[x] \in Int /\ (x \in T => g[x] = f[x]) /\ (x \notin T => f[x] = 0)
  <2>1. f[x] = IF Personal(x) THEN Open(x) ELSE 0
    BY <1>1, OpenIs DEF KeepTerm, Personal
  <2>2. Open(x) \in Int
    BY OpenIs
  <2>3. x \in T => g[x] = f[x]
    BY <1>1, <2>1
  <2>4. ASSUME x \notin T, Personal(x) PROVE Open(x) = 0
    <3>1. x[2] \notin rows
      BY <2>4
    <3>2. /\ returned[x] + writtenOff[x] <= Lent(status, type, lines, x)
          /\ ~(returned[x] + writtenOff[x] < Lent(status, type, lines, x))
      BY <3>1 DEF LendInv
    <3> QED
      BY <3>2, OpenIs
  <2> QED
    BY <2>1, <2>2, <2>3, <2>4
<1>3. f \in [Records -> Int] /\ T \subseteq Records /\ g = [x \in T |-> g[x]]
      /\ (\A x \in T : g[x] = f[x]) /\ (\A x \in Records \ T : f[x] = 0)
  <2>1. f = [x \in Records |-> f[x]]
    BY <1>1 DEF KeepTerm
  <2>2. g = [x \in T |-> g[x]]
    BY <1>1
  <2>3. f \in [Records -> Int]
    BY <1>2, <2>1
  <2> QED
    BY <1>2, <2>2, <2>3
<1>4. SumFunction(g) = SumFunction(f)
  BY <1>3, AllFinite, Filtered
<1> QED
  BY <1>1, <1>4 DEF Sum, Keeps

LEMMA ClaimsAre ==
  ASSUME HeadTyped, NEW T, T \subseteq Requests,
         \A r \in Requests : r \in T <=> type[r] = "CONSUMABLE_REQUEST"
                             /\ (status[r] = "PENDING" \/ (~Reusable /\ status[r] = "APPROVED"))
  PROVE  Sum([r \in T |-> Sum(lines[r])]) = Claims(status, type, lines)
<1>1. PICK f, g : f = ClaimTerm(status, type, lines) /\ g = [r \in T |-> SumFunction(lines[r])]
  OBVIOUS
<1>2. lines \in [Requests -> Quantities]
  BY DEF HeadTyped
<1>3. f \in [Requests -> Nat]
  BY <1>1, <1>2, TermTypes
<1>4. /\ f \in [Requests -> Int] /\ g = [r \in T |-> g[r]]
      /\ (\A r \in T : g[r] = f[r]) /\ (\A r \in Requests \ T : f[r] = 0)
  BY <1>1, <1>3 DEF ClaimTerm
<1>5. SumFunction(g) = SumFunction(f)
  BY <1>4, AllFinite, Filtered
<1> QED
  BY <1>1, <1>5 DEF Sum, Claims

LEMMA KeepsOfDisposables ==
  ASSUME Typed, LendInv, ~Reusable
  PROVE  Keeps(status, type, lines, returned, writtenOff) = 0
<1>1. PICK f : f = KeepTerm(status, type, lines, returned, writtenOff)
  OBVIOUS
<1>2. ASSUME NEW x \in Records PROVE f[x] = 0
  <2>1. returned[x] = 0 /\ writtenOff[x] = 0 /\ Lent(status, type, lines, x) = 0
    BY DEF LendInv, LendsIn, Lent
  <2> QED
    BY <1>1, <2>1 DEF KeepTerm
<1>3. f \in [Records -> Int]
  BY <1>1, <1>2 DEF KeepTerm
<1>4. SumFunction(f) = 0
  BY <1>2, <1>3, AllFinite, SumZero
<1> QED
  BY <1>1, <1>4 DEF Keeps

LEMMA QuotaUsedIs ==
  ASSUME Typed, LendInv, QuotaInv
  PROVE  QuotaUsed = Claims(status, type, lines) + Keeps(status, type, lines, returned, writtenOff)
<1>1. CASE Reusable
  <2>1. PICK T, U : /\ T = {x \in Records : Personal(x) /\ ItemOf(x) \in rows}
                    /\ U = {q \in Requests : quota[q] = "RESERVED"}
    OBVIOUS
  <2>2. Sum([x \in T |-> Open(x)]) = Keeps(status, type, lines, returned, writtenOff)
    BY <2>1, HeldIs DEF ItemOf
  <2>3. \A r \in Requests : r \in U <=> type[r] = "CONSUMABLE_REQUEST"
                             /\ (status[r] = "PENDING" \/ (~Reusable /\ status[r] = "APPROVED"))
    BY <1>1, <2>1 DEF QuotaInv
  <2>4. Sum([r \in U |-> Sum(lines[r])]) = Claims(status, type, lines)
    BY <2>1, <2>3, ClaimsAre DEF Typed
  <2>5. QuotaUsed = Sum([x \in T |-> Open(x)]) + Sum([r \in U |-> Sum(lines[r])])
    BY <1>1, <2>1 DEF QuotaUsed
  <2>6. Claims(status, type, lines) \in Int /\ Keeps(status, type, lines, returned, writtenOff) \in Int
    BY AccountsNow
  <2> QED
    BY <2>2, <2>4, <2>5, <2>6
<1>2. CASE ~Reusable
  <2>1. PICK U : U = {q \in Requests : quota[q] \in {"RESERVED", "CONSUMED"}}
    OBVIOUS
  <2>2. \A r \in Requests : r \in U <=> type[r] = "CONSUMABLE_REQUEST"
                             /\ (status[r] = "PENDING" \/ (~Reusable /\ status[r] = "APPROVED"))
    BY <1>2, <2>1 DEF QuotaInv
  <2>3. Sum([r \in U |-> Sum(lines[r])]) = Claims(status, type, lines)
    BY <2>1, <2>2, ClaimsAre DEF Typed
  <2>4. QuotaUsed = Sum([r \in U |-> Sum(lines[r])])
    BY <1>2, <2>1 DEF QuotaUsed
  <2>5. Keeps(status, type, lines, returned, writtenOff) = 0
    BY <1>2, KeepsOfDisposables
  <2>6. Claims(status, type, lines) \in Int
    BY Accounts DEF Typed, HeadTyped
  <2> QED
    BY <2>3, <2>4, <2>5, <2>6
<1> QED
  BY <1>1, <1>2

-----------------------------------------------------------------------------
(* What the invariant says of the properties.                              *)

LEMMA ReservationsSound == IInv => ReservedIsPending
<1>1. SUFFICES ASSUME IInv, NEW i \in Items
      PROVE reserved[i] = Sum([r \in Pending(Reserving) |-> lines[r][i]])
  BY DEF ReservedIsPending
<1>2. PICK f, g, T : /\ f = AskTerm(status, type, lines, i) /\ T = Pending(Reserving)
                     /\ g = [r \in T |-> lines[r][i]]
  OBVIOUS
<1>3. T \subseteq Requests /\ (\A r \in T : g[r] = f[r]) /\ (\A r \in Requests \ T : f[r] = 0)
  BY <1>2 DEF Pending, AskTerm
<1>4. f \in [Requests -> Int] /\ g = [r \in T |-> g[r]]
  <2>1. lines \in [Requests -> Quantities]
    BY <1>1 DEF IInv, Typed, HeadTyped
  <2>2. f \in [Requests -> Nat]
    BY <1>2, <2>1, TermTypes
  <2> QED
    BY <1>2, <2>2
<1>5. SumFunction(g) = SumFunction(f)
  BY <1>3, <1>4, AllFinite, Filtered
<1>6. reserved[i] = SumFunction(f)
  BY <1>1, <1>2 DEF IInv, StockInv, AskedAt
<1> QED
  BY <1>2, <1>5, <1>6 DEF Sum

LEMMA BookSound == IInv => BookIsBatches
  BY InStockIs DEF IInv, Typed, StockInv, BookIsBatches

LEMMA FlowIs ==
  ASSUME HeadTyped, NEW K
  PROVE  Total(Approved(K)) = Flow(status, type, lines, K)
<1>1. PICK f, g, T : /\ f = FlowTerm(status, type, lines, K) /\ T = Approved(K)
                     /\ g = [r \in T |-> SumFunction(lines[r])]
  OBVIOUS
<1>2. T \subseteq Requests /\ (\A r \in T : g[r] = f[r]) /\ (\A r \in Requests \ T : f[r] = 0)
  BY <1>1 DEF Approved, FlowTerm
<1>3. f \in [Requests -> Int] /\ g = [r \in T |-> g[r]]
  <2>1. f \in [Requests -> Nat]
    BY <1>1, TermTypes DEF HeadTyped
  <2> QED
    BY <1>1, <2>1
<1>4. SumFunction(g) = SumFunction(f)
  BY <1>2, <1>3, AllFinite, Filtered
<1> QED
  BY <1>1, <1>4 DEF Total, Sum, Flow

LEMMA InvIsStockSound == IInv => StockSound
<1>1. IInv => StockConserved
  BY FlowIs DEF IInv, Typed, FlowInv, StockConserved, Sum
<1> QED
  BY <1>1, ReservationsSound, BookSound, TypedIsTypeOK DEF IInv, StockSound

LEMMA InvIsReturnable == IInv => Returnable
<1>1. SUFFICES ASSUME IInv, NEW rec \in Records
      PROVE /\ Sum([b \in Batches |-> issued[rec][b] - back[rec][b]]) = Qty(rec) - returned[rec]
            /\ Open(rec) > 0 => /\ ItemOf(rec) \in rows
                                /\ \A b \in Batches : issued[rec][b] > 0 => batchItem[b] = ItemOf(rec)
  BY DEF Returnable
<1>2. Typed /\ LendInv
  BY <1>1 DEF IInv
<1>3. Sum([b \in Batches |-> issued[rec][b] - back[rec][b]]) = Qty(rec) - returned[rec]
  BY <1>2, OpenIs, AllocatedIs DEF LendInv
<1>4. ASSUME Open(rec) > 0 PROVE rec[2] \in rows
  <2>1. returned[rec] + writtenOff[rec] < Lent(status, type, lines, rec)
    BY <1>2, <1>4, OpenIs
  <2> QED
    BY <1>2, <2>1 DEF LendInv
<1>5. \A b \in Batches : issued[rec][b] > 0 => batchItem[b] = rec[2]
  BY <1>2 DEF LendInv
<1> QED
  BY <1>3, <1>4, <1>5 DEF ItemOf

LEMMA InvIsActionsFit == IInv => ActionsFit
<1>1. SUFFICES ASSUME IInv, NEW rec \in Records
      PROVE /\ Open(rec) >= 0
            /\ Personal(rec) =>
                 Sum([r \in Pending({"RETURN", "WRITE_OFF"}) |-> ret[r][rec] + off[r][rec]]) <= Open(rec)
  BY DEF ActionsFit
<1>2. Typed /\ LendInv /\ ActsFitOpen
  BY <1>1 DEF IInv, ActInv
<1>3. Open(rec) >= 0
  BY <1>2, OpenIs DEF LendInv
<1>4. ASSUME Personal(rec)
      PROVE  Sum([r \in Pending({"RETURN", "WRITE_OFF"}) |-> ret[r][rec] + off[r][rec]]) <= Open(rec)
  <2>1. PICK f, g, T : /\ f = ActTerm(status, type, ret, off, rec) /\ T = Pending({"RETURN", "WRITE_OFF"})
                       /\ g = [r \in T |-> ret[r][rec] + off[r][rec]]
    OBVIOUS
  <2>2. T \subseteq Requests /\ (\A r \in T : g[r] = f[r]) /\ (\A r \in Requests \ T : f[r] = 0)
    BY <2>1 DEF Pending, ActTerm, BorrowActs
  <2>3. f \in [Requests -> Int] /\ g = [r \in T |-> g[r]]
    <3>1. f \in [Requests -> Nat]
      BY <1>2, <2>1, ActTypes DEF Typed
    <3> QED
      BY <2>1, <3>1
  <2>4. SumFunction(g) = SumFunction(f)
    BY <2>2, <2>3, AllFinite, Filtered
  <2>5. SumFunction(f) <= Open(rec)
    BY <1>2, <1>4, <2>1, OpenIs DEF ActsFitOpen, ActsOn, Personal
  <2> QED
    BY <2>1, <2>4, <2>5 DEF Sum
<1> QED
  BY <1>3, <1>4

LEMMA InvIsQuotaKept == IInv => QuotaKept
<1>1. SUFFICES ASSUME IInv PROVE QuotaKept
  OBVIOUS
<1>2. Typed /\ LendInv /\ QuotaInv
  BY <1>1 DEF IInv
<1>3. PICK T, U : /\ T = {x \in Records : Personal(x)}
                  /\ U = IF Reusable THEN Pending({"CONSUMABLE_REQUEST"})
                         ELSE Pending({"CONSUMABLE_REQUEST"}) \cup Approved({"CONSUMABLE_REQUEST"})
  OBVIOUS
<1>4. Sum([x \in T |-> Open(x)]) = Keeps(status, type, lines, returned, writtenOff)
  BY <1>2, <1>3, HeldIs
<1>5. Total(U) = Claims(status, type, lines)
  <2>1. U \subseteq Requests
        /\ \A r \in Requests : r \in U <=> type[r] = "CONSUMABLE_REQUEST"
                             /\ (status[r] = "PENDING" \/ (~Reusable /\ status[r] = "APPROVED"))
    BY <1>3 DEF Pending, Approved
  <2> QED
    BY <1>2, <2>1, ClaimsAre DEF Total, Typed
<1>6. QuotaUsed = Claims(status, type, lines) + Keeps(status, type, lines, returned, writtenOff)
  BY <1>2, QuotaUsedIs
<1> QED
  BY <1>2, <1>3, <1>4, <1>5, <1>6 DEF QuotaKept, QuotaInv

LEMMA InvIsSettledWhole == IInv => SettledWhole
<1>1. SUFFICES ASSUME IInv, NEW list \in Approved({"AGENT_REQUEST"}),
                      NEW lent, lent = {x \in Records : x[1] = list /\ Qty(x) > 0}
      PROVE (\A x \in lent : Open(x) = Qty(x)) \/ (\A x \in lent : Open(x) = 0)
  BY DEF SettledWhole
<1>2. Typed /\ WholeLists
  BY <1>1 DEF IInv, ActInv
<1>3. list \in Requests /\ type[list] = "AGENT_REQUEST" /\ status[list] = "APPROVED"
  BY <1>1 DEF Approved
<1>4. CASE Reusable
  <2>1. LendsIn(status, type, list)
    BY <1>3, <1>4 DEF LendsIn, Issuing
  <2>2. CASE \A rec \in Records : rec[1] = list => returned[rec] + writtenOff[rec] = 0
    <3>1. ASSUME NEW x \in lent PROVE Open(x) = Qty(x)
      BY <1>1, <1>2, <2>2, OpenIs
    <3> QED
      BY <3>1
  <2>3. CASE \A rec \in Records : rec[1] = list =>
               returned[rec] + writtenOff[rec] = Lent(status, type, lines, rec)
    <3>1. ASSUME NEW x \in lent PROVE Open(x) = 0
      BY <1>1, <1>2, <2>3, OpenIs
    <3> QED
      BY <3>1
  <2> QED
    BY <1>2, <1>3, <2>1, <2>2, <2>3 DEF WholeLists
<1>5. CASE ~Reusable
  BY <1>1, <1>5 DEF Qty
<1> QED
  BY <1>4, <1>5

-----------------------------------------------------------------------------
(* The initial state.                                                      *)

LEMMA ZeroSums ==
  /\ \A f \in [Requests -> Int] : (\A r \in Requests : f[r] = 0) => SumFunction(f) = 0
  /\ \A f \in [Batches -> Int] : (\A b \in Batches : f[b] = 0) => SumFunction(f) = 0
  /\ \A f \in [Records -> Int] : (\A rec \in Records : f[rec] = 0) => SumFunction(f) = 0
<1>1. IsFiniteSet(Requests) /\ IsFiniteSet(Batches) /\ IsFiniteSet(Records)
  BY AllFinite
<1>2. \A f \in [Requests -> Int] : (\A r \in Requests : f[r] = 0) => SumFunction(f) = 0
  BY ONLY <1>1, SumZero
<1>3. \A f \in [Batches -> Int] : (\A b \in Batches : f[b] = 0) => SumFunction(f) = 0
  BY ONLY <1>1, SumZero
<1>4. \A f \in [Records -> Int] : (\A rec \in Records : f[rec] = 0) => SumFunction(f) = 0
  BY ONLY <1>1, SumZero
<1> QED
  BY <1>2, <1>3, <1>4

LEMMA InitTyped == Init => Typed
<1> SUFFICES ASSUME Init PROVE Typed
  OBVIOUS
<1>1. Items \subseteq Batches /\ InitialStock \in [Items -> Nat]
  BY AssetAssumption DEF Batches
<1>2. StockTyped
  BY <1>1 DEF Init, StockTyped, Zero
<1>3. HeadTyped
  BY DEF Init, HeadTyped, Zero, Quantities, RecordQuantities, Statuses
<1>4. LendTyped
  BY DEF Init, LendTyped, Zero, RecordQuantities
<1>5. QuotaTyped
  BY DEF Init, QuotaTyped
<1>6. OthersTyped
  BY DEF Init, OthersTyped, Nobody
<1> QED
  BY <1>2, <1>3, <1>4, <1>5, <1>6 DEF Typed

LEMMA InitStock == Init => StockInv
<1> SUFFICES ASSUME Init, NEW i \in Items
      PROVE /\ reserved[i] = AskedAt(status, type, lines, i)
            /\ book[i] = HeldAt(batchItem, remaining, i)
            /\ reserved[i] <= book[i]
            /\ i \notin rows => book[i] = 0
  BY DEF StockInv
<1>1. AskedAt(status, type, lines, i) = 0
  <2>1. PICK f : f = AskTerm(status, type, lines, i)
    OBVIOUS
  <2>2. f \in [Requests -> Int] /\ \A r \in Requests : f[r] = 0
    BY <2>1 DEF Init, AskTerm
  <2> QED
    BY <2>1, <2>2, ZeroSums DEF AskedAt
<1>2. HeldAt(batchItem, remaining, i) = InitialStock[i]
  <2>1. PICK f : f = HoldTerm(batchItem, remaining, i)
    OBVIOUS
  <2>2. i \in Batches /\ InitialStock \in [Items -> Nat] /\ NoItem \notin Items
    BY AssetAssumption, AllFinite DEF Batches
  <2>3. /\ f \in [Batches -> Int] /\ f[i] = InitialStock[i]
        /\ \A b \in Batches \ {i} : f[b] = 0
    BY <2>1, <2>2 DEF Init, HoldTerm
  <2>4. SumFunction(f) = f[i]
    <3>1. IsFiniteSet(Batches)
      BY AllFinite
    <3> QED
      BY ONLY <2>2, <2>3, <3>1, SumOfOne
  <2> QED
    BY <2>1, <2>3, <2>4 DEF HeldAt
<1>3. InitialStock[i] \in Nat
  BY AssetAssumption
<1> QED
  BY <1>1, <1>2, <1>3 DEF Init, Zero

LEMMA InitLoans == Init => LendInv /\ FlowInv /\ ActInv /\ QuotaInv
<1> SUFFICES ASSUME Init PROVE LendInv /\ FlowInv /\ ActInv /\ QuotaInv
  OBVIOUS
<1>1. \A r \in Requests : status[r] = "NONE" /\ type[r] = "none" /\ ~LendsIn(status, type, r)
  BY DEF Init, LendsIn
<1>2. ASSUME NEW rec \in Records
      PROVE  /\ rec[1] \in Requests /\ Lent(status, type, lines, rec) = 0
             /\ returned[rec] = 0 /\ writtenOff[rec] = 0
             /\ \A b \in Batches : issued[rec][b] = 0 /\ back[rec][b] = 0
  BY <1>1 DEF Records, Lent, Init, Zero
<1>3. LendInv
  <2>1. ASSUME NEW rec \in Records PROVE Owed(issued[rec], back[rec]) = 0
    <3>1. PICK f : f = [b \in Batches |-> issued[rec][b] - back[rec][b]]
      OBVIOUS
    <3>2. f \in [Batches -> Int] /\ \A b \in Batches : f[b] = 0
      BY <1>2, <3>1
    <3> QED
      BY <3>1, <3>2, ZeroSums DEF Owed
  <2> QED
    BY <1>2, <2>1 DEF LendInv
<1>4. FlowInv
  <2>1. ASSUME NEW K PROVE Flow(status, type, lines, K) = 0
    <3>1. PICK f : f = FlowTerm(status, type, lines, K)
      OBVIOUS
    <3>2. f \in [Requests -> Int] /\ \A r \in Requests : f[r] = 0
      BY <1>1, <3>1 DEF FlowTerm
    <3> QED
      BY <3>1, <3>2, ZeroSums DEF Flow
  <2>2. SumFunction(returned) = 0
    <3>1. returned \in [Records -> Int] /\ \A rec \in Records : returned[rec] = 0
      BY DEF Init, Zero
    <3> QED
      BY <3>1, ZeroSums
  <2>3. book = InitialStock /\ SumFunction(InitialStock) \in Nat
    BY NatSums, AssetAssumption DEF Init
  <2> QED
    BY <2>1, <2>2, <2>3 DEF FlowInv
<1>5. ActInv
  <2>1. ASSUME NEW rec \in Records PROVE type[rec[1]] # "CONSUMABLE_REQUEST"
    BY <1>1, <1>2
  <2> QED
    BY <1>1, <2>1 DEF ActInv, PersonalActs, SettlementActs, ActsFitOpen, WholeLists, Drafts
<1>6. QuotaInv
  <2>1. Claims(status, type, lines) = 0
    <3>1. PICK f : f = ClaimTerm(status, type, lines)
      OBVIOUS
    <3>2. f \in [Requests -> Int] /\ \A r \in Requests : f[r] = 0
      BY <1>1, <3>1 DEF ClaimTerm
    <3> QED
      BY <3>1, <3>2, ZeroSums DEF Claims
  <2>2. Keeps(status, type, lines, returned, writtenOff) = 0
    <3>1. PICK f : f = KeepTerm(status, type, lines, returned, writtenOff)
      OBVIOUS
    <3>2. f \in [Records -> Int] /\ \A rec \in Records : f[rec] = 0
      BY <1>2, <3>1 DEF KeepTerm
    <3> QED
      BY <3>1, <3>2, ZeroSums DEF Keeps
  <2>3. \A r \in Requests : quota[r] = "NONE"
    BY DEF Init
  <2> QED
    BY <1>1, <2>1, <2>2, <2>3, AssetAssumption DEF QuotaInv
<1> QED
  BY <1>3, <1>4, <1>5, <1>6

LEMMA InitInv == Init => IInv
  BY InitTyped, InitStock, InitLoans DEF IInv

-----------------------------------------------------------------------------
(* A head moves and no quantity of a record does.                          *)

LEMMA ActMoves ==
  ASSUME HeadTyped, HeadTyped', NEW r \in Requests, HeadsApart(r), NEW rec \in Records
  PROVE  /\ ActsOn(status', type', ret', off', rec)
              = ActsOn(status, type, ret, off, rec) - ActTerm(status, type, ret, off, rec)[r]
                  + ActTerm(status', type', ret', off', rec)[r]
         /\ ActsOn(status, type, ret, off, rec) \in Nat
         /\ ActTerm(status, type, ret, off, rec) \in [Requests -> Nat]
         /\ ActTerm(status', type', ret', off', rec) \in [Requests -> Nat]
<1>1. PICK f, g : f = ActTerm(status, type, ret, off, rec) /\ g = ActTerm(status', type', ret', off', rec)
  OBVIOUS
<1>2. f \in [Requests -> Nat] /\ g \in [Requests -> Nat]
  BY <1>1 DEF HeadTyped, ActTerm, RecordQuantities
<1>3. \A q \in Requests \ {r} : g[q] = f[q]
  BY <1>1 DEF ActTerm, HeadsApart
<1>4. f \in [Requests -> Int] /\ g \in [Requests -> Int] /\ IsFiniteSet(Requests)
  BY <1>2, AllFinite
<1>5. SumFunction(g) = SumFunction(f) - f[r] + g[r]
  BY ONLY <1>3, <1>4, SumChanges
<1>6. SumFunction(f) \in Nat
  BY <1>2, NatSums
<1> QED
  BY <1>1, <1>2, <1>5, <1>6 DEF ActsOn

LEMMA LendsApart ==
  ASSUME HeadTyped, HeadTyped', NEW r \in Requests, HeadsApart(r), ~LendsIn(status, type, r)
  PROVE  /\ \A q \in Requests : LendsIn(status, type, q) =>
              /\ LendsIn(status', type', q) /\ type'[q] = type[q]
              /\ \A rec \in Records : rec[1] = q =>
                   Lent(status', type', lines', rec) = Lent(status, type, lines, rec)
         /\ \A q \in Requests : LendsIn(status', type', q) => LendsIn(status, type, q) \/ q = r
<1>1. ASSUME NEW q \in Requests, LendsIn(status, type, q)
      PROVE  /\ LendsIn(status', type', q) /\ type'[q] = type[q] /\ lines'[q] = lines[q]
  BY <1>1 DEF HeadsApart, LendsIn
<1>2. ASSUME NEW q \in Requests, LendsIn(status', type', q), q # r PROVE LendsIn(status, type, q)
  BY <1>2 DEF HeadsApart, LendsIn
<1>3. ASSUME NEW q \in Requests, LendsIn(status, type, q), NEW rec \in Records, rec[1] = q
      PROVE  Lent(status', type', lines', rec) = Lent(status, type, lines, rec)
  BY <1>1, <1>3 DEF Lent
<1> QED
  BY <1>1, <1>2, <1>3

LEMMA ActInvMoves ==
  ASSUME Typed, LendInv, ActInv, HeadTyped', NEW r \in Requests, HeadsApart(r), ~LendsIn(status, type, r),
         UNCHANGED <<returned, writtenOff>>,
         status'[r] = "DRAFT" => type'[r] = "AGENT_SETTLEMENT",
         status'[r] = "PENDING" /\ type'[r] \in BorrowActs =>
           \A rec \in Records : ret'[r][rec] + off'[r][rec] > 0 =>
             LendsIn(status, type, rec[1]) /\ type[rec[1]] = "CONSUMABLE_REQUEST",
         status'[r] \in {"DRAFT", "PENDING"} /\ type'[r] = "AGENT_SETTLEMENT" =>
           /\ ref'[r] \in Requests /\ LendsIn(status, type, ref'[r]) /\ type[ref'[r]] = "AGENT_REQUEST"
           /\ \A rec \in Records : ret'[r][rec] + off'[r][rec] =
                IF rec[1] = ref'[r] THEN Lent(status, type, lines, rec) ELSE 0,
         \A rec \in Records : LendsIn(status, type, rec[1]) /\ type[rec[1]] = "CONSUMABLE_REQUEST" =>
           ActsOn(status', type', ret', off', rec)
             <= Lent(status, type, lines, rec) - returned[rec] - writtenOff[rec]
  PROVE  ActInv'
<1>1. HeadTyped /\ PersonalActs /\ SettlementActs /\ ActsFitOpen /\ WholeLists
  BY DEF ActInv, Typed
<1>2. \A q \in Requests : LendsIn(status, type, q) =>
        /\ LendsIn(status', type', q) /\ type'[q] = type[q]
        /\ \A rec \in Records : rec[1] = q =>
             Lent(status', type', lines', rec) = Lent(status, type, lines, rec)
  BY <1>1, LendsApart
<1>3. \A q \in Requests : LendsIn(status', type', q) => LendsIn(status, type, q) \/ q = r
  BY <1>1, LendsApart
<1>4. \A rec \in Records : rec[1] \in Requests
  BY DEF Records
<1>5. \A q \in Requests \ {r} : /\ status'[q] = status[q] /\ type'[q] = type[q] /\ ref'[q] = ref[q]
                                /\ ret'[q] = ret[q] /\ off'[q] = off[q]
  BY DEF HeadsApart
<1>6. PersonalActs'
  <2>1. SUFFICES ASSUME NEW q \in Requests, status'[q] = "PENDING", type'[q] \in BorrowActs,
                        NEW rec \in Records, ret'[q][rec] + off'[q][rec] > 0
        PROVE LendsIn(status', type', rec[1]) /\ type'[rec[1]] = "CONSUMABLE_REQUEST"
    BY DEF PersonalActs
  <2>2. LendsIn(status, type, rec[1]) /\ type[rec[1]] = "CONSUMABLE_REQUEST"
    <3>1. CASE q = r
      BY <2>1, <3>1
    <3>2. CASE q # r
      BY <1>1, <1>5, <2>1, <3>2 DEF PersonalActs
    <3> QED
      BY <3>1, <3>2
  <2> QED
    BY <1>2, <1>4, <2>2
<1>7. SettlementActs'
  <2>1. SUFFICES ASSUME NEW q \in Requests, status'[q] \in {"DRAFT", "PENDING"},
                        type'[q] = "AGENT_SETTLEMENT"
        PROVE /\ ref'[q] \in Requests /\ LendsIn(status', type', ref'[q]) /\ type'[ref'[q]] = "AGENT_REQUEST"
              /\ \A rec \in Records : ret'[q][rec] + off'[q][rec] =
                   IF rec[1] = ref'[q] THEN Lent(status', type', lines', rec) ELSE 0
    BY DEF SettlementActs
  <2>2. /\ ref'[q] \in Requests /\ LendsIn(status, type, ref'[q]) /\ type[ref'[q]] = "AGENT_REQUEST"
        /\ \A rec \in Records : ret'[q][rec] + off'[q][rec] =
             IF rec[1] = ref'[q] THEN Lent(status, type, lines, rec) ELSE 0
    <3>1. CASE q = r
      BY <2>1, <3>1
    <3>2. CASE q # r
      BY <1>1, <1>5, <2>1, <3>2 DEF SettlementActs
    <3> QED
      BY <3>1, <3>2
  <2> QED
    BY <1>2, <2>2
<1>8. ActsFitOpen'
  <2>1. SUFFICES ASSUME NEW rec \in Records, type'[rec[1]] = "CONSUMABLE_REQUEST"
        PROVE ActsOn(status', type', ret', off', rec)
                <= Lent(status', type', lines', rec) - returned'[rec] - writtenOff'[rec]
    BY DEF ActsFitOpen
  <2>2. CASE LendsIn(status, type, rec[1])
    BY <1>2, <1>4, <2>1, <2>2
  <2>3. CASE ~LendsIn(status, type, rec[1])
    <3>1. PICK f : f = ActTerm(status', type', ret', off', rec)
      OBVIOUS
    <3>2. f \in [Requests -> Nat]
      BY <1>1, <3>1, ActMoves
    <3>3. ASSUME NEW q \in Requests PROVE f[q] = 0
      <4>1. ~(status'[q] = "PENDING" /\ type'[q] \in BorrowActs /\ ret'[q][rec] + off'[q][rec] > 0)
        <5>1. CASE q = r
          BY <2>3, <5>1
        <5>2. CASE q # r
          BY <1>1, <1>5, <2>3, <5>2 DEF PersonalActs
        <5> QED
          BY <5>1, <5>2
      <4> QED
        BY <3>1, <3>2, <4>1 DEF ActTerm
    <3>4. SumFunction(f) = 0
      BY <3>2, <3>3, ZeroSums
    <3>5. returned'[rec] = 0 /\ writtenOff'[rec] = 0
      BY <2>3 DEF LendInv
    <3>6. Lent(status', type', lines', rec) \in Nat
      <4>1. PICK li : li = lines'
        OBVIOUS
      <4>2. li \in [Requests -> Quantities]
        BY <4>1 DEF HeadTyped
      <4>3. Lent(status', type', li, rec) \in Nat
        BY <4>2, TermTypes
      <4> QED
        BY <4>1, <4>3
    <3> QED
      BY <3>1, <3>4, <3>5, <3>6 DEF ActsOn
  <2> QED
    BY <2>2, <2>3
<1>9. WholeLists'
  <2>1. SUFFICES ASSUME NEW list \in Requests, LendsIn(status', type', list),
                        type'[list] = "AGENT_REQUEST"
        PROVE \/ \A rec \in Records : rec[1] = list => returned'[rec] + writtenOff'[rec] = 0
              \/ \A rec \in Records : rec[1] = list =>
                   returned'[rec] + writtenOff'[rec] = Lent(status', type', lines', rec)
    BY DEF WholeLists
  <2>2. CASE list = r
    <3>1. \A rec \in Records : rec[1] = list => returned'[rec] = 0 /\ writtenOff'[rec] = 0
      BY <2>2 DEF LendInv
    <3> QED
      BY <3>1
  <2>3. CASE list # r
    <3>1. LendsIn(status, type, list) /\ type[list] = "AGENT_REQUEST"
      BY <1>3, <1>5, <2>1, <2>3
    <3>2. CASE \A rec \in Records : rec[1] = list => returned[rec] + writtenOff[rec] = 0
      BY <3>2
    <3>3. CASE \A rec \in Records : rec[1] = list =>
                 returned[rec] + writtenOff[rec] = Lent(status, type, lines, rec)
      BY <1>2, <3>1, <3>3
    <3> QED
      BY <1>1, <3>1, <3>2, <3>3 DEF WholeLists
  <2> QED
    BY <2>2, <2>3
<1>10. Drafts'
  BY <1>5 DEF ActInv, Drafts
<1> QED
  BY <1>6, <1>7, <1>8, <1>9, <1>10 DEF ActInv

LEMMA QuotaKinds ==
  ASSUME QuotaInv, HeadTyped, NEW r \in Requests, HeadsApart(r),
         \A q \in Requests \ {r} : quota'[q] = quota[q],
         quota'[r] = "RESERVED" <=> status'[r] = "PENDING" /\ type'[r] = "CONSUMABLE_REQUEST",
         quota'[r] = "CONSUMED" <=> status'[r] = "APPROVED" /\ type'[r] = "CONSUMABLE_REQUEST",
         Claims(status', type', lines') + Keeps(status', type', lines', returned', writtenOff') <= QuotaLimit
  PROVE  QuotaInv'
  BY DEF QuotaInv, HeadsApart

(* A step that leaves requests, stock, records and quota alone.            *)
LEMMA NothingMoves ==
  ASSUME IInv, UNCHANGED <<stockVars, headVars, lendVars, quota>>, OthersTyped'
  PROVE  IInv'
<1>1. UNCHANGED <<rows, book, reserved, batchItem, remaining, received, touched>>
  BY DEF stockVars
<1>2. UNCHANGED <<type, status, lines, ret, off, ref>>
  BY DEF headVars
<1>3. UNCHANGED <<returned, writtenOff, issued, back, quota>>
  BY DEF lendVars
<1>4. Typed'
  BY <1>1, <1>2, <1>3 DEF IInv, Typed, StockTyped, HeadTyped, LendTyped, QuotaTyped
<1>5. StockInv'
  BY <1>1, <1>2 DEF IInv, StockInv
<1>6. FlowInv'
  BY <1>1, <1>2, <1>3 DEF IInv, FlowInv
<1>7. LendInv'
  BY <1>1, <1>2, <1>3 DEF IInv, LendInv
<1>8. ActInv'
  <2>1. ActInv
    BY DEF IInv
  <2>2. PersonalActs' /\ SettlementActs'
    BY <1>2, <2>1 DEF ActInv, PersonalActs, SettlementActs
  <2>3. ActsFitOpen' /\ WholeLists'
    BY <1>2, <1>3, <2>1 DEF ActInv, ActsFitOpen, WholeLists
  <2>4. Drafts'
    BY <1>2, <2>1 DEF ActInv, Drafts
  <2> QED
    BY <2>2, <2>3, <2>4 DEF ActInv
<1>9. QuotaInv'
  BY <1>2, <1>3 DEF IInv, QuotaInv
<1> QED
  BY <1>4, <1>5, <1>6, <1>7, <1>8, <1>9 DEF IInv

(* A request enters: nothing is decided, lent or recorded yet.             *)
LEMMA NewRequest ==
  ASSUME Typed, NEW r \in Requests, status[r] = "NONE", NEW s \in {"DRAFT", "PENDING"},
         NEW t \in RequestTypes,
         NEW order \in Quantities, NEW returns \in RecordQuantities, NEW writeOffs \in RecordQuantities,
         NEW of \in Requests \cup {0}, NewHead(r, s, t, order, returns, writeOffs, of)
  PROVE  /\ HeadTyped' /\ HeadsApart(r) /\ ~LendsIn(status, type, r) /\ LoansStay /\ NoNewLoans
         /\ status'[r] = s /\ type'[r] = t /\ lines'[r] = order
         /\ ret'[r] = returns /\ off'[r] = writeOffs /\ ref'[r] = of
         /\ \A i \in Items : AskedAt(status', type', lines', i)
              = AskedAt(status, type, lines, i) + IF s = "PENDING" /\ t \in Reserving THEN order[i] ELSE 0
         /\ \A K : Flow(status', type', lines', K) = Flow(status, type, lines, K)
         /\ Claims(status', type', lines') = Claims(status, type, lines)
              + IF s = "PENDING" /\ t = "CONSUMABLE_REQUEST" THEN SumFunction(order) ELSE 0
         /\ \A rec \in Records : ActsOn(status', type', ret', off', rec) = ActsOn(status, type, ret, off, rec)
              + IF s = "PENDING" /\ t \in BorrowActs THEN returns[rec] + writeOffs[rec] ELSE 0
<1>1. HeadTyped /\ s \in Statuses
  BY DEF Typed, Statuses
<1>2. /\ HeadTyped' /\ HeadsApart(r)
      /\ status'[r] = s /\ type'[r] = t /\ lines'[r] = order
      /\ ret'[r] = returns /\ off'[r] = writeOffs /\ ref'[r] = of
  BY <1>1, NewHeads
<1>3. ~LendsIn(status, type, r) /\ ~LendsIn(status', type', r)
  BY <1>2 DEF LendsIn
<1>4. LoansStay /\ NoNewLoans
  BY <1>1, <1>2, <1>3, LoansApart
<1>5. ASSUME NEW i \in Items
      PROVE  AskedAt(status', type', lines', i)
              = AskedAt(status, type, lines, i) + IF s = "PENDING" /\ t \in Reserving THEN order[i] ELSE 0
  <2>1. AskedAt(status', type', lines', i)
          = AskedAt(status, type, lines, i) - AskTerm(status, type, lines, i)[r]
              + AskTerm(status', type', lines', i)[r]
    BY <1>1, <1>2, HeadMoves
  <2>2. AskTerm(status, type, lines, i)[r] = 0
        /\ AskTerm(status', type', lines', i)[r] = IF s = "PENDING" /\ t \in Reserving THEN order[i] ELSE 0
    BY <1>2 DEF AskTerm
  <2>3. AskedAt(status, type, lines, i) \in Nat
    BY <1>1, Accounts DEF HeadTyped
  <2>4. order[i] \in Nat
    BY DEF Quantities
  <2> QED
    BY <2>1, <2>2, <2>3, <2>4
<1>6. ASSUME NEW K PROVE Flow(status', type', lines', K) = Flow(status, type, lines, K)
  <2>1. Flow(status', type', lines', K)
          = Flow(status, type, lines, K) - FlowTerm(status, type, lines, K)[r]
              + FlowTerm(status', type', lines', K)[r]
    BY <1>1, <1>2, HeadMoves
  <2>2. FlowTerm(status, type, lines, K)[r] = 0 /\ FlowTerm(status', type', lines', K)[r] = 0
    BY <1>2 DEF FlowTerm
  <2>3. Flow(status, type, lines, K) \in Nat
    BY <1>1, Accounts DEF HeadTyped
  <2> QED
    BY <2>1, <2>2, <2>3
<1>7. Claims(status', type', lines') = Claims(status, type, lines)
        + IF s = "PENDING" /\ t = "CONSUMABLE_REQUEST" THEN SumFunction(order) ELSE 0
  <2>1. Claims(status', type', lines')
          = Claims(status, type, lines) - ClaimTerm(status, type, lines)[r]
              + ClaimTerm(status', type', lines')[r]
    BY <1>1, <1>2, HeadMoves
  <2>2. ClaimTerm(status, type, lines)[r] = 0
    BY DEF ClaimTerm
  <2>3. ClaimTerm(status', type', lines')[r]
          = IF s = "PENDING" /\ t = "CONSUMABLE_REQUEST" THEN SumFunction(order) ELSE 0
    BY <1>2 DEF ClaimTerm
  <2>4. Claims(status, type, lines) \in Nat
    BY <1>1, Accounts DEF HeadTyped
  <2>5. SumFunction(order) \in Nat
    BY NatSums DEF Quantities
  <2> QED
    BY <2>1, <2>2, <2>3, <2>4, <2>5
<1>8. ASSUME NEW rec \in Records
      PROVE  ActsOn(status', type', ret', off', rec) = ActsOn(status, type, ret, off, rec)
              + IF s = "PENDING" /\ t \in BorrowActs THEN returns[rec] + writeOffs[rec] ELSE 0
  <2>1. ActsOn(status', type', ret', off', rec)
          = ActsOn(status, type, ret, off, rec) - ActTerm(status, type, ret, off, rec)[r]
              + ActTerm(status', type', ret', off', rec)[r]
    BY <1>1, <1>2, ActMoves
  <2>2. ActTerm(status, type, ret, off, rec)[r] = 0
    BY DEF ActTerm
  <2>3. ActTerm(status', type', ret', off', rec)[r]
          = IF s = "PENDING" /\ t \in BorrowActs THEN returns[rec] + writeOffs[rec] ELSE 0
    BY <1>2 DEF ActTerm
  <2>4. ActsOn(status, type, ret, off, rec) \in Nat /\ returns[rec] \in Nat /\ writeOffs[rec] \in Nat
    BY <1>1, <1>2, ActMoves DEF RecordQuantities
  <2> QED
    BY <2>1, <2>2, <2>3, <2>4
<1> QED
  BY <1>2, <1>3, <1>4, <1>5, <1>6, <1>7, <1>8

(* What a new request leaves alone.                                        *)
LEMMA RequestFrame ==
  ASSUME IInv, NEW r \in Requests, HeadTyped', HeadsApart(r), LoansStay, NoNewLoans,
         \A K : Flow(status', type', lines', K) = Flow(status, type, lines, K),
         UNCHANGED <<rows, book, batchItem, remaining, received, touched, lendVars>>
  PROVE  /\ FlowInv' /\ LendInv' /\ LendTyped'
         /\ UNCHANGED <<returned, writtenOff>>
         /\ Keeps(status', type', lines', returned', writtenOff')
              = Keeps(status, type, lines, returned, writtenOff)
<1>1. UNCHANGED <<returned, writtenOff, issued, back>>
  BY DEF lendVars
<1>2. Typed /\ LendInv /\ FlowInv
  BY DEF IInv
<1>3. FlowInv'
  BY <1>1, <1>2 DEF FlowInv
<1>4. LendInv'
  BY <1>2, LendKept
<1>5. LendTyped'
  BY <1>1, <1>2 DEF Typed, LendTyped
<1> QED
  BY <1>1, <1>2, <1>3, <1>4, <1>5, SameKeeps

LEMMA SubmitReservingInv ==
  ASSUME IInv, NEW r \in Requests, SubmitReserving(r)
  PROVE  IInv'
<1>1. PICK t \in Reserving \cap Types, order \in Orders :
        /\ FitsStock(order)
        /\ t = "CONSUMABLE_REQUEST" => WithinQuota(order)
        /\ Reserve(order)
        /\ NewHead(r, "PENDING", t, order, NoActs, NoActs, 0)
        /\ quota' = [quota EXCEPT ![r] = IF t = "CONSUMABLE_REQUEST" THEN "RESERVED" ELSE "NONE"]
        /\ UNCHANGED <<rows, book, batchItem, remaining, received, touched, lendVars, otherVars, seen>>
  BY DEF SubmitReserving
<1>2. Typed /\ StockInv /\ LendInv /\ ActInv /\ QuotaInv
  BY DEF IInv
<1>3. /\ status[r] = "NONE" /\ t \in RequestTypes /\ order \in Quantities
      /\ NoActs \in RecordQuantities
  BY <1>1, AssetAssumption DEF SubmitReserving, NextId, Reserving, Issuing, RequestTypes, Quantities,
     NoActs, Zero, RecordQuantities
<1>4. /\ HeadTyped' /\ HeadsApart(r) /\ ~LendsIn(status, type, r) /\ LoansStay /\ NoNewLoans
      /\ status'[r] = "PENDING" /\ type'[r] = t
      /\ \A i \in Items : AskedAt(status', type', lines', i) = AskedAt(status, type, lines, i) + order[i]
      /\ \A K : Flow(status', type', lines', K) = Flow(status, type, lines, K)
      /\ Claims(status', type', lines') = Claims(status, type, lines)
           + IF t = "CONSUMABLE_REQUEST" THEN SumFunction(order) ELSE 0
      /\ \A rec \in Records : ActsOn(status', type', ret', off', rec) = ActsOn(status, type, ret, off, rec)
  <2>1. t \in Reserving /\ t \notin BorrowActs
    BY <1>1 DEF BorrowActs, Reserving, Issuing
  <2>2. \A rec \in Records : ActsOn(status, type, ret, off, rec) \in Nat
    <3>1. \A rec \in Records : ActTerm(status, type, ret, off, rec) \in [Requests -> Nat]
      BY <1>2, ActTypes DEF Typed
    <3> QED
      BY <3>1, NatSums DEF ActsOn
  <2> QED
    BY <1>1, <1>2, <1>3, <2>1, <2>2, NewRequest
<1>5. /\ FlowInv' /\ LendInv' /\ LendTyped' /\ UNCHANGED <<returned, writtenOff>>
      /\ Keeps(status', type', lines', returned', writtenOff')
           = Keeps(status, type, lines, returned, writtenOff)
  BY <1>1, <1>4, RequestFrame
<1>6. StockTyped' /\ QuotaTyped' /\ OthersTyped'
  <2>1. \A i \in Items : reserved[i] \in Nat /\ order[i] \in Nat
    BY <1>2, <1>3 DEF Typed, StockTyped, Quantities
  <2>2. StockTyped'
    BY <1>1, <1>2, <2>1 DEF Reserve, Typed, StockTyped
  <2>3. QuotaTyped'
    BY <1>1, <1>2 DEF Typed, QuotaTyped
  <2>4. OthersTyped'
    BY <1>1, <1>2 DEF Typed, OthersTyped, otherVars
  <2> QED
    BY <2>2, <2>3, <2>4
<1>7. StockInv'
  <2>1. SUFFICES ASSUME NEW i \in Items
        PROVE /\ reserved'[i] = AskedAt(status', type', lines', i)
              /\ book'[i] = HeldAt(batchItem', remaining', i)
              /\ reserved'[i] <= book'[i]
              /\ i \notin rows' => book'[i] = 0
    BY DEF StockInv
  <2>2. reserved'[i] = reserved[i] + order[i]
    BY <1>1 DEF Reserve
  <2>3. order[i] \in Nat /\ reserved[i] \in Nat /\ book[i] \in Nat
    BY <1>2, <1>3 DEF Typed, StockTyped, Quantities
  <2>4. order[i] > 0 => book[i] - reserved[i] >= order[i]
    BY <1>1 DEF FitsStock, Lines
  <2> QED
    BY <1>1, <1>2, <1>4, <2>2, <2>3, <2>4 DEF StockInv
<1>8. ActInv'
  <2>1. type'[r] \notin BorrowActs /\ type'[r] # "AGENT_SETTLEMENT"
    BY <1>1, <1>4 DEF BorrowActs, Reserving, Issuing
  <2>2. \A rec \in Records : type[rec[1]] = "CONSUMABLE_REQUEST" =>
          ActsOn(status', type', ret', off', rec)
            <= Lent(status, type, lines, rec) - returned[rec] - writtenOff[rec]
    BY <1>2, <1>4 DEF ActInv, ActsFitOpen
  <2> QED
    BY <1>2, <1>4, <1>5, <2>1, <2>2, ActInvMoves
<1>9. QuotaInv'
  <2>1. Claims(status', type', lines') + Keeps(status', type', lines', returned', writtenOff') <= QuotaLimit
    <3>1. /\ Claims(status, type, lines) \in Int
          /\ Keeps(status, type, lines, returned, writtenOff) \in Int
          /\ QuotaLimit \in Nat /\ SumFunction(order) \in Nat
      <4>1. SumFunction(order) \in Nat
        BY <1>3, NatSums DEF Quantities
      <4>2. QuotaLimit \in Nat
        BY AssetAssumption
      <4> QED
        BY <1>2, <4>1, <4>2, AccountsNow
    <3>2. CASE t = "CONSUMABLE_REQUEST"
      <4>1. QuotaUsed + SumFunction(order) <= QuotaLimit
        BY <1>1, <3>2 DEF WithinQuota, Sum
      <4> QED
        BY <1>2, <1>4, <1>5, <3>1, <3>2, <4>1, QuotaUsedIs
    <3>3. CASE t # "CONSUMABLE_REQUEST"
      BY <1>2, <1>4, <1>5, <3>1, <3>3 DEF QuotaInv
    <3> QED
      BY <3>2, <3>3
  <2>2. \A q \in Requests \ {r} : quota'[q] = quota[q]
    BY <1>1, <1>2 DEF Typed, QuotaTyped
  <2>3. quota'[r] = IF t = "CONSUMABLE_REQUEST" THEN "RESERVED" ELSE "NONE"
    BY <1>1, <1>2 DEF Typed, QuotaTyped
  <2>4. HeadTyped
    BY <1>2 DEF Typed
  <2> QED
    BY <1>2, <1>4, <2>1, <2>2, <2>3, <2>4, QuotaKinds
<1> QED
  BY <1>4, <1>5, <1>6, <1>7, <1>8, <1>9 DEF IInv, Typed

(* A head that reserves nothing moves alone.                               *)
LEMMA HeadOnly ==
  ASSUME IInv, NEW r \in Requests, status[r] # "APPROVED", type'[r] # "CONSUMABLE_REQUEST",
         HeadTyped', HeadsApart(r), LoansStay, NoNewLoans,
         quota[r] \notin {"RESERVED", "CONSUMED"},
         \A i \in Items : AskedAt(status', type', lines', i) = AskedAt(status, type, lines, i),
         \A K : Flow(status', type', lines', K) = Flow(status, type, lines, K),
         Claims(status', type', lines') = Claims(status, type, lines),
         ActInv', UNCHANGED <<stockVars, lendVars, quota, otherVars, seen>>
  PROVE  IInv'
<1>1. UNCHANGED <<rows, book, reserved, batchItem, remaining, received, touched>>
  BY DEF stockVars
<1>2. Typed /\ StockInv /\ QuotaInv
  BY DEF IInv
<1>3. /\ FlowInv' /\ LendInv' /\ LendTyped' /\ UNCHANGED <<returned, writtenOff>>
      /\ Keeps(status', type', lines', returned', writtenOff')
           = Keeps(status, type, lines, returned, writtenOff)
  BY <1>1, RequestFrame
<1>4. StockTyped' /\ QuotaTyped' /\ OthersTyped'
  <2>1. StockTyped'
    BY <1>1, <1>2 DEF Typed, StockTyped
  <2>2. QuotaTyped'
    BY <1>2 DEF Typed, QuotaTyped
  <2>3. OthersTyped'
    BY <1>2 DEF Typed, OthersTyped, otherVars
  <2> QED
    BY <2>1, <2>2, <2>3
<1>5. StockInv'
  BY <1>1, <1>2 DEF StockInv
<1>6. QuotaInv'
  <2>1. Claims(status', type', lines') + Keeps(status', type', lines', returned', writtenOff') <= QuotaLimit
    BY <1>2, <1>3 DEF QuotaInv
  <2>2. quota'[r] \notin {"RESERVED", "CONSUMED"} /\ \A q \in Requests \ {r} : quota'[q] = quota[q]
    OBVIOUS
  <2> QED
    BY <1>2, <2>1, <2>2, QuotaKinds DEF Typed
<1> QED
  BY <1>3, <1>4, <1>5, <1>6 DEF IInv, Typed

LEMMA SubmitStockInInv ==
  ASSUME IInv, NEW r \in Requests, SubmitStockIn(r)
  PROVE  IInv'
<1>1. PICK order \in Orders :
        /\ NewHead(r, "PENDING", "STOCK_IN", order, NoActs, NoActs, 0)
        /\ UNCHANGED <<stockVars, lendVars, quota, otherVars, seen>>
  BY DEF SubmitStockIn
<1>2. Typed /\ StockInv /\ LendInv /\ ActInv /\ QuotaInv
  BY DEF IInv
<1>3. /\ status[r] = "NONE" /\ "STOCK_IN" \in RequestTypes /\ order \in Quantities
      /\ NoActs \in RecordQuantities
  BY <1>1, AssetAssumption DEF SubmitStockIn, NextId, RequestTypes, Quantities, NoActs, Zero, RecordQuantities
<1>4. /\ HeadTyped' /\ HeadsApart(r) /\ ~LendsIn(status, type, r) /\ LoansStay /\ NoNewLoans
      /\ status'[r] = "PENDING" /\ type'[r] = "STOCK_IN"
      /\ \A i \in Items : AskedAt(status', type', lines', i) = AskedAt(status, type, lines, i)
      /\ \A K : Flow(status', type', lines', K) = Flow(status, type, lines, K)
      /\ Claims(status', type', lines') = Claims(status, type, lines)
      /\ \A rec \in Records : ActsOn(status', type', ret', off', rec) = ActsOn(status, type, ret, off, rec)
  <2>1. "STOCK_IN" \notin Reserving /\ "STOCK_IN" \notin BorrowActs
    BY DEF BorrowActs, Reserving, Issuing
  <2>2. \A rec \in Records : ActsOn(status, type, ret, off, rec) \in Nat
    <3>1. \A rec \in Records : ActTerm(status, type, ret, off, rec) \in [Requests -> Nat]
      BY <1>2, ActTypes DEF Typed
    <3> QED
      BY <3>1, NatSums DEF ActsOn
  <2> QED
    BY <1>1, <1>2, <1>3, <2>1, <2>2, NewRequest, AccountsNow
<1>5. ActInv'
  <2>1. type'[r] \notin BorrowActs /\ type'[r] # "AGENT_SETTLEMENT"
    BY <1>1, <1>4 DEF BorrowActs
  <2>2. \A rec \in Records : type[rec[1]] = "CONSUMABLE_REQUEST" =>
          ActsOn(status', type', ret', off', rec)
            <= Lent(status, type, lines, rec) - returned[rec] - writtenOff[rec]
    BY <1>2, <1>4 DEF ActInv, ActsFitOpen
  <2>3. UNCHANGED <<returned, writtenOff>>
    BY <1>1 DEF lendVars
  <2> QED
    BY <1>2, <1>4, <2>1, <2>2, <2>3, ActInvMoves
<1>6. quota[r] \notin {"RESERVED", "CONSUMED"}
  BY <1>2, <1>3 DEF QuotaInv
<1> QED
  BY <1>1, <1>3, <1>4, <1>5, <1>6, HeadOnly

(* An employee returns or writes off records of their own.                 *)
LEMMA SubmitBorrowActionInv ==
  ASSUME IInv, NEW r \in Requests, SubmitBorrowAction(r)
  PROVE  IInv'
<1>1. Typed /\ StockInv /\ LendInv /\ ActInv /\ QuotaInv /\ HeadTyped
  BY DEF IInv, Typed
<1>2. PICK t \in BorrowActs, returns \in RecordQuantities, writeOffs \in RecordQuantities :
        /\ t \in RequestTypes
        /\ NewHead(r, "PENDING", t, Zero(Items), returns, writeOffs, 0)
        /\ \A x \in Records : returns[x] + writeOffs[x] > 0 =>
             Personal(x) /\ Open(x) > 0 /\ returns[x] + writeOffs[x] <= Available(x, 0)
        /\ UNCHANGED <<stockVars, lendVars, quota, otherVars, seen>>
  <2>1. PICK t \in {"RETURN", "WRITE_OFF"} \cap Types, recs \in NonEmpty(OwnOpen) :
          \E n \in [recs -> 1 .. MaxLine] :
            LET acts == [x \in Records |-> IF x \in recs THEN n[x] ELSE 0]
            IN /\ \A x \in recs : n[x] <= Available(x, 0)
               /\ IF t = "RETURN" THEN NewHead(r, "PENDING", t, Zero(Items), acts, NoActs, 0)
                                  ELSE NewHead(r, "PENDING", t, Zero(Items), NoActs, acts, 0)
               /\ UNCHANGED <<stockVars, lendVars, quota, otherVars, seen>>
    BY DEF SubmitBorrowAction
  <2>2. PICK n \in [recs -> 1 .. MaxLine] :
            LET acts == [x \in Records |-> IF x \in recs THEN n[x] ELSE 0]
            IN /\ \A x \in recs : n[x] <= Available(x, 0)
               /\ IF t = "RETURN" THEN NewHead(r, "PENDING", t, Zero(Items), acts, NoActs, 0)
                                  ELSE NewHead(r, "PENDING", t, Zero(Items), NoActs, acts, 0)
               /\ UNCHANGED <<stockVars, lendVars, quota, otherVars, seen>>
    BY <2>1
  <2>3. PICK acts : acts = [x \in Records |-> IF x \in recs THEN n[x] ELSE 0]
    OBVIOUS
  <2>4. /\ \A x \in recs : n[x] <= Available(x, 0)
        /\ IF t = "RETURN" THEN NewHead(r, "PENDING", t, Zero(Items), acts, NoActs, 0)
                           ELSE NewHead(r, "PENDING", t, Zero(Items), NoActs, acts, 0)
        /\ UNCHANGED <<stockVars, lendVars, quota, otherVars, seen>>
    BY <2>2, <2>3
  <2>5. recs \subseteq OwnOpen
    BY <2>1 DEF NonEmpty
  <2>6. /\ acts \in RecordQuantities /\ NoActs \in RecordQuantities
        /\ \A x \in Records : NoActs[x] = 0
        /\ \A x \in Records : acts[x] > 0 => Personal(x) /\ Open(x) > 0 /\ acts[x] <= Available(x, 0)
    <3>1. ASSUME NEW x \in recs PROVE n[x] \in Nat
      BY <2>2
    <3>2. acts \in RecordQuantities /\ NoActs \in RecordQuantities /\ \A x \in Records : NoActs[x] = 0
      BY <2>3, <3>1 DEF RecordQuantities, NoActs, Zero
    <3>3. ASSUME NEW x \in Records, acts[x] > 0
          PROVE Personal(x) /\ Open(x) > 0 /\ acts[x] <= Available(x, 0)
      <4>1. x \in recs /\ acts[x] = n[x]
        BY <2>3, <3>3
      <4> QED
        BY <2>4, <2>5, <4>1 DEF OwnOpen
    <3> QED
      BY <3>2, <3>3
  <2>7. t \in BorrowActs /\ t \in RequestTypes
    BY <2>1 DEF BorrowActs, RequestTypes
  <2>8. \A x \in Records : acts[x] + 0 = acts[x] /\ 0 + acts[x] = acts[x]
    BY <2>6 DEF RecordQuantities
  <2>9. CASE t = "RETURN"
    BY <2>4, <2>6, <2>7, <2>8, <2>9
  <2>10. CASE t # "RETURN"
    BY <2>4, <2>6, <2>7, <2>8, <2>10
  <2> QED
    BY <2>9, <2>10
<1>3. /\ status[r] = "NONE" /\ Zero(Items) \in Quantities
  BY DEF SubmitBorrowAction, NextId, Zero, Quantities
<1>4. /\ HeadTyped' /\ HeadsApart(r) /\ ~LendsIn(status, type, r) /\ LoansStay /\ NoNewLoans
      /\ status'[r] = "PENDING" /\ type'[r] = t /\ ret'[r] = returns /\ off'[r] = writeOffs
      /\ \A i \in Items : AskedAt(status', type', lines', i) = AskedAt(status, type, lines, i)
      /\ \A K : Flow(status', type', lines', K) = Flow(status, type, lines, K)
      /\ Claims(status', type', lines') = Claims(status, type, lines)
      /\ \A rec \in Records : ActsOn(status', type', ret', off', rec)
                                = ActsOn(status, type, ret, off, rec) + (returns[rec] + writeOffs[rec])
  <2>1. t \notin Reserving /\ t # "CONSUMABLE_REQUEST"
    BY <1>2 DEF BorrowActs, Reserving, Issuing
  <2> QED
    BY <1>1, <1>2, <1>3, <2>1, NewRequest, AccountsNow
<1>5. ASSUME NEW x \in Records, returns[x] + writeOffs[x] > 0
      PROVE LendsIn(status, type, x[1]) /\ type[x[1]] = "CONSUMABLE_REQUEST"
  <2>1. Personal(x) /\ Open(x) > 0
    BY <1>2, <1>5
  <2>2. Lent(status, type, lines, x) > 0
    BY <1>1, <2>1, OpenIs
  <2> QED
    BY <2>1, <2>2 DEF Lent, Personal
<1>6. ActInv'
  <2>1. type'[r] # "AGENT_SETTLEMENT"
    BY <1>2, <1>4 DEF BorrowActs
  <2>2. ASSUME NEW rec \in Records, type[rec[1]] = "CONSUMABLE_REQUEST"
        PROVE  ActsOn(status', type', ret', off', rec)
                 <= Lent(status, type, lines, rec) - returned[rec] - writtenOff[rec]
    <3>1. ActsOn(status, type, ret, off, rec) \in Nat /\ returns[rec] \in Nat /\ writeOffs[rec] \in Nat
      BY <1>1, <1>2, <1>4, ActMoves DEF RecordQuantities
    <3>2. CASE returns[rec] + writeOffs[rec] > 0
      <4>1. returns[rec] + writeOffs[rec] <= Available(rec, 0)
        BY <1>2, <3>2
      <4>2. Available(rec, 0) = Open(rec) - ActsOn(status, type, ret, off, rec) + 0
        <5>1. 0 \notin Requests
          BY AllFinite
        <5> QED
          BY <1>1, <5>1, AvailableIs
      <4> QED
        BY <1>1, <1>4, <3>1, <4>1, <4>2, OpenIs
    <3>3. CASE ~(returns[rec] + writeOffs[rec] > 0)
      <4>1. ActsOn(status, type, ret, off, rec)
              <= Lent(status, type, lines, rec) - returned[rec] - writtenOff[rec]
        BY <1>1, <2>2 DEF ActInv, ActsFitOpen
      <4> QED
        BY <1>1, <1>4, <3>1, <3>3, <4>1, OpenIs
    <3> QED
      BY <3>2, <3>3
  <2>3. UNCHANGED <<returned, writtenOff>>
    BY <1>2 DEF lendVars
  <2> QED
    BY <1>1, <1>4, <1>5, <2>1, <2>2, <2>3, ActInvMoves
<1>7. quota[r] \notin {"RESERVED", "CONSUMED"}
  BY <1>1, <1>3 DEF QuotaInv
<1>8. t # "CONSUMABLE_REQUEST"
  BY <1>2 DEF BorrowActs
<1> QED
  BY <1>2, <1>3, <1>4, <1>6, <1>7, <1>8, HeadOnly

(* Every open record of a list that has given nothing back: what is kept   *)
(* and what is lost is all that was lent.                                  *)
LEMMA SplitIs ==
  ASSUME Typed, WholeLists, NEW list \in Requests, type[list] = "AGENT_REQUEST",
         NEW n \in [OpenOf(list) -> 0 .. MaxLine], OpenOf(list) # {}, Split(list, n)
  PROVE  /\ LendsIn(status, type, list)
         /\ Kept(n) \in RecordQuantities /\ Lost(n) \in RecordQuantities
         /\ \A x \in Records : Kept(n)[x] + Lost(n)[x] = IF x[1] = list THEN Lent(status, type, lines, x) ELSE 0
<1>1. DOMAIN n = OpenOf(list)
  BY DEF Split
<1>2. PICK x0 \in Records : x0[1] = list /\ Open(x0) > 0
  BY DEF OpenOf
<1>3. LendsIn(status, type, list)
  <2>1. Lent(status, type, lines, x0) > 0
    BY <1>2, OpenIs
  <2> QED
    BY <1>2, <2>1 DEF Lent
<1>4. ASSUME NEW x \in Records
      PROVE  /\ Kept(n)[x] \in Nat /\ Lost(n)[x] \in Nat
             /\ Kept(n)[x] + Lost(n)[x] = IF x[1] = list THEN Lent(status, type, lines, x) ELSE 0
  <2>1. /\ Kept(n)[x] = IF x \in OpenOf(list) THEN n[x] ELSE 0
        /\ Lost(n)[x] = IF x \in OpenOf(list) THEN Open(x) - n[x] ELSE 0
    BY <1>1 DEF Kept, Lost
  <2>2. /\ Lent(status, type, lines, x) \in Nat /\ returned[x] \in Nat /\ writtenOff[x] \in Nat
        /\ Open(x) = Lent(status, type, lines, x) - returned[x] - writtenOff[x]
    BY OpenIs
  <2>3. x[1] = list => returned[x] + writtenOff[x] = 0
    <3>1. CASE \A rec \in Records : rec[1] = list => returned[rec] + writtenOff[rec] = 0
      BY <3>1
    <3>2. CASE \A rec \in Records : rec[1] = list =>
                 returned[rec] + writtenOff[rec] = Lent(status, type, lines, rec)
      BY <1>2, <3>2, OpenIs
    <3> QED
      BY <1>3, <3>1, <3>2 DEF WholeLists
  <2>4. CASE x \in OpenOf(list)
    <3>1. n[x] \in Nat /\ n[x] <= Open(x) /\ x[1] = list
      BY <1>1, <2>4 DEF Split, OpenOf
    <3> QED
      BY <2>1, <2>2, <2>3, <2>4, <3>1
  <2>5. CASE x \notin OpenOf(list)
    <3>1. x[1] = list => ~(Open(x) > 0)
      BY <2>5 DEF OpenOf
    <3> QED
      BY <2>1, <2>2, <2>3, <2>5, <3>1
  <2> QED
    BY <2>4, <2>5
<1>5. Kept(n) \in RecordQuantities /\ Lost(n) \in RecordQuantities
  <2>1. Kept(n) \in [Records -> Nat]
    BY <1>4 DEF Kept
  <2>2. Lost(n) \in [Records -> Nat]
    BY <1>4 DEF Lost
  <2> QED
    BY <2>1, <2>2 DEF RecordQuantities
<1> QED
  BY <1>3, <1>4, <1>5

(* A settlement covers every open record of its list.                      *)
LEMMA DraftSettlementInv ==
  ASSUME IInv, NEW r \in Requests, DraftSettlement(r)
  PROVE  IInv'
<1>1. Typed /\ StockInv /\ LendInv /\ ActInv /\ QuotaInv /\ HeadTyped /\ WholeLists /\ ActsFitOpen
  BY DEF IInv, Typed, ActInv
<1>2. PICK list \in {q \in Requests : type[q] = "AGENT_REQUEST"} :
        \E n \in [OpenOf(list) -> 0 .. MaxLine] :
         /\ OpenOf(list) # {} /\ Split(list, n)
         /\ NewHead(r, "DRAFT", "AGENT_SETTLEMENT", Zero(Items), Kept(n), Lost(n), list)
         /\ UNCHANGED <<stockVars, lendVars, quota, otherVars, seen>>
  BY DEF DraftSettlement
<1>3. PICK n \in [OpenOf(list) -> 0 .. MaxLine] :
         /\ OpenOf(list) # {} /\ Split(list, n)
         /\ NewHead(r, "DRAFT", "AGENT_SETTLEMENT", Zero(Items), Kept(n), Lost(n), list)
         /\ UNCHANGED <<stockVars, lendVars, quota, otherVars, seen>>
  BY <1>2
<1>4. list \in Requests /\ type[list] = "AGENT_REQUEST"
  BY <1>2
<1>5. /\ LendsIn(status, type, list)
      /\ Kept(n) \in RecordQuantities /\ Lost(n) \in RecordQuantities
      /\ \A x \in Records : Kept(n)[x] + Lost(n)[x] = IF x[1] = list THEN Lent(status, type, lines, x) ELSE 0
  BY <1>1, <1>3, <1>4, SplitIs
<1>6. LendsIn(status, type, list)
  BY <1>5
<1>7. ASSUME NEW x \in Records
      PROVE  Kept(n)[x] + Lost(n)[x] = IF x[1] = list THEN Lent(status, type, lines, x) ELSE 0
  BY <1>5
<1>8. Kept(n) \in RecordQuantities /\ Lost(n) \in RecordQuantities
  BY <1>5
<1>9. status[r] = "NONE" /\ Zero(Items) \in Quantities /\ "AGENT_SETTLEMENT" \in RequestTypes
      /\ list \in Requests \cup {0}
  BY <1>4 DEF DraftSettlement, NextId, Zero, Quantities, RequestTypes
<1>10. PICK kept \in RecordQuantities, lost \in RecordQuantities : kept = Kept(n) /\ lost = Lost(n)
  BY <1>8
<1>11. /\ HeadTyped' /\ HeadsApart(r) /\ ~LendsIn(status, type, r) /\ LoansStay /\ NoNewLoans
       /\ status'[r] = "DRAFT" /\ type'[r] = "AGENT_SETTLEMENT"
       /\ ret'[r] = kept /\ off'[r] = lost /\ ref'[r] = list
       /\ \A i \in Items : AskedAt(status', type', lines', i) = AskedAt(status, type, lines, i)
       /\ \A K : Flow(status', type', lines', K) = Flow(status, type, lines, K)
       /\ Claims(status', type', lines') = Claims(status, type, lines)
       /\ \A rec \in Records : ActsOn(status', type', ret', off', rec) = ActsOn(status, type, ret, off, rec)
  <2>1. \A rec \in Records : ActsOn(status, type, ret, off, rec) \in Nat
    <3>1. \A rec \in Records : ActTerm(status, type, ret, off, rec) \in [Requests -> Nat]
      BY <1>1, ActTypes
    <3> QED
      BY <3>1, NatSums DEF ActsOn
  <2>2. NewHead(r, "DRAFT", "AGENT_SETTLEMENT", Zero(Items), kept, lost, list)
    BY <1>3, <1>10
  <2> QED
    BY <1>1, <1>9, <2>1, <2>2, NewRequest, AccountsNow
<1>12. ActInv'
  <2>1. \A rec \in Records : type[rec[1]] = "CONSUMABLE_REQUEST" =>
          ActsOn(status', type', ret', off', rec)
            <= Lent(status, type, lines, rec) - returned[rec] - writtenOff[rec]
    <3>1. SUFFICES ASSUME NEW rec \in Records, type[rec[1]] = "CONSUMABLE_REQUEST"
          PROVE ActsOn(status', type', ret', off', rec)
            <= Lent(status, type, lines, rec) - returned[rec] - writtenOff[rec]
      OBVIOUS
    <3>2. ActsOn(status', type', ret', off', rec) = ActsOn(status, type, ret, off, rec)
      BY <1>11
    <3> QED
      BY <1>1, <3>1, <3>2 DEF ActsFitOpen
  <2>2. \A rec \in Records : kept[rec] + lost[rec] =
          IF rec[1] = list THEN Lent(status, type, lines, rec) ELSE 0
    BY <1>7, <1>10
  <2>3. UNCHANGED <<returned, writtenOff>>
    BY <1>3 DEF lendVars
  <2>4. type'[r] \notin BorrowActs
    BY <1>11 DEF BorrowActs
  <2> QED
    BY <1>1, <1>4, <1>6, <1>11, <2>1, <2>2, <2>3, <2>4, ActInvMoves
<1>13. quota[r] \notin {"RESERVED", "CONSUMED"}
  BY <1>1, <1>9 DEF QuotaInv
<1>14. status[r] # "APPROVED" /\ type'[r] # "CONSUMABLE_REQUEST"
  BY <1>9, <1>11
<1>15. UNCHANGED <<stockVars, lendVars, quota, otherVars, seen>>
  BY <1>3
<1>16. /\ HeadTyped' /\ HeadsApart(r) /\ LoansStay /\ NoNewLoans
       /\ \A i \in Items : AskedAt(status', type', lines', i) = AskedAt(status, type, lines, i)
       /\ \A K : Flow(status', type', lines', K) = Flow(status, type, lines, K)
       /\ Claims(status', type', lines') = Claims(status, type, lines)
  BY <1>11
<1> QED
  BY <1>12, <1>13, <1>14, <1>15, <1>16, HeadOnly

LEMMA InsertSettlementInv ==
  ASSUME IInv, NEW r \in Requests, InsertSettlement(r)
  PROVE  IInv'
<1>1. Typed /\ StockInv /\ LendInv /\ ActInv /\ QuotaInv /\ HeadTyped
  BY DEF IInv, Typed
<1>2. PICK s \in {"NONE", "PENDING"} : status' = [status EXCEPT ![r] = s]
  <2>1. PICK b : b = (\E q \in Requests : /\ status[q] = "PENDING" /\ type[q] = "AGENT_SETTLEMENT"
                                          /\ ref[q] = ref[r])
    OBVIOUS
  <2>2. status' = [status EXCEPT ![r] = IF b THEN "NONE" ELSE "PENDING"]
    BY <2>1 DEF InsertSettlement
  <2> QED
    BY <2>2
<1>3. /\ status[r] = "DRAFT" /\ type[r] = "AGENT_SETTLEMENT"
      /\ UNCHANGED <<type, lines, ret, off, ref>>
      /\ UNCHANGED <<stockVars, lendVars, quota, otherVars, seen>>
  BY <1>1 DEF InsertSettlement, ActInv, Drafts
<1>4. /\ HeadTyped' /\ HeadsApart(r) /\ status'[r] = s /\ type'[r] = type[r]
      /\ ret'[r] = ret[r] /\ off'[r] = off[r] /\ ref'[r] = ref[r]
  <2>1. s \in Statuses
    BY DEF Statuses
  <2> QED
    BY <1>1, <1>2, <1>3, <2>1, NewStatus
<1>5. ~LendsIn(status, type, r) /\ ~LendsIn(status', type', r)
  BY <1>3, <1>4 DEF LendsIn
<1>6. LoansStay /\ NoNewLoans
  BY <1>1, <1>4, <1>5, LoansApart
<1>7. type'[r] \notin Reserving /\ type'[r] \notin BorrowActs /\ type[r] \notin BorrowActs
      /\ type[r] # "CONSUMABLE_REQUEST" /\ type'[r] # "CONSUMABLE_REQUEST"
  BY <1>3, <1>4 DEF Reserving, Issuing, BorrowActs
<1>8. \A i \in Items : AskedAt(status', type', lines', i) = AskedAt(status, type, lines, i)
  <2>1. SUFFICES ASSUME NEW i \in Items
        PROVE AskedAt(status', type', lines', i) = AskedAt(status, type, lines, i)
    OBVIOUS
  <2>2. AskTerm(status, type, lines, i)[r] = 0 /\ AskTerm(status', type', lines', i)[r] = 0
    BY <1>3, <1>7 DEF AskTerm
  <2> QED
    BY <1>1, <1>4, <2>2, HeadMoves, AccountsNow
<1>9. \A K : Flow(status', type', lines', K) = Flow(status, type, lines, K)
  <2>1. SUFFICES ASSUME NEW K
        PROVE Flow(status', type', lines', K) = Flow(status, type, lines, K)
    OBVIOUS
  <2>2. FlowTerm(status, type, lines, K)[r] = 0 /\ FlowTerm(status', type', lines', K)[r] = 0
    BY <1>3, <1>4 DEF FlowTerm
  <2> QED
    BY <1>1, <1>4, <2>2, HeadMoves, AccountsNow
<1>10. Claims(status', type', lines') = Claims(status, type, lines)
  <2>2. ClaimTerm(status, type, lines)[r] = 0 /\ ClaimTerm(status', type', lines')[r] = 0
    BY <1>7 DEF ClaimTerm
  <2> QED
    BY <1>1, <1>4, <2>2, HeadMoves, AccountsNow
<1>11. ActInv'
  <2>1. \A rec \in Records : type[rec[1]] = "CONSUMABLE_REQUEST" =>
          ActsOn(status', type', ret', off', rec)
            <= Lent(status, type, lines, rec) - returned[rec] - writtenOff[rec]
    <3>1. SUFFICES ASSUME NEW rec \in Records, type[rec[1]] = "CONSUMABLE_REQUEST"
          PROVE ActsOn(status', type', ret', off', rec)
            <= Lent(status, type, lines, rec) - returned[rec] - writtenOff[rec]
      OBVIOUS
    <3>2. ActTerm(status, type, ret, off, rec)[r] = 0 /\ ActTerm(status', type', ret', off', rec)[r] = 0
      BY <1>7 DEF ActTerm
    <3>3. ActsOn(status', type', ret', off', rec) = ActsOn(status, type, ret, off, rec)
      BY <1>1, <1>4, <3>2, ActMoves
    <3> QED
      BY <1>1, <3>1, <3>3 DEF ActInv, ActsFitOpen
  <2>2. UNCHANGED <<returned, writtenOff>>
    BY <1>3 DEF lendVars
  <2>3. /\ ref'[r] \in Requests /\ LendsIn(status, type, ref'[r]) /\ type[ref'[r]] = "AGENT_REQUEST"
        /\ \A rec \in Records : ret'[r][rec] + off'[r][rec] =
             IF rec[1] = ref'[r] THEN Lent(status, type, lines, rec) ELSE 0
    BY <1>1, <1>3, <1>4 DEF ActInv, SettlementActs
  <2>4. status'[r] # "DRAFT"
    BY <1>4
  <2> QED
    BY <1>1, <1>4, <1>5, <1>7, <2>1, <2>2, <2>3, <2>4, ActInvMoves
<1>12. quota[r] \notin {"RESERVED", "CONSUMED"}
  BY <1>1, <1>3 DEF QuotaInv
<1> QED
  BY <1>3, <1>4, <1>6, <1>7, <1>8, <1>9, <1>10, <1>11, <1>12, HeadOnly

LEMMA ReadInv ==
  ASSUME IInv, \/ \E d \in Deciders : \E r \in Requests : ReadHead(d, r)
               \/ ReadOverdue \/ SetActive \/ SetStatus
  PROVE  IInv'
<1>1. OthersTyped
  BY DEF IInv, Typed
<1>2. ASSUME NEW d \in Deciders, NEW r \in Requests, ReadHead(d, r) PROVE IInv'
  <2>1. PICK a \in {"APPROVE", "REJECT", "CANCEL"} : seen' = [seen EXCEPT ![d] = [req |-> r, action |-> a]]
    BY <1>2 DEF ReadHead
  <2>2. UNCHANGED <<consumable, deleting, active>>
    BY <1>2 DEF ReadHead, otherVars
  <2>3. OthersTyped'
    BY <1>1, <2>1, <2>2 DEF OthersTyped, Actions
  <2> QED
    BY <1>2, <2>3, NothingMoves DEF ReadHead
<1>3. ASSUME ReadOverdue PROVE IInv'
  <2>1. PICK r \in Requests : seen' = [seen EXCEPT !["scan"] = [req |-> r, action |-> "OVERDUE"]]
    BY <1>3 DEF ReadOverdue
  <2>2. UNCHANGED <<consumable, deleting, active>>
    BY <1>3 DEF ReadOverdue, otherVars
  <2>3. OthersTyped'
    BY <1>1, <2>1, <2>2 DEF OthersTyped, Actions
  <2> QED
    BY <1>3, <2>3, NothingMoves DEF ReadOverdue
<1>4. ASSUME SetActive PROVE IInv'
  <2>1. OthersTyped'
    BY <1>1, <1>4 DEF OthersTyped, SetActive
  <2> QED
    BY <1>4, <2>1, NothingMoves DEF SetActive
<1>5. ASSUME SetStatus PROVE IInv'
  <2>1. OthersTyped'
    BY <1>1, <1>5 DEF OthersTyped, SetStatus
  <2> QED
    BY <1>5, <2>1, NothingMoves DEF SetStatus
<1> QED
  BY <1>2, <1>3, <1>4, <1>5

-----------------------------------------------------------------------------
(* First in, first out.                                                    *)

LEMMA ClipBounds ==
  ASSUME NEW n \in Int, NEW max \in Nat
  PROVE  Clip(n, max) \in Nat /\ Clip(n, max) <= max /\ Capped(n, max) = Clip(n, max)
  BY DEF Clip, Capped

LEMMA PartSums ==
  ASSUME NEW S, IsFiniteSet(S), NEW cap \in [S -> Nat], NEW T, T \subseteq S
  PROVE  SumOver(cap, T) \in Nat
<1>1. PICK f : f = [x \in T |-> cap[x]]
  OBVIOUS
<1>2. f \in [T -> Nat] /\ IsFiniteSet(T)
  BY <1>1, FS_Subset
<1> QED
  BY <1>1, <1>2, SumNat DEF SumOver

(* The batches of a location give exactly what leaves it.                  *)
LEMMA TakenSums ==
  ASSUME StockTyped, NEW i \in Items, NEW q \in Nat, InStock(i) >= q
  PROVE  /\ \A b \in BatchesAt(i) : Taken(i, q, b) \in Nat /\ Taken(i, q, b) <= remaining[b]
         /\ SumFunction([b \in BatchesAt(i) |-> Taken(i, q, b)]) = q
         /\ SumFunction([b \in Batches |-> IF batchItem[b] = i THEN Taken(i, q, b) ELSE 0]) = q
<1>1. PICK B : B = BatchesAt(i)
  OBVIOUS
<1>2. B \subseteq Batches /\ IsFiniteSet(B) /\ IsFiniteSet(Batches) /\ Batches \subseteq Nat
  BY <1>1, AllFinite, FS_Subset DEF BatchesAt
<1>3. PICK older, cap, take : /\ older = [b \in B |-> {c \in B : Before(c, b)}]
                              /\ cap = [b \in B |-> remaining[b]]
                              /\ take = [b \in B |-> Taken(i, q, b)]
  OBVIOUS
<1>4. older \in [B -> SUBSET B] /\ cap \in [B -> Nat]
  BY <1>2, <1>3 DEF StockTyped
<1>5. \A b \in B : received[b] \in Nat /\ b \in Nat
  BY <1>2 DEF StockTyped
<1>6. /\ \A b \in B : b \notin older[b]
      /\ \A b, c \in B : b \in older[c] \/ c \in older[b] \/ b = c
      /\ \A b, c \in B : c \in older[b] => older[c] \subseteq older[b]
  BY <1>3, <1>5 DEF Before
<1>7. ASSUME NEW b \in B
      PROVE  /\ take[b] = Clip(q - SumOver(cap, older[b]), cap[b])
             /\ take[b] \in Nat /\ take[b] <= remaining[b]
  <2>1. PICK T : T = older[b] /\ T \subseteq B
    BY <1>4
  <2>2. {c \in BatchesAt(i) : Before(c, b)} = T
    BY <1>1, <1>3, <2>1
  <2>3. [c \in T |-> remaining[c]] = [c \in T |-> cap[c]]
    BY <1>3, <2>1
  <2>4. take[b] = Capped(q - SumOver(cap, T), cap[b])
    BY <1>3, <2>2, <2>3 DEF Taken, Sum, SumOver
  <2>5. SumOver(cap, T) \in Nat
    BY <1>2, <1>4, <2>1, PartSums
  <2>6. q - SumOver(cap, T) \in Int /\ cap[b] \in Nat /\ cap[b] = remaining[b]
    BY <1>3, <1>4, <2>5
  <2> QED
    BY <2>1, <2>4, <2>6, ClipBounds
<1>8. take \in [B -> Int] /\ take \in [B -> Nat]
  <2>1. take = [b \in B |-> take[b]]
    BY <1>3
  <2> QED
    BY <1>7, <2>1
<1>9. SumFunction(take) = IF q <= SumFunction(cap) THEN q ELSE SumFunction(cap)
  <2>1. \A b \in B : take[b] = Clip(q - SumOver(cap, older[b]), cap[b])
    BY <1>7
  <2>2. IsFiniteSet(B) /\ take \in [B -> Int]
    BY <1>2, <1>8
  <2> QED
    BY ONLY <1>4, <1>6, <2>1, <2>2, q \in Nat, Emptied
<1>10. SumFunction(cap) = InStock(i)
  BY <1>1, <1>3 DEF InStock, Sum
<1>11. SumFunction(take) = q
  BY <1>9, <1>10
<1>12. PICK whole : whole = [b \in Batches |-> IF batchItem[b] = i THEN Taken(i, q, b) ELSE 0]
  OBVIOUS
<1>13. SumFunction(take) = SumFunction(whole)
  <2>1. ASSUME NEW b \in Batches
        PROVE  (b \in B => take[b] = whole[b]) /\ (b \notin B => whole[b] = 0) /\ whole[b] \in Int
    <3>0. b \in B <=> batchItem[b] = i
      BY <1>1 DEF BatchesAt
    <3>1. CASE b \in B
      <4>1. take[b] = Taken(i, q, b)
        BY <1>3, <3>1
      <4>2. whole[b] = Taken(i, q, b)
        BY <1>12, <3>0, <3>1
      <4> QED
        BY <1>7, <3>1, <4>1, <4>2
    <3>2. CASE b \notin B
      BY <1>12, <3>0, <3>2
    <3> QED
      BY <3>1, <3>2
  <2>2. whole \in [Batches -> Int]
    BY <1>12, <2>1
  <2>3. take = [b \in B |-> take[b]]
    BY <1>3
  <2> QED
    BY <1>2, <2>1, <2>2, <2>3, Filtered
<1> QED
  BY <1>1, <1>3, <1>7, <1>11, <1>12, <1>13

-----------------------------------------------------------------------------
(* Stock moves without a request.                                          *)

(* A location that is cleaned up holds, reserves and lends nothing.        *)
LEMMA SweptAway ==
  ASSUME Typed, NEW S, NEW newBook, NEW newReserved, NEW keep, NEW i \in rows,
         i \notin Swept(S, newBook, newReserved, keep)
  PROVE  /\ newBook[i] = 0 /\ newReserved[i] = 0 /\ i \in S /\ i \notin keep
         /\ \A rec \in Records : rec[2] = i =>
              ~(returned[rec] + writtenOff[rec] < Lent(status, type, lines, rec))
<1>1. newBook[i] = 0 /\ newReserved[i] = 0 /\ i \in S /\ i \notin keep /\ ~OpenAt(i)
  BY DEF Swept
<1>2. ASSUME NEW rec \in Records, rec[2] = i, returned[rec] + writtenOff[rec] < Lent(status, type, lines, rec)
      PROVE FALSE
  <2>1. Open(rec) > 0
    BY <1>2, OpenIs
  <2> QED
    BY <1>1, <1>2, <2>1 DEF OpenAt, ItemOf
<1> QED
  BY <1>1, <1>2

LEMMA StockMoves ==
  ASSUME IInv, UNCHANGED <<reserved, headVars, lendVars, quota, otherVars, seen>>, StockTyped',
         \A i \in Items : /\ book'[i] = HeldAt(batchItem', remaining', i)
                          /\ reserved[i] <= book'[i]
                          /\ i \notin rows' => book'[i] = 0,
         SumFunction(book') = SumFunction(book),
         touched \subseteq touched',
         \A b \in touched : batchItem[b] \in Items => batchItem'[b] = batchItem[b],
         \A rec \in Records : returned[rec] + writtenOff[rec] < Lent(status, type, lines, rec)
                              /\ rec[2] \in rows => rec[2] \in rows'
  PROVE  IInv'
<1>1. UNCHANGED <<type, status, lines, ret, off, ref>>
  BY DEF headVars
<1>2. UNCHANGED <<returned, writtenOff, issued, back, quota, reserved>>
  BY DEF lendVars
<1>3. Typed /\ StockInv /\ FlowInv /\ LendInv /\ ActInv /\ QuotaInv
  BY DEF IInv
<1>4. HeadTyped' /\ LendTyped' /\ QuotaTyped' /\ OthersTyped'
  <2>1. HeadTyped'
    BY <1>1, <1>3 DEF Typed, HeadTyped
  <2>2. LendTyped'
    BY <1>2, <1>3 DEF Typed, LendTyped
  <2>3. QuotaTyped'
    BY <1>2, <1>3 DEF Typed, QuotaTyped
  <2>4. OthersTyped'
    BY <1>3 DEF Typed, OthersTyped, otherVars
  <2> QED
    BY <2>1, <2>2, <2>3, <2>4
<1>5. StockInv'
  BY <1>1, <1>2, <1>3 DEF StockInv
<1>6. FlowInv'
  BY <1>1, <1>2, <1>3 DEF FlowInv
<1>7. LoansStay /\ NoNewLoans
  BY <1>1 DEF LoansStay, NoNewLoans
<1>8. LendInv'
  BY <1>3, <1>7, LendKept
<1>9. ActInv'
  <2>1. PersonalActs' /\ SettlementActs' /\ Drafts'
    BY <1>1, <1>3 DEF ActInv, PersonalActs, SettlementActs, Drafts
  <2>2. ActsFitOpen' /\ WholeLists'
    BY <1>1, <1>2, <1>3 DEF ActInv, ActsFitOpen, WholeLists
  <2> QED
    BY <2>1, <2>2 DEF ActInv
<1>10. QuotaInv'
  BY <1>1, <1>2, <1>3 DEF QuotaInv
<1> QED
  BY <1>4, <1>5, <1>6, <1>8, <1>9, <1>10 DEF IInv, Typed

(* What leaves one location and arrives at another changes no total.       *)
LEMMA Carried ==
  ASSUME NEW f \in [Items -> Int], NEW h \in [Items -> Int], NEW i \in Items, NEW j \in Items, i # j,
         NEW q \in Int, h[i] = f[i] - q, h[j] = f[j] + q, \A k \in Items \ {i, j} : h[k] = f[k]
  PROVE  SumFunction(h) = SumFunction(f)
<1>1. PICK g : g = [f EXCEPT ![i] = @ - q]
  OBVIOUS
<1>2. /\ g \in [Items -> Int]
      /\ (\A k \in Items \ {i} : g[k] = f[k]) /\ (\A k \in Items \ {j} : h[k] = g[k])
      /\ g[i] = f[i] - q /\ h[j] = g[j] + q
  BY <1>1
<1>3. IsFiniteSet(Items)
  BY AllFinite
<1>4. SumFunction(g) = SumFunction(f) - f[i] + g[i]
  BY <1>2, <1>3, SumChanges
<1>5. SumFunction(h) = SumFunction(g) - g[j] + h[j]
  BY <1>2, <1>3, SumChanges
<1>6. SumFunction(f) \in Int
  BY <1>3, SumInt
<1>7. f[i] \in Int /\ f[j] \in Int /\ g[j] \in Int
  BY <1>2
<1>8. SumFunction(g) = SumFunction(f) - q
  BY <1>2, <1>4, <1>6, <1>7
<1>9. SumFunction(h) = SumFunction(g) + q
  BY <1>2, <1>5, <1>6, <1>7, <1>8
<1> QED
  BY <1>6, <1>8, <1>9

LEMMA CorrectInv ==
  ASSUME IInv, NEW b \in Batches, NEW j \in Items, Correct(b, j)
  PROVE  IInv'
<1>1. Typed /\ StockTyped /\ StockInv /\ LendInv
  BY DEF IInv, Typed
<1>2. PICK i \in Items : i = batchItem[b] /\ i \in rows
  BY <1>1 DEF Correct, StockTyped
<1>3. PICK n \in Nat : n = remaining[b] /\ n > 0
  BY <1>1 DEF Correct, StockTyped
<1>4. PICK nb : nb = [book EXCEPT ![i] = @ - n, ![j] = @ + n]
  OBVIOUS
<1>5. /\ i # j /\ b \notin touched /\ reserved[i] = 0
      /\ book' = nb /\ rows' = Swept({i}, nb, reserved, {}) \cup {j}
      /\ batchItem' = [batchItem EXCEPT ![b] = j]
      /\ touched' = touched \cup {b}
      /\ UNCHANGED <<reserved, remaining, received, headVars, lendVars, quota, otherVars, seen>>
  BY <1>2, <1>3, <1>4 DEF Correct, Movable
<1>6. \A k \in Items : /\ book[k] \in Nat /\ reserved[k] \in Nat /\ book[k] = HeldAt(batchItem, remaining, k)
                       /\ reserved[k] <= book[k] /\ (k \notin rows => book[k] = 0)
                       /\ nb[k] = IF k = i THEN book[k] - n ELSE IF k = j THEN book[k] + n ELSE book[k]
  BY <1>1, <1>4, <1>5 DEF StockTyped, StockInv
<1>7. n <= book[i]
  <2>1. PICK f : f = HoldTerm(batchItem, remaining, i)
    OBVIOUS
  <2>2. f \in [Batches -> Nat] /\ f[b] = n
    BY <1>1, <1>2, <1>3, <2>1 DEF StockTyped, HoldTerm
  <2>3. f[b] <= SumFunction(f)
    BY <2>2, AllFinite, SumNat
  <2> QED
    BY <1>6, <2>1, <2>2, <2>3 DEF HeldAt
<1>8. ASSUME NEW k \in Items PROVE nb[k] = HeldAt(batchItem', remaining', k)
  <2>1. PICK f, g : f = HoldTerm(batchItem, remaining, k) /\ g = HoldTerm(batchItem', remaining', k)
    OBVIOUS
  <2>2. /\ f \in [Batches -> Int] /\ g \in [Batches -> Int]
        /\ \A c \in Batches \ {b} : g[c] = f[c]
        /\ f[b] = (IF k = i THEN n ELSE 0) /\ g[b] = (IF k = j THEN n ELSE 0)
    BY <1>1, <1>2, <1>3, <1>5, <2>1 DEF StockTyped, HoldTerm
  <2>3. SumFunction(g) = SumFunction(f) - f[b] + g[b] /\ SumFunction(f) \in Int
    <3>1. IsFiniteSet(Batches)
      BY AllFinite
    <3>2. SumFunction(g) = SumFunction(f) - f[b] + g[b]
      BY <2>2, <3>1, SumChanges
    <3>3. SumFunction(f) \in Int
      BY <2>2, <3>1, SumInt
    <3> QED
      BY <3>2, <3>3
  <2>4. book[k] = SumFunction(f)
    BY <1>6, <2>1 DEF HeldAt
  <2> QED
    BY <1>5, <1>6, <2>1, <2>2, <2>3, <2>4 DEF HeldAt
<1>9. \A k \in Items : k \notin rows' => nb[k] = 0
  <2>1. SUFFICES ASSUME NEW k \in Items, k \notin rows' PROVE nb[k] = 0
    OBVIOUS
  <2>2. k # j /\ k \notin Swept({i}, nb, reserved, {})
    BY <1>5, <2>1
  <2>3. CASE k \in rows
    BY <1>1, <2>2, <2>3, SweptAway
  <2>4. CASE k \notin rows
    BY <1>2, <1>6, <2>2, <2>4
  <2> QED
    BY <2>3, <2>4
<1>10. StockTyped'
  <2>1. \A k \in Items : nb[k] \in Nat
    BY <1>3, <1>6, <1>7
  <2>2. book' \in [Items -> Nat]
    BY <1>1, <1>4, <1>5, <2>1 DEF StockTyped
  <2>3. rows' \subseteq Items
    BY <1>1, <1>5 DEF StockTyped, Swept
  <2> QED
    BY <1>1, <1>5, <2>2, <2>3 DEF StockTyped
<1>11. SumFunction(book') = SumFunction(book)
  <2>1. book \in [Items -> Int] /\ nb \in [Items -> Int] /\ n \in Int
    BY <1>1, <1>4 DEF StockTyped
  <2>2. /\ nb[i] = book[i] - n /\ nb[j] = book[j] + n /\ i # j
        /\ \A k \in Items \ {i, j} : nb[k] = book[k]
    BY <1>5, <1>6
  <2> QED
    BY <1>5, <2>1, <2>2, Carried
<1>12. ASSUME NEW rec \in Records, returned[rec] + writtenOff[rec] < Lent(status, type, lines, rec),
              rec[2] \in rows
       PROVE  rec[2] \in rows'
  <2>1. rec[2] \in Swept({i}, nb, reserved, {})
    BY <1>1, <1>12, SweptAway
  <2> QED
    BY <1>5, <2>1
<1>13. \A k \in Items : reserved[k] <= book'[k]
  BY <1>3, <1>5, <1>6, <1>7
<1>14. \A c \in touched : batchItem'[c] = batchItem[c]
  BY <1>1, <1>5 DEF StockTyped
<1>15. touched \subseteq touched' /\ UNCHANGED <<reserved, headVars, lendVars, quota, otherVars, seen>>
  BY <1>5
<1> QED
  BY <1>5, <1>8, <1>9, <1>10, <1>11, <1>12, <1>13, <1>14, <1>15, StockMoves

(* A transfer, for the batches that give and those that are made of them.  *)
Transfers(i, j, q, gives, new, newBook) ==
  /\ Cardinality(new) = Cardinality(gives)
  /\ \E f \in Bijection(new, gives) :
       /\ \A b, c \in new : b < c => Before(f[b], f[c])
       /\ batchItem' = [b \in Batches |-> IF b \in new THEN j ELSE batchItem[b]]
       /\ received' = [b \in Batches |-> IF b \in new THEN received[f[b]] ELSE received[b]]
       /\ remaining' = [b \in Batches |->
            IF b \in new THEN Taken(i, q, f[b])
            ELSE IF b \in gives THEN remaining[b] - Taken(i, q, b) ELSE remaining[b]]
  /\ touched' = touched \cup gives \cup new
  /\ book' = newBook
  /\ rows' = Swept({i}, newBook, reserved, {}) \cup {j}

LEMMA TransferInv ==
  ASSUME IInv, NEW i \in Items, NEW j \in Items, Transfer(i, j)
  PROVE  IInv'
<1>1. Typed /\ StockTyped /\ StockInv /\ LendInv
  BY DEF IInv, Typed
<1>2. i \in rows /\ i # j /\ UNCHANGED <<reserved, headVars, lendVars, quota, otherVars, seen>>
  BY DEF Transfer
<1>3. PICK q \in 1 .. MaxLine :
        /\ book[i] - reserved[i] >= q /\ InStock(i) >= q
        /\ Transfers(i, j, q, {b \in BatchesAt(i) : Taken(i, q, b) > 0},
                     Fresh(Cardinality({b \in BatchesAt(i) : Taken(i, q, b) > 0})),
                     [book EXCEPT ![i] = @ - q, ![j] = @ + q])
  BY DEF Transfer, Transfers
<1>4. PICK gives, new, nb :
        /\ gives = {b \in BatchesAt(i) : Taken(i, q, b) > 0} /\ new = Fresh(Cardinality(gives))
        /\ nb = [book EXCEPT ![i] = @ - q, ![j] = @ + q]
        /\ Transfers(i, j, q, gives, new, nb)
  <2>1. PICK gives : gives = {b \in BatchesAt(i) : Taken(i, q, b) > 0}
    OBVIOUS
  <2>2. PICK new : new = Fresh(Cardinality(gives))
    OBVIOUS
  <2>3. PICK nb : nb = [book EXCEPT ![i] = @ - q, ![j] = @ + q]
    OBVIOUS
  <2> QED
    BY <1>3, <2>1, <2>2, <2>3
<1>5. /\ book[i] - reserved[i] >= q /\ InStock(i) >= q /\ q \in Nat
      /\ touched' = touched \cup gives \cup new
      /\ book' = nb /\ rows' = Swept({i}, nb, reserved, {}) \cup {j}
  BY <1>3, <1>4 DEF Transfers
<1>6. PICK f \in Bijection(new, gives) :
        /\ batchItem' = [b \in Batches |-> IF b \in new THEN j ELSE batchItem[b]]
        /\ received' = [b \in Batches |-> IF b \in new THEN received[f[b]] ELSE received[b]]
        /\ remaining' = [b \in Batches |->
             IF b \in new THEN Taken(i, q, f[b])
             ELSE IF b \in gives THEN remaining[b] - Taken(i, q, b) ELSE remaining[b]]
  BY <1>4 DEF Transfers
<1>7. /\ gives \subseteq Batches /\ new \subseteq Batches
      /\ (\A b \in gives : batchItem[b] = i) /\ (\A b \in new : batchItem[b] = NoItem)
      /\ NoItem \notin Items
  BY <1>4, AllFinite DEF BatchesAt, Fresh, Unused
<1>8. f \in [new -> gives] /\ (\A a, b \in new : f[a] = f[b] => a = b)
      /\ (\A b \in gives : \E a \in new : f[a] = b)
  BY <1>6 DEF Bijection, Injection, Surjection, IsInjective
<1>9. /\ \A b \in BatchesAt(i) : Taken(i, q, b) \in Nat /\ Taken(i, q, b) <= remaining[b]
      /\ SumFunction([b \in BatchesAt(i) |-> Taken(i, q, b)]) = q
      /\ SumFunction([b \in Batches |-> IF batchItem[b] = i THEN Taken(i, q, b) ELSE 0]) = q
  BY <1>1, <1>5, TakenSums
<1>10. PICK take, got : /\ take = [b \in Batches |-> IF batchItem[b] = i THEN Taken(i, q, b) ELSE 0]
                        /\ got = [b \in Batches |-> IF b \in new THEN take[f[b]] ELSE 0]
  OBVIOUS
<1>11. /\ take \in [Batches -> Nat] /\ got \in [Batches -> Nat]
       /\ (\A b \in Batches : take[b] <= remaining[b] /\ (b \notin gives => take[b] = 0))
       /\ (\A b \in gives : take[b] = Taken(i, q, b))
  <2>1. ASSUME NEW b \in Batches
        PROVE  /\ take[b] \in Nat /\ take[b] <= remaining[b] /\ (b \notin gives => take[b] = 0)
               /\ (b \in gives => take[b] = Taken(i, q, b))
    <3>1. b \in BatchesAt(i) <=> batchItem[b] = i
      BY DEF BatchesAt
    <3>2. remaining[b] \in Nat
      BY <1>1 DEF StockTyped
    <3>3. CASE batchItem[b] = i
      BY <1>4, <1>9, <1>10, <3>1, <3>2, <3>3
    <3>4. CASE batchItem[b] # i
      BY <1>7, <1>10, <3>2, <3>4
    <3> QED
      BY <3>3, <3>4
  <2>2. take \in [Batches -> Nat]
    BY <1>10, <2>1
  <2>3. got \in [Batches -> Nat]
    <3>1. \A b \in new : take[f[b]] \in Nat
      BY <1>7, <1>8, <2>1
    <3> QED
      BY <1>10, <3>1
  <2> QED
    BY <1>7, <2>1, <2>2, <2>3
<1>12. SumFunction(take) = q /\ SumFunction(got) = q
  <2>1. SumFunction(take) = q
    BY <1>9, <1>10
  <2>2. PICK g, t : g = [b \in new |-> got[b]] /\ t = [b \in gives |-> take[b]]
    OBVIOUS
  <2>3. IsFiniteSet(Batches) /\ IsFiniteSet(new) /\ IsFiniteSet(gives)
    BY <1>7, AllFinite, FS_Subset
  <2>4. g \in [new -> Int] /\ t \in [gives -> Int] /\ \A b \in new : g[b] = t[f[b]]
    BY <1>7, <1>8, <1>10, <1>11, <2>2
  <2>5. SumFunction(g) = SumFunction(t)
    BY ONLY <1>8, <2>3, <2>4, SumMoves
  <2>6. SumFunction(t) = SumFunction(take)
    <3>1. /\ take \in [Batches -> Int] /\ t = [b \in gives |-> t[b]]
          /\ (\A b \in gives : t[b] = take[b]) /\ (\A b \in Batches \ gives : take[b] = 0)
      BY <1>11, <2>2
    <3> QED
      BY <1>7, <2>3, <3>1, Filtered
  <2>7. SumFunction(g) = SumFunction(got)
    <3>1. /\ got \in [Batches -> Int] /\ g = [b \in new |-> g[b]]
          /\ (\A b \in new : g[b] = got[b]) /\ (\A b \in Batches \ new : got[b] = 0)
      BY <1>10, <1>11, <2>2
    <3> QED
      BY <1>7, <2>3, <3>1, Filtered
  <2> QED
    BY <2>1, <2>5, <2>6, <2>7
<1>13. ASSUME NEW b \in Batches
       PROVE  /\ batchItem'[b] = (IF b \in new THEN j ELSE batchItem[b])
              /\ remaining'[b] = (IF b \in new THEN got[b] ELSE remaining[b] - take[b])
              /\ got[b] \in Nat /\ take[b] \in Nat /\ remaining[b] \in Nat
              /\ remaining'[b] \in Nat
  <2>1. got[b] \in Nat /\ take[b] \in Nat /\ remaining[b] \in Nat /\ take[b] <= remaining[b]
    BY <1>1, <1>11 DEF StockTyped
  <2>2. CASE b \in new
    <3>1. got[b] = Taken(i, q, f[b])
      BY <1>8, <1>10, <1>11, <2>2
    <3> QED
      BY <1>6, <2>1, <2>2, <3>1
  <2>3. CASE b \notin new
    <3>1. remaining'[b] = remaining[b] - take[b]
      BY <1>6, <1>11, <2>1, <2>3
    <3> QED
      BY <1>6, <2>1, <2>3, <3>1
  <2> QED
    BY <2>2, <2>3
<1>14. \A k \in Items : /\ book[k] \in Nat /\ reserved[k] \in Nat /\ book[k] = HeldAt(batchItem, remaining, k)
                        /\ reserved[k] <= book[k] /\ (k \notin rows => book[k] = 0)
                        /\ nb[k] = IF k = i THEN book[k] - q ELSE IF k = j THEN book[k] + q ELSE book[k]
  BY <1>1, <1>2, <1>4 DEF StockTyped, StockInv
<1>15. ASSUME NEW k \in Items PROVE nb[k] = HeldAt(batchItem', remaining', k)
  <2>1. PICK g, h : g = HoldTerm(batchItem, remaining, k) /\ h = HoldTerm(batchItem', remaining', k)
    OBVIOUS
  <2>2. /\ g \in [Batches -> Int] /\ h \in [Batches -> Int]
        /\ \A b \in Batches : /\ g[b] = (IF batchItem[b] = k THEN remaining[b] ELSE 0)
                              /\ h[b] = (IF batchItem'[b] = k THEN remaining'[b] ELSE 0)
    BY <1>13, <2>1 DEF HoldTerm
  <2>3. IsFiniteSet(Batches) /\ take \in [Batches -> Int] /\ got \in [Batches -> Int]
        /\ g \in [Batches -> Int] /\ h \in [Batches -> Int]
    BY <1>11, <2>2, AllFinite
  <2>4. book[k] = SumFunction(g) /\ SumFunction(g) \in Int
    <3>1. SumFunction(g) \in Int
      BY ONLY <2>2, <2>3, SumInt
    <3> QED
      BY <1>14, <2>1, <3>1 DEF HeldAt
  <2>5. CASE k = i
    <3>1. ASSUME NEW b \in Batches PROVE h[b] = g[b] - take[b]
      <4>1. CASE b \in new
        <5>1. b \notin gives /\ batchItem[b] # i
          BY <1>7, <4>1
        <5> QED
          BY <1>2, <1>11, <1>13, <2>2, <2>5, <4>1, <5>1
      <4>2. CASE b \notin new
        <5>1. batchItem[b] # i => take[b] = 0
          BY <1>10
        <5> QED
          BY <1>13, <2>2, <2>5, <4>2, <5>1
      <4> QED
        BY <4>1, <4>2
    <3>2. SumFunction(h) = SumFunction(g) - SumFunction(take)
      BY ONLY <2>3, <3>1, SumSubtracts
    <3> QED
      BY <1>12, <1>14, <2>1, <2>4, <2>5, <3>2 DEF HeldAt
  <2>6. CASE k = j
    <3>1. ASSUME NEW b \in Batches PROVE h[b] = g[b] + got[b]
      <4>1. CASE b \in new
        <5>1. batchItem[b] # k
          BY <1>7, <4>1
        <5> QED
          BY <1>13, <2>2, <2>6, <4>1, <5>1
      <4>2. CASE b \notin new
        <5>1. got[b] = 0 /\ (batchItem[b] = k => take[b] = 0)
          BY <1>2, <1>10, <2>6, <4>2
        <5> QED
          BY <1>13, <2>2, <4>2, <5>1
      <4> QED
        BY <4>1, <4>2
    <3>2. SumFunction(h) = SumFunction(g) + SumFunction(got)
      BY ONLY <2>3, <3>1, SumAdds
    <3> QED
      BY <1>2, <1>12, <1>14, <2>1, <2>4, <2>6, <3>2 DEF HeldAt
  <2>7. CASE k # i /\ k # j
    <3>1. ASSUME NEW b \in Batches PROVE h[b] = g[b]
      <4>1. CASE b \in new
        <5>1. batchItem[b] # k
          BY <1>7, <4>1
        <5> QED
          BY <1>13, <2>2, <2>7, <4>1, <5>1
      <4>2. CASE b \notin new
        <5>1. batchItem[b] = k => take[b] = 0
          BY <1>10, <2>7
        <5> QED
          BY <1>13, <2>2, <4>2, <5>1
      <4> QED
        BY <4>1, <4>2
    <3>2. h = g
      BY <2>2, <3>1
    <3> QED
      BY <1>14, <2>1, <2>4, <2>7, <3>2 DEF HeldAt
  <2> QED
    BY <2>5, <2>6, <2>7
<1>16. \A k \in Items : k \notin rows' => nb[k] = 0
  <2>1. SUFFICES ASSUME NEW k \in Items, k \notin rows' PROVE nb[k] = 0
    OBVIOUS
  <2>2. k # j /\ k \notin Swept({i}, nb, reserved, {})
    BY <1>5, <2>1
  <2>3. CASE k \in rows
    BY <1>1, <2>2, <2>3, SweptAway
  <2>4. CASE k \notin rows
    BY <1>2, <1>14, <2>2, <2>4
  <2> QED
    BY <2>3, <2>4
<1>17. StockTyped'
  <2>1. \A k \in Items : nb[k] \in Nat
    BY <1>5, <1>14
  <2>2. book' \in [Items -> Nat]
    BY <1>1, <1>4, <1>5, <2>1 DEF StockTyped
  <2>3. rows' \subseteq Items /\ reserved' \in [Items -> Nat]
    BY <1>1, <1>2, <1>5 DEF StockTyped, Swept
  <2>4. batchItem' \in [Batches -> Items \cup {NoItem}] /\ touched' \subseteq Batches
    BY <1>1, <1>5, <1>6, <1>7 DEF StockTyped
  <2>5. remaining' \in [Batches -> Nat]
    BY <1>6, <1>13
  <2>6. received' \in [Batches -> Nat]
    <3>1. \A b \in new : received[f[b]] \in Nat
      BY <1>1, <1>7, <1>8 DEF StockTyped
    <3> QED
      BY <1>1, <1>6, <3>1 DEF StockTyped
  <2> QED
    BY <2>2, <2>3, <2>4, <2>5, <2>6 DEF StockTyped
<1>18. SumFunction(book') = SumFunction(book)
  <2>1. book \in [Items -> Int] /\ nb \in [Items -> Int] /\ q \in Int
    BY <1>1, <1>4, <1>5 DEF StockTyped
  <2>2. /\ nb[i] = book[i] - q /\ nb[j] = book[j] + q /\ i # j
        /\ \A k \in Items \ {i, j} : nb[k] = book[k]
    BY <1>2, <1>14
  <2> QED
    BY <1>5, <2>1, <2>2, Carried
<1>19. ASSUME NEW rec \in Records, returned[rec] + writtenOff[rec] < Lent(status, type, lines, rec),
              rec[2] \in rows
       PROVE  rec[2] \in rows'
  <2>1. rec[2] \in Swept({i}, nb, reserved, {})
    BY <1>1, <1>19, SweptAway
  <2> QED
    BY <1>5, <2>1
<1>20. \A k \in Items : reserved[k] <= book'[k]
  BY <1>5, <1>14
<1>21. \A c \in touched : batchItem[c] \in Items => batchItem'[c] = batchItem[c]
  BY <1>1, <1>7, <1>13 DEF StockTyped
<1>22. touched \subseteq touched' /\ UNCHANGED <<reserved, headVars, lendVars, quota, otherVars, seen>>
  BY <1>2, <1>5
<1> QED
  BY <1>5, <1>15, <1>16, <1>17, <1>18, <1>19, <1>20, <1>21, <1>22, StockMoves

-----------------------------------------------------------------------------
(* Decisions.                                                              *)

(* The head of r is decided, and nothing else of any head moves.           *)
Decided(r, s) ==
  /\ status[r] = "PENDING"
  /\ status' = [status EXCEPT ![r] = s]
  /\ UNCHANGED <<type, lines, ret, off, ref>>

LEMMA DecidedHeads ==
  ASSUME Typed, NEW r \in Requests, NEW s \in {"APPROVED", "REJECTED", "CANCELLED"}, Decided(r, s)
  PROVE  /\ HeadTyped' /\ HeadsApart(r) /\ ~LendsIn(status, type, r) /\ LoansStay
         /\ (~LendsIn(status', type', r) => NoNewLoans)
         /\ status'[r] = s /\ type'[r] = type[r] /\ lines'[r] = lines[r]
         /\ lines[r] \in [Items -> Nat] /\ SumFunction(lines[r]) \in Nat
         /\ \A i \in Items : /\ AskedAt(status', type', lines', i) = AskedAt(status, type, lines, i)
                                  - IF type[r] \in Reserving THEN lines[r][i] ELSE 0
                             /\ (type[r] \in Reserving => lines[r][i] <= AskedAt(status, type, lines, i))
         /\ \A K : Flow(status', type', lines', K) = Flow(status, type, lines, K)
                     + IF s = "APPROVED" /\ type[r] \in K THEN SumFunction(lines[r]) ELSE 0
         /\ Claims(status', type', lines') = Claims(status, type, lines)
              - IF type[r] = "CONSUMABLE_REQUEST" /\ (Reusable \/ s # "APPROVED")
                  THEN SumFunction(lines[r]) ELSE 0
         /\ \A rec \in Records : ActsOn(status', type', ret', off', rec)
              = ActsOn(status, type, ret, off, rec) - ActTerm(status, type, ret, off, rec)[r]
<1>1. HeadTyped /\ s \in Statuses /\ status[r] = "PENDING" /\ status' = [status EXCEPT ![r] = s]
      /\ UNCHANGED <<type, lines, ret, off, ref>>
  BY DEF Typed, Statuses, Decided
<1>2. HeadTyped' /\ HeadsApart(r) /\ status'[r] = s /\ type'[r] = type[r] /\ lines'[r] = lines[r]
  BY <1>1, NewStatus
<1>3. ~LendsIn(status, type, r)
  BY <1>1 DEF LendsIn
<1>4. LoansStay /\ (~LendsIn(status', type', r) => NoNewLoans)
  BY <1>1, <1>2, <1>3, LoansApart
<1>5. lines[r] \in [Items -> Nat] /\ SumFunction(lines[r]) \in Nat
  BY <1>1, LineSums
<1>6. ASSUME NEW i \in Items
      PROVE  /\ AskedAt(status', type', lines', i) = AskedAt(status, type, lines, i)
                  - IF type[r] \in Reserving THEN lines[r][i] ELSE 0
             /\ (type[r] \in Reserving => lines[r][i] <= AskedAt(status, type, lines, i))
  <2>1. PICK f : f = AskTerm(status, type, lines, i)
    OBVIOUS
  <2>2. f \in [Requests -> Nat]
    BY <1>1, <2>1, TermTypes DEF HeadTyped
  <2>3. f[r] = (IF type[r] \in Reserving THEN lines[r][i] ELSE 0)
        /\ AskTerm(status', type', lines', i)[r] = 0
    BY <1>1, <1>2, <2>1 DEF AskTerm
  <2>4. f[r] <= SumFunction(f) /\ SumFunction(f) \in Nat
    BY <2>2, AllFinite, SumNat
  <2>5. AskedAt(status', type', lines', i) = SumFunction(f) - f[r] + 0
    BY <1>1, <1>2, <2>1, <2>3, HeadMoves DEF AskedAt
  <2> QED
    BY <1>5, <2>1, <2>3, <2>4, <2>5 DEF AskedAt
<1>7. ASSUME NEW K
      PROVE  Flow(status', type', lines', K) = Flow(status, type, lines, K)
               + IF s = "APPROVED" /\ type[r] \in K THEN SumFunction(lines[r]) ELSE 0
  <2>1. FlowTerm(status, type, lines, K)[r] = 0
    BY <1>1 DEF FlowTerm
  <2>2. FlowTerm(status', type', lines', K)[r]
          = IF s = "APPROVED" /\ type[r] \in K THEN SumFunction(lines[r]) ELSE 0
    BY <1>2 DEF FlowTerm
  <2>3. Flow(status', type', lines', K)
          = Flow(status, type, lines, K) - FlowTerm(status, type, lines, K)[r]
              + FlowTerm(status', type', lines', K)[r]
    BY <1>1, <1>2, HeadMoves
  <2> QED
    BY <1>5, <2>1, <2>2, <2>3, AccountsNow
<1>8. Claims(status', type', lines') = Claims(status, type, lines)
        - IF type[r] = "CONSUMABLE_REQUEST" /\ (Reusable \/ s # "APPROVED")
            THEN SumFunction(lines[r]) ELSE 0
  <2>1. ClaimTerm(status, type, lines)[r]
          = IF type[r] = "CONSUMABLE_REQUEST" THEN SumFunction(lines[r]) ELSE 0
    BY <1>1 DEF ClaimTerm
  <2>2. ClaimTerm(status', type', lines')[r]
          = IF type[r] = "CONSUMABLE_REQUEST" /\ ~Reusable /\ s = "APPROVED"
              THEN SumFunction(lines[r]) ELSE 0
    BY <1>2 DEF ClaimTerm
  <2>3. Claims(status', type', lines')
          = Claims(status, type, lines) - ClaimTerm(status, type, lines)[r]
              + ClaimTerm(status', type', lines')[r]
    BY <1>1, <1>2, HeadMoves
  <2> QED
    BY <1>5, <2>1, <2>2, <2>3, AccountsNow
<1>9. ASSUME NEW rec \in Records
      PROVE  ActsOn(status', type', ret', off', rec)
              = ActsOn(status, type, ret, off, rec) - ActTerm(status, type, ret, off, rec)[r]
  <2>1. ActTerm(status', type', ret', off', rec)[r] = 0
    BY <1>2 DEF ActTerm
  <2>2. /\ ActsOn(status', type', ret', off', rec)
             = ActsOn(status, type, ret, off, rec) - ActTerm(status, type, ret, off, rec)[r]
                 + ActTerm(status', type', ret', off', rec)[r]
        /\ ActsOn(status, type, ret, off, rec) \in Nat
        /\ ActTerm(status, type, ret, off, rec) \in [Requests -> Nat]
    BY <1>1, <1>2, ActMoves
  <2> QED
    BY <2>1, <2>2
<1> QED
  BY <1>2, <1>3, <1>4, <1>5, <1>6, <1>7, <1>8, <1>9

(* The pending requests that remain still fit what is open.                *)
LEMMA DecidedActs ==
  ASSUME IInv, NEW r \in Requests, NEW s \in {"APPROVED", "REJECTED", "CANCELLED"}, Decided(r, s),
         UNCHANGED <<returned, writtenOff>>
  PROVE  ActInv'
<1>1. Typed /\ HeadTyped /\ LendInv /\ ActInv /\ ActsFitOpen
  BY DEF IInv, Typed, ActInv
<1>2. HeadTyped' /\ HeadsApart(r) /\ ~LendsIn(status, type, r)
      /\ status'[r] \notin {"DRAFT", "PENDING"}
  BY <1>1, DecidedHeads
<1>3. ASSUME NEW rec \in Records, type[rec[1]] = "CONSUMABLE_REQUEST"
      PROVE ActsOn(status', type', ret', off', rec)
              <= Lent(status, type, lines, rec) - returned[rec] - writtenOff[rec]
  <2>1. ActsOn(status', type', ret', off', rec)
              = ActsOn(status, type, ret, off, rec) - ActTerm(status, type, ret, off, rec)[r]
    BY <1>1, DecidedHeads
  <2>2. ActsOn(status, type, ret, off, rec) \in Nat /\ ActTerm(status, type, ret, off, rec)[r] \in Nat
    BY <1>1, <1>2, ActMoves
  <2>3. ActsOn(status, type, ret, off, rec)
              <= Lent(status, type, lines, rec) - returned[rec] - writtenOff[rec]
    BY <1>1, <1>3 DEF ActsFitOpen
  <2> QED
    BY <1>1, <2>1, <2>2, <2>3, OpenIs
<1> QED
  BY <1>1, <1>2, <1>3, ActInvMoves

LEMMA ReleaseInv ==
  ASSUME IInv, NEW r \in Requests, NEW s \in {"REJECTED", "CANCELLED"}, Decided(r, s), Release(r),
         OthersTyped'
  PROVE  IInv'
<1>1. Typed /\ StockTyped /\ HeadTyped /\ StockInv /\ LendInv /\ ActInv /\ QuotaInv
  BY DEF IInv, Typed
<1>2. /\ HeadTyped' /\ HeadsApart(r) /\ LoansStay /\ NoNewLoans
      /\ status'[r] = s /\ type'[r] = type[r] /\ lines[r] \in [Items -> Nat]
      /\ SumFunction(lines[r]) \in Nat
  <2>1. ~(s = "APPROVED")
    OBVIOUS
  <2>2. /\ HeadTyped' /\ HeadsApart(r) /\ LoansStay /\ (~LendsIn(status', type', r) => NoNewLoans)
        /\ status'[r] = s /\ type'[r] = type[r] /\ lines[r] \in [Items -> Nat]
        /\ SumFunction(lines[r]) \in Nat
    BY <1>1, DecidedHeads
  <2> QED
    BY <2>1, <2>2 DEF LendsIn
<1>3. \A i \in Items : /\ AskedAt(status', type', lines', i) = AskedAt(status, type, lines, i)
                            - IF type[r] \in Reserving THEN lines[r][i] ELSE 0
                       /\ (type[r] \in Reserving => lines[r][i] <= AskedAt(status, type, lines, i))
  BY <1>1, DecidedHeads
<1>4. \A K : Flow(status', type', lines', K) = Flow(status, type, lines, K)
  BY <1>1, DecidedHeads, AccountsNow
<1>5. Claims(status', type', lines') <= Claims(status, type, lines)
      /\ Claims(status', type', lines') \in Int
  BY <1>1, <1>2, DecidedHeads, AccountsNow
<1>6. UNCHANGED <<rows, book, batchItem, remaining, received, touched, lendVars>>
  BY DEF Release
<1>7. /\ FlowInv' /\ LendInv' /\ LendTyped' /\ UNCHANGED <<returned, writtenOff>>
      /\ Keeps(status', type', lines', returned', writtenOff')
           = Keeps(status, type, lines, returned, writtenOff)
  BY <1>2, <1>4, <1>6, RequestFrame
<1>8. ASSUME NEW i \in Items
      PROVE  /\ reserved'[i] = reserved[i] - IF type[r] \in Reserving THEN lines[r][i] ELSE 0
             /\ reserved'[i] \in Nat /\ reserved'[i] <= reserved[i]
  <2>1. /\ reserved[i] = AskedAt(status, type, lines, i) /\ reserved[i] <= book[i]
        /\ (i \notin rows => book[i] = 0)
    BY <1>1 DEF StockInv
  <2>2. reserved[i] \in Nat /\ lines[r][i] \in Nat /\ book[i] \in Nat
    BY <1>1, <1>2 DEF StockTyped
  <2>3. type[r] \in Reserving => lines[r][i] <= reserved[i]
    BY <1>3, <2>1
  <2>4. reserved'[i] = IF type[r] \in Reserving /\ i \in rows /\ reserved[i] >= lines[r][i]
                         THEN reserved[i] - lines[r][i] ELSE reserved[i]
    BY DEF Release
  <2>5. CASE type[r] \in Reserving /\ i \in rows
    BY <2>2, <2>3, <2>4, <2>5
  <2>6. CASE type[r] \in Reserving /\ i \notin rows
    BY <2>1, <2>2, <2>3, <2>4, <2>6
  <2>7. CASE type[r] \notin Reserving
    BY <2>2, <2>4, <2>7
  <2> QED
    BY <2>5, <2>6, <2>7
<1>9. StockTyped' /\ QuotaTyped'
  <2>1. reserved' \in [Items -> Nat]
    BY <1>8 DEF Release
  <2>2. StockTyped'
    BY <1>1, <1>6, <2>1 DEF StockTyped
  <2>3. QuotaTyped'
    BY <1>1 DEF Release, Typed, QuotaTyped
  <2> QED
    BY <2>2, <2>3
<1>10. StockInv'
  <2>1. SUFFICES ASSUME NEW i \in Items
        PROVE /\ reserved'[i] = AskedAt(status', type', lines', i)
              /\ book'[i] = HeldAt(batchItem', remaining', i)
              /\ reserved'[i] <= book'[i]
              /\ i \notin rows' => book'[i] = 0
    BY DEF StockInv
  <2>2. reserved[i] \in Nat /\ book[i] \in Nat
    BY <1>1 DEF StockTyped
  <2> QED
    BY <1>1, <1>3, <1>6, <1>8, <2>2 DEF StockInv
<1>11. ActInv'
  BY <1>7, DecidedActs
<1>12. QuotaInv'
  <2>1. Claims(status', type', lines') + Keeps(status', type', lines', returned', writtenOff') <= QuotaLimit
    <3>1. Claims(status, type, lines) + Keeps(status, type, lines, returned, writtenOff) <= QuotaLimit
          /\ QuotaLimit \in Int
      BY <1>1, AssetAssumption DEF QuotaInv
    <3> QED
      BY <1>1, <1>5, <1>7, <3>1, AccountsNow
  <2>2. /\ quota' = [quota EXCEPT ![r] = IF @ = "RESERVED" THEN "RELEASED" ELSE @]
        /\ quota \in [Requests -> {"NONE", "RESERVED", "CONSUMED", "RELEASED"}]
    BY <1>1 DEF Release, Typed, QuotaTyped
  <2>3. /\ \A q \in Requests \ {r} : quota'[q] = quota[q]
        /\ quota'[r] = IF quota[r] = "RESERVED" THEN "RELEASED" ELSE quota[r]
    BY <2>2
  <2>4. status[r] = "PENDING"
    BY DEF Decided
  <2>5. quota'[r] \notin {"RESERVED", "CONSUMED"}
    BY <1>1, <2>3, <2>4 DEF QuotaInv
  <2> QED
    BY <1>1, <1>2, <2>1, <2>3, <2>5, QuotaKinds
<1> QED
  BY <1>2, <1>7, <1>9, <1>10, <1>11, <1>12 DEF IInv, Typed

(* A receipt, for the batches it makes.                                    *)
Receives(order, new) ==
  \E f \in Bijection(new, Lines(order)), date \in Dates :
    /\ rows' = rows \cup Lines(order)
    /\ book' = [i \in Items |-> book[i] + order[i]]
    /\ batchItem' = [b \in Batches |-> IF b \in new THEN f[b] ELSE batchItem[b]]
    /\ remaining' = [b \in Batches |-> IF b \in new THEN order[f[b]] ELSE remaining[b]]
    /\ received' = [b \in Batches |-> IF b \in new THEN date ELSE received[b]]
    /\ UNCHANGED <<reserved, touched, lendVars, quota>>

LEMMA ReceiveInv ==
  ASSUME IInv, NEW r \in Requests, type[r] = "STOCK_IN", Decided(r, "APPROVED"), Receive(r), OthersTyped'
  PROVE  IInv'
<1>1. Typed /\ StockTyped /\ HeadTyped /\ StockInv /\ FlowInv /\ LendInv /\ ActInv /\ QuotaInv
  BY DEF IInv, Typed
<1>2. PICK order, new : /\ order = lines[r] /\ new = Fresh(Cardinality(Lines(order)))
                        /\ Receives(order, new)
  <2>1. Receives(lines[r], Fresh(Cardinality(Lines(lines[r]))))
    BY DEF Receive, Receives
  <2>2. PICK order : order = lines[r]
    OBVIOUS
  <2>3. PICK new : new = Fresh(Cardinality(Lines(order)))
    OBVIOUS
  <2> QED
    BY <2>1, <2>2, <2>3
<1>3. PICK f \in Bijection(new, Lines(order)), date \in Dates :
    /\ rows' = rows \cup Lines(order)
    /\ book' = [i \in Items |-> book[i] + order[i]]
    /\ batchItem' = [b \in Batches |-> IF b \in new THEN f[b] ELSE batchItem[b]]
    /\ remaining' = [b \in Batches |-> IF b \in new THEN order[f[b]] ELSE remaining[b]]
    /\ received' = [b \in Batches |-> IF b \in new THEN date ELSE received[b]]
    /\ UNCHANGED <<reserved, touched, lendVars, quota>>
  BY <1>2 DEF Receives
<1>4. /\ new \subseteq Batches /\ (\A b \in new : batchItem[b] = NoItem) /\ NoItem \notin Items
      /\ f \in [new -> Lines(order)] /\ (\A a, b \in new : f[a] = f[b] => a = b)
      /\ (\A i \in Lines(order) : \E b \in new : f[b] = i)
      /\ Lines(order) \subseteq Items
  BY <1>2, AllFinite DEF Fresh, Unused, Bijection, Injection, Surjection, IsInjective, Lines
<1>5. UNCHANGED <<returned, writtenOff, issued, back>>
  BY <1>3 DEF lendVars
<1>6. /\ "STOCK_IN" \notin Reserving /\ "STOCK_IN" \notin Issuing
  BY DEF Reserving, Issuing
<1>7. /\ HeadTyped' /\ HeadsApart(r) /\ LoansStay /\ NoNewLoans
      /\ status'[r] = "APPROVED" /\ type'[r] = "STOCK_IN"
      /\ order \in [Items -> Nat] /\ SumFunction(order) \in Nat
      /\ \A i \in Items : AskedAt(status', type', lines', i) = AskedAt(status, type, lines, i)
  <2>1. /\ HeadTyped' /\ HeadsApart(r) /\ LoansStay /\ (~LendsIn(status', type', r) => NoNewLoans)
        /\ status'[r] = "APPROVED" /\ type'[r] = type[r] /\ lines[r] \in [Items -> Nat]
        /\ SumFunction(lines[r]) \in Nat
    BY <1>1, DecidedHeads
  <2>2. \A i \in Items : AskedAt(status', type', lines', i) = AskedAt(status, type, lines, i) - 0
    BY <1>1, <1>6, DecidedHeads
  <2>3. \A i \in Items : AskedAt(status', type', lines', i) = AskedAt(status, type, lines, i)
    BY <1>1, <2>2, AccountsNow
  <2> QED
    BY <1>2, <1>6, <2>1, <2>3 DEF LendsIn
<1>8. /\ Flow(status', type', lines', {"STOCK_IN"}) = Flow(status, type, lines, {"STOCK_IN"}) + SumFunction(order)
      /\ Flow(status', type', lines', Reserving) = Flow(status, type, lines, Reserving)
  <2>1. \A K : Flow(status', type', lines', K) = Flow(status, type, lines, K)
                     + IF type[r] \in K THEN SumFunction(lines[r]) ELSE 0
    BY <1>1, DecidedHeads
  <2>2. /\ Flow(status', type', lines', {"STOCK_IN"}) = Flow(status, type, lines, {"STOCK_IN"})
              + IF type[r] \in {"STOCK_IN"} THEN SumFunction(lines[r]) ELSE 0
        /\ Flow(status', type', lines', Reserving) = Flow(status, type, lines, Reserving)
              + IF type[r] \in Reserving THEN SumFunction(lines[r]) ELSE 0
    BY <2>1
  <2>3. Flow(status, type, lines, Reserving) \in Nat
    BY <1>1, AccountsNow
  <2> QED
    BY <1>2, <1>6, <2>2, <2>3
<1>9. Claims(status', type', lines') = Claims(status, type, lines)
  BY <1>1, DecidedHeads, AccountsNow
<1>10. ASSUME NEW b \in Batches
       PROVE  /\ batchItem'[b] = (IF b \in new THEN f[b] ELSE batchItem[b])
              /\ remaining'[b] = (IF b \in new THEN order[f[b]] ELSE remaining[b])
              /\ (b \in new => f[b] \in Items /\ order[f[b]] \in Nat /\ batchItem[b] = NoItem)
              /\ remaining[b] \in Nat
  BY <1>1, <1>3, <1>4, <1>7 DEF StockTyped
<1>11. ASSUME NEW k \in Items PROVE HeldAt(batchItem', remaining', k) = book[k] + order[k]
  <2>1. PICK g, h, got : /\ g = HoldTerm(batchItem, remaining, k) /\ h = HoldTerm(batchItem', remaining', k)
                         /\ got = [b \in Batches |-> IF b \in new /\ f[b] = k THEN order[k] ELSE 0]
    OBVIOUS
  <2>2. order[k] \in Nat
    BY <1>7
  <2>3. /\ g \in [Batches -> Int] /\ h \in [Batches -> Int] /\ got \in [Batches -> Int]
        /\ IsFiniteSet(Batches)
    BY <1>10, <2>1, <2>2, AllFinite DEF HoldTerm
  <2>4. ASSUME NEW b \in Batches PROVE h[b] = g[b] + got[b]
    <3>1. CASE b \in new
      <4>1. g[b] = 0
        BY <1>4, <1>10, <2>1, <3>1 DEF HoldTerm
      <4>2. h[b] = IF f[b] = k THEN order[k] ELSE 0
        BY <1>10, <2>1, <3>1 DEF HoldTerm
      <4> QED
        BY <2>1, <2>2, <3>1, <4>1, <4>2
    <3>2. CASE b \notin new
      BY <1>10, <2>1, <3>2 DEF HoldTerm
    <3> QED
      BY <3>1, <3>2
  <2>5. SumFunction(h) = SumFunction(g) + SumFunction(got)
    BY ONLY <2>3, <2>4, SumAdds
  <2>6. SumFunction(got) = order[k]
    <3>1. CASE k \in Lines(order)
      <4>1. PICK a \in new : f[a] = k
        BY <1>4, <3>1
      <4>2. a \in Batches /\ got[a] = order[k] /\ \A b \in Batches \ {a} : got[b] = 0
        BY <1>4, <2>1, <4>1
      <4>3. SumFunction(got) = got[a]
        BY <2>3, <4>2, SumOfOne
      <4> QED
        BY <4>2, <4>3
    <3>2. CASE k \notin Lines(order)
      <4>1. order[k] = 0
        BY <2>2, <3>2 DEF Lines
      <4>2. \A b \in Batches : got[b] = 0
        BY <2>1, <4>1
      <4>3. SumFunction(got) = 0
        BY <2>3, <4>2, SumZero
      <4> QED
        BY <4>1, <4>3
    <3> QED
      BY <3>1, <3>2
  <2>7. book[k] = SumFunction(g)
    BY <1>1, <2>1 DEF StockInv, HeldAt
  <2> QED
    BY <2>1, <2>5, <2>6, <2>7 DEF HeldAt
<1>12. StockTyped' /\ QuotaTyped' /\ LendTyped'
  <2>1. book' \in [Items -> Nat]
    BY <1>1, <1>3, <1>7 DEF StockTyped
  <2>2. batchItem' \in [Batches -> Items \cup {NoItem}]
    BY <1>1, <1>3, <1>4 DEF StockTyped
  <2>3. remaining' \in [Batches -> Nat]
    BY <1>3, <1>10
  <2>4. received' \in [Batches -> Nat]
    BY <1>1, <1>3, AssetAssumption DEF StockTyped
  <2>5. rows' \subseteq Items /\ reserved' \in [Items -> Nat] /\ touched' \subseteq Batches
    BY <1>1, <1>3, <1>4 DEF StockTyped
  <2>6. QuotaTyped'
    BY <1>1, <1>3 DEF Typed, QuotaTyped
  <2>7. LendTyped'
    BY <1>1, <1>5 DEF Typed, LendTyped
  <2> QED
    BY <2>1, <2>2, <2>3, <2>4, <2>5, <2>6, <2>7 DEF StockTyped
<1>13. StockInv'
  <2>1. SUFFICES ASSUME NEW i \in Items
        PROVE /\ reserved'[i] = AskedAt(status', type', lines', i)
              /\ book'[i] = HeldAt(batchItem', remaining', i)
              /\ reserved'[i] <= book'[i]
              /\ i \notin rows' => book'[i] = 0
    BY DEF StockInv
  <2>2. book'[i] = book[i] + order[i] /\ reserved'[i] = reserved[i] /\ order[i] \in Nat
        /\ book[i] \in Nat /\ reserved[i] \in Nat
    BY <1>1, <1>3, <1>7 DEF StockTyped
  <2>3. i \notin rows' => i \notin rows /\ order[i] = 0
    BY <1>3, <2>2 DEF Lines
  <2>4. /\ reserved[i] = AskedAt(status, type, lines, i) /\ reserved[i] <= book[i]
        /\ (i \notin rows => book[i] = 0)
    BY <1>1 DEF StockInv
  <2> QED
    BY <1>7, <1>11, <2>2, <2>3, <2>4
<1>14. FlowInv'
  <2>1. book \in [Items -> Int] /\ order \in [Items -> Int] /\ book' \in [Items -> Int]
        /\ \A i \in Items : book'[i] = book[i] + order[i]
    BY <1>1, <1>3, <1>7, <1>12 DEF StockTyped
  <2>2. SumFunction(book') = SumFunction(book) + SumFunction(order)
    <3>1. IsFiniteSet(Items)
      BY AllFinite
    <3>2. PICK nb : nb = book'
      OBVIOUS
    <3> QED
      BY <2>1, <3>1, <3>2, SumAdds
  <2>3. /\ SumFunction(book) \in Nat /\ SumFunction(returned) \in Nat /\ SumFunction(InitialStock) \in Nat
    BY <1>1, NatSums, AssetAssumption DEF Typed, StockTyped, LendTyped, RecordQuantities
  <2>4. Flow(status, type, lines, Reserving) \in Nat /\ Flow(status, type, lines, {"STOCK_IN"}) \in Nat
    BY <1>1, AccountsNow
  <2> QED
    BY <1>1, <1>5, <1>7, <1>8, <2>2, <2>3, <2>4 DEF FlowInv
<1>15. LendInv'
  <2>1. \A b \in touched : batchItem[b] \in Items => batchItem'[b] = batchItem[b]
    BY <1>1, <1>4, <1>10 DEF StockTyped
  <2>2. rows \subseteq rows' /\ touched \subseteq touched' /\ UNCHANGED lendVars
    BY <1>3
  <2> QED
    BY <1>1, <1>7, <2>1, <2>2, LendKept
<1>16. ActInv'
  BY <1>5, DecidedActs
<1>17. QuotaInv'
  <2>1. Keeps(status', type', lines', returned', writtenOff')
           = Keeps(status, type, lines, returned, writtenOff)
    BY <1>1, <1>5, <1>7, SameKeeps
  <2>2. Claims(status', type', lines') + Keeps(status', type', lines', returned', writtenOff') <= QuotaLimit
    BY <1>1, <1>9, <2>1 DEF QuotaInv
  <2>3. quota'[r] = quota[r] /\ \A q \in Requests \ {r} : quota'[q] = quota[q]
    BY <1>3
  <2>4. quota[r] \notin {"RESERVED", "CONSUMED"}
    BY <1>1 DEF QuotaInv
  <2> QED
    BY <1>1, <1>7, <2>2, <2>3, <2>4, QuotaKinds
<1> QED
  BY <1>7, <1>12, <1>13, <1>14, <1>15, <1>16, <1>17 DEF IInv, Typed

(* An issue, for what each batch gives and what each location keeps.       *)
Issues(r, order, out, newBook, newReserved) ==
  /\ book' = newBook /\ reserved' = newReserved
  /\ remaining' = [b \in Batches |-> remaining[b] - out[b]]
  /\ touched' = touched \cup {b \in Batches : out[b] > 0}
  /\ issued' = [rec \in Records |->
                  IF (Reusable /\ type[r] \in Issuing) /\ rec[1] = r
                    THEN [b \in Batches |-> IF batchItem[b] = ItemOf(rec) THEN out[b] ELSE 0]
                    ELSE issued[rec]]
  /\ rows' = Swept(Lines(order), newBook, newReserved,
                   IF Reusable /\ type[r] \in Issuing THEN Lines(order) ELSE {})
  /\ quota' = [quota EXCEPT ![r] = IF @ = "RESERVED" THEN "CONSUMED" ELSE @]
  /\ UNCHANGED <<batchItem, received, returned, writtenOff, back>>

LEMMA IssueIs ==
  ASSUME NEW r \in Requests, Issue(r)
  PROVE  \E order, out, nb, nr :
           /\ order = lines[r]
           /\ out = [b \in Batches |-> IF batchItem[b] \in Items
                                         THEN Taken(batchItem[b], order[batchItem[b]], b) ELSE 0]
           /\ nb = [i \in Items |-> book[i] - order[i]]
           /\ nr = [i \in Items |-> reserved[i] - order[i]]
           /\ Issues(r, order, out, nb, nr)
<1>1. Issues(r, lines[r],
             [b \in Batches |-> IF batchItem[b] \in Items
                                  THEN Taken(batchItem[b], lines[r][batchItem[b]], b) ELSE 0],
             [i \in Items |-> book[i] - lines[r][i]], [i \in Items |-> reserved[i] - lines[r][i]])
  BY DEF Issue, Issues
<1>2. PICK out : out = [b \in Batches |-> IF batchItem[b] \in Items
                                  THEN Taken(batchItem[b], lines[r][batchItem[b]], b) ELSE 0]
  OBVIOUS
<1>3. PICK nb, nr : nb = [i \in Items |-> book[i] - lines[r][i]] /\ nr = [i \in Items |-> reserved[i] - lines[r][i]]
  OBVIOUS
<1>4. Issues(r, lines[r], out, nb, nr)
  BY <1>1, <1>2, <1>3
<1>5. PICK order : order = lines[r]
  OBVIOUS
<1>6. /\ order = lines[r]
      /\ out = [b \in Batches |-> IF batchItem[b] \in Items
                                    THEN Taken(batchItem[b], order[batchItem[b]], b) ELSE 0]
      /\ nb = [i \in Items |-> book[i] - order[i]]
      /\ nr = [i \in Items |-> reserved[i] - order[i]]
      /\ Issues(r, order, out, nb, nr)
  BY <1>2, <1>3, <1>4, <1>5
<1> QED
  BY <1>6

(* Each location gives, from its batches, what the request asks of it.     *)
LEMMA IssueGives ==
  ASSUME IInv, NEW r \in Requests, CanIssue(r), NEW order, order = lines[r], NEW out,
         out = [b \in Batches |-> IF batchItem[b] \in Items
                                    THEN Taken(batchItem[b], order[batchItem[b]], b) ELSE 0]
  PROVE  /\ out \in [Batches -> Nat]
         /\ \A b \in Batches : out[b] <= remaining[b]
         /\ \A k \in Items : /\ order[k] \in Nat /\ order[k] <= reserved[k]
                             /\ (order[k] > 0 => k \in rows)
                             /\ SumFunction([b \in Batches |-> IF batchItem[b] = k THEN out[b] ELSE 0]) = order[k]
<1>1. StockTyped /\ HeadTyped
  BY DEF IInv, Typed
<1>2. order \in [Items -> Nat]
  BY <1>1, LineSums
<1>3. ASSUME NEW k \in Items
      PROVE  /\ order[k] \in Nat /\ order[k] <= reserved[k] /\ (order[k] > 0 => k \in rows)
             /\ InStock(k) >= order[k]
  <2>1. order[k] \in Nat /\ reserved[k] \in Nat
    BY <1>1, <1>2 DEF StockTyped
  <2>2. InStock(k) \in Nat
    BY <1>1, InStockIs
  <2>3. order[k] > 0 => k \in rows /\ reserved[k] >= order[k] /\ InStock(k) >= order[k]
    BY DEF CanIssue, Lines
  <2> QED
    BY <2>1, <2>2, <2>3
<1>4. ASSUME NEW k \in Items
      PROVE  /\ \A b \in BatchesAt(k) : Taken(k, order[k], b) \in Nat /\ Taken(k, order[k], b) <= remaining[b]
             /\ SumFunction([b \in Batches |-> IF batchItem[b] = k THEN Taken(k, order[k], b) ELSE 0]) = order[k]
  BY <1>1, <1>3, TakenSums
<1>5. ASSUME NEW b \in Batches PROVE out[b] \in Nat /\ out[b] <= remaining[b]
  <2>1. remaining[b] \in Nat
    BY <1>1 DEF StockTyped
  <2>2. CASE batchItem[b] \in Items
    <3>1. PICK k \in Items : k = batchItem[b]
      BY <2>2
    <3>2. b \in BatchesAt(k)
      BY <3>1 DEF BatchesAt
    <3>3. out[b] = Taken(k, order[k], b)
      BY <3>1
    <3> QED
      BY <1>4, <3>2, <3>3
  <2>3. CASE batchItem[b] \notin Items
    BY <2>1, <2>3
  <2> QED
    BY <2>2, <2>3
<1>6. out \in [Batches -> Nat]
  <2>1. out = [b \in Batches |-> out[b]]
    OBVIOUS
  <2> QED
    BY <1>5, <2>1
<1>7. ASSUME NEW k \in Items
      PROVE  SumFunction([b \in Batches |-> IF batchItem[b] = k THEN out[b] ELSE 0]) = order[k]
  <2>1. PICK f, g : /\ f = [b \in Batches |-> IF batchItem[b] = k THEN out[b] ELSE 0]
                    /\ g = [b \in Batches |-> IF batchItem[b] = k THEN Taken(k, order[k], b) ELSE 0]
    OBVIOUS
  <2>2. ASSUME NEW b \in Batches PROVE f[b] = g[b]
    <3>1. CASE batchItem[b] = k
      <4>1. out[b] = Taken(k, order[k], b)
        BY <3>1
      <4> QED
        BY <2>1, <3>1, <4>1
    <3>2. CASE batchItem[b] # k
      BY <2>1, <3>2
    <3> QED
      BY <3>1, <3>2
  <2>3. f = g
    BY <2>1, <2>2
  <2> QED
    BY <1>4, <2>1, <2>3
<1> QED
  BY <1>3, <1>5, <1>6, <1>7

(* The lines of one request, added over the records it lends.              *)
LEMMA LinesAsRecords ==
  ASSUME NEW r \in Requests, NEW order \in [Items -> Nat]
  PROVE  SumFunction([rec \in Records |-> IF rec[1] = r THEN order[rec[2]] ELSE 0]) = SumFunction(order)
<1>1. PICK B, m, f, g : /\ B = {r} \X Items /\ m = [i \in Items |-> <<r, i>>]
                        /\ f = [rec \in Records |-> IF rec[1] = r THEN order[rec[2]] ELSE 0]
                        /\ g = [rec \in B |-> order[rec[2]]]
  OBVIOUS
<1>2. B \subseteq Records /\ IsFiniteSet(Records) /\ IsFiniteSet(B) /\ IsFiniteSet(Items)
  <2>1. B \subseteq Records
    BY <1>1 DEF Records
  <2> QED
    BY <2>1, AllFinite, FS_Subset
<1>3. /\ m \in [Items -> B] /\ (\A a, b \in Items : m[a] = m[b] => a = b)
      /\ (\A b \in B : \E a \in Items : m[a] = b)
  BY <1>1
<1>4. /\ order \in [Items -> Int] /\ g \in [B -> Int] /\ \A i \in Items : order[i] = g[m[i]]
  BY <1>1
<1>5. SumFunction(order) = SumFunction(g)
  BY ONLY <1>2, <1>3, <1>4, SumMoves
<1>6. /\ f \in [Records -> Int] /\ g = [rec \in B |-> g[rec]]
      /\ (\A rec \in B : g[rec] = f[rec]) /\ (\A rec \in Records \ B : f[rec] = 0)
  <2>1. \A rec \in Records : rec[1] \in Requests /\ rec[2] \in Items /\ (rec \in B <=> rec[1] = r)
    BY <1>1 DEF Records
  <2>2. \A rec \in Records : f[rec] \in Int
    BY <1>1, <2>1
  <2>3. f \in [Records -> Int]
    BY <1>1, <2>2
  <2> QED
    BY <1>1, <1>2, <2>1, <2>3
<1>7. SumFunction(g) = SumFunction(f)
  BY <1>2, <1>6, Filtered
<1> QED
  BY <1>1, <1>5, <1>7

LEMMA IssueInv ==
  ASSUME IInv, NEW r \in Requests, type[r] \in Reserving, CanIssue(r), Decided(r, "APPROVED"), Issue(r),
         OthersTyped'
  PROVE  IInv'
<1>1. Typed /\ StockTyped /\ HeadTyped /\ StockInv /\ FlowInv /\ LendInv /\ ActInv /\ QuotaInv
  BY DEF IInv, Typed
<1>2. PICK order, out, nb, nr :
        /\ order = lines[r]
        /\ out = [b \in Batches |-> IF batchItem[b] \in Items
                                      THEN Taken(batchItem[b], order[batchItem[b]], b) ELSE 0]
        /\ nb = [i \in Items |-> book[i] - order[i]]
        /\ nr = [i \in Items |-> reserved[i] - order[i]]
        /\ Issues(r, order, out, nb, nr)
  BY IssueIs
<1>3. /\ out \in [Batches -> Nat]
      /\ \A b \in Batches : out[b] <= remaining[b]
      /\ \A k \in Items : /\ order[k] \in Nat /\ order[k] <= reserved[k]
                          /\ (order[k] > 0 => k \in rows)
                          /\ SumFunction([b \in Batches |-> IF batchItem[b] = k THEN out[b] ELSE 0]) = order[k]
  BY <1>2, IssueGives
<1>20. \A k \in Items : order[k] \in Nat /\ order[k] <= reserved[k] /\ (order[k] > 0 => k \in rows)
  BY <1>3
<1>4. /\ book' = nb /\ reserved' = nr /\ remaining' = [b \in Batches |-> remaining[b] - out[b]]
      /\ touched' = touched \cup {b \in Batches : out[b] > 0}
      /\ rows' = Swept(Lines(order), nb, nr, IF Reusable /\ type[r] \in Issuing THEN Lines(order) ELSE {})
      /\ quota' = [quota EXCEPT ![r] = IF @ = "RESERVED" THEN "CONSUMED" ELSE @]
      /\ batchItem' = batchItem /\ received' = received
      /\ returned' = returned /\ writtenOff' = writtenOff /\ back' = back
  BY <1>2 DEF Issues
<1>5. issued' = [rec \in Records |->
                  IF (Reusable /\ type[r] \in Issuing) /\ rec[1] = r
                    THEN [b \in Batches |-> IF batchItem[b] = rec[2] THEN out[b] ELSE 0]
                    ELSE issued[rec]]
  BY <1>2 DEF Issues, ItemOf
<1>6. /\ HeadTyped' /\ HeadsApart(r) /\ ~LendsIn(status, type, r) /\ LoansStay
      /\ (~LendsIn(status', type', r) => NoNewLoans)
      /\ status'[r] = "APPROVED" /\ type'[r] = type[r] /\ lines'[r] = order
      /\ order \in [Items -> Nat] /\ SumFunction(order) \in Nat
      /\ \A i \in Items : AskedAt(status', type', lines', i) = AskedAt(status, type, lines, i) - order[i]
  <2>1. /\ HeadTyped' /\ HeadsApart(r) /\ ~LendsIn(status, type, r) /\ LoansStay
        /\ (~LendsIn(status', type', r) => NoNewLoans)
        /\ status'[r] = "APPROVED" /\ type'[r] = type[r] /\ lines'[r] = lines[r]
        /\ lines[r] \in [Items -> Nat] /\ SumFunction(lines[r]) \in Nat
    BY <1>1, DecidedHeads
  <2>2. \A i \in Items : AskedAt(status', type', lines', i) = AskedAt(status, type, lines, i) - lines[r][i]
    BY <1>1, DecidedHeads
  <2> QED
    BY <1>2, <2>1, <2>2
<1>7. /\ Flow(status', type', lines', {"STOCK_IN"}) = Flow(status, type, lines, {"STOCK_IN"})
      /\ Flow(status', type', lines', Reserving) = Flow(status, type, lines, Reserving) + SumFunction(order)
  <2>1. \A K : Flow(status', type', lines', K) = Flow(status, type, lines, K)
                     + IF type[r] \in K THEN SumFunction(lines[r]) ELSE 0
    BY <1>1, DecidedHeads
  <2>2. /\ Flow(status', type', lines', {"STOCK_IN"}) = Flow(status, type, lines, {"STOCK_IN"})
              + IF type[r] \in {"STOCK_IN"} THEN SumFunction(lines[r]) ELSE 0
        /\ Flow(status', type', lines', Reserving) = Flow(status, type, lines, Reserving)
              + IF type[r] \in Reserving THEN SumFunction(lines[r]) ELSE 0
    BY <2>1
  <2>3. Flow(status, type, lines, {"STOCK_IN"}) \in Nat
    BY <1>1, AccountsNow
  <2>4. type[r] # "STOCK_IN"
    BY DEF Reserving, Issuing
  <2> QED
    BY <1>2, <2>2, <2>3, <2>4
<1>8. \A i \in Items : /\ book[i] \in Nat /\ reserved[i] \in Nat
                       /\ reserved[i] = AskedAt(status, type, lines, i)
                       /\ book[i] = HeldAt(batchItem, remaining, i)
                       /\ reserved[i] <= book[i] /\ (i \notin rows => book[i] = 0)
                       /\ nb[i] = book[i] - order[i] /\ nr[i] = reserved[i] - order[i]
  BY <1>1, <1>2 DEF StockTyped, StockInv
<1>9. ASSUME NEW k \in Items PROVE nb[k] = HeldAt(batchItem', remaining', k)
  <2>1. PICK g, h, gone : /\ g = HoldTerm(batchItem, remaining, k) /\ h = HoldTerm(batchItem', remaining', k)
                          /\ gone = [b \in Batches |-> IF batchItem[b] = k THEN out[b] ELSE 0]
    OBVIOUS
  <2>2. \A b \in Batches : out[b] \in Nat /\ remaining[b] \in Nat /\ remaining'[b] = remaining[b] - out[b]
    BY <1>1, <1>3, <1>4 DEF StockTyped
  <2>3. /\ g \in [Batches -> Int] /\ h \in [Batches -> Int] /\ gone \in [Batches -> Int]
        /\ IsFiniteSet(Batches)
    BY <2>1, <2>2, AllFinite DEF HoldTerm
  <2>4. \A b \in Batches : h[b] = g[b] - gone[b]
    BY <1>4, <2>1, <2>2 DEF HoldTerm
  <2>5. SumFunction(h) = SumFunction(g) - SumFunction(gone)
    BY ONLY <2>3, <2>4, SumSubtracts
  <2>6. SumFunction(gone) = order[k]
    BY <1>3, <2>1
  <2>7. book[k] = SumFunction(g)
    BY <1>8, <2>1 DEF HeldAt
  <2> QED
    BY <1>8, <2>1, <2>5, <2>6, <2>7 DEF HeldAt
<1>10. \A i \in Items : nb[i] \in Nat /\ nr[i] \in Nat /\ nr[i] <= nb[i]
  BY <1>8, <1>20
<1>11. StockTyped'
  <2>1. book' \in [Items -> Nat] /\ reserved' \in [Items -> Nat]
    BY <1>2, <1>4, <1>10
  <2>2. remaining' \in [Batches -> Nat]
    <3>1. \A b \in Batches : remaining[b] - out[b] \in Nat
      BY <1>1, <1>3 DEF StockTyped
    <3> QED
      BY <1>4, <3>1
  <2>3. rows' \subseteq Items /\ touched' \subseteq Batches
    BY <1>1, <1>4 DEF StockTyped, Swept
  <2> QED
    BY <1>1, <1>4, <2>1, <2>2, <2>3 DEF StockTyped
<1>12. LendTyped' /\ QuotaTyped'
  <2>1. \A rec \in Records : issued'[rec] \in [Batches -> Nat]
    BY <1>1, <1>3, <1>5 DEF Typed, LendTyped
  <2>2. issued' \in [Records -> [Batches -> Nat]]
    BY <1>5, <2>1
  <2>3. LendTyped'
    BY <1>1, <1>4, <2>2 DEF Typed, LendTyped
  <2>4. QuotaTyped'
    BY <1>1, <1>4 DEF Typed, QuotaTyped
  <2> QED
    BY <2>3, <2>4
<1>13. \A i \in Items : i \notin rows' => nb[i] = 0
  <2>1. SUFFICES ASSUME NEW i \in Items, i \notin rows' PROVE nb[i] = 0
    OBVIOUS
  <2>2. CASE i \in rows
    BY <1>1, <1>4, <2>1, <2>2, SweptAway
  <2>3. CASE i \notin rows
    BY <1>8, <1>20, <2>3
  <2> QED
    BY <2>2, <2>3
<1>14. StockInv'
  BY <1>4, <1>6, <1>8, <1>9, <1>10, <1>13 DEF StockInv
<1>15. FlowInv'
  <2>1. PICK bk : bk = book /\ bk \in [Items -> Int] /\ nb \in [Items -> Int] /\ order \in [Items -> Int]
                  /\ \A i \in Items : nb[i] = bk[i] - order[i]
    BY <1>1, <1>2, <1>6, <1>8, <1>10 DEF StockTyped
  <2>2. SumFunction(nb) = SumFunction(bk) - SumFunction(order)
    <3>1. IsFiniteSet(Items)
      BY AllFinite
    <3> QED
      BY ONLY <2>1, <3>1, SumSubtracts
  <2>3. SumFunction(bk) \in Nat /\ SumFunction(returned) \in Nat /\ SumFunction(InitialStock) \in Nat
    BY <1>1, <2>1, NatSums, AssetAssumption DEF Typed, StockTyped, LendTyped, RecordQuantities
  <2>4. Flow(status, type, lines, Reserving) \in Nat /\ Flow(status, type, lines, {"STOCK_IN"}) \in Nat
    BY <1>1, AccountsNow
  <2> QED
    BY <1>1, <1>4, <1>6, <1>7, <2>1, <2>2, <2>3, <2>4 DEF FlowInv
<1>16. LendInv'
  <2>1. SUFFICES ASSUME NEW rec \in Records
        PROVE /\ Owed(issued'[rec], back'[rec]) = Lent(status', type', lines', rec) - returned'[rec]
              /\ \A b \in Batches :
                   /\ back'[rec][b] <= issued'[rec][b]
                   /\ issued'[rec][b] > 0 => b \in touched' /\ batchItem'[b] = rec[2]
              /\ ~LendsIn(status', type', rec[1]) =>
                   /\ returned'[rec] = 0 /\ writtenOff'[rec] = 0
                   /\ \A b \in Batches : issued'[rec][b] = 0 /\ back'[rec][b] = 0
              /\ returned'[rec] + writtenOff'[rec] <= Lent(status', type', lines', rec)
              /\ returned'[rec] + writtenOff'[rec] < Lent(status', type', lines', rec) => rec[2] \in rows'
    BY DEF LendInv
  <2>2. rec[1] \in Requests /\ rec[2] \in Items
    BY DEF Records
  <2>3. CASE rec[1] = r /\ Reusable /\ type[r] \in Issuing
    <3>1. /\ returned[rec] = 0 /\ writtenOff[rec] = 0 /\ \A b \in Batches : back[rec][b] = 0
      BY <1>1, <1>6, <2>3 DEF LendInv
    <3>2. issued'[rec] = [b \in Batches |-> IF batchItem[b] = rec[2] THEN out[b] ELSE 0]
      BY <1>5, <2>3
    <3>3. LendsIn(status', type', r) /\ Lent(status', type', lines', rec) = order[rec[2]]
      BY <1>6, <2>3 DEF LendsIn, Lent
    <3>4. Owed(issued'[rec], back'[rec]) = order[rec[2]]
      <4>1. PICK f, g : /\ f = [b \in Batches |-> issued'[rec][b] - back'[rec][b]]
                        /\ g = [b \in Batches |-> IF batchItem[b] = rec[2] THEN out[b] ELSE 0]
        OBVIOUS
      <4>2. \A b \in Batches : f[b] = g[b]
        <5>1. ASSUME NEW b \in Batches PROVE f[b] = g[b]
          <6>1. g[b] \in Nat
            BY <1>3, <4>1
          <6>2. f[b] = g[b] - 0
            BY <1>4, <3>1, <3>2, <4>1
          <6> QED
            BY <6>1, <6>2
        <5> QED
          BY <5>1
      <4>3. f = g
        BY <4>1, <4>2
      <4>4. SumFunction(g) = order[rec[2]]
        BY <1>3, <2>2, <4>1
      <4> QED
        BY <4>1, <4>3, <4>4 DEF Owed
    <3>5. order[rec[2]] > 0 => rec[2] \in rows'
      <4>1. SUFFICES ASSUME order[rec[2]] > 0, rec[2] \notin rows' PROVE FALSE
        OBVIOUS
      <4>2. rec[2] \in rows /\ rec[2] \in Lines(order)
        BY <1>3, <2>2, <4>1 DEF Lines
      <4>3. rec[2] \notin Swept(Lines(order), nb, nr, Lines(order))
        BY <1>4, <2>3, <4>1
      <4> QED
        BY <1>1, <4>2, <4>3, SweptAway
    <3>6. order[rec[2]] \in Nat
      BY <1>3, <2>2
    <3>7. \A b \in Batches : /\ back'[rec][b] <= issued'[rec][b]
                             /\ issued'[rec][b] > 0 => b \in touched' /\ batchItem'[b] = rec[2]
      BY <1>3, <1>4, <3>1, <3>2
    <3> QED
      BY <1>4, <2>3, <3>1, <3>3, <3>4, <3>5, <3>6, <3>7
  <2>4. CASE ~(rec[1] = r /\ Reusable /\ type[r] \in Issuing)
    <3>1. issued'[rec] = issued[rec]
      BY <1>5, <2>4
    <3>2. /\ LendsIn(status', type', rec[1]) <=> LendsIn(status, type, rec[1])
          /\ Lent(status', type', lines', rec) = Lent(status, type, lines, rec)
      <4>1. CASE rec[1] = r
        BY <1>6, <2>4, <4>1 DEF LendsIn, Lent
      <4>2. CASE rec[1] # r
        BY <1>6, <2>2, <4>2 DEF LendsIn, Lent, HeadsApart
      <4> QED
        BY <4>1, <4>2
    <3>3. /\ Owed(issued[rec], back[rec]) = Lent(status, type, lines, rec) - returned[rec]
          /\ \A b \in Batches :
               /\ back[rec][b] <= issued[rec][b]
               /\ issued[rec][b] > 0 => b \in touched /\ batchItem[b] = rec[2]
          /\ ~LendsIn(status, type, rec[1]) =>
               /\ returned[rec] = 0 /\ writtenOff[rec] = 0
               /\ \A b \in Batches : issued[rec][b] = 0 /\ back[rec][b] = 0
          /\ returned[rec] + writtenOff[rec] <= Lent(status, type, lines, rec)
          /\ returned[rec] + writtenOff[rec] < Lent(status, type, lines, rec) => rec[2] \in rows
      BY <1>1 DEF LendInv
    <3>4. returned[rec] + writtenOff[rec] < Lent(status, type, lines, rec) => rec[2] \in rows'
      BY <1>1, <1>4, <3>3, SweptAway
    <3> QED
      BY <1>4, <3>1, <3>2, <3>3, <3>4
  <2> QED
    BY <2>3, <2>4
<1>17. ActInv'
  BY <1>4, DecidedActs
<1>18. Claims(status', type', lines') + Keeps(status', type', lines', returned', writtenOff')
         = Claims(status, type, lines) + Keeps(status, type, lines, returned, writtenOff)
  <2>1. Claims(status', type', lines') = Claims(status, type, lines)
          - IF type[r] = "CONSUMABLE_REQUEST" /\ Reusable THEN SumFunction(order) ELSE 0
    BY <1>1, <1>2, DecidedHeads
  <2>2. Claims(status, type, lines) \in Int /\ Keeps(status, type, lines, returned, writtenOff) \in Int
    BY <1>1, AccountsNow
  <2>3. CASE type[r] = "CONSUMABLE_REQUEST" /\ Reusable
    <3>1. PICK f, g, more : /\ f = KeepTerm(status, type, lines, returned, writtenOff)
                            /\ g = KeepTerm(status', type', lines', returned', writtenOff')
                            /\ more = [rec \in Records |-> IF rec[1] = r THEN order[rec[2]] ELSE 0]
      OBVIOUS
    <3>2. ASSUME NEW rec \in Records
          PROVE  /\ f[rec] \in Int /\ more[rec] \in Int /\ g[rec] = f[rec] + more[rec]
      <4>1. /\ rec[1] \in Requests /\ rec[2] \in Items
            /\ Lent(status, type, lines, rec) \in Nat /\ returned[rec] \in Nat /\ writtenOff[rec] \in Nat
        BY <1>1, OpenIs
      <4>2. f[rec] \in Int /\ more[rec] \in Int
        BY <1>20, <3>1, <4>1 DEF KeepTerm
      <4>3. CASE rec[1] = r
        <5>1. returned[rec] = 0 /\ writtenOff[rec] = 0 /\ Lent(status, type, lines, rec) = 0
          BY <1>1, <1>6, <4>3 DEF LendInv, Lent
        <5>2. Lent(status', type', lines', rec) = order[rec[2]]
          BY <1>6, <2>3, <4>3 DEF Lent, LendsIn, Issuing
        <5>3. f[rec] = 0
          BY <3>1, <5>1 DEF KeepTerm
        <5>4. g[rec] = order[rec[2]] - 0 - 0
          BY <1>4, <1>6, <2>3, <3>1, <4>3, <5>1, <5>2 DEF KeepTerm
        <5> QED
          BY <1>20, <3>1, <4>1, <4>2, <4>3, <5>3, <5>4
      <4>4. CASE rec[1] # r
        <5>1. /\ type'[rec[1]] = type[rec[1]]
              /\ Lent(status', type', lines', rec) = Lent(status, type, lines, rec)
          BY <1>6, <4>1, <4>4 DEF HeadsApart, Lent, LendsIn
        <5>2. g[rec] = f[rec]
          BY <1>4, <3>1, <5>1 DEF KeepTerm
        <5> QED
          BY <3>1, <4>2, <4>4, <5>2
      <4> QED
        BY <4>3, <4>4
    <3>3. f \in [Records -> Int] /\ more \in [Records -> Int] /\ g \in [Records -> Int]
          /\ \A rec \in Records : g[rec] = f[rec] + more[rec]
      <4>1. f \in [Records -> Int]
        BY <3>1, <3>2 DEF KeepTerm
      <4>2. more \in [Records -> Int]
        BY <3>1, <3>2
      <4>3. g \in [Records -> Int]
        BY <3>1, <3>2 DEF KeepTerm
      <4> QED
        BY <3>2, <4>1, <4>2, <4>3
    <3>4. IsFiniteSet(Records)
      BY AllFinite
    <3>5. SumFunction(g) = SumFunction(f) + SumFunction(more)
      BY ONLY <3>3, <3>4, SumAdds
    <3>6. SumFunction(more) = SumFunction(order)
      BY <1>6, <3>1, LinesAsRecords
    <3> QED
      BY <1>6, <2>1, <2>2, <2>3, <3>1, <3>5, <3>6 DEF Keeps
  <2>4. CASE ~(type[r] = "CONSUMABLE_REQUEST" /\ Reusable)
    <3>1. PICK f, g : /\ f = KeepTerm(status, type, lines, returned, writtenOff)
                      /\ g = KeepTerm(status', type', lines', returned', writtenOff')
      OBVIOUS
    <3>2. ASSUME NEW rec \in Records PROVE g[rec] = f[rec]
      <4>1. rec[1] \in Requests
        BY DEF Records
      <4>2. CASE rec[1] = r
        <5>1. CASE type[r] # "CONSUMABLE_REQUEST"
          BY <1>6, <3>1, <4>2, <5>1 DEF KeepTerm
        <5>2. CASE ~Reusable
          BY <1>4, <1>6, <3>1, <4>2, <5>2 DEF KeepTerm, Lent, LendsIn
        <5> QED
          BY <2>4, <5>1, <5>2
      <4>3. CASE rec[1] # r
        <5>1. /\ type'[rec[1]] = type[rec[1]]
              /\ Lent(status', type', lines', rec) = Lent(status, type, lines, rec)
          BY <1>6, <4>1, <4>3 DEF HeadsApart, Lent, LendsIn
        <5> QED
          BY <1>4, <3>1, <5>1 DEF KeepTerm
      <4> QED
        BY <4>2, <4>3
    <3>3. f = g
      BY <3>1, <3>2 DEF KeepTerm
    <3>4. Claims(status', type', lines') = Claims(status, type, lines)
      BY <2>1, <2>2, <2>4
    <3> QED
      BY <3>1, <3>3, <3>4 DEF Keeps
  <2> QED
    BY <2>3, <2>4
<1>19. QuotaInv'
  <2>1. Claims(status', type', lines') + Keeps(status', type', lines', returned', writtenOff') <= QuotaLimit
    BY <1>1, <1>18 DEF QuotaInv
  <2>2. quota \in [Requests -> {"NONE", "RESERVED", "CONSUMED", "RELEASED"}]
    BY <1>1 DEF Typed, QuotaTyped
  <2>3. /\ \A q \in Requests \ {r} : quota'[q] = quota[q]
        /\ quota'[r] = IF quota[r] = "RESERVED" THEN "CONSUMED" ELSE quota[r]
    BY <1>4, <2>2
  <2>4. status[r] = "PENDING"
    BY DEF Decided
  <2>5. /\ quota'[r] = "RESERVED" <=> status'[r] = "PENDING" /\ type'[r] = "CONSUMABLE_REQUEST"
        /\ quota'[r] = "CONSUMED" <=> status'[r] = "APPROVED" /\ type'[r] = "CONSUMABLE_REQUEST"
    BY <1>1, <1>6, <2>3, <2>4 DEF QuotaInv
  <2> QED
    BY <1>1, <1>6, <2>1, <2>3, <2>5, QuotaKinds
<1> QED
  BY <1>6, <1>11, <1>12, <1>14, <1>15, <1>16, <1>17, <1>19 DEF IInv, Typed

-----------------------------------------------------------------------------
(* Returns and write-offs.                                                 *)

(* The batches of a record get back exactly what returns.                  *)
LEMMA RestoredSums ==
  ASSUME Typed, LendInv, NEW rec \in Records, NEW n \in Nat, n <= Owed(issued[rec], back[rec])
  PROVE  /\ \A b \in Batches : /\ Restored(rec, n, b) \in Nat
                               /\ Restored(rec, n, b) <= issued[rec][b] - back[rec][b]
         /\ SumFunction([b \in Batches |-> Restored(rec, n, b)]) = n
<1>1. PICK B : B = {b \in Batches : issued[rec][b] > 0}
  OBVIOUS
<1>2. B \subseteq Batches /\ IsFiniteSet(B) /\ IsFiniteSet(Batches) /\ Batches \subseteq Nat
  BY <1>1, AllFinite, FS_Subset
<1>3. PICK older, cap, take, due :
        /\ older = [b \in B |-> {c \in B : Before(b, c)}]
        /\ cap = [b \in B |-> issued[rec][b] - back[rec][b]]
        /\ take = [b \in B |-> Restored(rec, n, b)]
        /\ due = [b \in Batches |-> issued[rec][b] - back[rec][b]]
  OBVIOUS
<1>4. ASSUME NEW b \in Batches
      PROVE  /\ issued[rec][b] \in Nat /\ back[rec][b] \in Nat /\ back[rec][b] <= issued[rec][b]
             /\ due[b] = issued[rec][b] - back[rec][b] /\ due[b] \in Nat
             /\ (b \in B => cap[b] = due[b]) /\ (b \notin B => due[b] = 0)
             /\ received[b] \in Nat /\ b \in Nat
  BY <1>1, <1>2, <1>3 DEF Typed, StockTyped, LendTyped, LendInv
<1>5. /\ older \in [B -> SUBSET B] /\ cap \in [B -> Nat] /\ due \in [Batches -> Int]
      /\ cap = [b \in B |-> cap[b]] /\ (\A b \in B : cap[b] = due[b])
      /\ (\A b \in Batches \ B : due[b] = 0)
  <2>1. older \in [B -> SUBSET B]
    BY <1>3
  <2>2. cap \in [B -> Nat] /\ cap = [b \in B |-> cap[b]]
    <3>1. \A b \in B : cap[b] \in Nat
      BY <1>2, <1>4
    <3> QED
      BY <1>3, <3>1
  <2>3. due \in [Batches -> Int]
    BY <1>3, <1>4
  <2> QED
    BY <1>2, <1>4, <2>1, <2>2, <2>3
<1>6. /\ \A b \in B : b \notin older[b]
      /\ \A b, c \in B : b \in older[c] \/ c \in older[b] \/ b = c
      /\ \A b, c \in B : c \in older[b] => older[c] \subseteq older[b]
  <2>1. \A b \in B : received[b] \in Nat /\ b \in Nat
    BY <1>2, <1>4
  <2> QED
    BY <1>3, <2>1 DEF Before
<1>7. ASSUME NEW b \in Batches
      PROVE  /\ Restored(rec, n, b) \in Nat /\ Restored(rec, n, b) <= due[b]
             /\ (b \in B => Restored(rec, n, b) = Clip(n - SumOver(cap, older[b]), cap[b]))
  <2>1. PICK T : T = {c \in Batches : issued[rec][c] > 0 /\ Before(b, c)}
    OBVIOUS
  <2>2. T \subseteq B /\ (b \in B => T = older[b])
    BY <1>1, <1>3, <2>1
  <2>3. [c \in T |-> issued[rec][c] - back[rec][c]] = [c \in T |-> cap[c]]
    BY <1>3, <2>2
  <2>4. Restored(rec, n, b) = Capped(n - SumOver(cap, T), issued[rec][b] - back[rec][b])
    BY <2>1, <2>3 DEF Restored, Sum, SumOver
  <2>5. SumOver(cap, T) \in Nat
    BY <1>2, <1>5, <2>2, PartSums
  <2>6. n - SumOver(cap, T) \in Int /\ due[b] \in Nat /\ due[b] = issued[rec][b] - back[rec][b]
        /\ (b \in B => cap[b] = due[b])
    BY <1>4, <2>5
  <2>7. Restored(rec, n, b) = Clip(n - SumOver(cap, T), due[b])
        /\ Restored(rec, n, b) \in Nat /\ Restored(rec, n, b) <= due[b]
    BY <2>4, <2>6, ClipBounds
  <2> QED
    BY <2>2, <2>6, <2>7
<1>8. take \in [B -> Int] /\ \A b \in B : take[b] = Restored(rec, n, b)
  <2>1. \A b \in B : take[b] = Restored(rec, n, b)
    BY <1>3
  <2>2. \A b \in B : Restored(rec, n, b) \in Nat
    BY <1>2, <1>7
  <2>3. \A b \in B : take[b] \in Int
    BY <2>1, <2>2
  <2> QED
    BY <1>3, <2>1, <2>3
<1>9. SumFunction(take) = IF n <= SumFunction(cap) THEN n ELSE SumFunction(cap)
  <2>1. \A b \in B : take[b] = Clip(n - SumOver(cap, older[b]), cap[b])
    BY <1>2, <1>7, <1>8
  <2>2. IsFiniteSet(B) /\ take \in [B -> Int] /\ older \in [B -> SUBSET B] /\ cap \in [B -> Nat]
    BY <1>2, <1>5, <1>8
  <2> QED
    BY ONLY <1>6, <2>1, <2>2, n \in Nat, Emptied
<1>10. SumFunction(cap) = SumFunction(due)
  BY <1>2, <1>5, Filtered
<1>11. SumFunction(take) = n
  BY <1>3, <1>9, <1>10 DEF Owed
<1>12. PICK whole : whole = [b \in Batches |-> Restored(rec, n, b)]
  OBVIOUS
<1>13. SumFunction(take) = SumFunction(whole)
  <2>1. ASSUME NEW b \in Batches
        PROVE  whole[b] \in Int /\ (b \in B => take[b] = whole[b]) /\ (b \notin B => whole[b] = 0)
    <3>1. whole[b] = Restored(rec, n, b)
      BY <1>12
    <3>2. b \notin B => due[b] = 0
      BY <1>4
    <3> QED
      BY <1>7, <1>8, <3>1, <3>2
  <2>2. whole \in [Batches -> Int] /\ take = [b \in B |-> take[b]]
    BY <1>3, <1>12, <2>1
  <2> QED
    BY <1>2, <2>1, <2>2, Filtered
<1>14. \A b \in Batches : Restored(rec, n, b) \in Nat /\ Restored(rec, n, b) <= issued[rec][b] - back[rec][b]
  BY <1>4, <1>7
<1> QED
  BY <1>11, <1>12, <1>13, <1>14

(* What the checks of a return or a write-off leave possible: no request   *)
(* acts on what was not lent.                                              *)
LEMMA ActBounds ==
  ASSUME Typed, LendInv, NEW re \in RecordQuantities, NEW wo \in RecordQuantities,
         NEW r \in Requests \cup {0}, CanAct(re, wo, r), NEW rec \in Records
  PROVE  /\ rec[1] \in Requests /\ rec[2] \in Items
         /\ re[rec] \in Nat /\ wo[rec] \in Nat /\ returned[rec] \in Nat /\ writtenOff[rec] \in Nat
         /\ Lent(status, type, lines, rec) \in Nat
         /\ Owed(issued[rec], back[rec]) \in Int /\ re[rec] <= Owed(issued[rec], back[rec])
         /\ returned[rec] + writtenOff[rec] + re[rec] + wo[rec] <= Lent(status, type, lines, rec)
         /\ (re[rec] > 0 => rec[2] \in rows)
         /\ (re[rec] > 0 => re[rec] <= Available(rec, r))
         /\ (wo[rec] > 0 => wo[rec] <= Available(rec, r))
         /\ (~LendsIn(status, type, rec[1]) => re[rec] = 0 /\ wo[rec] = 0)
<1>1. /\ re[rec] > 0 => /\ re[rec] <= Available(rec, r)
                        /\ re[rec] <= Sum([b \in Batches |-> issued[rec][b] - back[rec][b]])
                        /\ ItemOf(rec) \in rows
      /\ wo[rec] > 0 => wo[rec] <= Available(rec, r)
      /\ returned[rec] + writtenOff[rec] + re[rec] + wo[rec] <= Qty(rec)
  BY DEF CanAct
<1>2. re[rec] \in Nat /\ wo[rec] \in Nat
  BY DEF RecordQuantities
<1>3. /\ rec[1] \in Requests /\ rec[2] \in Items
      /\ Lent(status, type, lines, rec) \in Nat /\ returned[rec] \in Nat /\ writtenOff[rec] \in Nat
      /\ Qty(rec) = Lent(status, type, lines, rec)
  BY OpenIs
<1>4. /\ Sum([b \in Batches |-> issued[rec][b] - back[rec][b]]) = Owed(issued[rec], back[rec])
      /\ Owed(issued[rec], back[rec]) \in Int
  BY AllocatedIs
<1>5. Owed(issued[rec], back[rec]) = Lent(status, type, lines, rec) - returned[rec]
  BY DEF LendInv
<1>6. returned[rec] + writtenOff[rec] + re[rec] + wo[rec] <= Lent(status, type, lines, rec)
  BY <1>1, <1>3
<1>7. re[rec] <= Owed(issued[rec], back[rec])
  BY <1>2, <1>3, <1>5, <1>6
<1>8. ~LendsIn(status, type, rec[1]) => re[rec] = 0 /\ wo[rec] = 0
  <2>1. ~LendsIn(status, type, rec[1]) => Lent(status, type, lines, rec) = 0
    BY DEF Lent
  <2>2. ASSUME NEW a \in Nat, NEW b \in Nat, NEW c \in Nat, NEW d \in Nat, a + b + c + d <= 0
        PROVE  c = 0 /\ d = 0
    BY <2>2
  <2>3. Lent(status, type, lines, rec) = 0 => re[rec] = 0 /\ wo[rec] = 0
    BY <1>2, <1>3, <1>6, <2>2
  <2> QED
    BY <2>1, <2>3
<1> QED
  BY <1>1, <1>2, <1>3, <1>4, <1>6, <1>7, <1>8 DEF ItemOf

(* What every batch gets back of every record.                             *)
GivenBack(re) == [rec \in Records |-> [b \in Batches |-> Restored(rec, re[rec], b)]]

LEMMA GivenBackIs ==
  ASSUME Typed, LendInv, NEW re \in RecordQuantities, NEW wo \in RecordQuantities,
         NEW r \in Requests \cup {0}, CanAct(re, wo, r)
  PROVE  /\ GivenBack(re) \in [Records -> [Batches -> Nat]]
         /\ \A rec \in Records :
              /\ SumFunction(GivenBack(re)[rec]) = re[rec]
              /\ \A b \in Batches :
                   /\ GivenBack(re)[rec][b] = Restored(rec, re[rec], b)
                   /\ GivenBack(re)[rec][b] <= issued[rec][b] - back[rec][b]
                   /\ GivenBack(re)[rec][b] > 0 => batchItem[b] = rec[2]
<1>1. PICK R : R = GivenBack(re)
  OBVIOUS
<1>2. ASSUME NEW rec \in Records
      PROVE  /\ R[rec] \in [Batches -> Nat] /\ SumFunction(R[rec]) = re[rec]
             /\ \A b \in Batches : /\ R[rec][b] = Restored(rec, re[rec], b)
                                   /\ R[rec][b] <= issued[rec][b] - back[rec][b]
                                   /\ R[rec][b] > 0 => batchItem[b] = rec[2]
  <2>1. re[rec] \in Nat /\ re[rec] <= Owed(issued[rec], back[rec])
    BY ActBounds
  <2>2. PICK n \in Nat : n = re[rec]
    BY <2>1
  <2>3. R[rec] = [b \in Batches |-> Restored(rec, n, b)]
    BY <1>1, <2>2 DEF GivenBack
  <2>4. /\ \A b \in Batches : /\ Restored(rec, n, b) \in Nat
                              /\ Restored(rec, n, b) <= issued[rec][b] - back[rec][b]
        /\ SumFunction([b \in Batches |-> Restored(rec, n, b)]) = n
    BY <2>1, <2>2, RestoredSums
  <2>5. ASSUME NEW b \in Batches, R[rec][b] > 0 PROVE batchItem[b] = rec[2]
    <3>1. R[rec][b] \in Nat /\ R[rec][b] <= issued[rec][b] - back[rec][b]
      BY <2>3, <2>4
    <3>2. issued[rec][b] \in Nat /\ back[rec][b] \in Nat
      BY DEF Typed, LendTyped
    <3>3. issued[rec][b] > 0
      BY <2>5, <3>1, <3>2
    <3> QED
      BY <3>3 DEF LendInv
  <2> QED
    BY <2>2, <2>3, <2>4, <2>5
<1>3. R = [rec \in Records |-> R[rec]]
  BY <1>1 DEF GivenBack
<1>4. R \in [Records -> [Batches -> Nat]]
  BY <1>2, <1>3
<1> QED
  BY <1>1, <1>2, <1>4

(* What returns to a location, and to all of them.                         *)
LEMMA ReturnedToIs ==
  ASSUME NEW re \in RecordQuantities, NEW wo
  PROVE  /\ \A i \in Items : ReturnedTo(i, re, wo) \in Nat
         /\ \A i \in Items : ReturnedTo(i, re, wo)
              = SumFunction([rec \in Records |-> IF rec[2] = i THEN re[rec] ELSE 0])
         /\ SumFunction([i \in Items |-> ReturnedTo(i, re, wo)]) = SumFunction(re)
<1>0. IsFiniteSet(Records) /\ IsFiniteSet(Items) /\ re \in [Records -> Nat]
  BY AllFinite DEF RecordQuantities
<1>1. PICK G : G = [i \in Items |-> [rec \in Records |-> IF rec[2] = i THEN re[rec] ELSE 0]]
  OBVIOUS
<1>2. G \in [Items -> [Records -> Nat]]
  BY <1>0, <1>1
<1>3. ASSUME NEW i \in Items
      PROVE  ReturnedTo(i, re, wo) = SumFunction(G[i]) /\ SumFunction(G[i]) \in Nat
  <2>1. PICK T, f, g : /\ T = {x \in Records : ItemOf(x) = i} /\ f = G[i]
                       /\ g = [rec \in T |-> re[rec]]
    OBVIOUS
  <2>2. T \subseteq Records /\ g = [rec \in T |-> g[rec]] /\ f \in [Records -> Nat]
    BY <1>2, <2>1
  <2>3. (\A rec \in T : g[rec] = f[rec]) /\ (\A rec \in Records \ T : f[rec] = 0)
    BY <1>1, <2>1 DEF ItemOf
  <2>4. f \in [Records -> Int]
    BY <2>2
  <2>5. SumFunction(g) = SumFunction(f)
    BY ONLY <1>0, <2>2, <2>3, <2>4, Filtered
  <2>6. SumFunction(f) \in Nat
    BY ONLY <1>0, <2>2, SumNat
  <2> QED
    BY <2>1, <2>5, <2>6 DEF ReturnedTo, Sum
<1>4. \A i \in Items : G[i] = [rec \in Records |-> IF rec[2] = i THEN re[rec] ELSE 0]
  BY <1>1
<1>5. [i \in Items |-> ReturnedTo(i, re, wo)] = [i \in Items |-> SumFunction(G[i])]
  BY <1>3
<1>6. SumFunction([i \in Items |-> SumFunction(G[i])])
        = SumFunction([rec \in Records |-> SumFunction([i \in Items |-> G[i][rec]])])
  <2>1. G \in [Items -> [Records -> Int]]
    BY <1>2
  <2> QED
    BY ONLY <1>0, <2>1, SumSwap
<1>7. ASSUME NEW rec \in Records PROVE SumFunction([i \in Items |-> G[i][rec]]) = re[rec]
  <2>1. PICK c, h : c = rec[2] /\ h = [i \in Items |-> G[i][rec]]
    OBVIOUS
  <2>2. c \in Items
    BY <2>1 DEF Records
  <2>3. h \in [Items -> Int] /\ h[c] = re[rec] /\ \A i \in Items \ {c} : h[i] = 0
    BY <1>0, <1>1, <2>1, <2>2
  <2>4. SumFunction(h) = h[c]
    BY ONLY <1>0, <2>2, <2>3, SumOfOne
  <2> QED
    BY <2>1, <2>3, <2>4
<1>8. [rec \in Records |-> SumFunction([i \in Items |-> G[i][rec]])] = re
  BY <1>0, <1>7
<1> QED
  BY <1>3, <1>4, <1>5, <1>6, <1>8

LEMMA ActStock ==
  ASSUME Typed, StockInv, LendInv, NEW re \in RecordQuantities, NEW wo \in RecordQuantities,
         NEW r \in Requests \cup {0}, CanAct(re, wo, r), Act(re, wo)
  PROVE  /\ remaining' \in [Batches -> Nat] /\ book' \in [Items -> Nat]
         /\ SumFunction(book') = SumFunction(book) + SumFunction(re)
         /\ \A i \in Items : /\ book'[i] = HeldAt(batchItem', remaining', i)
                             /\ book[i] <= book'[i]
                             /\ i \notin rows => book'[i] = 0
<1>0. /\ IsFiniteSet(Records) /\ IsFiniteSet(Items) /\ IsFiniteSet(Batches)
      /\ book \in [Items -> Nat] /\ remaining \in [Batches -> Nat]
      /\ batchItem' = batchItem /\ rows' = rows
  BY AllFinite DEF Typed, StockTyped, Act
<1>1. PICK R : R = GivenBack(re)
  OBVIOUS
<1>2. /\ R \in [Records -> [Batches -> Nat]]
      /\ \A rec \in Records : /\ SumFunction(R[rec]) = re[rec]
                              /\ \A b \in Batches : R[rec][b] > 0 => batchItem[b] = rec[2]
  BY <1>1, GivenBackIs
<1>3. PICK total : total = [b \in Batches |-> SumFunction([rec \in Records |-> R[rec][b]])]
  OBVIOUS
<1>4. total \in [Batches -> Nat]
  <2>1. ASSUME NEW b \in Batches PROVE SumFunction([rec \in Records |-> R[rec][b]]) \in Nat
    <3>1. [rec \in Records |-> R[rec][b]] \in [Records -> Nat]
      BY <1>2, <2>1
    <3> QED
      BY ONLY <1>0, <3>1, SumNat
  <2> QED
    BY <1>3, <2>1
<1>5. \A b \in Batches : remaining'[b] = remaining[b] + total[b]
  <2>1. ASSUME NEW b \in Batches
        PROVE  Sum([rec \in Records |-> Restored(rec, re[rec], b)]) = total[b]
    <3>1. \A rec \in Records : R[rec][b] = Restored(rec, re[rec], b)
      BY <1>1, <2>1 DEF GivenBack
    <3>2. [rec \in Records |-> Restored(rec, re[rec], b)] = [rec \in Records |-> R[rec][b]]
      BY <3>1
    <3> QED
      BY <1>3, <3>2 DEF Sum
  <2>2. remaining' = [b \in Batches |->
                        remaining[b] + Sum([rec \in Records |-> Restored(rec, re[rec], b)])]
    BY DEF Act
  <2> QED
    BY <2>1, <2>2
<1>6. remaining' \in [Batches -> Nat]
  <2>1. remaining' = [b \in Batches |-> remaining'[b]]
    BY DEF Act
  <2>2. \A b \in Batches : remaining'[b] \in Nat
    BY <1>0, <1>4, <1>5
  <2> QED
    BY <2>1, <2>2
<1>7. PICK arrived : arrived = [i \in Items |-> ReturnedTo(i, re, wo)]
  OBVIOUS
<1>8. /\ arrived \in [Items -> Nat] /\ SumFunction(arrived) = SumFunction(re)
      /\ \A i \in Items :
           arrived[i] = SumFunction([rec \in Records |-> IF rec[2] = i THEN re[rec] ELSE 0])
  BY <1>7, ReturnedToIs
<1>9. book' \in [Items -> Nat] /\ \A i \in Items : book'[i] = book[i] + arrived[i]
  <2>1. book' = [i \in Items |-> book[i] + ReturnedTo(i, re, wo)]
    BY DEF Act
  <2>2. \A i \in Items : book'[i] = book[i] + arrived[i]
    BY <1>7, <2>1
  <2>3. \A i \in Items : book'[i] \in Nat
    BY <1>0, <1>8, <2>2
  <2> QED
    BY <2>1, <2>2, <2>3
<1>10. SumFunction(book') = SumFunction(book) + SumFunction(re)
  <2>1. book \in [Items -> Int] /\ book' \in [Items -> Int] /\ arrived \in [Items -> Int]
    BY <1>0, <1>8, <1>9
  <2>2. SumFunction(book') = SumFunction(book) + SumFunction(arrived)
    BY ONLY <1>0, <1>9, <2>1, SumAdds
  <2> QED
    BY <1>8, <2>2
<1>11. ASSUME NEW i \in Items PROVE HeldAt(batchItem', remaining', i) = HeldAt(batchItem, remaining, i) + arrived[i]
  <2>1. PICK F : F = [rec \in Records |-> [b \in Batches |-> IF rec[2] = i THEN R[rec][b] ELSE 0]]
    OBVIOUS
  <2>2. F \in [Records -> [Batches -> Int]]
    BY <1>2, <2>1
  <2>3. SumFunction([rec \in Records |-> SumFunction(F[rec])])
          = SumFunction([b \in Batches |-> SumFunction([rec \in Records |-> F[rec][b]])])
    <3>1. IsFiniteSet(Records) /\ IsFiniteSet(Batches)
      BY <1>0
    <3> QED
      BY ONLY <2>2, <3>1, SumSwap
  <2>4. [rec \in Records |-> SumFunction(F[rec])]
          = [rec \in Records |-> IF rec[2] = i THEN re[rec] ELSE 0]
    <3>1. ASSUME NEW rec \in Records
          PROVE  SumFunction(F[rec]) = IF rec[2] = i THEN re[rec] ELSE 0
      <4>1. CASE rec[2] = i
        <5>1. F[rec] = R[rec]
          BY <1>2, <2>1, <4>1
        <5> QED
          BY <1>2, <4>1, <5>1
      <4>2. CASE rec[2] # i
        <5>1. PICK z : z = F[rec]
          OBVIOUS
        <5>2. z \in [Batches -> Int] /\ \A b \in Batches : z[b] = 0
          BY <2>1, <4>2, <5>1
        <5>3. SumFunction(z) = 0
          BY <5>2, ZeroSums
        <5> QED
          BY <4>2, <5>1, <5>3
      <4> QED
        BY <4>1, <4>2
    <3> QED
      BY <3>1
  <2>5. PICK old, new, col : /\ old = HoldTerm(batchItem, remaining, i)
                             /\ new = HoldTerm(batchItem', remaining', i)
                             /\ col = [b \in Batches |-> SumFunction([rec \in Records |-> F[rec][b]])]
    OBVIOUS
  <2>6. ASSUME NEW b \in Batches
        PROVE  /\ old[b] \in Int /\ new[b] \in Int /\ col[b] \in Int
               /\ new[b] = old[b] + col[b]
    <3>1. col[b] = IF batchItem[b] = i THEN total[b] ELSE 0
      <4>1. CASE batchItem[b] = i
        <5>1. ASSUME NEW rec \in Records PROVE F[rec][b] = R[rec][b]
          <6>1. F[rec][b] = IF rec[2] = i THEN R[rec][b] ELSE 0
            BY <2>1
          <6>2. R[rec][b] \in Nat /\ (R[rec][b] > 0 => rec[2] = i)
            BY <1>2, <4>1
          <6> QED
            BY <6>1, <6>2
        <5>2. [rec \in Records |-> F[rec][b]] = [rec \in Records |-> R[rec][b]]
          BY <5>1
        <5> QED
          BY <1>3, <2>5, <4>1, <5>2
      <4>2. CASE batchItem[b] # i
        <5>1. PICK z : z = [rec \in Records |-> F[rec][b]]
          OBVIOUS
        <5>2. ASSUME NEW rec \in Records PROVE z[rec] = 0
          <6>1. z[rec] = IF rec[2] = i THEN R[rec][b] ELSE 0
            BY <2>1, <5>1
          <6>2. R[rec][b] \in Nat /\ (R[rec][b] > 0 => rec[2] # i)
            BY <1>2, <4>2
          <6> QED
            BY <6>1, <6>2
        <5>3. z \in [Records -> Int]
          BY <5>1, <5>2
        <5>4. SumFunction(z) = 0
          BY <5>2, <5>3, ZeroSums
        <5> QED
          BY <2>5, <4>2, <5>1, <5>4
      <4> QED
        BY <4>1, <4>2
    <3>2. old[b] = (IF batchItem[b] = i THEN remaining[b] ELSE 0)
          /\ new[b] = (IF batchItem[b] = i THEN remaining'[b] ELSE 0)
      BY <1>0, <2>5 DEF HoldTerm
    <3>3. remaining[b] \in Nat /\ total[b] \in Nat /\ remaining'[b] = remaining[b] + total[b]
      BY <1>0, <1>4, <1>5
    <3> QED
      BY <3>1, <3>2, <3>3
  <2>7. old \in [Batches -> Int] /\ new \in [Batches -> Int] /\ col \in [Batches -> Int]
    <3>1. /\ old = [b \in Batches |-> old[b]] /\ new = [b \in Batches |-> new[b]]
          /\ col = [b \in Batches |-> col[b]]
      BY <2>5 DEF HoldTerm
    <3> QED
      BY <2>6, <3>1
  <2>8. SumFunction(new) = SumFunction(old) + SumFunction(col)
    BY ONLY <1>0, <2>6, <2>7, SumAdds
  <2>9. SumFunction(col) = arrived[i]
    BY <1>8, <2>3, <2>4, <2>5
  <2> QED
    BY <2>5, <2>8, <2>9 DEF HeldAt
<1>12. ASSUME NEW i \in Items, i \notin rows PROVE arrived[i] = 0
  <2>1. PICK z : z = [rec \in Records |-> IF rec[2] = i THEN re[rec] ELSE 0]
    OBVIOUS
  <2>2. ASSUME NEW rec \in Records PROVE z[rec] = 0
    <3>1. re[rec] \in Nat /\ (re[rec] > 0 => rec[2] \in rows)
      BY ActBounds
    <3> QED
      BY <1>12, <2>1, <3>1
  <2>3. z \in [Records -> Int]
    BY <2>1, <2>2
  <2>4. SumFunction(z) = 0
    BY <2>2, <2>3, ZeroSums
  <2> QED
    BY <1>8, <2>1, <2>4
<1>13. ASSUME NEW i \in Items
       PROVE  /\ book'[i] = HeldAt(batchItem', remaining', i)
              /\ book[i] <= book'[i] /\ (i \notin rows => book'[i] = 0)
  <2>1. book[i] = HeldAt(batchItem, remaining, i) /\ (i \notin rows => book[i] = 0)
    BY DEF StockInv
  <2>2. book[i] \in Nat /\ arrived[i] \in Nat /\ book'[i] = book[i] + arrived[i]
    BY <1>0, <1>8, <1>9
  <2>3. book'[i] = HeldAt(batchItem', remaining', i)
    BY <1>11, <2>1, <2>2
  <2> QED
    BY <1>12, <2>1, <2>2, <2>3
<1> QED
  BY <1>6, <1>9, <1>10, <1>13

(* The records after a return or a write-off.                              *)
LEMMA ActLoans ==
  ASSUME Typed, StockInv, LendInv, NEW re \in RecordQuantities, NEW wo \in RecordQuantities,
         NEW r \in Requests \cup {0}, CanAct(re, wo, r), Act(re, wo), LoansStay, NoNewLoans
  PROVE  /\ LendTyped' /\ LendInv'
         /\ \A rec \in Records : /\ returned'[rec] = returned[rec] + re[rec]
                                 /\ writtenOff'[rec] = writtenOff[rec] + wo[rec]
         /\ SumFunction(returned') = SumFunction(returned) + SumFunction(re)
<1>0. /\ IsFiniteSet(Records) /\ IsFiniteSet(Batches)
      /\ returned \in [Records -> Nat] /\ writtenOff \in [Records -> Nat]
      /\ issued \in [Records -> [Batches -> Nat]] /\ back \in [Records -> [Batches -> Nat]]
      /\ re \in [Records -> Nat] /\ wo \in [Records -> Nat]
      /\ batchItem' = batchItem /\ rows' = rows /\ issued' = issued /\ touched \subseteq touched'
  BY AllFinite DEF Typed, LendTyped, Act, RecordQuantities
<1>1. ASSUME NEW rec \in Records
      PROVE  /\ returned'[rec] = returned[rec] + re[rec]
             /\ writtenOff'[rec] = writtenOff[rec] + wo[rec]
             /\ returned'[rec] \in Nat /\ writtenOff'[rec] \in Nat
  <2>1. /\ returned'[rec] = returned[rec] + re[rec]
        /\ writtenOff'[rec] = writtenOff[rec] + wo[rec]
    BY DEF Act
  <2> QED
    BY <1>0, <2>1
<1>2. returned' \in [Records -> Nat] /\ writtenOff' \in [Records -> Nat]
  <2>1. /\ returned' = [rec \in Records |-> returned'[rec]]
        /\ writtenOff' = [rec \in Records |-> writtenOff'[rec]]
    BY DEF Act
  <2> QED
    BY <1>1, <2>1
<1>3. SumFunction(returned') = SumFunction(returned) + SumFunction(re)
  <2>1. IsFiniteSet(Records) /\ \A rec \in Records : returned'[rec] = returned[rec] + re[rec]
    BY <1>0, <1>1
  <2>2. returned \in [Records -> Int] /\ returned' \in [Records -> Int] /\ re \in [Records -> Int]
    BY <1>0, <1>2
  <2> QED
    BY ONLY <2>1, <2>2, SumAdds
<1>4. PICK R : R = GivenBack(re)
  OBVIOUS
<1>5. /\ R \in [Records -> [Batches -> Nat]]
      /\ \A rec \in Records :
           /\ SumFunction(R[rec]) = re[rec]
           /\ \A b \in Batches : /\ R[rec][b] = Restored(rec, re[rec], b)
                                 /\ R[rec][b] <= issued[rec][b] - back[rec][b]
  BY <1>4, GivenBackIs
<1>6. ASSUME NEW rec \in Records, NEW b \in Batches
      PROVE  /\ back'[rec][b] = back[rec][b] + R[rec][b]
             /\ back'[rec][b] \in Nat /\ back'[rec][b] <= issued[rec][b]
             /\ issued[rec][b] \in Nat /\ back[rec][b] \in Nat /\ R[rec][b] \in Nat
  <2>1. back'[rec][b] = back[rec][b] + Restored(rec, re[rec], b)
    BY DEF Act
  <2>2. R[rec][b] = Restored(rec, re[rec], b) /\ R[rec][b] \in Nat
        /\ R[rec][b] <= issued[rec][b] - back[rec][b]
    BY <1>5
  <2>3. issued[rec][b] \in Nat /\ back[rec][b] \in Nat
    BY <1>0
  <2> QED
    BY <2>1, <2>2, <2>3
<1>7. back' \in [Records -> [Batches -> Nat]]
  <2>1. ASSUME NEW rec \in Records PROVE back'[rec] \in [Batches -> Nat]
    <3>1. back'[rec] = [b \in Batches |-> back'[rec][b]]
      BY DEF Act
    <3> QED
      BY <1>6, <3>1
  <2>2. back' = [rec \in Records |-> back'[rec]]
    BY DEF Act
  <2> QED
    BY <2>1, <2>2
<1>8. LendTyped'
  BY <1>0, <1>2, <1>7 DEF LendTyped, RecordQuantities
<1>9. ASSUME NEW rec \in Records
      PROVE  Owed(issued'[rec], back'[rec]) = Owed(issued[rec], back[rec]) - re[rec]
  <2>1. PICK f, g, h : /\ f = [b \in Batches |-> issued[rec][b] - back[rec][b]]
                       /\ h = [b \in Batches |-> issued'[rec][b] - back'[rec][b]]
                       /\ g = R[rec]
    OBVIOUS
  <2>2. ASSUME NEW b \in Batches PROVE f[b] \in Int /\ g[b] \in Int /\ h[b] \in Int /\ h[b] = f[b] - g[b]
    <3>1. f[b] = issued[rec][b] - back[rec][b] /\ h[b] = issued[rec][b] - back'[rec][b] /\ g[b] = R[rec][b]
      BY <1>0, <2>1
    <3> QED
      BY <1>6, <3>1
  <2>3. f \in [Batches -> Int] /\ g \in [Batches -> Int] /\ h \in [Batches -> Int]
    <3>1. f = [b \in Batches |-> f[b]] /\ g = [b \in Batches |-> g[b]] /\ h = [b \in Batches |-> h[b]]
      BY <1>5, <2>1
    <3> QED
      BY <2>2, <3>1
  <2>4. SumFunction(h) = SumFunction(f) - SumFunction(g)
    <3>1. IsFiniteSet(Batches) /\ \A b \in Batches : h[b] = f[b] - g[b]
      BY <1>0, <2>2
    <3> QED
      BY ONLY <2>3, <3>1, SumSubtracts
  <2>5. SumFunction(g) = re[rec]
    BY <1>5, <2>1
  <2> QED
    BY <2>1, <2>4, <2>5 DEF Owed
<1>10. \A rec \in Records : Lent(status', type', lines', rec) = Lent(status, type, lines, rec)
  BY SameLent
<1>11. ASSUME NEW rec \in Records
       PROVE  /\ Owed(issued'[rec], back'[rec]) = Lent(status', type', lines', rec) - returned'[rec]
              /\ \A b \in Batches :
                   /\ back'[rec][b] <= issued'[rec][b]
                   /\ issued'[rec][b] > 0 => b \in touched' /\ batchItem'[b] = rec[2]
              /\ ~LendsIn(status', type', rec[1]) =>
                   /\ returned'[rec] = 0 /\ writtenOff'[rec] = 0
                   /\ \A b \in Batches : issued'[rec][b] = 0 /\ back'[rec][b] = 0
              /\ returned'[rec] + writtenOff'[rec] <= Lent(status', type', lines', rec)
              /\ returned'[rec] + writtenOff'[rec] < Lent(status', type', lines', rec) => rec[2] \in rows'
  <2>1. /\ rec[1] \in Requests
        /\ re[rec] \in Nat /\ wo[rec] \in Nat /\ returned[rec] \in Nat /\ writtenOff[rec] \in Nat
        /\ Lent(status, type, lines, rec) \in Nat
        /\ returned[rec] + writtenOff[rec] + re[rec] + wo[rec] <= Lent(status, type, lines, rec)
        /\ (~LendsIn(status, type, rec[1]) => re[rec] = 0 /\ wo[rec] = 0)
    BY ActBounds
  <2>2. PICK n \in Nat : n = Lent(status, type, lines, rec)
    BY <2>1
  <2>3. n = Lent(status', type', lines', rec)
    BY <1>10, <2>2
  <2>4. Owed(issued'[rec], back'[rec]) = n - returned'[rec]
    <3>1. Owed(issued[rec], back[rec]) = n - returned[rec]
      BY <2>2 DEF LendInv
    <3>2. Owed(issued'[rec], back'[rec]) = Owed(issued[rec], back[rec]) - re[rec]
      BY <1>9
    <3> QED
      BY <1>1, <2>1, <3>1, <3>2
  <2>5. ASSUME NEW b \in Batches
        PROVE  /\ back'[rec][b] <= issued'[rec][b]
               /\ issued'[rec][b] > 0 => b \in touched' /\ batchItem'[b] = rec[2]
    <3>1. back'[rec][b] <= issued'[rec][b]
      BY <1>0, <1>6
    <3>2. issued[rec][b] > 0 => b \in touched /\ batchItem[b] = rec[2]
      BY DEF LendInv
    <3> QED
      BY <1>0, <3>1, <3>2
  <2>6. ASSUME ~LendsIn(status', type', rec[1])
        PROVE  /\ returned'[rec] = 0 /\ writtenOff'[rec] = 0
               /\ \A b \in Batches : issued'[rec][b] = 0 /\ back'[rec][b] = 0
    <3>1. ~LendsIn(status, type, rec[1])
      BY <2>1, <2>6 DEF LoansStay
    <3>2. /\ returned[rec] = 0 /\ writtenOff[rec] = 0
          /\ \A b \in Batches : issued[rec][b] = 0 /\ back[rec][b] = 0
      BY <3>1 DEF LendInv
    <3>3. returned'[rec] = 0 /\ writtenOff'[rec] = 0
      BY <1>1, <2>1, <3>1, <3>2
    <3>4. ASSUME NEW b \in Batches PROVE issued'[rec][b] = 0 /\ back'[rec][b] = 0
      <4>1. issued[rec][b] = 0 /\ issued'[rec][b] = 0
        BY <1>0, <3>2
      <4> QED
        BY <1>6, <4>1
    <3> QED
      BY <3>3, <3>4
  <2>7. /\ returned'[rec] + writtenOff'[rec] <= n
        /\ returned'[rec] + writtenOff'[rec] < n => rec[2] \in rows'
    <3>1. returned[rec] + writtenOff[rec] < n => rec[2] \in rows
      BY <2>2 DEF LendInv
    <3>2. returned'[rec] + writtenOff'[rec] = returned[rec] + writtenOff[rec] + re[rec] + wo[rec]
      BY <1>1, <2>1
    <3>3. returned'[rec] + writtenOff'[rec] <= n
      BY <2>1, <2>2, <3>2
    <3>4. returned'[rec] + writtenOff'[rec] < n => returned[rec] + writtenOff[rec] < n
      BY <2>1, <3>2
    <3> QED
      BY <1>0, <3>1, <3>3, <3>4
  <2> QED
    BY <2>3, <2>4, <2>5, <2>6, <2>7
<1>12. LendInv'
  BY <1>11 DEF LendInv
<1> QED
  BY <1>1, <1>3, <1>8, <1>12

LEMMA FewerKeeps ==
  ASSUME Typed, NEW re \in RecordQuantities, NEW wo \in RecordQuantities, LoansStay, NoNewLoans,
         LendTyped', type' = type,
         \A rec \in Records : /\ returned'[rec] = returned[rec] + re[rec]
                              /\ writtenOff'[rec] = writtenOff[rec] + wo[rec]
  PROVE  /\ Keeps(status', type', lines', returned', writtenOff') \in Int
         /\ Keeps(status', type', lines', returned', writtenOff')
              <= Keeps(status, type, lines, returned, writtenOff)
<1>1. PICK f, g, h : /\ f = KeepTerm(status, type, lines, returned, writtenOff)
                     /\ g = KeepTerm(status', type', lines', returned', writtenOff')
                     /\ h = [rec \in Records |-> IF type[rec[1]] = "CONSUMABLE_REQUEST"
                                                   THEN re[rec] + wo[rec] ELSE 0]
  OBVIOUS
<1>2. ASSUME NEW rec \in Records
      PROVE  f[rec] \in Int /\ g[rec] \in Int /\ h[rec] \in Nat /\ f[rec] = g[rec] + h[rec]
  <2>1. /\ Lent(status, type, lines, rec) \in Nat /\ returned[rec] \in Nat /\ writtenOff[rec] \in Nat
        /\ Lent(status', type', lines', rec) = Lent(status, type, lines, rec)
    BY OpenIs, SameLent
  <2>2. re[rec] \in Nat /\ wo[rec] \in Nat
    BY DEF RecordQuantities
  <2>3. /\ f[rec] = IF type[rec[1]] = "CONSUMABLE_REQUEST"
                      THEN Lent(status, type, lines, rec) - returned[rec] - writtenOff[rec] ELSE 0
        /\ g[rec] = IF type[rec[1]] = "CONSUMABLE_REQUEST"
                      THEN Lent(status', type', lines', rec) - returned'[rec] - writtenOff'[rec] ELSE 0
        /\ h[rec] = IF type[rec[1]] = "CONSUMABLE_REQUEST" THEN re[rec] + wo[rec] ELSE 0
    BY <1>1 DEF KeepTerm
  <2> QED
    BY <2>1, <2>2, <2>3
<1>3. f \in [Records -> Int] /\ g \in [Records -> Int] /\ h \in [Records -> Nat] /\ h \in [Records -> Int]
  <2>1. f = [rec \in Records |-> f[rec]] /\ g = [rec \in Records |-> g[rec]]
        /\ h = [rec \in Records |-> h[rec]]
    BY <1>1 DEF KeepTerm
  <2> QED
    BY <1>2, <2>1
<1>4. SumFunction(f) = SumFunction(g) + SumFunction(h)
  <2>1. IsFiniteSet(Records) /\ \A rec \in Records : f[rec] = g[rec] + h[rec]
    BY <1>2, AllFinite
  <2> QED
    BY ONLY <1>3, <2>1, SumAdds
<1>5. SumFunction(g) \in Int /\ SumFunction(h) \in Nat
  BY <1>3, NatSums
<1> QED
  BY <1>1, <1>4, <1>5 DEF Keeps

(* A return or a write-off that no other pending request stands against,   *)
(* and that leaves no shared list half settled.                            *)
LEMMA ActedInv ==
  ASSUME IInv, NEW re \in RecordQuantities, NEW wo \in RecordQuantities,
         NEW r \in Requests \cup {0}, CanAct(re, wo, r), Act(re, wo),
         HeadTyped', type' = type, lines' = lines, LoansStay, NoNewLoans, OthersTyped',
         \A i \in Items : AskedAt(status', type', lines', i) = AskedAt(status, type, lines, i),
         Flow(status', type', lines', {"STOCK_IN"}) = Flow(status, type, lines, {"STOCK_IN"}),
         Flow(status', type', lines', Reserving) = Flow(status, type, lines, Reserving),
         Claims(status', type', lines') = Claims(status, type, lines),
         PersonalActs', SettlementActs', Drafts',
         \A rec \in Records : type[rec[1]] = "CONSUMABLE_REQUEST" =>
           ActsOn(status', type', ret', off', rec) + re[rec] + wo[rec]
             <= Lent(status, type, lines, rec) - returned[rec] - writtenOff[rec],
         \A rec \in Records : ActsOn(status', type', ret', off', rec) \in Nat,
         \A list \in Requests : LendsIn(status, type, list) /\ type[list] = "AGENT_REQUEST" =>
           \/ \A rec \in Records : rec[1] = list => re[rec] = 0 /\ wo[rec] = 0
           \/ \A rec \in Records : rec[1] = list =>
                returned[rec] + writtenOff[rec] + re[rec] + wo[rec] = Lent(status, type, lines, rec),
         \A q \in Requests :
           /\ status'[q] = "PENDING" /\ type'[q] = "CONSUMABLE_REQUEST"
                <=> status[q] = "PENDING" /\ type[q] = "CONSUMABLE_REQUEST"
           /\ status'[q] = "APPROVED" /\ type'[q] = "CONSUMABLE_REQUEST"
                <=> status[q] = "APPROVED" /\ type[q] = "CONSUMABLE_REQUEST"
  PROVE  IInv'
<1>1. Typed /\ StockTyped /\ StockInv /\ FlowInv /\ LendInv /\ ActInv /\ QuotaInv
  BY DEF IInv, Typed
<1>2. UNCHANGED <<rows, reserved, batchItem, received, issued, quota>>
  BY DEF Act
<1>3. /\ remaining' \in [Batches -> Nat] /\ book' \in [Items -> Nat]
      /\ SumFunction(book') = SumFunction(book) + SumFunction(re)
      /\ \A i \in Items : /\ book'[i] = HeldAt(batchItem', remaining', i)
                          /\ book[i] <= book'[i]
                          /\ i \notin rows => book'[i] = 0
  BY <1>1, ActStock
<1>4. /\ LendTyped' /\ LendInv'
      /\ \A rec \in Records : /\ returned'[rec] = returned[rec] + re[rec]
                              /\ writtenOff'[rec] = writtenOff[rec] + wo[rec]
      /\ SumFunction(returned') = SumFunction(returned) + SumFunction(re)
  BY <1>1, ActLoans
<1>5. StockTyped'
  <2>1. touched' \subseteq Batches
    BY <1>1 DEF Act, StockTyped
  <2> QED
    BY <1>1, <1>2, <1>3, <2>1 DEF StockTyped
<1>6. QuotaTyped'
  BY <1>1, <1>2 DEF Typed, QuotaTyped
<1>7. StockInv'
  <2>1. SUFFICES ASSUME NEW i \in Items
        PROVE /\ reserved'[i] = AskedAt(status', type', lines', i)
              /\ book'[i] = HeldAt(batchItem', remaining', i)
              /\ reserved'[i] <= book'[i]
              /\ i \notin rows' => book'[i] = 0
    BY DEF StockInv
  <2>2. reserved[i] = AskedAt(status, type, lines, i) /\ reserved[i] <= book[i]
    BY <1>1 DEF StockInv
  <2>3. reserved[i] \in Nat /\ book[i] \in Nat /\ book'[i] \in Nat /\ book[i] <= book'[i]
    BY <1>1, <1>3 DEF StockTyped
  <2>4. reserved'[i] <= book'[i]
    BY <1>2, <2>2, <2>3
  <2> QED
    BY <1>2, <1>3, <2>2, <2>4
<1>8. FlowInv'
  <2>1. /\ SumFunction(InitialStock) + Flow(status, type, lines, {"STOCK_IN"})
             = SumFunction(book) + Flow(status, type, lines, Reserving) - SumFunction(returned)
    BY <1>1 DEF FlowInv
  <2>2. /\ SumFunction(book) \in Nat /\ SumFunction(returned) \in Nat /\ SumFunction(re) \in Nat
        /\ Flow(status, type, lines, Reserving) \in Nat
    <3>1. book \in [Items -> Nat] /\ returned \in [Records -> Nat] /\ re \in [Records -> Nat]
      BY <1>1 DEF Typed, StockTyped, LendTyped, RecordQuantities
    <3> QED
      BY <1>1, <3>1, NatSums, AccountsNow
  <2>3. SumFunction(book) + Flow(status, type, lines, Reserving) - SumFunction(returned)
          = SumFunction(book') + Flow(status', type', lines', Reserving) - SumFunction(returned')
    BY <1>3, <1>4, <2>2
  <2> QED
    BY <2>1, <2>3 DEF FlowInv
<1>9. \A rec \in Records : Lent(status', type', lines', rec) = Lent(status, type, lines, rec)
  BY SameLent
<1>10. ASSUME NEW rec \in Records
       PROVE  /\ rec[1] \in Requests /\ rec[2] \in Items
              /\ re[rec] \in Nat /\ wo[rec] \in Nat /\ returned[rec] \in Nat /\ writtenOff[rec] \in Nat
              /\ Lent(status, type, lines, rec) \in Nat
              /\ returned[rec] + writtenOff[rec] + re[rec] + wo[rec] <= Lent(status, type, lines, rec)
  BY <1>1, ActBounds
<1>11. ActsFitOpen'
  <2>1. SUFFICES ASSUME NEW rec \in Records, type'[rec[1]] = "CONSUMABLE_REQUEST"
        PROVE ActsOn(status', type', ret', off', rec)
                <= Lent(status', type', lines', rec) - returned'[rec] - writtenOff'[rec]
    BY DEF ActsFitOpen
  <2>2. ActsOn(status', type', ret', off', rec) + re[rec] + wo[rec]
          <= Lent(status, type, lines, rec) - returned[rec] - writtenOff[rec]
    BY <2>1
  <2>3. ActsOn(status', type', ret', off', rec) \in Nat
    OBVIOUS
  <2>4. /\ Lent(status', type', lines', rec) = Lent(status, type, lines, rec)
        /\ returned'[rec] = returned[rec] + re[rec] /\ writtenOff'[rec] = writtenOff[rec] + wo[rec]
    BY <1>4, <1>9
  <2> QED
    BY <1>10, <2>2, <2>3, <2>4
<1>12. WholeLists'
  <2>1. SUFFICES ASSUME NEW list \in Requests, LendsIn(status', type', list), type'[list] = "AGENT_REQUEST"
        PROVE \/ \A rec \in Records : rec[1] = list => returned'[rec] + writtenOff'[rec] = 0
              \/ \A rec \in Records : rec[1] = list =>
                   returned'[rec] + writtenOff'[rec] = Lent(status', type', lines', rec)
    BY DEF WholeLists
  <2>2. LendsIn(status, type, list) /\ type[list] = "AGENT_REQUEST"
    BY <2>1 DEF NoNewLoans
  <2>3. CASE \A rec \in Records : rec[1] = list => re[rec] = 0 /\ wo[rec] = 0
    <3>1. \A rec \in Records : rec[1] = list => returned'[rec] + writtenOff'[rec] = returned[rec] + writtenOff[rec]
      BY <1>4, <1>10, <2>3
    <3>2. \/ \A rec \in Records : rec[1] = list => returned[rec] + writtenOff[rec] = 0
          \/ \A rec \in Records : rec[1] = list =>
               returned[rec] + writtenOff[rec] = Lent(status, type, lines, rec)
      BY <1>1, <2>2 DEF ActInv, WholeLists
    <3> QED
      BY <1>9, <3>1, <3>2
  <2>4. CASE \A rec \in Records : rec[1] = list =>
               returned[rec] + writtenOff[rec] + re[rec] + wo[rec] = Lent(status, type, lines, rec)
    <3>1. ASSUME NEW rec \in Records, rec[1] = list
          PROVE  returned'[rec] + writtenOff'[rec] = Lent(status', type', lines', rec)
      <4>1. returned[rec] + writtenOff[rec] + re[rec] + wo[rec] = Lent(status, type, lines, rec)
        BY <2>4, <3>1
      <4>2. /\ Lent(status', type', lines', rec) = Lent(status, type, lines, rec)
            /\ returned'[rec] = returned[rec] + re[rec] /\ writtenOff'[rec] = writtenOff[rec] + wo[rec]
        BY <1>4, <1>9
      <4> QED
        BY <1>10, <4>1, <4>2
    <3> QED
      BY <3>1
  <2> QED
    BY <2>2, <2>3, <2>4
<1>13. QuotaInv'
  <2>1. \A q \in Requests :
          /\ quota'[q] = "RESERVED" <=> status'[q] = "PENDING" /\ type'[q] = "CONSUMABLE_REQUEST"
          /\ quota'[q] = "CONSUMED" <=> status'[q] = "APPROVED" /\ type'[q] = "CONSUMABLE_REQUEST"
    BY <1>1, <1>2 DEF QuotaInv
  <2>2. /\ Keeps(status', type', lines', returned', writtenOff') \in Int
        /\ Keeps(status', type', lines', returned', writtenOff')
             <= Keeps(status, type, lines, returned, writtenOff)
    BY <1>1, <1>4, FewerKeeps
  <2>3. /\ Claims(status, type, lines) + Keeps(status, type, lines, returned, writtenOff) <= QuotaLimit
        /\ QuotaLimit \in Int
        /\ Claims(status, type, lines) \in Int
        /\ Keeps(status, type, lines, returned, writtenOff) \in Int
    BY <1>1, AssetAssumption, AccountsNow DEF QuotaInv
  <2>4. Claims(status', type', lines') + Keeps(status', type', lines', returned', writtenOff') <= QuotaLimit
    BY <2>2, <2>3
  <2> QED
    BY <2>1, <2>4 DEF QuotaInv
<1>14. ActInv'
  BY <1>11, <1>12 DEF ActInv
<1>15. Typed'
  BY <1>4, <1>5, <1>6 DEF Typed
<1> QED
  BY <1>4, <1>7, <1>8, <1>13, <1>14, <1>15 DEF IInv

(* An approved return, write-off or settlement: its own lines stop pending *)
(* when they are applied.                                                  *)
LEMMA ApproveActInv ==
  ASSUME IInv, NEW r \in Requests, type[r] \in Acting, Decided(r, "APPROVED"),
         CanAct(ret[r], off[r], r), Act(ret[r], off[r]), OthersTyped'
  PROVE  IInv'
<1>1. Typed /\ HeadTyped /\ LendInv /\ ActInv /\ PersonalActs /\ SettlementActs /\ ActsFitOpen /\ Drafts
  BY DEF IInv, Typed, ActInv
<1>2. /\ status[r] = "PENDING" /\ status' = [status EXCEPT ![r] = "APPROVED"]
      /\ type' = type /\ lines' = lines /\ ret' = ret /\ off' = off /\ ref' = ref
  BY DEF Decided
<1>3. /\ HeadTyped' /\ LoansStay /\ NoNewLoans /\ SumFunction(lines[r]) \in Nat
      /\ status'[r] = "APPROVED" /\ \A q \in Requests \ {r} : status'[q] = status[q]
  <2>1. /\ HeadTyped' /\ HeadsApart(r) /\ LoansStay /\ (~LendsIn(status', type', r) => NoNewLoans)
        /\ status'[r] = "APPROVED" /\ SumFunction(lines[r]) \in Nat
    BY <1>1, DecidedHeads
  <2>2. ~LendsIn(status', type', r)
    BY <1>2 DEF LendsIn, Acting, Issuing
  <2> QED
    BY <2>1, <2>2 DEF HeadsApart
<1>4. type[r] \notin Reserving /\ type[r] \notin Issuing /\ type[r] # "CONSUMABLE_REQUEST" /\ type[r] # "STOCK_IN"
  BY DEF Acting, Reserving, Issuing
<1>5. \A i \in Items : AskedAt(status', type', lines', i) = AskedAt(status, type, lines, i)
  BY <1>1, <1>4, DecidedHeads, AccountsNow
<1>6. /\ Flow(status', type', lines', {"STOCK_IN"}) = Flow(status, type, lines, {"STOCK_IN"})
      /\ Flow(status', type', lines', Reserving) = Flow(status, type, lines, Reserving)
  <2>1. \A K : Flow(status', type', lines', K) = Flow(status, type, lines, K)
                     + IF type[r] \in K THEN SumFunction(lines[r]) ELSE 0
    BY <1>1, DecidedHeads
  <2>2. \A K : Flow(status, type, lines, K) \in Nat
    BY <1>1, AccountsNow
  <2>3. ASSUME NEW K, type[r] \notin K PROVE Flow(status', type', lines', K) = Flow(status, type, lines, K)
    BY <2>1, <2>2, <2>3
  <2> QED
    BY <1>4, <2>3
<1>7. Claims(status', type', lines') = Claims(status, type, lines)
  BY <1>1, <1>4, DecidedHeads, AccountsNow
<1>8. PICK re \in RecordQuantities, wo \in RecordQuantities : re = ret[r] /\ wo = off[r]
  BY <1>1 DEF HeadTyped
<1>9. CanAct(re, wo, r) /\ Act(re, wo) /\ r \in Requests \cup {0}
  BY <1>8
<1>10. \A rec \in Records : Lent(status', type', lines', rec) = Lent(status, type, lines, rec)
  BY <1>3, SameLent
<1>11. PersonalActs'
  BY <1>1, <1>2, <1>3 DEF PersonalActs, LoansStay, Records
<1>12. SettlementActs'
  <2>1. SUFFICES ASSUME NEW q \in Requests, status'[q] \in {"DRAFT", "PENDING"}, type'[q] = "AGENT_SETTLEMENT"
        PROVE /\ ref'[q] \in Requests /\ LendsIn(status', type', ref'[q]) /\ type'[ref'[q]] = "AGENT_REQUEST"
              /\ \A rec \in Records : ret'[q][rec] + off'[q][rec] =
                              IF rec[1] = ref'[q] THEN Lent(status', type', lines', rec) ELSE 0
    BY DEF SettlementActs
  <2>2. status[q] \in {"DRAFT", "PENDING"} /\ type[q] = "AGENT_SETTLEMENT"
    BY <1>2, <1>3, <2>1
  <2>3. /\ ref[q] \in Requests /\ LendsIn(status, type, ref[q]) /\ type[ref[q]] = "AGENT_REQUEST"
        /\ \A rec \in Records : ret[q][rec] + off[q][rec] =
                              IF rec[1] = ref[q] THEN Lent(status, type, lines, rec) ELSE 0
    BY <1>1, <2>2 DEF SettlementActs
  <2> QED
    BY <1>2, <1>3, <1>10, <2>3 DEF LoansStay
<1>13. Drafts'
  BY <1>1, <1>2, <1>3 DEF Drafts
<1>14. ASSUME NEW rec \in Records
       PROVE  /\ rec[1] \in Requests
              /\ re[rec] \in Nat /\ wo[rec] \in Nat /\ returned[rec] \in Nat /\ writtenOff[rec] \in Nat
              /\ Lent(status, type, lines, rec) \in Nat
              /\ returned[rec] + writtenOff[rec] + re[rec] + wo[rec] <= Lent(status, type, lines, rec)
              /\ re[rec] = ret[r][rec] /\ wo[rec] = off[r][rec]
  <2>1. /\ rec[1] \in Requests
        /\ re[rec] \in Nat /\ wo[rec] \in Nat /\ returned[rec] \in Nat /\ writtenOff[rec] \in Nat
        /\ Lent(status, type, lines, rec) \in Nat
        /\ returned[rec] + writtenOff[rec] + re[rec] + wo[rec] <= Lent(status, type, lines, rec)
    BY <1>1, <1>9, ActBounds
  <2> QED
    BY <1>8, <2>1
<1>15. ASSUME NEW rec \in Records
       PROVE  /\ ActsOn(status', type', ret', off', rec)
                   = ActsOn(status, type, ret, off, rec)
                       - IF type[r] \in BorrowActs THEN re[rec] + wo[rec] ELSE 0
              /\ ActsOn(status', type', ret', off', rec) \in Nat
              /\ ActsOn(status, type, ret, off, rec) \in Nat
  <2>1. /\ ActsOn(status', type', ret', off', rec)
             = ActsOn(status, type, ret, off, rec) - ActTerm(status, type, ret, off, rec)[r]
        /\ ActsOn(status, type, ret, off, rec) \in Nat
    <3>1. HeadsApart(r)
      BY <1>1, DecidedHeads
    <3> QED
      BY <1>1, <1>3, <3>1, DecidedHeads, ActMoves
  <2>2. ActTerm(status, type, ret, off, rec)[r] = IF type[r] \in BorrowActs THEN re[rec] + wo[rec] ELSE 0
    BY <1>2, <1>14 DEF ActTerm
  <2>3. ActsOn(status', type', ret', off', rec) \in Nat
    <3>1. PICK f : f = ActTerm(status', type', ret', off', rec)
      OBVIOUS
    <3>2. f \in [Requests -> Nat]
      BY <1>3, <3>1 DEF HeadTyped, ActTerm, RecordQuantities
    <3> QED
      BY <3>1, <3>2, NatSums DEF ActsOn
  <2> QED
    BY <2>1, <2>2, <2>3
<1>16. ASSUME NEW rec \in Records, type[r] \in BorrowActs, re[rec] + wo[rec] > 0
       PROVE  LendsIn(status, type, rec[1]) /\ type[rec[1]] = "CONSUMABLE_REQUEST"
  BY <1>1, <1>2, <1>14, <1>16 DEF PersonalActs
<1>17. ASSUME NEW rec \in Records, type[r] = "AGENT_SETTLEMENT"
       PROVE  /\ type[ref[r]] = "AGENT_REQUEST"
              /\ re[rec] + wo[rec] = IF rec[1] = ref[r] THEN Lent(status, type, lines, rec) ELSE 0
  BY <1>1, <1>2, <1>14, <1>17 DEF SettlementActs
<1>18. type[r] \in BorrowActs \/ type[r] = "AGENT_SETTLEMENT"
  BY DEF Acting, BorrowActs
<1>19. type[r] \in BorrowActs => type[r] # "AGENT_SETTLEMENT"
  BY DEF BorrowActs
<1>20. ASSUME NEW rec \in Records, type[rec[1]] = "CONSUMABLE_REQUEST"
       PROVE  ActsOn(status', type', ret', off', rec) + re[rec] + wo[rec]
                <= Lent(status, type, lines, rec) - returned[rec] - writtenOff[rec]
  <2>1. ActsOn(status, type, ret, off, rec) <= Lent(status, type, lines, rec) - returned[rec] - writtenOff[rec]
    BY <1>1, <1>20 DEF ActsFitOpen
  <2>3. CASE type[r] \in BorrowActs
    <3>1. ActsOn(status', type', ret', off', rec) = ActsOn(status, type, ret, off, rec) - (re[rec] + wo[rec])
      BY <1>15, <2>3
    <3> QED
      BY <1>14, <1>15, <2>1, <3>1
  <2>4. CASE type[r] = "AGENT_SETTLEMENT"
    <3>1. re[rec] + wo[rec] = 0
      BY <1>17, <1>20, <2>4
    <3>2. ActsOn(status', type', ret', off', rec) = ActsOn(status, type, ret, off, rec)
      BY <1>15, <1>19, <2>4
    <3> QED
      BY <1>14, <1>15, <2>1, <3>1, <3>2
  <2> QED
    BY <1>18, <2>3, <2>4
<1>21. ASSUME NEW list \in Requests, LendsIn(status, type, list), type[list] = "AGENT_REQUEST"
       PROVE \/ \A rec \in Records : rec[1] = list => re[rec] = 0 /\ wo[rec] = 0
             \/ \A rec \in Records : rec[1] = list =>
                returned[rec] + writtenOff[rec] + re[rec] + wo[rec] = Lent(status, type, lines, rec)
  <2>1. CASE type[r] \in BorrowActs
    <3>1. ASSUME NEW rec \in Records, rec[1] = list PROVE re[rec] = 0 /\ wo[rec] = 0
      <4>1. ~(re[rec] + wo[rec] > 0)
        BY <1>16, <1>21, <2>1, <3>1
      <4> QED
        BY <1>14, <4>1
    <3> QED
      BY <3>1
  <2>2. CASE type[r] = "AGENT_SETTLEMENT" /\ list = ref[r]
    <3>1. ASSUME NEW rec \in Records, rec[1] = list
          PROVE returned[rec] + writtenOff[rec] + re[rec] + wo[rec] = Lent(status, type, lines, rec)
      <4>1. re[rec] + wo[rec] = Lent(status, type, lines, rec)
        BY <1>17, <2>2, <3>1
      <4>2. ASSUME NEW a \in Nat, NEW b \in Nat, NEW c \in Nat, NEW d \in Nat, NEW n \in Nat,
                   a + b + c + d <= n, c + d = n
            PROVE  a + b + c + d = n
        BY <4>2
      <4> QED
        BY <1>14, <4>1, <4>2
    <3> QED
      BY <3>1
  <2>3. CASE type[r] = "AGENT_SETTLEMENT" /\ list # ref[r]
    <3>1. ASSUME NEW rec \in Records, rec[1] = list PROVE re[rec] = 0 /\ wo[rec] = 0
      <4>1. re[rec] + wo[rec] = 0
        BY <1>17, <2>3, <3>1
      <4> QED
        BY <1>14, <4>1
    <3> QED
      BY <3>1
  <2> QED
    BY <1>18, <2>1, <2>2, <2>3
<1>22. \A q \in Requests :
           /\ status'[q] = "PENDING" /\ type'[q] = "CONSUMABLE_REQUEST"
                <=> status[q] = "PENDING" /\ type[q] = "CONSUMABLE_REQUEST"
           /\ status'[q] = "APPROVED" /\ type'[q] = "CONSUMABLE_REQUEST"
                <=> status[q] = "APPROVED" /\ type[q] = "CONSUMABLE_REQUEST"
  BY <1>2, <1>3, <1>4
<1> QED
  BY <1>2, <1>3, <1>5, <1>6, <1>7, <1>9, <1>11, <1>12, <1>13, <1>15, <1>20, <1>21, <1>22, ActedInv

(* A disposal decides no request.                                          *)
LEMMA DirectActInv ==
  ASSUME IInv, NEW re \in RecordQuantities, NEW wo \in RecordQuantities,
         CanAct(re, wo, 0), Act(re, wo), UNCHANGED <<headVars, otherVars, seen>>,
         \A rec \in Records : type[rec[1]] = "CONSUMABLE_REQUEST" =>
           ActsOn(status, type, ret, off, rec) + re[rec] + wo[rec]
             <= Lent(status, type, lines, rec) - returned[rec] - writtenOff[rec],
         \A list \in Requests : LendsIn(status, type, list) /\ type[list] = "AGENT_REQUEST" =>
           \/ \A rec \in Records : rec[1] = list => re[rec] = 0 /\ wo[rec] = 0
           \/ \A rec \in Records : rec[1] = list =>
                returned[rec] + writtenOff[rec] + re[rec] + wo[rec] = Lent(status, type, lines, rec)
  PROVE  IInv'
<1>1. Typed /\ HeadTyped /\ PersonalActs /\ SettlementActs /\ Drafts /\ OthersTyped
  BY DEF IInv, Typed, ActInv
<1>2. /\ type' = type /\ status' = status /\ lines' = lines
      /\ ret' = ret /\ off' = off /\ ref' = ref
  BY DEF headVars
<1>3. HeadTyped'
  BY <1>1, <1>2 DEF HeadTyped
<1>4. OthersTyped'
  BY <1>1 DEF OthersTyped, otherVars
<1>5. LoansStay /\ NoNewLoans
  BY <1>2 DEF LoansStay, NoNewLoans
<1>6. PersonalActs'
  BY <1>1, <1>2 DEF PersonalActs
<1>7. SettlementActs'
  BY <1>1, <1>2 DEF SettlementActs
<1>8. Drafts'
  BY <1>1, <1>2 DEF Drafts
<1>9. \A rec \in Records : ActsOn(status', type', ret', off', rec) \in Nat
  <2>1. \A rec \in Records : ActTerm(status, type, ret, off, rec) \in [Requests -> Nat]
    BY <1>1, ActTypes
  <2>2. \A rec \in Records : ActsOn(status, type, ret, off, rec) \in Nat
    BY <2>1, NatSums DEF ActsOn
  <2> QED
    BY <1>2, <2>2
<1>10. 0 \in Requests \cup {0}
  OBVIOUS
<1>11. \A rec \in Records : type[rec[1]] = "CONSUMABLE_REQUEST" =>
           ActsOn(status', type', ret', off', rec) + re[rec] + wo[rec]
             <= Lent(status, type, lines, rec) - returned[rec] - writtenOff[rec]
  BY <1>2
<1>12. /\ \A i \in Items : AskedAt(status', type', lines', i) = AskedAt(status, type, lines, i)
       /\ Flow(status', type', lines', {"STOCK_IN"}) = Flow(status, type, lines, {"STOCK_IN"})
       /\ Flow(status', type', lines', Reserving) = Flow(status, type, lines, Reserving)
       /\ Claims(status', type', lines') = Claims(status, type, lines)
  BY <1>2
<1>13. \A q \in Requests :
           /\ status'[q] = "PENDING" /\ type'[q] = "CONSUMABLE_REQUEST"
                <=> status[q] = "PENDING" /\ type[q] = "CONSUMABLE_REQUEST"
           /\ status'[q] = "APPROVED" /\ type'[q] = "CONSUMABLE_REQUEST"
                <=> status[q] = "APPROVED" /\ type[q] = "CONSUMABLE_REQUEST"
  BY <1>2
<1> QED
  BY <1>2, <1>3, <1>4, <1>5, <1>6, <1>7, <1>8, <1>9, <1>10, <1>11, <1>12, <1>13, ActedInv

(* Records of a deactivated employee: what is disposed of is available.    *)
LEMMA DisposeInv == ASSUME IInv, Dispose PROVE IInv'
<1>1. Typed /\ HeadTyped /\ LendInv /\ ActsFitOpen
  BY DEF IInv, Typed, ActInv
<1>2. PICK recs \in NonEmpty(OwnOpen) :
        \E n \in [recs -> 1 .. MaxLine], returning \in SUBSET recs :
          LET returns == [x \in Records |-> IF x \in returning THEN n[x] ELSE 0]
              writeOffs == [x \in Records |-> IF x \in recs \ returning THEN n[x] ELSE 0]
          IN /\ CanAct(returns, writeOffs, 0)
             /\ Act(returns, writeOffs)
             /\ UNCHANGED <<headVars, otherVars, seen>>
  BY DEF Dispose
<1>3. PICK n \in [recs -> 1 .. MaxLine] :
        \E returning \in SUBSET recs :
          LET returns == [x \in Records |-> IF x \in returning THEN n[x] ELSE 0]
              writeOffs == [x \in Records |-> IF x \in recs \ returning THEN n[x] ELSE 0]
          IN /\ CanAct(returns, writeOffs, 0)
             /\ Act(returns, writeOffs)
             /\ UNCHANGED <<headVars, otherVars, seen>>
  BY <1>2
<1>4. PICK returning \in SUBSET recs :
          LET returns == [x \in Records |-> IF x \in returning THEN n[x] ELSE 0]
              writeOffs == [x \in Records |-> IF x \in recs \ returning THEN n[x] ELSE 0]
          IN /\ CanAct(returns, writeOffs, 0)
             /\ Act(returns, writeOffs)
             /\ UNCHANGED <<headVars, otherVars, seen>>
  BY <1>3
<1>5. PICK re, wo : /\ re = [x \in Records |-> IF x \in returning THEN n[x] ELSE 0]
                    /\ wo = [x \in Records |-> IF x \in recs \ returning THEN n[x] ELSE 0]
  OBVIOUS
<1>6. CanAct(re, wo, 0) /\ Act(re, wo) /\ UNCHANGED <<headVars, otherVars, seen>>
  BY <1>4, <1>5
<1>7. \A x \in recs : x \in Records /\ type[x[1]] = "CONSUMABLE_REQUEST" /\ n[x] \in Nat
  BY <1>2, <1>3, AssetAssumption DEF NonEmpty, OwnOpen, Personal
<1>8. ASSUME NEW x \in Records
      PROVE  /\ re[x] \in Nat /\ wo[x] \in Nat /\ (re[x] = 0 \/ wo[x] = 0)
             /\ (type[x[1]] # "CONSUMABLE_REQUEST" => re[x] = 0 /\ wo[x] = 0)
  BY <1>4, <1>5, <1>7
<1>9. re \in RecordQuantities /\ wo \in RecordQuantities
  <2>1. re = [x \in Records |-> re[x]] /\ wo = [x \in Records |-> wo[x]]
    BY <1>5
  <2> QED
    BY <1>8, <2>1 DEF RecordQuantities
<1>10. ASSUME NEW rec \in Records, type[rec[1]] = "CONSUMABLE_REQUEST"
       PROVE  ActsOn(status, type, ret, off, rec) + re[rec] + wo[rec]
                <= Lent(status, type, lines, rec) - returned[rec] - writtenOff[rec]
  <2>1. /\ (re[rec] > 0 => re[rec] <= Available(rec, 0))
        /\ (wo[rec] > 0 => wo[rec] <= Available(rec, 0))
        /\ returned[rec] \in Nat /\ writtenOff[rec] \in Nat /\ Lent(status, type, lines, rec) \in Nat
    BY <1>1, <1>6, <1>9, ActBounds
  <2>2. Available(rec, 0) = Open(rec) - ActsOn(status, type, ret, off, rec)
          + IF 0 \in Requests THEN ActTerm(status, type, ret, off, rec)[0] ELSE 0
    BY <1>1, AvailableIs
  <2>3. 0 \notin Requests
    BY AllFinite
  <2>4. ActsOn(status, type, ret, off, rec) \in Nat
    <3>1. ActTerm(status, type, ret, off, rec) \in [Requests -> Nat]
      BY <1>1, ActTypes
    <3> QED
      BY <3>1, NatSums DEF ActsOn
  <2>5. Open(rec) = Lent(status, type, lines, rec) - returned[rec] - writtenOff[rec]
    BY <1>1, OpenIs
  <2>6. ActsOn(status, type, ret, off, rec)
          <= Lent(status, type, lines, rec) - returned[rec] - writtenOff[rec]
    BY <1>1, <1>10 DEF ActsFitOpen
  <2>7. PICK open \in Int, acts \in Nat :
          /\ open = Lent(status, type, lines, rec) - returned[rec] - writtenOff[rec]
          /\ acts = ActsOn(status, type, ret, off, rec)
    BY <2>1, <2>4
  <2>8. Available(rec, 0) = open - acts
    BY <2>2, <2>3, <2>5, <2>7
  <2>9. acts + re[rec] + wo[rec] <= open
    BY <1>8, <2>1, <2>6, <2>7, <2>8
  <2> QED
    BY <2>7, <2>9
<1>11. ASSUME NEW list \in Requests, type[list] = "AGENT_REQUEST"
       PROVE  \A rec \in Records : rec[1] = list => re[rec] = 0 /\ wo[rec] = 0
  BY <1>8, <1>11
<1> QED
  BY <1>6, <1>9, <1>10, <1>11, DirectActInv

(* The whole shared list of a deactivated proxy.                           *)
LEMMA DisposeAgentSettleInv == ASSUME IInv, DisposeAgentSettle PROVE IInv'
<1>1. Typed /\ HeadTyped /\ LendInv /\ ActsFitOpen /\ WholeLists
  BY DEF IInv, Typed, ActInv
<1>2. PICK list \in {q \in Requests : type[q] = "AGENT_REQUEST"} :
        \E n \in [OpenOf(list) -> 0 .. MaxLine] :
         /\ OpenOf(list) # {} /\ Split(list, n)
         /\ CanAct(Kept(n), Lost(n), 0)
         /\ Act(Kept(n), Lost(n))
         /\ UNCHANGED <<headVars, otherVars, seen>>
  BY DEF DisposeAgentSettle
<1>3. PICK n \in [OpenOf(list) -> 0 .. MaxLine] :
         /\ OpenOf(list) # {} /\ Split(list, n)
         /\ CanAct(Kept(n), Lost(n), 0)
         /\ Act(Kept(n), Lost(n))
         /\ UNCHANGED <<headVars, otherVars, seen>>
  BY <1>2
<1>4. list \in Requests /\ type[list] = "AGENT_REQUEST"
  BY <1>2
<1>5. /\ Kept(n) \in RecordQuantities /\ Lost(n) \in RecordQuantities
      /\ \A x \in Records : Kept(n)[x] + Lost(n)[x] = IF x[1] = list THEN Lent(status, type, lines, x) ELSE 0
  BY <1>1, <1>3, <1>4, SplitIs
<1>6. PICK re \in RecordQuantities, wo \in RecordQuantities : re = Kept(n) /\ wo = Lost(n)
  BY <1>5
<1>7. /\ CanAct(re, wo, 0) /\ Act(re, wo) /\ UNCHANGED <<headVars, otherVars, seen>>
      /\ 0 \in Requests \cup {0}
  BY <1>3, <1>6
<1>8. ASSUME NEW x \in Records
      PROVE  /\ re[x] \in Nat /\ wo[x] \in Nat
             /\ (x[1] # list => re[x] = 0 /\ wo[x] = 0)
             /\ (x[1] = list => re[x] + wo[x] = Lent(status, type, lines, x))
  <2>1. re[x] + wo[x] = IF x[1] = list THEN Lent(status, type, lines, x) ELSE 0
    BY <1>5, <1>6
  <2>2. re[x] \in Nat /\ wo[x] \in Nat
    BY DEF RecordQuantities
  <2> QED
    BY <2>1, <2>2
<1>9. ASSUME NEW x \in Records, x[1] = list
      PROVE  returned[x] + writtenOff[x] + re[x] + wo[x] = Lent(status, type, lines, x)
  <2>1. /\ returned[x] \in Nat /\ writtenOff[x] \in Nat /\ Lent(status, type, lines, x) \in Nat
        /\ returned[x] + writtenOff[x] + re[x] + wo[x] <= Lent(status, type, lines, x)
    BY <1>1, <1>7, ActBounds
  <2>2. ASSUME NEW a \in Nat, NEW b \in Nat, NEW c \in Nat, NEW d \in Nat, NEW m \in Nat,
               a + b + c + d <= m, c + d = m
        PROVE  a + b + c + d = m
    BY <2>2
  <2>3. re[x] \in Nat /\ wo[x] \in Nat /\ re[x] + wo[x] = Lent(status, type, lines, x)
    BY <1>8, <1>9
  <2> QED
    BY <2>1, <2>2, <2>3
<1>10. ASSUME NEW rec \in Records, type[rec[1]] = "CONSUMABLE_REQUEST"
       PROVE  ActsOn(status, type, ret, off, rec) + re[rec] + wo[rec]
                <= Lent(status, type, lines, rec) - returned[rec] - writtenOff[rec]
  <2>1. re[rec] = 0 /\ wo[rec] = 0
    BY <1>4, <1>8, <1>10
  <2>2. ActsOn(status, type, ret, off, rec)
          <= Lent(status, type, lines, rec) - returned[rec] - writtenOff[rec]
    BY <1>1, <1>10 DEF ActsFitOpen
  <2>3. ActsOn(status, type, ret, off, rec) \in Nat
    <3>1. ActTerm(status, type, ret, off, rec) \in [Requests -> Nat]
      BY <1>1, ActTypes
    <3> QED
      BY <3>1, NatSums DEF ActsOn
  <2> QED
    BY <2>1, <2>2, <2>3
<1>11. ASSUME NEW other \in Requests, type[other] = "AGENT_REQUEST"
       PROVE  \/ \A rec \in Records : rec[1] = other => re[rec] = 0 /\ wo[rec] = 0
              \/ \A rec \in Records : rec[1] = other =>
                   returned[rec] + writtenOff[rec] + re[rec] + wo[rec] = Lent(status, type, lines, rec)
  BY <1>8, <1>9
<1> QED
  BY <1>7, <1>10, <1>11, DirectActInv

-----------------------------------------------------------------------------
(* A decision: the head is still the one that was read, or nothing happens. *)
LEMMA DecideInv ==
  ASSUME IInv, NEW d \in Deciders \cup {"scan"}, Decide(d)
  PROVE  IInv'
<1>1. OthersTyped /\ OthersTyped'
  <2>1. OthersTyped
    BY DEF IInv, Typed
  <2>2. seen' = [seen EXCEPT ![d] = Nobody] /\ UNCHANGED otherVars
    BY DEF Decide, Clear
  <2>3. Nobody \in [req : Requests \cup {0}, action : Actions \cup {"none"}]
    BY DEF Nobody
  <2>4. \A e \in Deciders \cup {"scan"} : seen'[e] # Nobody => seen'[e].req \in Requests
    BY <2>1, <2>2 DEF OthersTyped
  <2> QED
    BY <2>1, <2>2, <2>3, <2>4 DEF OthersTyped, otherVars
<1>2. PICK r, a : r = seen[d].req /\ a = seen[d].action
  OBVIOUS
<1>3. r \in Requests
  BY <1>1, <1>2 DEF Decide, OthersTyped
<1>4. /\ IF StillPending(r) /\ (IF a = "APPROVE" THEN CanApply(r) ELSE CanRelease(r, a))
          THEN /\ status' = [status EXCEPT ![r] = Outcome(a)]
               /\ IF a = "APPROVE" THEN Apply(r) ELSE Release(r)
          ELSE UNCHANGED <<stockVars, status, lendVars, quota>>
      /\ UNCHANGED <<type, lines, ret, off, ref>>
  BY <1>2 DEF Decide
<1>5. CASE ~(StillPending(r) /\ (IF a = "APPROVE" THEN CanApply(r) ELSE CanRelease(r, a)))
  <2>1. UNCHANGED <<stockVars, headVars, lendVars, quota>>
    BY <1>4, <1>5 DEF headVars
  <2> QED
    BY <1>1, <2>1, NothingMoves
<1>6. CASE StillPending(r) /\ a = "APPROVE" /\ CanApply(r)
  <2>1. Decided(r, "APPROVED") /\ Apply(r)
    BY <1>4, <1>6 DEF StillPending, Decided, Outcome
  <2>2. CASE type[r] = "STOCK_IN" /\ Receive(r)
    BY <1>1, <1>3, <2>1, <2>2, ReceiveInv
  <2>3. CASE type[r] \in Reserving /\ Issue(r)
    <3>1. CanIssue(r)
      BY <1>6, <2>3 DEF CanApply, Reserving, Issuing
    <3> QED
      BY <1>1, <1>3, <2>1, <2>3, <3>1, IssueInv
  <2>4. CASE type[r] \in Acting /\ Act(ret[r], off[r])
    <3>1. CanAct(ret[r], off[r], r)
      <4>1. type[r] # "STOCK_IN" /\ type[r] \notin Reserving
        BY <2>4 DEF Acting, Reserving, Issuing
      <4> QED
        BY <1>6, <4>1 DEF CanApply
    <3> QED
      BY <1>1, <1>3, <2>1, <2>4, <3>1, ApproveActInv
  <2> QED
    BY <2>1, <2>2, <2>3, <2>4 DEF Apply
<1>7. CASE StillPending(r) /\ a # "APPROVE" /\ CanRelease(r, a)
  <2>1. PICK s \in {"REJECTED", "CANCELLED"} : s = Outcome(a)
    BY <1>7 DEF Outcome
  <2>2. Decided(r, s) /\ Release(r)
    BY <1>4, <1>7, <2>1 DEF StillPending, Decided
  <2> QED
    BY <1>1, <1>3, <2>2, ReleaseInv
<1> QED
  BY <1>5, <1>6, <1>7

(* Every operation but a deletion keeps the invariant, also between the    *)
(* count of the references and the deletion.                               *)
LEMMA StepInv == ASSUME IInv, [Next]_vars PROVE DeleteConsumable \/ IInv'
<1>1. CASE UNCHANGED vars
  <2>1. UNCHANGED <<stockVars, headVars, lendVars, quota, otherVars, seen>>
    BY <1>1 DEF vars
  <2>2. OthersTyped'
    BY <2>1 DEF IInv, Typed, OthersTyped, otherVars
  <2> QED
    BY <2>1, <2>2, NothingMoves
<1>2. CASE Next
  <2>1. ASSUME NEW r \in Requests, Submit(r) PROVE IInv'
    BY <2>1, SubmitReservingInv, SubmitStockInInv, SubmitBorrowActionInv, DraftSettlementInv,
       InsertSettlementInv DEF Submit
  <2>2. ASSUME NEW r \in Requests, NEW d \in Deciders, ReadHead(d, r) PROVE IInv'
    BY <2>2, ReadInv
  <2>3. ASSUME NEW d \in Deciders, Decide(d) PROVE IInv'
    BY <2>3, DecideInv
  <2>4. ASSUME Scan PROVE IInv'
    BY <2>4, ReadInv, DecideInv DEF Scan
  <2>5. ASSUME NEW i \in Items, NEW j \in Items, Transfer(i, j) PROVE IInv'
    BY <2>5, TransferInv
  <2>6. ASSUME NEW b \in Batches, NEW j \in Items, Correct(b, j) PROVE IInv'
    BY <2>6, CorrectInv
  <2>7. ASSUME SetActive \/ SetStatus PROVE IInv'
    BY <2>7, ReadInv
  <2>8. ASSUME Dispose \/ DisposeAgentSettle PROVE IInv'
    BY <2>8, DisposeInv, DisposeAgentSettleInv
  <2>9. ASSUME CountReferences PROVE IInv'
    <3>1. UNCHANGED <<stockVars, headVars, lendVars, quota>> /\ deleting' = TRUE
          /\ UNCHANGED <<consumable, active, seen>>
      BY <2>9 DEF CountReferences
    <3>2. OthersTyped'
      BY <3>1 DEF IInv, Typed, OthersTyped
    <3> QED
      BY <3>1, <3>2, NothingMoves
  <2> QED
    BY <1>2, <2>1, <2>2, <2>3, <2>4, <2>5, <2>6, <2>7, <2>8, <2>9 DEF Next
<1> QED
  BY <1>1, <1>2

(* A deletion is for good, and it has counted references before.           *)
LEMMA DeletedStays ==
  ASSUME [Next]_vars
  PROVE  /\ consumable = "DELETED" => consumable' = "DELETED"
         /\ DeleteConsumable => consumable' = "DELETED"
         /\ "delete" \notin Features /\ ~deleting /\ consumable # "DELETED" =>
              ~deleting' /\ consumable' # "DELETED"
<1>1. CASE UNCHANGED vars
  BY <1>1 DEF vars, otherVars, DeleteConsumable
<1>2. CASE Next
  <2>1. ASSUME NEW r \in Requests, Submit(r) PROVE UNCHANGED <<consumable, deleting>>
    BY <2>1 DEF Submit, SubmitReserving, SubmitStockIn, SubmitBorrowAction, DraftSettlement,
       InsertSettlement, otherVars
  <2>2. ASSUME NEW r \in Requests, NEW d \in Deciders, ReadHead(d, r) PROVE UNCHANGED <<consumable, deleting>>
    BY <2>2 DEF ReadHead, otherVars
  <2>3. ASSUME NEW d, Decide(d) PROVE UNCHANGED <<consumable, deleting>>
    BY <2>3 DEF Decide, otherVars
  <2>4. ASSUME ReadOverdue PROVE UNCHANGED <<consumable, deleting>>
    BY <2>4 DEF ReadOverdue, otherVars
  <2>5. ASSUME NEW i \in Items, NEW j \in Items, Transfer(i, j) PROVE UNCHANGED <<consumable, deleting>>
    BY <2>5 DEF Transfer, otherVars
  <2>6. ASSUME NEW b \in Batches, NEW j \in Items, Correct(b, j) PROVE UNCHANGED <<consumable, deleting>>
    BY <2>6 DEF Correct, otherVars
  <2>7. ASSUME Dispose \/ DisposeAgentSettle PROVE UNCHANGED <<consumable, deleting>>
    BY <2>7 DEF Dispose, DisposeAgentSettle, otherVars
  <2>8. ASSUME SetActive PROVE UNCHANGED <<consumable, deleting>>
    BY <2>8 DEF SetActive
  <2>9. ASSUME SetStatus PROVE consumable # "DELETED" /\ consumable' # "DELETED" /\ UNCHANGED deleting
    BY <2>9 DEF SetStatus
  <2>10. ASSUME CountReferences PROVE "delete" \in Features /\ UNCHANGED consumable
    BY <2>10 DEF CountReferences
  <2>11. ASSUME DeleteConsumable PROVE deleting /\ consumable' = "DELETED"
    BY <2>11 DEF DeleteConsumable
  <2> QED
    BY <1>2, <2>1, <2>2, <2>3, <2>4, <2>5, <2>6, <2>7, <2>8, <2>9, <2>10, <2>11 DEF Next, Scan
<1> QED
  BY <1>1, <1>2

(* No step of any kind makes a stock row of a deleted consumable.          *)
LEMMA NothingStep == ASSUME NothingAfterDeletion, [Next]_vars PROVE NothingAfterDeletion'
<1>1. SUFFICES ASSUME consumable' = "DELETED", ~DeleteConsumable PROVE rows' = {}
  BY DEF NothingAfterDeletion, DeleteConsumable
<1>2. CASE UNCHANGED vars
  BY <1>1, <1>2 DEF vars, otherVars, stockVars, NothingAfterDeletion
<1>3. CASE Next
  <2>1. ASSUME NEW r \in Requests, Submit(r) PROVE UNCHANGED <<consumable, rows>>
    BY <2>1 DEF Submit, SubmitReserving, SubmitStockIn, SubmitBorrowAction, DraftSettlement,
       InsertSettlement, otherVars, stockVars
  <2>2. ASSUME NEW r \in Requests, NEW d \in Deciders, ReadHead(d, r) PROVE UNCHANGED <<consumable, rows>>
    BY <2>2 DEF ReadHead, otherVars, stockVars
  <2>3. ASSUME ReadOverdue PROVE UNCHANGED <<consumable, rows>>
    BY <2>3 DEF ReadOverdue, otherVars, stockVars
  <2>4. ASSUME NEW d, Decide(d), rows = {}, consumable = "DELETED" PROVE rows' = {}
    <3>1. PICK r, a : r = seen[d].req /\ a = seen[d].action
      OBVIOUS
    <3>2. IF StillPending(r) /\ (IF a = "APPROVE" THEN CanApply(r) ELSE CanRelease(r, a))
            THEN IF a = "APPROVE" THEN Apply(r) ELSE Release(r)
            ELSE UNCHANGED stockVars
      BY <2>4, <3>1 DEF Decide
    <3>3. UNCHANGED stockVars => UNCHANGED rows
      BY DEF stockVars
    <3>4. Release(r) => UNCHANGED rows
      BY DEF Release
    <3>5. ASSUME Apply(r), CanApply(r) PROVE rows' = {}
      <4>1. ~(type[r] = "STOCK_IN")
        BY <2>4, <3>5 DEF CanApply, CanReceive, Reserving, Issuing
      <4>2. CASE Issue(r)
        <5>1. \A S, newBook, newReserved, keep : Swept(S, newBook, newReserved, keep) \subseteq rows
          BY DEF Swept
        <5>2. rows' \subseteq rows
          BY <4>2, <5>1 DEF Issue
        <5> QED
          BY <2>4, <5>2
      <4>3. CASE Act(ret[r], off[r])
        BY <2>4, <4>3 DEF Act
      <4> QED
        BY <3>5, <4>1, <4>2, <4>3 DEF Apply
    <3> QED
      BY <2>4, <3>2, <3>3, <3>4, <3>5
  <2>5. ASSUME NEW d, Decide(d) PROVE UNCHANGED consumable
    BY <2>5 DEF Decide, otherVars
  <2>6. ASSUME NEW i \in Items, NEW j \in Items, Transfer(i, j) PROVE rows # {} /\ UNCHANGED consumable
    BY <2>6 DEF Transfer, otherVars
  <2>7. ASSUME NEW b \in Batches, NEW j \in Items, Correct(b, j) PROVE rows # {} /\ UNCHANGED consumable
    BY <2>7 DEF Correct, otherVars
  <2>8. ASSUME Dispose \/ DisposeAgentSettle PROVE UNCHANGED <<consumable, rows>>
    BY <2>8 DEF Dispose, DisposeAgentSettle, otherVars, Act
  <2>9. ASSUME SetActive \/ CountReferences PROVE UNCHANGED <<consumable, rows>>
    BY <2>9 DEF SetActive, CountReferences, stockVars
  <2>10. ~SetStatus
    BY <1>1 DEF SetStatus
  <2>11. CASE rows = {} /\ consumable = "DELETED"
    BY <1>1, <1>3, <2>1, <2>2, <2>3, <2>4, <2>6, <2>7, <2>8, <2>9, <2>10, <2>11 DEF Next, Scan
  <2>12. consumable = "DELETED"
    BY <1>1, <1>3, <2>1, <2>2, <2>3, <2>5, <2>6, <2>7, <2>8, <2>9, <2>10 DEF Next, Scan
  <2> QED
    BY <2>11, <2>12 DEF NothingAfterDeletion
<1> QED
  BY <1>2, <1>3

-----------------------------------------------------------------------------
(* What holds in every reachable state.                                    *)

LEMMA InvUntilDeleted == Spec => [](consumable # "DELETED" => IInv)
<1>1. Init => (consumable # "DELETED" => IInv)
  BY InitInv
<1>2. (consumable # "DELETED" => IInv) /\ [Next]_vars => (consumable # "DELETED" => IInv)'
  BY StepInv, DeletedStays
<1> QED
  BY <1>1, <1>2, PTL DEF Spec

(* While the consumable is not deleted, quantities never go below zero and *)
(* the three accounts of its stock agree: reserved with what pending       *)
(* requests ask, booked with what the batches hold, and the whole with     *)
(* what came in and went out.  The inventory, claim, borrow, transfer and  *)
(* correction services keep them apart, one row at a time.                 *)
THEOREM StockStaysSound == Spec => [](consumable # "DELETED" => StockSound)
  BY InvUntilDeleted, InvIsStockSound, PTL

(* While the consumable is not deleted, whatever an open borrow record has *)
(* not given back, its batches still owe, at the location it was lent from *)
(* (cleanupEmptyItem, transfers and corrections leave both alone), so that *)
(* restoreRecord can put it back.                                          *)
THEOREM BorrowedStaysReturnable == Spec => [](consumable # "DELETED" => Returnable)
  BY InvUntilDeleted, InvIsReturnable, PTL

(* While the consumable is not deleted, the pending returns and write-offs *)
(* of a personal record together ask for no more than is open, so any of   *)
(* them can be approved, in any order (availableActionQty, at submission,  *)
(* at approval and at direct disposal).                                    *)
THEOREM PendingActionsFit == Spec => [](consumable # "DELETED" => ActionsFit)
  BY InvUntilDeleted, InvIsActionsFit, PTL

(* While the consumable is not deleted, the quota table counts exactly the *)
(* employee's claims, and these stay within the limit of the cycle         *)
(* (assertQuota, and the moves of quota_occupations with each decision).   *)
THEOREM QuotaStaysKept == Spec => [](consumable # "DELETED" => QuotaKept)
  BY InvUntilDeleted, InvIsQuotaKept, PTL

(* While the consumable is not deleted, a shared list has given nothing    *)
(* back or is closed for all its records, whoever settled it: a settlement *)
(* request, drafted without a lock and approved later, or disposeAgentSettle. *)
THEOREM SharedListsSettledWhole == Spec => [](consumable # "DELETED" => SettledWhole)
  BY InvUntilDeleted, InvIsSettledWhole, PTL

(* Where nothing is ever deleted, all five hold in every state: only the   *)
(* two steps of ConsumableService.batchDelete stand between them and any   *)
(* history.                                                                *)
THEOREM SoundWithoutDeletions ==
  ASSUME "delete" \notin Features
  PROVE  Spec => [](StockSound /\ Returnable /\ ActionsFit /\ QuotaKept /\ SettledWhole)
<1> DEFINE Whole == ~deleting /\ consumable # "DELETED"
<1>1. Init => Whole
  BY DEF Init
<1>2. Whole /\ [Next]_vars => Whole'
  BY DeletedStays
<1>3. Spec => []Whole
  BY <1>1, <1>2, PTL DEF Spec
<1>4. Whole /\ (consumable # "DELETED" => IInv)
        => StockSound /\ Returnable /\ ActionsFit /\ QuotaKept /\ SettledWhole
  BY InvIsStockSound, InvIsReturnable, InvIsActionsFit, InvIsQuotaKept, InvIsSettledWhole
<1> QED
  BY <1>3, <1>4, InvUntilDeleted, PTL

(* No stock row of a deleted consumable appears again, whatever was under  *)
(* way when it was deleted: an approval of a stock-in looks the consumable *)
(* up again, and every other operation needs a row that exists.            *)
THEOREM NothingComesBack == Spec => []NothingAfterDeletion
<1>1. Init => NothingAfterDeletion
  BY DEF Init, NothingAfterDeletion
<1>2. NothingAfterDeletion /\ [Next]_vars => NothingAfterDeletion'
  BY NothingStep
<1> QED
  BY <1>1, <1>2, PTL DEF Spec

=============================================================================
