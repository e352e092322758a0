-------------------------- MODULE AssetRows_proofs --------------------------
(***************************************************************************)
(* The rows of the asset service under transactions that run at the same   *)
(* time, for any number of them: rows locked in one order never lock up,   *)
(* and operations of one line lock theirs so; an asset in repair has the   *)
(* order that brings it back; a revoked code stays revoked.                *)
(***************************************************************************)
EXTENDS AssetLocks, FixedAssets, FiniteSetTheorems, WellFoundedInduction, TLAPS

-----------------------------------------------------------------------------
(* Locks.  An order of locking is enough: when the rows can be numbered so *)
(* that every program locks them in increasing order, transactions never   *)
(* wait for one another in a cycle.                                        *)

(* What a transaction runs is one of the programs or nothing, and it never *)
(* holds more than its program has asked for.                              *)
WellFormed ==
  /\ program \in [Tx -> Programs \cup {<<>>}]
  /\ pos \in [Tx -> Nat]
  /\ \A t \in Tx : pos[t] <= Len(program[t])

(* Whatever a transaction runs is a sequence of locks.                     *)
LEMMA ProgramsAreSequences ==
  \A p \in Programs \cup {<<>>} :
    p \in Seq(Lock) /\ Len(p) \in Nat /\ \A k \in 1 .. Len(p) : p[k] \in Lock
<1>1. \A p \in Programs \cup {<<>>} : p \in Seq(Lock)
  <2>1. <<>> \in Seq(Lock)
    OBVIOUS
  <2> QED
    BY <2>1, ProgramsAssumption, Zenon
<1> QED
  BY <1>1

(* Begin, Acquire and Commit keep the transactions well-formed.            *)
THEOREM AlwaysWellFormed == Spec => []WellFormed
<1>1. Init => WellFormed
  BY DEF Init, WellFormed
<1>2. WellFormed /\ [Next]_vars => WellFormed'
  <2> SUFFICES ASSUME WellFormed, [Next]_vars PROVE WellFormed'
    OBVIOUS
  <2>1. ASSUME NEW t \in Tx, Begin(t) PROVE WellFormed'
    <3>1. PICK p \in Programs : program' = [program EXCEPT ![t] = p]
      BY <2>1 DEF Begin
    <3>2. program' \in [Tx -> Programs \cup {<<>>}]
      BY <3>1 DEF WellFormed
    <3>3. pos' = pos /\ pos[t] <= 0
      BY <2>1 DEF Begin, WellFormed
    <3>4. Len(p) \in Nat
      BY ProgramsAreSequences
    <3>5. pos[t] <= Len(p)
      BY <3>3, <3>4 DEF WellFormed
    <3> QED
      BY <3>1, <3>2, <3>3, <3>5 DEF WellFormed
  <2>2. ASSUME NEW t \in Tx, Acquire(t) PROVE WellFormed'
    <3>1. pos[t] \in Nat /\ Len(program[t]) \in Nat /\ pos[t] < Len(program[t])
      BY <2>2, ProgramsAreSequences DEF Acquire, Waiting, WellFormed
    <3> QED
      BY <2>2, <3>1 DEF Acquire, WellFormed
  <2>3. ASSUME NEW t \in Tx, Commit(t) PROVE WellFormed'
    BY <2>3 DEF Commit, WellFormed
  <2>4. CASE UNCHANGED vars
    BY <2>4 DEF vars, WellFormed
  <2> QED
    BY <2>1, <2>2, <2>3, <2>4 DEF Next
<1> QED
  BY <1>1, <1>2, PTL DEF Spec

(* The row a transaction of a set that waits on itself waits for has a     *)
(* higher number than the row the one it holds up waits for.               *)
LEMMA WaitingClimbs ==
  ASSUME NEW n \in Nat, NEW rank \in [Rows -> 0 .. n], Ascending(rank), WellFormed,
         NEW t \in Tx, NEW u \in Tx, WaitsFor(t, u), Waiting(u)
  PROVE  /\ rank[Wanted(t).row] \in 0 .. n /\ rank[Wanted(u).row] \in 0 .. n
         /\ rank[Wanted(t).row] < rank[Wanted(u).row]
<1>1. PICK k \in 1 .. pos[u] : program[u][k].row = Wanted(t).row
  BY DEF WaitsFor, Held, Conflict
<1>2. pos[u] \in Nat /\ Len(program[u]) \in Nat /\ pos[u] + 1 \in 1 .. Len(program[u])
  BY ProgramsAreSequences DEF WellFormed, Waiting
<1>3. k \in 1 .. Len(program[u]) /\ k < pos[u] + 1
  BY <1>2
<1>4. program[u] \in Programs
  <2>1. program[u] # <<>>
    BY <1>2
  <2> QED
    BY <2>1 DEF WellFormed
<1>5. rank[program[u][k].row] < rank[program[u][pos[u] + 1].row]
  BY <1>2, <1>3, <1>4 DEF Ascending
<1>6. program[u][k] \in Lock /\ program[u][pos[u] + 1] \in Lock
  BY <1>2, <1>3, <1>4, ProgramsAreSequences
<1>7. rank[program[u][k].row] \in 0 .. n /\ rank[program[u][pos[u] + 1].row] \in 0 .. n
  BY <1>6 DEF Lock
<1> QED
  BY <1>1, <1>5, <1>7 DEF Wanted

(* A set of numbers up to n that is not empty has a greatest one.          *)
LEMMA Greatest ==
  ASSUME NEW n \in Nat, NEW T, T \subseteq 0 .. n, T # {}
  PROVE  \E x \in T : \A y \in T : y <= x
<1> DEFINE D == {n - x : x \in T}
           R == OpToRel(<, Nat)
<1>1. D \subseteq Nat /\ D # {}
  <2>1. \A x \in T : x \in 0 .. n
    OBVIOUS
  <2>2. \A x \in T : n - x \in Nat
    BY <2>1
  <2>3. PICK x \in T : TRUE
    OBVIOUS
  <2>4. n - x \in D
    BY <2>3
  <2> QED
    BY <2>2, <2>4
<1>2. \A e, d \in Nat : e < d => <<e, d>> \in R
  BY DEF OpToRel
<1>3. IsWellFoundedOn(R, Nat)
  BY NatLessThanWellFounded
<1>4. PICK d \in D : \A e \in D : <<e, d>> \notin R
  <2> HIDE DEF D, R
  <2> QED
    BY <1>1, <1>3, WFMin
<1> HIDE DEF R
<1>5. PICK x \in T : d = n - x
  BY <1>4
<1>6. ASSUME NEW y \in T PROVE y <= x
  <2>1. n - y \in D /\ n - y \in Nat /\ d \in Nat
    BY <1>1
  <2>2. ~(n - y < d)
    BY <1>2, <1>4, <2>1
  <2> QED
    BY <1>5, <2>1, <2>2
<1> QED
  BY <1>6

(* Ascending locking excludes deadlock: what inventory-core.ts:9 wants of  *)
(* the ascending order of ids, for any number of transactions and rows.    *)
THEOREM OrderedLocking ==
  ASSUME NEW n \in Nat, NEW rank \in [Rows -> 0 .. n], Ascending(rank)
  PROVE  Spec => []NoLockCycle
<1>1. WellFormed => NoLockCycle
  <2> SUFFICES ASSUME WellFormed,
                      NEW S \in SUBSET Tx, S # {}, \A t \in S : \E u \in S : WaitsFor(t, u)
               PROVE  FALSE
    BY DEF NoLockCycle
  <2>1. \A t \in S : Waiting(t)
    BY DEF WaitsFor
  <2>2. ASSUME NEW t \in S
        PROVE  \E u \in S : /\ rank[Wanted(t).row] \in 0 .. n /\ rank[Wanted(u).row] \in 0 .. n
                            /\ rank[Wanted(t).row] < rank[Wanted(u).row]
    <3>1. PICK u \in S : WaitsFor(t, u)
      OBVIOUS
    <3> QED
      BY <2>1, <3>1, WaitingClimbs
  <2> DEFINE T == {rank[Wanted(t).row] : t \in S}
  <2>3. T \subseteq 0 .. n /\ T # {}
    BY <2>2
  <2>4. PICK x \in T : \A y \in T : y <= x
    <3> HIDE DEF T
    <3> QED
      BY <2>3, Greatest
  <2>5. PICK t \in S : x = rank[Wanted(t).row]
    BY <2>4
  <2>6. PICK u \in S : /\ rank[Wanted(u).row] \in 0 .. n /\ x \in 0 .. n
                       /\ x < rank[Wanted(u).row]
    BY <2>2, <2>5
  <2>7. rank[Wanted(u).row] <= x
    BY <2>4
  <2> QED
    BY <2>6, <2>7
<1> QED
  BY <1>1, AlwaysWellFormed, PTL

(* The operations of one line do have such an order.  A request of one     *)
(* line is a sequence of one element.                                      *)
LEMMA OneLine ==
  ASSUME MaxLines = 1, NEW S, NEW lines \in LinesOf(S)
  PROVE  \E x \in S : lines = <<x>>
<1>1. PICK T \in SUBSET S : Cardinality(T) \in 1 .. 1 /\ lines \in SetToSeqs(T)
  BY DEF LinesOf
<1>2. Cardinality(T) = 1
  BY <1>1
<1>3. lines \in [1 .. 1 -> T]
  BY <1>1, <1>2 DEF SetToSeqs
<1>4. lines = <<lines[1]>> /\ lines[1] \in T
  BY <1>3
<1> QED
  BY <1>1, <1>4

(* One id in ascending order is a sequence of that id.                     *)
LEMMA InOrderOne == ASSUME NEW x PROVE InOrder({x}) = <<x>>
<1>1. Cardinality({x}) = 1
  BY FS_Singleton
<1>2. SetToSeqs({x}) = {f \in [1 .. 1 -> {x}] : \A i, j \in 1 .. 1 : i # j => f[i] # f[j]}
  BY <1>1 DEF SetToSeqs
<1>3. <<x>> \in SetToSeqs({x})
  BY <1>2
<1>4. \A s \in SetToSeqs({x}) : s = <<x>>
  <2> SUFFICES ASSUME NEW s \in [1 .. 1 -> {x}] PROVE s = <<x>>
    BY <1>2
  <2> QED
    OBVIOUS
<1>5. \A j, k \in DOMAIN <<x>> : j < k => <<x>>[j] < <<x>>[k]
  OBVIOUS
<1> QED
  BY <1>3, <1>4, <1>5 DEF InOrder

(* lockInventoryItems sorts one line to itself.                            *)
LEMMA SortedOne == ASSUME NEW x PROVE Sorted(<<x>>) = <<x>>
<1>1. Range(<<x>>) = {x}
  BY DEF Range
<1> QED
  BY <1>1, InOrderOne DEF Sorted

(* The programs of one line, joined, are that line's program.              *)
LEMMA FlattenOne == ASSUME NEW x PROVE FlattenSeq(<<x>>) = x
<1> DEFINE flatten == CHOOSE f : f = [i \in 1 .. 1 |-> IF i = 1 THEN <<x>>[i] ELSE f[i-1] \o <<x>>[i]]
           only == [i \in 1 .. 1 |-> x]
<1>1. only = [i \in 1 .. 1 |-> IF i = 1 THEN <<x>>[i] ELSE only[i-1] \o <<x>>[i]]
  OBVIOUS
<1>2. flatten = [i \in 1 .. 1 |-> IF i = 1 THEN <<x>>[i] ELSE flatten[i-1] \o <<x>>[i]]
  <2> HIDE DEF only
  <2> QED
    BY <1>1
<1>3. flatten[1] = x
  <2> HIDE DEF flatten
  <2> QED
    BY <1>2
<1>4. Len(<<x>>) = 1
  OBVIOUS
<1> HIDE DEF flatten
<1> QED
  BY <1>3, <1>4 DEF FlattenSeq, flatten

(* A finite set of ids has an ascending sequence, made by putting the      *)
(* greatest one after those of the others.                                 *)
Ordered(s) == \A j, k \in DOMAIN s : j < k => s[j] < s[k]

LEMMA HasOrder ==
  ASSUME NEW n \in Nat, NEW S, S \subseteq 0 .. n
  PROVE  \E s \in SetToSeqs(S) : Ordered(s)
<1> DEFINE Bad == {m \in Nat : \E T \in SUBSET (0 .. n) :
                     Cardinality(T) = m /\ ~\E s \in SetToSeqs(T) : Ordered(s)}
<1>1. IsFiniteSet(0 .. n)
  BY FS_Interval
<1>2. \A T \in SUBSET (0 .. n) : IsFiniteSet(T) /\ Cardinality(T) \in Nat
  BY <1>1, FS_Subset, FS_CardinalityType
<1>3. Bad = {}
  <2> SUFFICES ASSUME Bad # {} PROVE FALSE
    OBVIOUS
  <2>1. PICK m \in Bad : \A l \in Bad : <<l, m>> \notin OpToRel(<, Nat)
    <3>1. Bad \subseteq Nat /\ IsWellFoundedOn(OpToRel(<, Nat), Nat)
      BY NatLessThanWellFounded
    <3> HIDE DEF Bad
    <3> QED
      BY <3>1, WFMin
  <2>2. PICK T \in SUBSET (0 .. n) : Cardinality(T) = m /\ ~\E s \in SetToSeqs(T) : Ordered(s)
    OBVIOUS
  <2>3. CASE T = {}
    <3>1. Cardinality(T) = 0
      BY <2>3, FS_EmptySet
    <3>2. <<>> \in SetToSeqs(T)
      BY <3>1 DEF SetToSeqs
    <3> QED
      BY <2>2, <3>2 DEF Ordered
  <2>4. CASE T # {}
    <3>1. PICK x \in T : \A y \in T : y <= x
      BY <2>4, Greatest
    <3> DEFINE U == T \ {x}
    <3>2. Cardinality(T) = Cardinality(U) + 1 /\ Cardinality(U) \in Nat /\ U \in SUBSET (0 .. n)
      <4>1. IsFiniteSet(T) /\ IsFiniteSet(U) /\ U \in SUBSET (0 .. n)
        BY <1>2
      <4>2. Cardinality(U) = Cardinality(T) - 1
        BY <3>1, <4>1, FS_RemoveElement
      <4> QED
        BY <1>2, <4>1, <4>2
    <3>3. Cardinality(U) \notin Bad
      <4>1. \A l, h \in Nat : h = l + 1 => <<l, h>> \in OpToRel(<, Nat)
        BY DEF OpToRel
      <4>2. m \in Nat /\ m = Cardinality(U) + 1
        BY <2>2, <3>2
      <4>3. <<Cardinality(U), m>> \in OpToRel(<, Nat)
        BY <3>2, <4>1, <4>2
      <4> HIDE DEF Bad, U
      <4> QED
        BY <2>1, <4>3
    <3>4. PICK s \in SetToSeqs(U) : Ordered(s)
      BY <3>2, <3>3
    <3>5. PICK k \in Nat : k = Cardinality(U)
      BY <3>2
    <3>6. Cardinality(T) = k + 1 /\ s \in [1 .. k -> U] /\ \A i, j \in 1 .. k : i # j => s[i] # s[j]
      BY <3>2, <3>4, <3>5 DEF SetToSeqs
    <3> HIDE DEF Bad, U
    <3>7. PICK r : r = [i \in 1 .. k + 1 |-> IF i = k + 1 THEN x ELSE s[i]]
      OBVIOUS
    <3>8. \A i \in 1 .. k : s[i] \in T /\ s[i] < x
      <4>1. \A y \in U : y \in T /\ y < x
        <5>1. \A y \in T : y \in Int
          OBVIOUS
        <5> QED
          BY <3>1, <5>1 DEF U
      <4> QED
        BY <3>6, <4>1
    <3>9. r \in [1 .. k + 1 -> T]
      BY <3>7, <3>8
    <3>10. \A i, j \in 1 .. k + 1 : i # j => r[i] # r[j]
      BY <3>6, <3>7, <3>8
    <3>11. r \in SetToSeqs(T)
      BY <3>6, <3>9, <3>10 DEF SetToSeqs
    <3>12. Ordered(r)
      BY <3>4, <3>6, <3>7, <3>8 DEF Ordered
    <3> QED
      BY <2>2, <3>11, <3>12
  <2> QED
    BY <2>3, <2>4
<1>4. Cardinality(S) \in Nat
  BY <1>2
<1> QED
  BY <1>3, <1>4

(* Sorting a set of bounded ids gives each of them once, ascending.        *)
LEMMA InOrderAscends ==
  ASSUME NEW n \in Nat, NEW S, S \subseteq 0 .. n
  PROVE  /\ InOrder(S) \in [1 .. Cardinality(S) -> S] /\ Cardinality(S) \in Nat
         /\ \A j, k \in 1 .. Cardinality(S) : j < k => InOrder(S)[j] < InOrder(S)[k]
<1>1. PICK s \in SetToSeqs(S) : Ordered(s)
  BY HasOrder
<1>2. InOrder(S) \in SetToSeqs(S) /\ Ordered(InOrder(S))
  BY <1>1 DEF InOrder, Ordered
<1>3. Cardinality(S) \in Nat
  <2>1. IsFiniteSet(0 .. n)
    BY FS_Interval
  <2> QED
    BY <2>1, FS_Subset, FS_CardinalityType
<1>4. InOrder(S) \in [1 .. Cardinality(S) -> S]
  BY <1>2 DEF SetToSeqs
<1> QED
  BY <1>2, <1>3, <1>4 DEF Ordered

(* What the operations lock when every request has one line.               *)
ItemPrograms(i) ==
  {<<Item(i)>>, <<Item(i), ConsumableOf(i)>>, <<Item(i), ConsumableOf(i), BatchesOf(i)>>}
RecordPrograms(x) ==
  {<<Record(x)>>, <<Shared("record", x)>>,
   <<Record(x), Item(RecordItem[x]), ConsumableOf(RecordItem[x]), BatchesOf(RecordItem[x])>>}
ItemsOf(c) == InOrder({i \in Items : Consumable[i] = c})
Deletion(c) == [k \in DOMAIN ItemsOf(c) |-> Item(ItemsOf(c)[k])] \o <<Exclusive("consumable", c)>>

(* How short sequences join.                                               *)
LEMMA JoinLast ==
  ASSUME NEW a, NEW b, NEW c PROVE <<a, b>> \o <<c>> = <<a, b, c>>
<1>1. PICK s, t : s = <<a, b>> \o <<c>> /\ t = <<a, b, c>>
  OBVIOUS
<1>2. s \in Seq({a, b, c}) /\ t \in Seq({a, b, c}) /\ Len(s) = 3 /\ Len(t) = 3
  BY <1>1
<1>3. s[1] = t[1] /\ s[2] = t[2] /\ s[3] = t[3]
  BY <1>1
<1>4. \A k \in 1 .. 3 : s[k] = t[k]
  BY <1>3
<1>5. s = t
  BY <1>2, <1>4
<1> QED
  BY <1>1, <1>5

(* And with the record in front of the three locks of its location.        *)
LEMMA JoinFirst ==
  ASSUME NEW r, NEW a, NEW b, NEW c PROVE <<r>> \o <<a, b, c>> = <<r, a, b, c>>
<1>1. PICK s, t : s = <<r>> \o <<a, b, c>> /\ t = <<r, a, b, c>>
  OBVIOUS
<1>2. s \in Seq({r, a, b, c}) /\ t \in Seq({r, a, b, c}) /\ Len(s) = 4 /\ Len(t) = 4
  BY <1>1
<1>3. s[1] = t[1] /\ s[2] = t[2] /\ s[3] = t[3] /\ s[4] = t[4]
  BY <1>1
<1>4. \A k \in 1 .. 4 : s[k] = t[k]
  BY <1>3
<1>5. s = t
  BY <1>2, <1>4
<1> QED
  BY <1>1, <1>5

(* The operations of AssetLocks lock nothing else.                         *)
LEMMA OneLinePrograms ==
  ASSUME MaxLines = 1, Operations \cap {"transfer", "correct"} = {}, NEW p \in AssetPrograms
  PROVE  \/ \E i \in Items : p \in ItemPrograms(i)
         \/ \E x \in Records : p \in RecordPrograms(x)
         \/ \E c \in Consumables : p = <<Exclusive("consumable", c)>> \/ p = Deletion(c)
<1>1. ASSUME NEW i PROVE LockItems(<<i>>) = <<Item(i), ConsumableOf(i)>>
  <2>1. [k \in DOMAIN <<i>> |-> LockItem(<<i>>[k])] = <<LockItem(i)>>
    OBVIOUS
  <2> QED
    BY <2>1, SortedOne, FlattenOne DEF LockItems, Each, LockItem
<1>2. ASSUME NEW i PROVE Allocate(<<i>>) = <<BatchesOf(i)>>
  BY DEF Allocate
<1>3. ASSUME NEW x PROVE LockRecords(<<x>>) = <<Record(x)>> /\ LockRecords(Sorted(<<x>>)) = <<Record(x)>>
  BY SortedOne DEF LockRecords
<1>4. ASSUME NEW x
      PROVE  Restore(x) = <<Item(RecordItem[x]), ConsumableOf(RecordItem[x]), BatchesOf(RecordItem[x])>>
  <2> DEFINE i == RecordItem[x]
  <2>1. Restore(x) = <<Item(i), ConsumableOf(i)>> \o <<BatchesOf(i)>>
    BY DEF Restore, LockItem
  <2> QED
    BY <2>1, JoinLast
<1>5. ASSUME NEW x
       PROVE  <<Record(x)>> \o Restore(x)
              = <<Record(x), Item(RecordItem[x]), ConsumableOf(RecordItem[x]), BatchesOf(RecordItem[x])>>
  <2>1. PICK r, a, b, c : /\ r = Record(x) /\ a = Item(RecordItem[x]) /\ b = ConsumableOf(RecordItem[x])
                          /\ c = BatchesOf(RecordItem[x])
    OBVIOUS
  <2>2. Restore(x) = <<a, b, c>>
    BY <1>4, <2>1
  <2>3. <<r>> \o <<a, b, c>> = <<r, a, b, c>>
    BY JoinFirst
  <2>4. <<r>> \o Restore(x) = <<r, a, b, c>>
    BY <2>2, <2>3, Zenon
  <2> QED
    BY <2>1, <2>4
<1>6. PICK operation \in Operations : p \in ProgramsOf(operation)
  BY DEF AssetPrograms
<1>7. operation \in AssetOperations \ {"transfer", "correct"}
  BY <1>6, AssetLocksAssumption
<1>8. ASSUME NEW S, NEW lines \in LinesOf(S) PROVE \E x \in S : lines = <<x>>
  BY <1>8, OneLine
<1>9. CASE p \in Submits \cup StockIns
  <2>1. PICK i \in Items : p = LockItems(<<i>>)
    BY <1>8, <1>9 DEF Submits, StockIns
  <2> QED
    BY <1>1, <2>1 DEF ItemPrograms
<1>10. CASE p \in Issues
  <2>1. PICK lines \in LinesOf(Items) : p = LockItems(lines) \o Allocate(lines)
    BY <1>10 DEF Issues
  <2>2. PICK i \in Items : lines = <<i>>
    BY <1>8
  <2>3. p = <<Item(i), ConsumableOf(i)>> \o <<BatchesOf(i)>>
    BY <1>1, <1>2, <2>1, <2>2
  <2>4. p = <<Item(i), ConsumableOf(i), BatchesOf(i)>>
    BY <2>3, JoinLast
  <2> QED
    BY <2>4 DEF ItemPrograms
<1>11. CASE p \in Releases
  <2>1. PICK lines \in LinesOf(Items) : p = [k \in DOMAIN lines |-> Item(lines[k])]
    BY <1>11 DEF Releases
  <2>2. PICK i \in Items : lines = <<i>>
    BY <1>8
  <2>3. p = <<Item(i)>>
    BY <2>1, <2>2
  <2> QED
    BY <2>3 DEF ItemPrograms
<1>12. CASE p \in Returns
  <2>1. PICK x \in Records : p = Each(ReturnLine, <<x>>)
    BY <1>8, <1>12 DEF Returns
  <2>2. [k \in DOMAIN <<x>> |-> ReturnLine(<<x>>[k])] = <<ReturnLine(x)>>
    OBVIOUS
  <2>3. p = ReturnLine(x)
    BY <2>1, <2>2, FlattenOne DEF Each
  <2>4. p = <<Record(x)>> \o Restore(x)
    BY <2>3 DEF ReturnLine
  <2>5. p = <<Record(x), Item(RecordItem[x]), ConsumableOf(RecordItem[x]), BatchesOf(RecordItem[x])>>
    BY <1>5, <2>4
  <2> QED
    BY <2>5 DEF RecordPrograms
<1>13. CASE p \in RecordActions
  <2>1. PICK x \in Records : p = LockRecords(<<x>>)
    BY <1>8, <1>13 DEF RecordActions
  <2> QED
    BY <1>3, <2>1 DEF RecordPrograms
<1>14. CASE p \in Settlements
  <2>1. PICK lines \in LinesOf(Records) : \E R \in SUBSET Records : p = Settling(lines, R)
    BY <1>14 DEF Settlements
  <2>2. PICK x \in Records : lines = <<x>>
    BY <1>8
  <2>3. PICK R \in SUBSET Records : p = Settling(<<x>>, R)
    BY <2>1, <2>2
  <2>4. [k \in DOMAIN <<x>> |-> IF <<x>>[k] \in R THEN Restore(<<x>>[k]) ELSE <<>>]
          = <<IF x \in R THEN Restore(x) ELSE <<>>>>
    OBVIOUS
  <2>5. p = <<Record(x)>> \o (IF x \in R THEN Restore(x) ELSE <<>>)
    BY <1>3, <2>3, <2>4, FlattenOne DEF Settling
  <2>6. CASE x \in R
    <3>1. p = <<Record(x)>> \o Restore(x)
      BY <2>5, <2>6
    <3> QED
      BY <1>5, <3>1 DEF RecordPrograms
  <2>7. CASE x \notin R
    BY <2>5, <2>7 DEF RecordPrograms
  <2> QED
    BY <2>6, <2>7
<1>15. CASE p \in SettlementDrafts
  <2>1. PICK lines \in LinesOf(Records) : p = [k \in DOMAIN lines |-> Shared("record", lines[k])]
    BY <1>15 DEF SettlementDrafts
  <2>2. PICK x \in Records : lines = <<x>>
    BY <1>8
  <2>3. p = <<Shared("record", x)>>
    BY <2>1, <2>2
  <2> QED
    BY <2>3 DEF RecordPrograms
<1>16. CASE p \in Edits \cup Deletions
  BY <1>16 DEF Edits, Deletions, Deletion, ItemsOf
<1> QED
  BY <1>6, <1>7, <1>9, <1>10, <1>11, <1>12, <1>13, <1>14, <1>15, <1>16 DEF ProgramsOf, AssetOperations

(* Records first, then items, then consumables, then batches, and ids of   *)
(* one kind in ascending order.                                            *)
RankOf(n, row) ==
  CASE row[1] = "record" -> row[2]
    [] row[1] = "item" -> n + 1 + row[2]
    [] row[1] = "consumable" -> 2 * n + 2
    [] row[1] = "batches" -> 2 * n + 3

(* Along every program of one line the numbers increase.                   *)
LEMMA OneLineAscends ==
  ASSUME NEW n \in Nat, Items \subseteq 0 .. n, Records \subseteq 0 .. n,
         MaxLines = 1, Operations \cap {"transfer", "correct"} = {}, NEW p \in AssetPrograms
  PROVE  \A j, k \in 1 .. Len(p) : j < k => RankOf(n, p[j].row) < RankOf(n, p[k].row)
<1>1. ASSUME NEW i
      PROVE  /\ RankOf(n, Item(i).row) = n + 1 + i /\ RankOf(n, ConsumableOf(i).row) = 2 * n + 2
             /\ RankOf(n, BatchesOf(i).row) = 2 * n + 3 /\ RankOf(n, Record(i).row) = i
             /\ RankOf(n, Exclusive("consumable", i).row) = 2 * n + 2
  BY DEF RankOf, Item, ConsumableOf, BatchesOf, Record, Exclusive
<1>2. ASSUME NEW i \in Items, p \in ItemPrograms(i)
      PROVE  \A j, k \in 1 .. Len(p) : j < k => RankOf(n, p[j].row) < RankOf(n, p[k].row)
  <2>1. PICK a, b, c : a = Item(i) /\ b = ConsumableOf(i) /\ c = BatchesOf(i)
    OBVIOUS
  <2>2. p \in {<<a>>, <<a, b>>, <<a, b, c>>}
    BY <1>2, <2>1 DEF ItemPrograms
  <2>3. RankOf(n, a.row) < RankOf(n, b.row) /\ RankOf(n, b.row) < RankOf(n, c.row)
        /\ RankOf(n, a.row) < RankOf(n, c.row)
    BY <1>1, <2>1
  <2> QED
    BY <2>2, <2>3
<1>3. ASSUME NEW x \in Records, p \in RecordPrograms(x)
      PROVE  \A j, k \in 1 .. Len(p) : j < k => RankOf(n, p[j].row) < RankOf(n, p[k].row)
  <2>1. PICK i \in Items : i = RecordItem[x]
    BY AssetLocksAssumption
  <2>2. PICK r, s, a, b, c : /\ r = Record(x) /\ a = Item(i) /\ b = ConsumableOf(i) /\ c = BatchesOf(i)
                             /\ s = Shared("record", x)
    OBVIOUS
  <2>3. p \in {<<r>>, <<s>>, <<r, a, b, c>>}
    BY <1>3, <2>1, <2>2 DEF RecordPrograms
  <2>4. RankOf(n, r.row) < RankOf(n, a.row) /\ RankOf(n, a.row) < RankOf(n, b.row)
        /\ RankOf(n, b.row) < RankOf(n, c.row)
    BY <1>1, <2>2
  <2>5. \A y \in {r, a, b, c} : RankOf(n, y.row) \in Int
    BY <1>1, <2>2
  <2>6. CASE p = <<r>> \/ p = <<s>>
    BY <2>6
  <2>7. CASE p = <<r, a, b, c>>
    <3> DEFINE q == [k \in 1 .. 4 |-> RankOf(n, <<r, a, b, c>>[k].row)]
    <3>1. q[1] = RankOf(n, r.row) /\ q[2] = RankOf(n, a.row) /\ q[3] = RankOf(n, b.row)
          /\ q[4] = RankOf(n, c.row)
      OBVIOUS
    <3>2. Len(p) = 4 /\ \A k \in 1 .. 4 : RankOf(n, p[k].row) = q[k]
      BY <2>7
    <3> HIDE DEF q
    <3>3. q[1] < q[2] /\ q[2] < q[3] /\ q[3] < q[4] /\ \A k \in 1 .. 4 : q[k] \in Int
      BY <2>4, <2>5, <3>1
    <3>4. \A j, k \in 1 .. 4 : j < k => q[j] < q[k]
      BY <3>3
    <3> QED
      BY <3>2, <3>4
  <2> QED
    BY <2>3, <2>6, <2>7
<1>4. ASSUME NEW c, p = <<Exclusive("consumable", c)>> \/ p = Deletion(c)
      PROVE  \A j, k \in 1 .. Len(p) : j < k => RankOf(n, p[j].row) < RankOf(n, p[k].row)
  <2>1. CASE p = <<Exclusive("consumable", c)>>
    BY <2>1
  <2>2. CASE p = Deletion(c)
    <3> DEFINE own == {i \in Items : Consumable[i] = c}
    <3>1. PICK m, s : m = Cardinality(own) /\ s = ItemsOf(c)
      OBVIOUS
    <3>2. m \in Nat /\ s \in [1 .. m -> own] /\ \A j, k \in 1 .. m : j < k => s[j] < s[k]
      BY <3>1, InOrderAscends DEF ItemsOf
    <3> HIDE DEF own
    <3>3. own \subseteq Items
      BY DEF own
    <3>4. PICK q, e : q = [k \in 1 .. m |-> Item(s[k])] /\ e = Exclusive("consumable", c)
      OBVIOUS
    <3>5. p = q \o <<e>>
      BY <2>2, <3>1, <3>2, <3>4 DEF Deletion
    <3>6. Len(p) = m + 1 /\ p[m + 1] = e /\ \A k \in 1 .. m : p[k] = Item(s[k])
      BY <3>2, <3>4, <3>5
    <3>7. \A k \in 1 .. m : s[k] \in 0 .. n /\ RankOf(n, p[k].row) = n + 1 + s[k]
      BY <1>1, <3>2, <3>3, <3>6
    <3>8. RankOf(n, p[m + 1].row) = 2 * n + 2
      BY <1>1, <3>4, <3>6
    <3>9. ASSUME NEW j \in 1 .. m, NEW k \in 1 .. m, j < k
          PROVE  RankOf(n, p[j].row) < RankOf(n, p[k].row)
      BY <3>2, <3>7, <3>9
    <3>10. ASSUME NEW j \in 1 .. m PROVE RankOf(n, p[j].row) < RankOf(n, p[m + 1].row)
      <4>1. s[j] \in 0 .. n /\ RankOf(n, p[j].row) = n + 1 + s[j]
        BY <3>7
      <4> QED
        BY <3>8, <4>1
    <3>11. \A j, k \in 1 .. m + 1 : j < k => j \in 1 .. m /\ (k \in 1 .. m \/ k = m + 1)
      BY <3>2
    <3> QED
      BY <3>6, <3>9, <3>10, <3>11
  <2> QED
    BY <1>4, <2>1, <2>2
<1> QED
  BY <1>2, <1>3, <1>4, OneLinePrograms

(* Without transfers and corrections, and when every request has one line, *)
(* the operations of the asset service never wait for one another in a     *)
(* cycle, for any number of transactions, locations, consumables and       *)
(* borrow records.                                                         *)
THEOREM OneLineNeverLocksUp ==
  ASSUME Rows = AssetRows, Programs = AssetPrograms,
         NEW n \in Nat, Items \subseteq 0 .. n, Records \subseteq 0 .. n,
         MaxLines = 1, Operations \cap {"transfer", "correct"} = {}
  PROVE  Spec => []NoLockCycle
<1> DEFINE rank == [r \in Rows |-> RankOf(n, r)]
<1>1. rank \in [Rows -> 0 .. 2 * n + 3]
  <2> SUFFICES ASSUME NEW r \in AssetRows PROVE RankOf(n, r) \in 0 .. 2 * n + 3
    OBVIOUS
  <2>1. \/ \E i \in Items : r = <<"item", i>> \/ r = <<"batches", i>>
        \/ \E c : r = <<"consumable", c>>
        \/ \E x \in Records : r = <<"record", x>>
    <3>1. CASE r \in {"item", "batches"} \X Items
      <4>1. r = <<r[1], r[2]>> /\ r[1] \in {"item", "batches"} /\ r[2] \in Items
        BY <3>1
      <4> QED
        BY <4>1
    <3>2. CASE r \in {"consumable"} \X Consumables
      BY <3>2
    <3>3. CASE r \in {"record"} \X Records
      <4>1. r = <<r[1], r[2]>> /\ r[1] = "record" /\ r[2] \in Records
        BY <3>3
      <4> QED
        BY <4>1
    <3> QED
      BY <3>1, <3>2, <3>3 DEF AssetRows
  <2>2. ASSUME NEW i \in Items, r = <<"item", i>> \/ r = <<"batches", i>>
        PROVE  RankOf(n, r) \in 0 .. 2 * n + 3
    <3>1. i \in 0 .. n
      OBVIOUS
    <3> QED
      BY <2>2, <3>1 DEF RankOf
  <2>3. ASSUME NEW c, r = <<"consumable", c>> PROVE RankOf(n, r) \in 0 .. 2 * n + 3
    BY <2>3 DEF RankOf
  <2>4. ASSUME NEW x \in Records, r = <<"record", x>> PROVE RankOf(n, r) \in 0 .. 2 * n + 3
    <3>1. x \in 0 .. n
      OBVIOUS
    <3> QED
      BY <2>4, <3>1 DEF RankOf
  <2> QED
    BY <2>1, <2>2, <2>3, <2>4
<1>2. Ascending(rank)
  <2> SUFFICES ASSUME NEW p \in Programs, NEW j \in 1 .. Len(p), NEW k \in 1 .. Len(p), j < k
               PROVE  rank[p[j].row] < rank[p[k].row]
    BY DEF Ascending
  <2>1. RankOf(n, p[j].row) < RankOf(n, p[k].row)
    BY OneLineAscends
  <2>2. p[j].row \in Rows /\ p[k].row \in Rows
    BY ProgramsAreSequences DEF Lock
  <2> QED
    BY <2>1, <2>2
<1> HIDE DEF rank
<1>3. 2 * n + 3 \in Nat
  OBVIOUS
<1> QED
  BY <1>1, <1>2, <1>3, OrderedLocking

-----------------------------------------------------------------------------
(* Repair orders and QR codes.                                             *)

Usages == InService \cup InRepair \cup {"SCRAPPED"}
OrderStatuses == {"NONE", "PENDING", "REPAIRING", "CANCELLED", "COMPLETED"}
CodeStatuses == {"NONE", "ACTIVE", "DISABLED", "REVOKED"}

(* The columns.                                                            *)
RowsTyped ==
  /\ asset \in [Assets -> [deleted : BOOLEAN, usage : Usages]]
  /\ order \in [Orders -> [of : Assets \cup {None}, status : OrderStatuses, version : Nat,
                           pre : InService]]
  /\ code \in [Codes -> [of : Assets \cup {None}, status : CodeStatuses]]

(* What a transaction may have read, by its operation: it is there to be   *)
(* written, for orders and codes are never removed, and an asset is        *)
(* registered in the usage it had.                                         *)
ReadsStand ==
  \A h \in Handlers :
    /\ handler[h].op = "register" => handler[h].on \in Assets /\ handler[h].saw \in InService
    /\ handler[h].op \in {"cancel", "start", "complete"} => handler[h].on \in Orders
    /\ handler[h].op \in {"update", "scrap", "delete", "createCode"} => handler[h].on \in Assets
    /\ handler[h].op \in {"disable", "enable", "regenerate"} => handler[h].on \in Codes

HandlersTyped ==
  /\ \E S : handler \in [Handlers -> S]
  /\ ReadsStand

WellTyped == RowsTyped /\ HandlersTyped

(* The read that a transaction is given is one its operation may have.     *)
Fits(op, on, saw) ==
  /\ op = "register" => on \in Assets /\ saw \in InService
  /\ op \in {"cancel", "start", "complete"} => on \in Orders
  /\ op \in {"update", "scrap", "delete", "createCode"} => on \in Assets
  /\ op \in {"disable", "enable", "regenerate"} => on \in Codes

(* Only the transaction that a step is of changes what it has read.        *)
LEMMA HandlerChanges ==
  ASSUME HandlersTyped, NEW h \in Handlers, NEW op, NEW on, NEW saw, Fits(op, on, saw),
         handler' = [handler EXCEPT ![h] = [op |-> op, on |-> on, saw |-> saw]]
  PROVE  HandlersTyped'
<1>1. PICK S : handler \in [Handlers -> S]
  BY DEF HandlersTyped
<1>2. handler' \in [Handlers -> S \cup {[op |-> op, on |-> on, saw |-> saw]}]
  BY <1>1
<1>3. ReadsStand'
  <2> SUFFICES ASSUME NEW g \in Handlers
               PROVE  Fits(handler'[g].op, handler'[g].on, handler'[g].saw)
    BY DEF ReadsStand, Fits
  <2>1. CASE g = h
    <3>1. handler'[g] = [op |-> op, on |-> on, saw |-> saw]
      BY <1>1, <2>1
    <3> QED
      BY <3>1
  <2>2. CASE g # h
    <3>1. handler'[g] = handler[g]
      BY <1>1, <2>2
    <3> QED
      BY <3>1 DEF HandlersTyped, ReadsStand, Fits
  <2> QED
    BY <2>1, <2>2
<1> QED
  BY <1>2, <1>3 DEF HandlersTyped

(* A read leaves the rows alone; an end writes them.                       *)
LEMMA ReadKeeps ==
  ASSUME WellTyped, NEW h \in Handlers, NEW op, NEW on, NEW saw, Fits(op, on, saw),
         Reads(h, op, on, saw)
  PROVE  WellTyped'
<1>1. HandlersTyped'
  BY HandlerChanges DEF WellTyped, Reads
<1> QED
  BY <1>1 DEF WellTyped, RowsTyped, Reads

LEMMA EndKeeps ==
  ASSUME HandlersTyped, NEW h \in Handlers,
         handler' = [handler EXCEPT ![h] = AtRest]
  PROVE  HandlersTyped'
<1>1. Fits("idle", None, None)
  BY DEF Fits
<1> QED
  BY <1>1, HandlerChanges DEF AtRest

(* Every handler writes values of the columns it names.                    *)
THEOREM AlwaysWellTyped == FixedAssetsSpec => []WellTyped
<1>1. FixedAssetsInit => WellTyped
  <2> SUFFICES ASSUME FixedAssetsInit PROVE WellTyped
    OBVIOUS
  <2>1. RowsTyped
    BY DEF FixedAssetsInit, RowsTyped, NoOrder, NoCode, Usages, OrderStatuses, CodeStatuses,
           InService, InRepair, None
  <2>2. handler \in [Handlers -> {AtRest}] /\ ReadsStand
    BY DEF FixedAssetsInit, ReadsStand, AtRest
  <2> QED
    BY <2>1, <2>2 DEF WellTyped, HandlersTyped
<1>2. WellTyped /\ [FixedAssetsNext]_assetVars => WellTyped'
  <2> SUFFICES ASSUME WellTyped, [FixedAssetsNext]_assetVars PROVE WellTyped'
    OBVIOUS
  <2> USE DEF WellTyped, RowsTyped
  <2>0. HandlersTyped /\ ReadsStand
    BY DEF HandlersTyped
  <2>1. ASSUME NEW h \in Handlers, RepairStep(h) PROVE WellTyped'
    <3>1. ASSUME NEW a \in Assets, Register(h, a) PROVE WellTyped'
      BY <3>1, ReadKeeps DEF Register, Fits
    <3>2. ASSUME NEW o \in Orders, CommitRegister(h, o) PROVE WellTyped'
      <4>1. HandlersTyped'
        BY <2>0, <3>2, EndKeeps DEF CommitRegister, Ends
      <4>2. handler[h].on \in Assets /\ handler[h].saw \in InService
        BY <2>0, <3>2 DEF CommitRegister, Ends, ReadsStand
      <4>3. [of |-> handler[h].on, status |-> "PENDING", version |-> 0, pre |-> handler[h].saw]
              \in [of : Assets \cup {None}, status : OrderStatuses, version : Nat, pre : InService]
        BY <4>2 DEF OrderStatuses
      <4>4. order' \in [Orders -> [of : Assets \cup {None}, status : OrderStatuses,
                                  version : Nat, pre : InService]]
        BY <3>2, <4>3 DEF CommitRegister
      <4>5. asset' \in [Assets -> [deleted : BOOLEAN, usage : Usages]] /\ code' = code
        BY <3>2, <4>2 DEF CommitRegister, Use, Usages, InRepair
      <4> QED
        BY <4>1, <4>4, <4>5
    <3>3. ASSUME NEW o \in Orders, NEW op \in {"cancel", "start", "complete"}, Handle(h, o, op)
          PROVE WellTyped'
      BY <3>3, ReadKeeps DEF Handle, Fits
    <3>4. ASSUME NEW op \in {"cancel", "start", "complete"}, Ends(h, op),
                 NEW from, NEW to \in OrderStatuses, Moved(h, from, to),
                 NEW usage \in Usages, Use(order[handler[h].on].of, usage), UNCHANGED code
          PROVE WellTyped'
      <4>1. HandlersTyped'
        BY <2>0, <3>4, EndKeeps DEF Ends
      <4>2. handler[h].on \in Orders
        BY <2>0, <3>4 DEF Ends, ReadsStand
      <4>3. order' \in [Orders -> [of : Assets \cup {None}, status : OrderStatuses,
                                  version : Nat, pre : InService]]
        BY <3>4, <4>2 DEF Moved
      <4>4. asset' \in [Assets -> [deleted : BOOLEAN, usage : Usages]] /\ code' = code
        BY <3>4 DEF Use
      <4> QED
        BY <4>1, <4>3, <4>4
    <3>5. CASE CommitCancel(h)
      <4>1. order[handler[h].on].pre \in Usages
        BY <2>0, <3>5 DEF CommitCancel, Ends, ReadsStand, Usages
      <4> QED
        BY <3>4, <3>5, <4>1 DEF CommitCancel, OrderStatuses
    <3>6. CASE CommitStart(h)
      BY <3>4, <3>6 DEF CommitStart, OrderStatuses, Usages, InRepair
    <3>7. ASSUME NEW post \in InService, CommitComplete(h, post) PROVE WellTyped'
      BY <3>4, <3>7 DEF CommitComplete, OrderStatuses, Usages
    <3> QED
      BY <2>1, <3>1, <3>2, <3>3, <3>5, <3>6, <3>7 DEF RepairStep
  <2>2. ASSUME NEW h \in Handlers, RegisterStep(h) PROVE WellTyped'
    <3>1. ASSUME NEW a \in Assets, UpdateAsset(h, a) \/ Scrap(h, a) \/ DeleteAsset(h, a)
          PROVE WellTyped'
      BY <3>1, ReadKeeps DEF UpdateAsset, Scrap, DeleteAsset, Fits
    <3>2. ASSUME NEW usage \in InService, CommitUpdateAsset(h, usage) PROVE WellTyped'
      <4>1. HandlersTyped'
        BY <2>0, <3>2, EndKeeps DEF CommitUpdateAsset, Ends
      <4> QED
        BY <3>2, <4>1 DEF CommitUpdateAsset, Use, Usages
    <3>3. CASE CommitScrap(h)
      <4>1. HandlersTyped'
        BY <2>0, <3>3, EndKeeps DEF CommitScrap, Ends
      <4> QED
        BY <3>3, <4>1 DEF CommitScrap, Use, Usages
    <3>4. CASE CommitDeleteAsset(h)
      <4>1. HandlersTyped'
        BY <2>0, <3>4, EndKeeps DEF CommitDeleteAsset, Ends
      <4> QED
        BY <3>4, <4>1 DEF CommitDeleteAsset
    <3> QED
      BY <2>2, <3>1, <3>2, <3>3, <3>4 DEF RegisterStep
  <2>3. ASSUME NEW h \in Handlers, CodeStep(h) PROVE WellTyped'
    <3>1. ASSUME NEW a \in Assets, CreateCode(h, a) PROVE WellTyped'
      BY <3>1, ReadKeeps DEF CreateCode, Fits
    <3>2. ASSUME NEW c \in Codes, CommitCreateCode(h, c) PROVE WellTyped'
      <4>1. HandlersTyped'
        BY <2>0, <3>2, EndKeeps DEF CommitCreateCode, Ends
      <4>2. handler[h].on \in Assets
        BY <2>0, <3>2 DEF CommitCreateCode, Ends, ReadsStand
      <4> QED
        BY <3>2, <4>1, <4>2 DEF CommitCreateCode, CodeStatuses
    <3>3. ASSUME NEW c \in Codes, CommitRegenerate(h, c) PROVE WellTyped'
      <4>1. HandlersTyped'
        BY <2>0, <3>3, EndKeeps DEF CommitRegenerate, Ends
      <4>2. handler[h].on \in Codes
        BY <2>0, <3>3 DEF CommitRegenerate, Ends, ReadsStand
      <4>3. [code EXCEPT ![handler[h].on].status = "REVOKED"]
              \in [Codes -> [of : Assets \cup {None}, status : CodeStatuses]]
        BY DEF CodeStatuses
      <4>4. [of |-> code[handler[h].on].of, status |-> "ACTIVE"]
              \in [of : Assets \cup {None}, status : CodeStatuses]
        BY <4>2 DEF CodeStatuses
      <4>5. code' \in [Codes -> [of : Assets \cup {None}, status : CodeStatuses]]
        BY <3>3, <4>3, <4>4 DEF CommitRegenerate
      <4> QED
        BY <3>3, <4>1, <4>5 DEF CommitRegenerate
    <3>4. ASSUME NEW c \in Codes, NEW op \in {"disable", "enable", "regenerate"},
                 ChangeCode(h, c, op)
          PROVE WellTyped'
      BY <3>4, ReadKeeps DEF ChangeCode, Fits
    <3>5. ASSUME NEW op, NEW status \in {"ACTIVE", "DISABLED"}, CommitSwitch(h, op, status)
          PROVE WellTyped'
      <4>1. HandlersTyped'
        BY <2>0, <3>5, EndKeeps DEF CommitSwitch, Ends
      <4> QED
        BY <3>5, <4>1 DEF CommitSwitch, CodeStatuses
    <3> QED
      BY <2>3, <3>1, <3>2, <3>3, <3>4, <3>5 DEF CodeStep
  <2>4. ASSUME NEW h \in Handlers, Refused(h) PROVE WellTyped'
    BY <2>4, EndKeeps DEF Refused
  <2>5. CASE UNCHANGED assetVars
    BY <2>5 DEF assetVars, HandlersTyped, ReadsStand
  <2> QED
    BY <2>1, <2>2, <2>3, <2>4, <2>5 DEF FixedAssetsNext
<1> QED
  BY <1>1, <1>2, PTL DEF FixedAssetsSpec

-----------------------------------------------------------------------------
(* RepairHasOrder for any number of assets and orders: only registering    *)
(* and starting an order put an asset into repair, both with the order in  *)
(* hand, and a step that moves an order writes the usage of its asset.     *)
THEOREM RepairAlwaysHasOrder == FixedAssetsSpec => []RepairHasOrder
<1>1. FixedAssetsInit => RepairHasOrder
  BY DEF FixedAssetsInit, RepairHasOrder, InService, InRepair
<1>2. WellTyped /\ RepairHasOrder /\ [FixedAssetsNext]_assetVars => RepairHasOrder'
  <2> SUFFICES ASSUME WellTyped, RepairHasOrder, [FixedAssetsNext]_assetVars,
                      NEW a \in Assets, asset'[a].usage \in InRepair
               PROVE  \E o \in Orders : order'[o].of = a
                        /\ order'[o].status = IF asset'[a].usage = "REPAIRING" THEN "REPAIRING"
                                                                              ELSE "PENDING"
    BY DEF RepairHasOrder
  <2> DEFINE Has(o) == order[o].of = a
                 /\ order[o].status = IF asset[a].usage = "REPAIRING" THEN "REPAIRING" ELSE "PENDING"
             HasNext(o) == order'[o].of = a
                 /\ order'[o].status = IF asset'[a].usage = "REPAIRING" THEN "REPAIRING" ELSE "PENDING"
  <2>1. asset[a].usage \in InRepair => \E o \in Orders : Has(o)
    BY DEF RepairHasOrder
  <2>2. ASSUME asset'[a].usage = asset[a].usage, UNCHANGED order PROVE \E o \in Orders : HasNext(o)
    BY <2>1, <2>2
  <2>3. ASSUME NEW h \in Handlers, NEW o \in Orders, CommitRegister(h, o)
        PROVE  \E p \in Orders : HasNext(p)
    <3>1. CASE a = handler[h].on
      <4>1. asset'[a].usage = "PENDING_REPAIR"
        BY <2>3, <3>1 DEF CommitRegister, Use, WellTyped, RowsTyped
      <4>2. order'[o].of = a /\ order'[o].status = "PENDING"
        BY <2>3, <3>1 DEF CommitRegister, WellTyped, RowsTyped
      <4> QED
        BY <4>1, <4>2
    <3>2. CASE a # handler[h].on
      <4>1. asset'[a] = asset[a]
        BY <2>3, <3>2 DEF CommitRegister, Use, WellTyped, RowsTyped
      <4>2. PICK p \in Orders : Has(p)
        BY <2>1, <4>1
      <4>3. p # o
        BY <2>3, <4>2 DEF CommitRegister, NoOrder
      <4>4. order'[p] = order[p]
        BY <2>3, <4>3 DEF CommitRegister, WellTyped, RowsTyped
      <4> QED
        BY <4>1, <4>2, <4>4
    <3> QED
      BY <3>1, <3>2
  <2>4. ASSUME NEW h \in Handlers, NEW op \in {"cancel", "start", "complete"}, Ends(h, op),
               NEW from, NEW to, Moved(h, from, to), NEW usage,
               Use(order[handler[h].on].of, usage),
               usage \in InRepair => usage = "REPAIRING" /\ to = "REPAIRING"
        PROVE  \E p \in Orders : HasNext(p)
    <3>1. handler[h].on \in Orders
      BY <2>4 DEF Ends, WellTyped, HandlersTyped, ReadsStand
    <3> DEFINE o == handler[h].on
    <3>2. order'[o].of = order[o].of /\ order'[o].status = to
      BY <2>4, <3>1 DEF Moved, WellTyped, RowsTyped
    <3>3. CASE a = order[o].of
      <4>1. asset'[a].usage = usage
        BY <2>4, <3>3 DEF Use, WellTyped, RowsTyped
      <4>2. usage = "REPAIRING" /\ to = "REPAIRING"
        BY <2>4, <4>1
      <4> QED
        BY <3>1, <3>2, <3>3, <4>1, <4>2
    <3>4. CASE a # order[o].of
      <4>1. asset'[a] = asset[a]
        BY <2>4, <3>4 DEF Use, WellTyped, RowsTyped
      <4>2. PICK p \in Orders : Has(p)
        BY <2>1, <4>1
      <4>3. order'[p] = order[p]
        BY <2>4, <3>4, <4>2 DEF Moved, WellTyped, RowsTyped
      <4> QED
        BY <4>1, <4>2, <4>3
    <3> QED
      BY <3>3, <3>4
  <2>5. ASSUME NEW h \in Handlers, RepairStep(h) PROVE \E p \in Orders : HasNext(p)
    <3>1. ASSUME NEW b \in Assets, Register(h, b) PROVE \E p \in Orders : HasNext(p)
      BY <2>2, <3>1 DEF Register, Reads
    <3>2. ASSUME NEW o \in Orders, NEW op, Handle(h, o, op) PROVE \E p \in Orders : HasNext(p)
      BY <2>2, <3>2 DEF Handle, Reads
    <3>3. CASE CommitCancel(h)
      <4>1. handler[h].on \in Orders
        BY <3>3 DEF CommitCancel, Ends, WellTyped, HandlersTyped, ReadsStand
      <4>2. order[handler[h].on].pre \notin InRepair
        BY <4>1 DEF WellTyped, RowsTyped, InService, InRepair
      <4>3. /\ Ends(h, "cancel") /\ Moved(h, "PENDING", "CANCELLED")
            /\ Use(order[handler[h].on].of, order[handler[h].on].pre)
        BY <3>3 DEF CommitCancel
      <4> QED
        BY <2>4, <4>2, <4>3
    <3>4. CASE CommitStart(h)
      BY <2>4, <3>4 DEF CommitStart
    <3>5. ASSUME NEW post \in InService, CommitComplete(h, post) PROVE \E p \in Orders : HasNext(p)
      <4>1. post \notin InRepair
        BY DEF InService, InRepair
      <4>2. /\ Ends(h, "complete") /\ Moved(h, "REPAIRING", "COMPLETED")
            /\ Use(order[handler[h].on].of, post)
        BY <3>5 DEF CommitComplete
      <4> QED
        BY <2>4, <4>1, <4>2
    <3> QED
      BY <2>3, <2>5, <3>1, <3>2, <3>3, <3>4, <3>5 DEF RepairStep
  <2>6. ASSUME NEW h \in Handlers, NEW usage, usage \notin InRepair, Use(handler[h].on, usage),
               UNCHANGED order
        PROVE  \E p \in Orders : HasNext(p)
    <3>1. a # handler[h].on
      BY <2>6 DEF Use, WellTyped, RowsTyped
    <3>2. asset'[a] = asset[a]
      BY <2>6, <3>1 DEF Use, WellTyped, RowsTyped
    <3> QED
      BY <2>2, <2>6, <3>2
  <2>7. ASSUME NEW h \in Handlers, RegisterStep(h) PROVE \E p \in Orders : HasNext(p)
    <3>1. ASSUME NEW b \in Assets, UpdateAsset(h, b) \/ Scrap(h, b) \/ DeleteAsset(h, b)
          PROVE  \E p \in Orders : HasNext(p)
      BY <2>2, <3>1 DEF UpdateAsset, Scrap, DeleteAsset, Reads
    <3>2. ASSUME NEW usage \in InService, CommitUpdateAsset(h, usage)
          PROVE  \E p \in Orders : HasNext(p)
      <4>1. usage \notin InRepair
        BY DEF InService, InRepair
      <4> QED
        BY <2>6, <3>2, <4>1 DEF CommitUpdateAsset
    <3>3. CASE CommitScrap(h)
      <4>1. "SCRAPPED" \notin InRepair
        BY DEF InRepair
      <4> QED
        BY <2>6, <3>3, <4>1 DEF CommitScrap
    <3>4. CASE CommitDeleteAsset(h)
      <4>1. asset'[a].usage = asset[a].usage
        BY <3>4 DEF CommitDeleteAsset, WellTyped, RowsTyped
      <4> QED
        BY <2>2, <3>4, <4>1 DEF CommitDeleteAsset
    <3> QED
      BY <2>7, <3>1, <3>2, <3>3, <3>4 DEF RegisterStep
  <2>8. ASSUME NEW h \in Handlers, CodeStep(h) PROVE UNCHANGED <<asset, order>>
    BY <2>8 DEF CodeStep, CreateCode, CommitCreateCode, CommitRegenerate, ChangeCode, CommitSwitch, Reads
  <2>9. ASSUME NEW h \in Handlers, Refused(h) PROVE UNCHANGED <<asset, order>>
    BY <2>9 DEF Refused
  <2>10. CASE UNCHANGED assetVars
    BY <2>2, <2>10 DEF assetVars
  <2> QED
    BY <2>2, <2>5, <2>7, <2>8, <2>9, <2>10 DEF FixedAssetsNext
<1> QED
  BY <1>1, <1>2, AlwaysWellTyped, PTL DEF FixedAssetsSpec

-----------------------------------------------------------------------------
(* A code is only revoked by the one that replaces it, and from then on    *)
(* the asset has a code that the unique index counts.                      *)
RevokedIsReplaced ==
  \A c \in Codes : code[c].status = "REVOKED" =>
    \E d \in Codes : Counted(d) /\ code[d].of = code[c].of

(* Every write of a code keeps that, and none revives a revoked code.      *)
LEMMA CodesStep ==
  ASSUME WellTyped, RevokedIsReplaced, [FixedAssetsNext]_assetVars
  PROVE  /\ RevokedIsReplaced'
         /\ \A c \in Codes : code[c].status = "REVOKED" => code'[c].status = "REVOKED"
<1> DEFINE Kept == /\ RevokedIsReplaced'
                   /\ \A c \in Codes : code[c].status = "REVOKED" => code'[c].status = "REVOKED"
<1>0. code \in [Codes -> [of : Assets \cup {None}, status : CodeStatuses]] /\ ReadsStand
  BY DEF WellTyped, RowsTyped, HandlersTyped
<1>1. ASSUME UNCHANGED code PROVE Kept
  BY <1>1 DEF RevokedIsReplaced, Counted
<1>2. ASSUME NEW h \in Handlers, NEW c \in Codes, CommitCreateCode(h, c) PROVE Kept
  <2>1. \A d \in Codes \ {c} : code'[d] = code[d]
    BY <1>0, <1>2 DEF CommitCreateCode
  <2>2. code[c].status = "NONE" /\ code'[c].status = "ACTIVE"
    BY <1>0, <1>2 DEF CommitCreateCode, NoCode
  <2> QED
    BY <2>1, <2>2 DEF RevokedIsReplaced, Counted
<1>3. ASSUME NEW h \in Handlers, NEW c \in Codes, CommitRegenerate(h, c) PROVE Kept
  <2> DEFINE old == handler[h].on
  <2>1. old \in Codes /\ code[c].status = "NONE"
    BY <1>0, <1>3 DEF CommitRegenerate, Ends, ReadsStand, NoCode
  <2>2. /\ \A d \in Codes \ {old, c} : code'[d] = code[d]
        /\ code'[c] = [of |-> code[old].of, status |-> "ACTIVE"]
        /\ old # c => code'[old].status = "REVOKED" /\ code'[old].of = code[old].of
    BY <1>0, <1>3, <2>1 DEF CommitRegenerate
  <2>3. Counted(c)' /\ code'[c].of = code[old].of
    BY <2>2 DEF Counted
  <2>4. \A d \in Codes : code[d].status = "REVOKED" => code'[d].status = "REVOKED"
    BY <2>1, <2>2
  <2>5. ASSUME NEW e \in Codes, code'[e].status = "REVOKED"
        PROVE  \E d \in Codes : Counted(d)' /\ code'[d].of = code'[e].of
    <3>1. e # c
      BY <2>2, <2>5
    <3>2. CASE e = old
      BY <2>2, <2>3, <3>1, <3>2
    <3>3. CASE e # old
      <4>1. code'[e] = code[e]
        BY <2>2, <3>1, <3>3
      <4>2. PICK d \in Codes : Counted(d) /\ code[d].of = code[e].of
        BY <2>5, <4>1 DEF RevokedIsReplaced
      <4>3. CASE d = old
        BY <2>3, <4>1, <4>2, <4>3
      <4>4. CASE d # old
        <5>1. d # c
          BY <2>1, <4>2 DEF Counted
        <5>2. code'[d] = code[d]
          BY <2>2, <4>4, <5>1
        <5> QED
          BY <4>1, <4>2, <5>2 DEF Counted
      <4> QED
        BY <4>3, <4>4
    <3> QED
      BY <3>2, <3>3
  <2> QED
    BY <2>4, <2>5 DEF RevokedIsReplaced
<1>4. ASSUME NEW h \in Handlers, NEW op \in {"disable", "enable"},
             NEW status \in {"ACTIVE", "DISABLED"}, CommitSwitch(h, op, status)
      PROVE  Kept
  <2> DEFINE c == handler[h].on
  <2>1. c \in Codes
    BY <1>0, <1>4 DEF CommitSwitch, Ends, ReadsStand
  <2>2. /\ \A d \in Codes \ {c} : code'[d] = code[d]
        /\ code'[c].status = status /\ code'[c].of = code[c].of
    BY <1>0, <1>4, <2>1 DEF CommitSwitch
  <2>3. \A d \in Codes \ {c} : Counted(d) => code[d].of # code[c].of
    BY <1>4 DEF CommitSwitch
  <2>4. code[c].status # "REVOKED"
    <3> SUFFICES ASSUME code[c].status = "REVOKED" PROVE FALSE
      OBVIOUS
    <3>1. PICK d \in Codes : Counted(d) /\ code[d].of = code[c].of
      BY <2>1 DEF RevokedIsReplaced
    <3>2. d # c
      BY <3>1 DEF Counted
    <3> QED
      BY <2>2, <2>3, <3>1, <3>2 DEF Counted
  <2> QED
    BY <2>1, <2>2, <2>4 DEF RevokedIsReplaced, Counted
<1>5. ASSUME NEW h \in Handlers, CodeStep(h) PROVE Kept
  <2>1. ASSUME NEW a \in Assets, CreateCode(h, a) PROVE Kept
    BY <1>1, <2>1 DEF CreateCode, Reads
  <2>2. ASSUME NEW c \in Codes, NEW op, ChangeCode(h, c, op) PROVE Kept
    BY <1>1, <2>2 DEF ChangeCode, Reads
  <2> QED
    BY <1>2, <1>3, <1>4, <1>5, <2>1, <2>2 DEF CodeStep
<1>6. ASSUME NEW h \in Handlers, RepairStep(h) PROVE UNCHANGED code
  BY <1>6 DEF RepairStep, Register, CommitRegister, Handle, CommitCancel, CommitStart, CommitComplete, Reads
<1>7. ASSUME NEW h \in Handlers, RegisterStep(h) PROVE UNCHANGED code
  BY <1>7 DEF RegisterStep, UpdateAsset, CommitUpdateAsset, Scrap, CommitScrap, DeleteAsset, CommitDeleteAsset, Reads
<1>8. ASSUME NEW h \in Handlers, Refused(h) PROVE UNCHANGED code
  BY <1>8 DEF Refused
<1>9. CASE UNCHANGED assetVars
  BY <1>1, <1>9 DEF assetVars
<1> QED
  BY <1>1, <1>5, <1>6, <1>7, <1>8, <1>9 DEF FixedAssetsNext

(* RevokedForGood for any number of codes and transactions: enabling or    *)
(* disabling a revoked code would give its asset a second code that the    *)
(* unique index counts.                                                    *)
THEOREM RevokedStaysRevoked == FixedAssetsSpec => RevokedForGood
<1>1. FixedAssetsInit => RevokedIsReplaced
  BY DEF FixedAssetsInit, RevokedIsReplaced, NoCode
<1>2. WellTyped /\ RevokedIsReplaced /\ [FixedAssetsNext]_assetVars => RevokedIsReplaced'
  BY CodesStep
<1>3. WellTyped /\ RevokedIsReplaced /\ [FixedAssetsNext]_assetVars
        => [\A c \in Codes : code[c].status = "REVOKED" => code'[c].status = "REVOKED"]_assetVars
  BY CodesStep
<1> QED
  BY <1>1, <1>2, <1>3, AlwaysWellTyped, PTL DEF FixedAssetsSpec, RevokedForGood
=============================================================================
