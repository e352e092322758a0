----------------------------- MODULE Sums_proofs -----------------------------
(***************************************************************************)
(* Sums over finite sets, as the statements of the services compute them:  *)
(* SumFunction adds the values of a function in an order nobody specifies. *)
(* The library's induction theorems take a predicate as a parameter, which *)
(* no installed prover can instantiate; each lemma here is proved from a   *)
(* smallest counterexample instead.                                        *)
(***************************************************************************)
EXTENDS Integers, FiniteSets, Functions, FiniteSetTheorems, TLAPS

(* A nonempty family of subsets of a finite set has a smallest member.     *)
LEMMA Smallest ==
  ASSUME NEW S, IsFiniteSet(S), NEW C, C \subseteq SUBSET S, C # {}
  PROVE  \E s \in C : \A t \in C : t \subseteq s => t = s
<1>1. FiniteSubsetsOf(S) = SUBSET S
  BY FS_FiniteSubsetsOfFinite
<1>2. IsWellFoundedOn(StrictSubsetOrdering(S), SUBSET S)
  BY <1>1, FS_StrictSubsetOrderingWellFounded
<1>3. PICK s \in C : \A t \in C : <<t, s>> \notin StrictSubsetOrdering(S)
  BY <1>2, WFMin
<1>4. ASSUME NEW t \in C, t \subseteq s, t # s PROVE FALSE
  <2>1. <<t, s>> \in (SUBSET S) \X (SUBSET S)
    BY <1>3, <1>4
  <2>2. <<t, s>> \in StrictSubsetOrdering(S)
    BY <1>4, <2>1 DEF StrictSubsetOrdering
  <2> QED
    BY <1>3, <1>4, <2>2
<1> QED
  BY <1>3, <1>4

-----------------------------------------------------------------------------
(* The recursive function behind SumFunction.                              *)

One(s) == CHOOSE x \in s : TRUE
Body(f, g, S) == [s \in SUBSET S |-> IF s = {} THEN 0 ELSE f[One(s)] + g[s \ {One(s)}]]
Adds(f, g, S) == g = Body(f, g, S)
Iter(f, S) == CHOOSE g : Adds(f, g, S)

LEMMA SumUnfolds == ASSUME NEW f PROVE SumFunction(f) = Iter(f, DOMAIN f)[DOMAIN f]
  BY DEF SumFunction, SumFunctionOnSet, FoldFunctionOnSet, MapThenFoldSet, Iter, Adds, Body, One

LEMMA OneIn == ASSUME NEW s, s # {} PROVE One(s) \in s
  BY DEF One

LEMMA Unfold ==
  ASSUME NEW f, NEW g, NEW S, Adds(f, g, S), NEW s, s \subseteq S
  PROVE  /\ s = {} => g[s] = 0
         /\ s # {} => g[s] = f[One(s)] + g[s \ {One(s)}]
<1>1. g[s] = Body(f, g, S)[s]
  BY DEF Adds
<1> QED
  BY <1>1 DEF Body

LEMMA UnfoldTop ==
  ASSUME NEW f, NEW g, NEW S, Adds(f, g, S), S # {}
  PROVE  g[S] = f[One(S)] + g[S \ {One(S)}]
  BY Unfold

LEMMA SameValues ==
  ASSUME NEW S, NEW f, NEW h, NEW g, Adds(f, g, S), \A x \in S : f[x] = h[x]
  PROVE  Adds(h, g, S)
<1>1. Body(f, g, S) = Body(h, g, S)
  BY OneIn DEF Body
<1> QED
  BY <1>1 DEF Adds

(* Two such functions agree where both are defined.                        *)
LEMMA Agree ==
  ASSUME NEW T, IsFiniteSet(T), NEW U, U \subseteq T, NEW f, NEW g, NEW k, Adds(f, g, T), Adds(f, k, U)
  PROVE  g[U] = k[U]
<1> DEFINE C == {s \in SUBSET U : g[s] # k[s]}
<1>1. SUFFICES ASSUME C # {} PROVE FALSE
  OBVIOUS
<1>2. PICK s \in C : \A t \in C : t \subseteq s => t = s
  <2>1. C \subseteq SUBSET T
    OBVIOUS
  <2> HIDE DEF C
  <2> QED
    BY <1>1, <2>1, Smallest
<1>3. s \subseteq T /\ s \subseteq U /\ g[s] # k[s]
  BY <1>2
<1>4. s # {}
  BY <1>3, Unfold
<1>5. PICK x \in s : x = One(s)
  BY <1>4, OneIn
<1>6. g[s \ {x}] = k[s \ {x}]
  BY <1>2, <1>5
<1>7. g[s] = f[One(s)] + g[s \ {One(s)}]
  BY <1>3, <1>4, Unfold
<1>8. k[s] = f[One(s)] + k[s \ {One(s)}]
  BY <1>3, <1>4, Unfold
<1> QED
  BY <1>3, <1>5, <1>6, <1>7, <1>8

LEMMA Exists ==
  ASSUME NEW S, IsFiniteSet(S), NEW f
  PROVE  \A T \in SUBSET S : Adds(f, Iter(f, T), T)
<1> DEFINE C == {T \in SUBSET S : ~ \E g : Adds(f, g, T)}
<1>1. SUFFICES ASSUME C # {} PROVE FALSE
  BY DEF Iter
<1>2. PICK T \in C : \A t \in C : t \subseteq T => t = T
  <2>1. C \subseteq SUBSET S
    OBVIOUS
  <2> HIDE DEF C
  <2> QED
    BY <1>1, <2>1, Smallest
<1>3. ASSUME NEW t, t \subseteq T, t # T PROVE Adds(f, Iter(f, t), t)
  BY <1>2, <1>3 DEF Iter
<1> DEFINE Rest(s) == s \ {One(s)}
           G == [s \in SUBSET T |-> IF s = {} THEN 0 ELSE f[One(s)] + Iter(f, Rest(s))[Rest(s)]]
<1>4. ASSUME NEW s \in SUBSET T, s # {} PROVE G[Rest(s)] = Iter(f, Rest(s))[Rest(s)]
  <2>1. PICK u : u = Rest(s)
    OBVIOUS
  <2>2. u \subseteq T /\ u # T
    BY <1>4, <2>1, OneIn
  <2>3. Adds(f, Iter(f, u), u)
    BY <1>3, <2>2
  <2>4. CASE u = {}
    <3>1. G[u] = 0
      BY <2>2, <2>4
    <3>2. Iter(f, u)[u] = 0
      BY <2>3, <2>4, Unfold
    <3> QED
      BY <2>1, <3>1, <3>2
  <2>5. CASE u # {}
    <3>1. PICK v, k : v = Rest(u) /\ k = Iter(f, u)
      OBVIOUS
    <3>2. v \subseteq u /\ v \subseteq T /\ v # T
      BY <2>2, <3>1
    <3>3. Adds(f, Iter(f, v), v) /\ Adds(f, k, u) /\ IsFiniteSet(u)
      BY <1>2, <1>3, <2>2, <2>3, <3>1, <3>2, FS_Subset
    <3>4. k[v] = Iter(f, v)[v]
      BY <3>2, <3>3, Agree
    <3>5. G[u] = f[One(u)] + Iter(f, v)[v]
      BY <2>2, <2>5, <3>1
    <3>6. k[u] = f[One(u)] + k[u \ {One(u)}]
      BY <2>5, <3>3, UnfoldTop
    <3> QED
      BY <2>1, <3>1, <3>4, <3>5, <3>6
  <2> QED
    BY <2>4, <2>5
<1>5. G = [s \in SUBSET T |-> IF s = {} THEN 0 ELSE f[One(s)] + G[Rest(s)]]
  BY <1>4
<1>6. Adds(f, G, T)
  BY <1>5 DEF Adds, Body
<1> QED
  BY <1>2, <1>6

-----------------------------------------------------------------------------
(* Sum(f, T): the values of f over T.                                      *)

SumOver(f, T) == SumFunction([x \in T |-> f[x]])

LEMMA SumIsOver == ASSUME NEW S, NEW f, f = [x \in S |-> f[x]] PROVE SumFunction(f) = SumOver(f, S)
  BY DEF SumOver

LEMMA SumOfNone == ASSUME NEW f PROVE SumOver(f, {}) = 0
<1>1. PICK g : g = [x \in {} |-> f[x]]
  OBVIOUS
<1>2. Adds(g, Iter(g, {}), {})
  BY Exists, FS_EmptySet
<1> QED
  BY <1>1, <1>2, SumUnfolds, Unfold DEF SumOver

LEMMA SumOfSome ==
  ASSUME NEW T, IsFiniteSet(T), T # {}, NEW f
  PROVE  One(T) \in T /\ SumOver(f, T) = f[One(T)] + SumOver(f, T \ {One(T)})
<1>1. PICK x \in T : x = One(T)
  BY OneIn
<1>2. PICK U : U = T \ {x}
  OBVIOUS
<1>3. PICK g, h : g = [y \in T |-> f[y]] /\ h = [y \in U |-> f[y]]
  OBVIOUS
<1>4. Adds(g, Iter(g, T), T) /\ Adds(h, Iter(h, U), U)
  <2>1. T \in SUBSET T /\ U \in SUBSET T
    BY <1>2
  <2> QED
    BY <2>1, Exists
<1>5. Iter(g, T)[U] = Iter(h, U)[U]
  <2>1. U \subseteq T /\ \A y \in U : h[y] = g[y]
    BY <1>2, <1>3
  <2>2. Adds(g, Iter(h, U), U)
    BY <1>4, <2>1, SameValues
  <2> QED
    BY <1>4, <2>1, <2>2, Agree
<1>6. SumOver(f, T) = Iter(g, T)[T] /\ SumOver(f, U) = Iter(h, U)[U]
  BY <1>3, SumUnfolds DEF SumOver
<1>7. Iter(g, T)[T] = g[One(T)] + Iter(g, T)[T \ {One(T)}]
  BY <1>4, UnfoldTop
<1> QED
  BY <1>1, <1>2, <1>3, <1>5, <1>6, <1>7

LEMMA SumType ==
  ASSUME NEW S, IsFiniteSet(S), NEW f \in [S -> Int]
  PROVE  \A T \in SUBSET S : SumOver(f, T) \in Int
<1> DEFINE C == {T \in SUBSET S : SumOver(f, T) \notin Int}
<1>1. SUFFICES ASSUME C # {} PROVE FALSE
  OBVIOUS
<1>2. PICK T \in C : \A t \in C : t \subseteq T => t = T
  <2>1. C \subseteq SUBSET S
    OBVIOUS
  <2> HIDE DEF C
  <2> QED
    BY <1>1, <2>1, Smallest
<1>3. T # {} /\ IsFiniteSet(T)
  <2>1. SumOver(f, {}) = 0
    BY SumOfNone
  <2>2. SumOver(f, T) \notin Int /\ T \in SUBSET S
    BY <1>2
  <2>3. T # {}
    BY <2>1, <2>2
  <2> QED
    BY <2>2, <2>3, FS_Subset
<1>4. One(T) \in T /\ SumOver(f, T) = f[One(T)] + SumOver(f, T \ {One(T)})
  BY <1>3, SumOfSome
<1>5. SumOver(f, T \ {One(T)}) \in Int
  BY <1>2, <1>4
<1> QED
  BY <1>2, <1>4, <1>5

(* Whichever element is added first, the sum is the same.                  *)
LEMMA SumSplits ==
  ASSUME NEW S, IsFiniteSet(S), NEW f \in [S -> Int]
  PROVE  \A T \in SUBSET S : \A x \in T : SumOver(f, T) = f[x] + SumOver(f, T \ {x})
<1> DEFINE C == {T \in SUBSET S : \E x \in T : SumOver(f, T) # f[x] + SumOver(f, T \ {x})}
<1>1. SUFFICES ASSUME C # {} PROVE FALSE
  OBVIOUS
<1>2. PICK T \in C : \A t \in C : t \subseteq T => t = T
  <2>1. C \subseteq SUBSET S
    OBVIOUS
  <2> HIDE DEF C
  <2> QED
    BY <1>1, <2>1, Smallest
<1>3. PICK x \in T : SumOver(f, T) # f[x] + SumOver(f, T \ {x})
  BY <1>2
<1>4. IsFiniteSet(T) /\ T \in SUBSET S /\ T # {}
  BY <1>2, <1>3, FS_Subset
<1>5. PICK p : p = One(T)
  OBVIOUS
<1>6. p \in T /\ SumOver(f, T) = f[p] + SumOver(f, T \ {p})
  BY <1>4, <1>5, SumOfSome
<1>7. x # p
  BY <1>3, <1>6
<1>8. SumOver(f, T \ {p}) = f[x] + SumOver(f, (T \ {p}) \ {x})
  <2>1. T \ {p} \in SUBSET S /\ x \in T \ {p} /\ T \ {p} # T /\ T \ {p} \subseteq T
    BY <1>4, <1>6, <1>7
  <2>2. T \ {p} \notin C
    BY <1>2, <2>1
  <2> QED
    BY <2>1, <2>2
<1>9. SumOver(f, T \ {x}) = f[p] + SumOver(f, (T \ {x}) \ {p})
  <2>1. T \ {x} \in SUBSET S /\ p \in T \ {x} /\ T \ {x} # T /\ T \ {x} \subseteq T
    BY <1>4, <1>6, <1>7
  <2>2. T \ {x} \notin C
    BY <1>2, <2>1
  <2> QED
    BY <2>1, <2>2
<1>10. (T \ {x}) \ {p} = (T \ {p}) \ {x}
  OBVIOUS
<1>11. PICK r : r = SumOver(f, (T \ {p}) \ {x})
  OBVIOUS
<1>12. r \in Int
  BY <1>4, <1>11, SumType
<1>13. f[x] \in Int /\ f[p] \in Int
  BY <1>4, <1>6
<1>14. SumOver(f, T) = f[p] + (f[x] + r) /\ SumOver(f, T \ {x}) = f[p] + r
  BY <1>6, <1>8, <1>9, <1>10, <1>11
<1> QED
  BY <1>3, <1>12, <1>13, <1>14

-----------------------------------------------------------------------------
(* Induction over finite sets, with a set of sets for the predicate.       *)

LEMMA SetInduction ==
  ASSUME NEW S, IsFiniteSet(S), NEW P, {} \in P,
         \A T \in SUBSET S : \A x \in T : T \ {x} \in P => T \in P
  PROVE  \A T \in SUBSET S : T \in P
<1> DEFINE C == {T \in SUBSET S : T \notin P}
<1>1. SUFFICES ASSUME C # {} PROVE FALSE
  OBVIOUS
<1>2. PICK T \in C : \A t \in C : t \subseteq T => t = T
  <2>1. C \subseteq SUBSET S
    OBVIOUS
  <2> HIDE DEF C
  <2> QED
    BY <1>1, <2>1, Smallest
<1>3. PICK x : x \in T
  BY <1>2
<1>4. T \ {x} \in P
  BY <1>2, <1>3
<1> QED
  BY <1>2, <1>3, <1>4

(* Sums add up term by term.                                               *)
LEMMA SumAdds ==
  ASSUME NEW S, IsFiniteSet(S), NEW f \in [S -> Int], NEW g \in [S -> Int], NEW h \in [S -> Int],
         \A x \in S : h[x] = f[x] + g[x]
  PROVE  SumFunction(h) = SumFunction(f) + SumFunction(g)
<1> DEFINE P == {T \in SUBSET S : SumOver(h, T) = SumOver(f, T) + SumOver(g, T)}
<1>1. {} \in P
  BY SumOfNone
<1>2. ASSUME NEW T \in SUBSET S, NEW x \in T, T \ {x} \in P PROVE T \in P
  <2>1. PICK U : U = T \ {x}
    OBVIOUS
  <2>2. U \in SUBSET S /\ SumOver(h, U) = SumOver(f, U) + SumOver(g, U)
    BY <1>2, <2>1
  <2>3. SumOver(f, U) \in Int /\ SumOver(g, U) \in Int /\ f[x] \in Int /\ g[x] \in Int
    BY <2>2, SumType
  <2>4. /\ SumOver(f, T) = f[x] + SumOver(f, U) /\ SumOver(g, T) = g[x] + SumOver(g, U)
        /\ SumOver(h, T) = h[x] + SumOver(h, U) /\ h[x] = f[x] + g[x]
    BY <2>1, SumSplits
  <2>5. SumOver(h, T) = SumOver(f, T) + SumOver(g, T)
    BY <2>2, <2>3, <2>4
  <2> QED
    BY <2>5
<1>3. S \in P
  <2> HIDE DEF P
  <2> QED
    BY <1>1, <1>2, SetInduction
<1> QED
  BY <1>3, SumIsOver

LEMMA SumInt ==
  ASSUME NEW S, IsFiniteSet(S), NEW f \in [S -> Int]
  PROVE  SumFunction(f) \in Int
<1>1. SumFunction(f) = SumOver(f, S) /\ S \in SUBSET S
  BY SumIsOver
<1> QED
  BY <1>1, SumType

LEMMA SumSubtracts ==
  ASSUME NEW S, IsFiniteSet(S), NEW f \in [S -> Int], NEW g \in [S -> Int], NEW h \in [S -> Int],
         \A x \in S : h[x] = f[x] - g[x]
  PROVE  SumFunction(h) = SumFunction(f) - SumFunction(g)
<1>1. \A x \in S : f[x] = h[x] + g[x]
  OBVIOUS
<1>2. SumFunction(f) = SumFunction(h) + SumFunction(g)
  BY <1>1, SumAdds
<1> QED
  BY <1>2, SumInt

(* Terms that are zero do not count.                                       *)
LEMMA SumWithin ==
  ASSUME NEW S, IsFiniteSet(S), NEW T, T \subseteq S, NEW f \in [S -> Int], NEW g \in [T -> Int],
         \A x \in T : f[x] = g[x], \A x \in S \ T : f[x] = 0
  PROVE  SumFunction(f) = SumFunction(g)
<1> DEFINE P == {U \in SUBSET S : SumOver(f, U) = SumOver(g, U \cap T)}
<1>1. {} \in P
  <2>1. {} \cap T = {}
    OBVIOUS
  <2> QED
    BY <2>1, SumOfNone
<1>2. ASSUME NEW U \in SUBSET S, NEW x \in U, U \ {x} \in P PROVE U \in P
  <2>1. SumOver(f, U) = f[x] + SumOver(g, (U \ {x}) \cap T)
    BY <1>2, SumSplits
  <2>2. IsFiniteSet(T)
    BY FS_Subset
  <2>3. CASE x \in T
    <3>1. (U \ {x}) \cap T = (U \cap T) \ {x} /\ x \in U \cap T /\ U \cap T \in SUBSET T
      BY <2>3
    <3>2. SumOver(g, U \cap T) = g[x] + SumOver(g, (U \cap T) \ {x})
      BY <2>2, <3>1, SumSplits
    <3> QED
      BY <2>1, <2>3, <3>1, <3>2
  <2>4. CASE x \notin T
    <3>1. (U \ {x}) \cap T = U \cap T /\ f[x] = 0 /\ U \cap T \in SUBSET T
      BY <2>4
    <3>2. SumOver(g, U \cap T) \in Int
      BY <2>2, <3>1, SumType
    <3>3. SumOver(f, U) = 0 + SumOver(g, U \cap T)
      BY <2>1, <3>1
    <3>4. SumOver(f, U) = SumOver(g, U \cap T)
      BY <3>2, <3>3
    <3> QED
      BY <3>4
  <2> QED
    BY <2>3, <2>4
<1>3. S \in P
  <2> HIDE DEF P
  <2>1. \A U \in SUBSET S : \A x \in U : U \ {x} \in P => U \in P
    BY <1>2
  <2>2. \A U \in SUBSET S : U \in P
    BY <1>1, <2>1, SetInduction
  <2> QED
    BY <2>2
<1>4. S \cap T = T
  OBVIOUS
<1> QED
  BY <1>3, <1>4, SumIsOver

LEMMA SumZero ==
  ASSUME NEW S, IsFiniteSet(S), NEW f \in [S -> Int], \A x \in S : f[x] = 0
  PROVE  SumFunction(f) = 0
<1>1. PICK T, g : T = {} /\ g = [x \in T |-> 0]
  OBVIOUS
<1>2. g \in [T -> Int] /\ T \subseteq S /\ (\A x \in T : f[x] = g[x]) /\ \A x \in S \ T : f[x] = 0
  BY <1>1
<1>3. SumFunction(f) = SumFunction(g)
  BY <1>2, SumWithin
<1>4. SumFunction(g) = 0
  BY <1>1, <1>2, SumOfNone, SumIsOver
<1> QED
  BY <1>3, <1>4

LEMMA SumOfOne ==
  ASSUME NEW S, IsFiniteSet(S), NEW f \in [S -> Int], NEW a \in S, \A x \in S \ {a} : f[x] = 0
  PROVE  SumFunction(f) = f[a]
<1>1. PICK g : g = [x \in {a} |-> f[x]]
  OBVIOUS
<1>2. g \in [{a} -> Int] /\ {a} \subseteq S /\ \A x \in {a} : f[x] = g[x]
  BY <1>1
<1>3. SumFunction(f) = SumFunction(g)
  <2>1. PICK T : T = {a}
    OBVIOUS
  <2>2. T \subseteq S /\ g \in [T -> Int] /\ (\A x \in T : f[x] = g[x]) /\ (\A x \in S \ T : f[x] = 0)
    BY <1>2, <2>1
  <2> QED
    BY <2>2, SumWithin
<1>4. SumOver(g, {a}) = g[a] + SumOver(g, {})
  <2>1. IsFiniteSet({a}) /\ a \in {a} /\ {a} \ {a} = {} /\ {a} \in SUBSET {a}
    BY FS_Singleton
  <2> QED
    BY <1>2, <2>1, SumSplits
<1>5. SumFunction(g) = SumOver(g, {a}) /\ SumOver(g, {}) = 0
  BY <1>2, SumIsOver, SumOfNone
<1> QED
  BY <1>2, <1>3, <1>4, <1>5

(* One term changes.                                                       *)
LEMMA SumChanges ==
  ASSUME NEW S, IsFiniteSet(S), NEW f \in [S -> Int], NEW g \in [S -> Int], NEW a \in S,
         \A x \in S \ {a} : g[x] = f[x]
  PROVE  SumFunction(g) = SumFunction(f) - f[a] + g[a]
<1>1. PICK h : h = [x \in S |-> IF x = a THEN g[a] - f[a] ELSE 0]
  OBVIOUS
<1>2. h \in [S -> Int] /\ (\A x \in S : g[x] = f[x] + h[x]) /\ (\A x \in S \ {a} : h[x] = 0)
  BY <1>1
<1>3. SumFunction(g) = SumFunction(f) + SumFunction(h)
  BY <1>2, SumAdds
<1>4. SumFunction(h) = h[a] /\ h[a] = g[a] - f[a]
  BY <1>1, <1>2, SumOfOne
<1>5. SumFunction(f) \in Int /\ f[a] \in Int /\ g[a] \in Int
  BY SumInt
<1> QED
  BY <1>3, <1>4, <1>5

(* Quantities that are not negative: none exceeds the sum.                 *)
LEMMA SumNat ==
  ASSUME NEW S, IsFiniteSet(S), NEW f \in [S -> Nat]
  PROVE  SumFunction(f) \in Nat /\ \A x \in S : f[x] <= SumFunction(f)
<1>1. f \in [S -> Int]
  OBVIOUS
<1> DEFINE P == {T \in SUBSET S : SumOver(f, T) \in Nat}
<1>2. {} \in P
  BY SumOfNone
<1>3. ASSUME NEW T \in SUBSET S, NEW x \in T, T \ {x} \in P PROVE T \in P
  <2>1. SumOver(f, T) = f[x] + SumOver(f, T \ {x}) /\ SumOver(f, T \ {x}) \in Nat /\ f[x] \in Nat
    BY <1>1, <1>3, SumSplits
  <2>2. SumOver(f, T) \in Nat
    BY <2>1
  <2> QED
    BY <2>2
<1>4. \A T \in SUBSET S : SumOver(f, T) \in Nat
  <2> HIDE DEF P
  <2>1. \A T \in SUBSET S : \A x \in T : T \ {x} \in P => T \in P
    BY <1>3
  <2>2. \A T \in SUBSET S : T \in P
    BY <1>2, <2>1, SetInduction
  <2> QED
    BY <2>2 DEF P
<1>5. SumFunction(f) = SumOver(f, S)
  BY SumIsOver
<1>6. ASSUME NEW x \in S PROVE f[x] <= SumFunction(f)
  <2>1. SumOver(f, S) = f[x] + SumOver(f, S \ {x}) /\ SumOver(f, S \ {x}) \in Nat /\ f[x] \in Nat
    BY <1>1, <1>4, SumSplits
  <2> QED
    BY <1>5, <2>1
<1> QED
  BY <1>4, <1>5, <1>6

(* A table is the same whether its rows or its columns are added first.    *)
LEMMA SumSwap ==
  ASSUME NEW A, IsFiniteSet(A), NEW B, IsFiniteSet(B), NEW F \in [A -> [B -> Int]]
  PROVE  SumFunction([a \in A |-> SumFunction(F[a])])
           = SumFunction([b \in B |-> SumFunction([a \in A |-> F[a][b]])])
<1>1. PICK r, col : r = [a \in A |-> SumFunction(F[a])] /\ col = [b \in B |-> [a \in A |-> F[a][b]]]
  OBVIOUS
<1>2. r \in [A -> Int]
  BY <1>1, SumInt
<1>3. \A b \in B : col[b] \in [A -> Int]
  BY <1>1
<1>4. \A T \in SUBSET A : [b \in B |-> SumOver(col[b], T)] \in [B -> Int]
  BY <1>3, SumType
<1> DEFINE P == {T \in SUBSET A : SumOver(r, T) = SumFunction([b \in B |-> SumOver(col[b], T)])}
<1>5. {} \in P
  <2>1. PICK z : z = [b \in B |-> SumOver(col[b], {})]
    OBVIOUS
  <2>2. z \in [B -> Int] /\ \A b \in B : z[b] = 0
    BY <2>1, SumOfNone
  <2>3. SumFunction(z) = 0
    BY <2>2, SumZero
  <2> QED
    BY <2>1, <2>3, SumOfNone
<1>6. ASSUME NEW T \in SUBSET A, NEW x \in T, T \ {x} \in P PROVE T \in P
  <2>1. PICK g, h, f : /\ g = [b \in B |-> SumOver(col[b], T \ {x})] /\ h = [b \in B |-> SumOver(col[b], T)]
                       /\ f = F[x]
    OBVIOUS
  <2>2. g \in [B -> Int] /\ h \in [B -> Int] /\ f \in [B -> Int]
    BY <1>4, <2>1
  <2>3. \A b \in B : h[b] = f[b] + g[b]
    <3>1. SUFFICES ASSUME NEW b \in B PROVE h[b] = f[b] + g[b]
      OBVIOUS
    <3>2. SumOver(col[b], T) = col[b][x] + SumOver(col[b], T \ {x})
      BY <1>3, SumSplits
    <3> QED
      BY <1>1, <2>1, <3>2
  <2>4. SumFunction(h) = SumFunction(f) + SumFunction(g)
    BY <2>2, <2>3, SumAdds
  <2>5. SumOver(r, T) = r[x] + SumOver(r, T \ {x})
    BY <1>2, SumSplits
  <2>6. r[x] = SumFunction(f) /\ SumOver(r, T \ {x}) = SumFunction(g)
    BY <1>1, <1>6, <2>1
  <2>7. SumOver(r, T) = SumFunction(h)
    BY <2>4, <2>5, <2>6
  <2> QED
    BY <2>1, <2>7
<1>7. A \in P
  <2> HIDE DEF P
  <2>1. \A T \in SUBSET A : \A x \in T : T \ {x} \in P => T \in P
    BY <1>6
  <2>2. \A T \in SUBSET A : T \in P
    BY <1>5, <2>1, SetInduction
  <2> QED
    BY <2>2
<1>8. SumOver(r, A) = SumFunction(r)
  BY <1>2, SumIsOver
<1>9. [b \in B |-> SumOver(col[b], A)] = [b \in B |-> SumFunction([a \in A |-> F[a][b]])]
  BY <1>1 DEF SumOver
<1> QED
  BY <1>1, <1>7, <1>8, <1>9

(* Every term of one sum is a term of the other, and the other way round.  *)
LEMMA SumMoves ==
  ASSUME NEW A, IsFiniteSet(A), NEW B, IsFiniteSet(B), NEW m \in [A -> B],
         \A a, b \in A : m[a] = m[b] => a = b, \A b \in B : \E a \in A : m[a] = b,
         NEW f \in [A -> Int], NEW g \in [B -> Int], \A a \in A : f[a] = g[m[a]]
  PROVE  SumFunction(f) = SumFunction(g)
<1>1. PICK F : F = [a \in A |-> [b \in B |-> IF m[a] = b THEN g[b] ELSE 0]]
  OBVIOUS
<1>2. F \in [A -> [B -> Int]]
  BY <1>1
<1>3. [a \in A |-> SumFunction(F[a])] = f
  <2>1. ASSUME NEW a \in A PROVE SumFunction(F[a]) = f[a]
    <3>1. PICK h, c : h = F[a] /\ c = m[a]
      OBVIOUS
    <3>2. h \in [B -> Int] /\ c \in B /\ h[c] = g[c] /\ \A b \in B \ {c} : h[b] = 0
      BY <1>1, <3>1
    <3>3. SumFunction(h) = h[c]
      BY <3>2, SumOfOne
    <3> QED
      BY <3>1, <3>2, <3>3
  <2> QED
    BY <2>1
<1>4. [b \in B |-> SumFunction([a \in A |-> F[a][b]])] = g
  <2>1. ASSUME NEW b \in B PROVE SumFunction([a \in A |-> F[a][b]]) = g[b]
    <3>1. PICK c \in A : m[c] = b
      OBVIOUS
    <3>2. PICK h : h = [a \in A |-> F[a][b]]
      OBVIOUS
    <3>3. h \in [A -> Int] /\ h[c] = g[b] /\ \A a \in A \ {c} : h[a] = 0
      BY <1>1, <3>1, <3>2
    <3>4. SumFunction(h) = h[c]
      BY <3>3, SumOfOne
    <3> QED
      BY <3>2, <3>3, <3>4
  <2> QED
    BY <2>1
<1> QED
  BY <1>2, <1>3, <1>4, SumSwap

-----------------------------------------------------------------------------
(* Taking q from boxes in order: each gives what is left to take after the *)
(* ones before it, at most what it holds.  Together they give q, or all    *)
(* they hold when that is less.                                            *)

Clip(n, max) == IF n < 0 THEN 0 ELSE IF n > max THEN max ELSE n

LEMMA Emptied ==
  ASSUME NEW B, IsFiniteSet(B), NEW older \in [B -> SUBSET B],
         \A b \in B : b \notin older[b],
         \A b, c \in B : b \in older[c] \/ c \in older[b] \/ b = c,
         \A b, c \in B : c \in older[b] => older[c] \subseteq older[b],
         NEW cap \in [B -> Nat], NEW q \in Nat, NEW take \in [B -> Int],
         \A b \in B : take[b] = Clip(q - SumOver(cap, older[b]), cap[b])
  PROVE  SumFunction(take) = IF q <= SumFunction(cap) THEN q ELSE SumFunction(cap)
<1> DEFINE Min(n) == IF q <= n THEN q ELSE n
           C == {T \in SUBSET B : /\ \A b \in T : older[b] \subseteq T
                                  /\ SumOver(take, T) # Min(SumOver(cap, T))}
<1>0. cap \in [B -> Int] /\ \A T \in SUBSET B : SumOver(cap, T) \in Nat
  <2>1. cap \in [B -> Int]
    OBVIOUS
  <2>2. ASSUME NEW T \in SUBSET B PROVE SumOver(cap, T) \in Nat
    <3>1. PICK f : f = [x \in T |-> cap[x]]
      OBVIOUS
    <3>2. f \in [T -> Nat] /\ IsFiniteSet(T)
      BY <3>1, FS_Subset
    <3> QED
      BY <3>1, <3>2, SumNat DEF SumOver
  <2> QED
    BY <2>1, <2>2
<1>1. C = {}
  <2>1. SUFFICES ASSUME C # {} PROVE FALSE
    OBVIOUS
  <2>2. PICK T \in C : \A t \in C : t \subseteq T => t = T
    <3>1. C \subseteq SUBSET B
      OBVIOUS
    <3> HIDE DEF C
    <3> QED
      BY <2>1, <3>1, Smallest
  <2>3. T \in SUBSET B /\ (\A b \in T : older[b] \subseteq T) /\ SumOver(take, T) # Min(SumOver(cap, T))
    BY <2>2
  <2>4. T # {}
    <3>1. SUFFICES ASSUME T = {} PROVE FALSE
      OBVIOUS
    <3>2. SumOver(take, T) = 0 /\ SumOver(cap, T) = 0
      BY <3>1, SumOfNone
    <3>3. Min(0) = 0
      OBVIOUS
    <3> QED
      BY <2>3, <3>2, <3>3
  (* The last box of T.                                                    *)
  <2>5. PICK m \in T : older[m] = T \ {m}
    <3> DEFINE D == {B \ older[b] : b \in T}
    <3>1. PICK s \in D : \A t \in D : t \subseteq s => t = s
      <4>1. D \subseteq SUBSET B
        OBVIOUS
      <4>2. PICK b \in T : TRUE
        BY <2>4
      <4>3. B \ older[b] \in D
        BY <4>2
      <4>4. D # {}
        BY <4>3
      <4> HIDE DEF D
      <4> QED
        BY <4>1, <4>4, Smallest
    <3>2. PICK m \in T : s = B \ older[m]
      BY <3>1
    <3>3. ASSUME NEW c \in T, c # m, c \notin older[m] PROVE FALSE
      <4>1. m \in B /\ c \in B /\ m \in older[c]
        BY <2>3, <3>3
      <4>2. older[m] \subseteq older[c] /\ m \notin older[m]
        BY <4>1
      <4>3. PICK t : t = B \ older[c]
        OBVIOUS
      <4>4. t \in D /\ t \subseteq s /\ m \in s /\ m \notin t
        BY <3>2, <3>3, <4>1, <4>2, <4>3
      <4> HIDE DEF D
      <4> QED
        BY <3>1, <4>4
    <3>4. older[m] \subseteq T /\ m \notin older[m]
      BY <2>3
    <3> QED
      BY <3>3, <3>4
  <2>6. PICK U : U = T \ {m}
    OBVIOUS
  <2>7. U \in SUBSET B /\ U \subseteq T /\ U # T /\ \A b \in U : older[b] \subseteq U
    BY <2>3, <2>5, <2>6
  <2>8. SumOver(take, U) = Min(SumOver(cap, U))
    <3>1. U \notin C
      BY <2>2, <2>7
    <3> QED
      BY <2>7, <3>1
  <2>9. SumOver(take, T) = take[m] + SumOver(take, U) /\ SumOver(cap, T) = cap[m] + SumOver(cap, U)
    BY <1>0, <2>3, <2>6, SumSplits
  <2>10. take[m] = Clip(q - SumOver(cap, U), cap[m]) /\ cap[m] \in Nat
    BY <2>3, <2>5, <2>6
  <2>11. PICK n \in Nat : n = SumOver(cap, U)
    BY <1>0, <2>7
  <2>12. Clip(q - n, cap[m]) + Min(n) = Min(cap[m] + n)
    BY <2>10 DEF Clip
  <2>13. SumOver(take, T) = Min(SumOver(cap, T))
    BY <2>8, <2>9, <2>10, <2>11, <2>12
  <2> QED
    BY <2>3, <2>13
<1>2. SumOver(take, B) = Min(SumOver(cap, B))
  BY <1>1
<1> QED
  BY <1>2, SumIsOver
=============================================================================
