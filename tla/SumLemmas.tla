----------------------------- MODULE SumLemmas -----------------------------
(***************************************************************************)
(* Facts about SumFunction and SumFunctionOnSet of the community modules, and *)
(* about finite totally ordered sets.  The library's induction theorems take *)
(* an operator for the property; here a property is the SET of the values  *)
(* that have it, which every backend can instantiate, and induction rests on *)
(* the least element of a well founded order.  The recursive fold behind a *)
(* sum is shown to have a solution on every finite set (TableExists), and the *)
(* usual laws of sums follow.                                              *)
(***************************************************************************)
EXTENDS Integers, FiniteSets, Functions, FiniteSetTheorems,
        WellFoundedInduction, TLAPS

\* The order of the naturals, as a relation.
Less == {p \in Nat \X Nat : p[1] < p[2]}

\* The order < of the natural numbers is well founded.
LEMMA LessWellFounded == IsWellFoundedOn(Less, Nat)
<1>1. OpToRel(<, Nat) = Less
  BY Zenon DEF OpToRel, Less
<1> QED
  BY <1>1, NatLessThanWellFounded, Zenon

\* Every non-empty set of natural numbers has a least element.
LEMMA LeastElement ==
  ASSUME NEW X \in SUBSET Nat, X # {}
  PROVE  \E m \in X : \A n \in X : m <= n
<1>1. PICK m \in X : \A n \in X : <<n, m>> \notin Less
  BY LessWellFounded, WFMin
<1>2. ASSUME NEW n \in X PROVE m <= n
  <2>1. m \in Nat /\ n \in Nat
    OBVIOUS
  <2>2. <<n, m>> \notin Less
    BY <1>1
  <2>3. ~ (n < m)
    BY <2>1, <2>2 DEF Less
  <2> QED
    BY <2>1, <2>3
<1> QED
  BY <1>2

\* Induction in set form: a set of naturals with 0 and the successor of each
\* of its members is Nat.
LEMMA InductiveSet ==
  ASSUME NEW X \in SUBSET Nat, 0 \in X, \A n \in X : n + 1 \in X
  PROVE  X = Nat
<1> SUFFICES ASSUME Nat \ X # {} PROVE FALSE
  OBVIOUS
<1>1. PICK m \in Nat \ X : \A n \in Nat \ X : m <= n
  BY LeastElement
<1>2. m - 1 \in Nat /\ m - 1 \in X
  BY <1>1
<1>3. m \in X
  BY <1>2
<1> QED
  BY <1>3, <1>1

\* The recursion of the fold: its chosen item, the equation it solves at T, and
\* the table it is defined by.
Pick(T) == CHOOSE x \in T : TRUE
Unfolds(f, g, T) == g[T] = IF T = {} THEN 0 ELSE f[Pick(T)] + g[T \ {Pick(T)}]
SumTable(f, S) ==
  CHOOSE g : g = [T \in SUBSET S |->
                    IF T = {} THEN 0 ELSE f[Pick(T)] + g[T \ {Pick(T)}]]

\* The fold of the community modules, unfolded: the sum over S is the entry at
\* S of the table its recursion fixes.
LEMMA SumIsTable ==
  ASSUME NEW f, NEW S
  PROVE  SumFunctionOnSet(f, S) = SumTable(f, S)[S]
  BY Zenon DEF SumFunctionOnSet, FoldFunctionOnSet, MapThenFoldSet, SumTable, Pick

\* The recursion has a solution on a finite set: the table's entry at a subset
\* is 0 or one item more than the entry at the rest.
LEMMA TableExists ==
  ASSUME NEW f, NEW S, IsFiniteSet(S), NEW T0 \in SUBSET S
  PROVE  Unfolds(f, SumTable(f, S), T0)
<1> DEFINE UpTo(g, n) == \A T \in SUBSET S : Cardinality(T) <= n => Unfolds(f, g, T)
           X == {n \in Nat : \E g : UpTo(g, n)}
<1>1. \A T \in SUBSET S : IsFiniteSet(T) /\ Cardinality(T) \in Nat
  BY FS_Subset, FS_CardinalityType
<1>2. 0 \in X
  <2>1. UpTo([T \in SUBSET S |-> 0], 0)
    BY <1>1, FS_EmptySet DEF Unfolds
  <2> QED
    BY <2>1
<1>3. ASSUME NEW n \in X PROVE n + 1 \in X
  <2>1. PICK g : UpTo(g, n)
    OBVIOUS
  <2> DEFINE h == [T \in SUBSET S |->
                     IF Cardinality(T) <= n THEN g[T]
                     ELSE f[Pick(T)] + g[T \ {Pick(T)}]]
  <2>2. ASSUME NEW T \in SUBSET S, Cardinality(T) <= n + 1
        PROVE  Unfolds(f, h, T)
    <3>1. CASE T = {}
      <4>1. Cardinality(T) = 0
        BY <3>1, FS_EmptySet
      <4>2. h[T] = g[T] /\ g[T] = 0
        BY <4>1, <2>1, <3>1 DEF Unfolds
      <4> QED
        BY <4>2, <3>1 DEF Unfolds
    <3>2. CASE T # {}
      <4> DEFINE U == T \ {Pick(T)}
      <4>1. Pick(T) \in T
        BY <3>2 DEF Pick
      <4>2. U \in SUBSET S /\ Cardinality(U) = Cardinality(T) - 1
        BY <4>1, <1>1, FS_RemoveElement
      <4>3. Cardinality(U) <= n
        BY <4>2, <1>1, <2>2
      <4>5. h[U] = g[U]
        BY <4>2, <4>3
      <4>4. h[T] = f[Pick(T)] + g[U]
        <5>1. CASE Cardinality(T) <= n
          BY <5>1, <2>1, <2>2, <3>2 DEF Unfolds
        <5>2. CASE ~(Cardinality(T) <= n)
          BY <5>2, <2>2
        <5> QED
          BY <5>1, <5>2
      <4> QED
        BY <4>5, <4>4, <3>2 DEF Unfolds
    <3> QED
      BY <3>1, <3>2
  <2>3. UpTo(h, n + 1)
    BY <2>2
  <2>4. \E g2 : UpTo(g2, n + 1)
    <3> HIDE DEF h, UpTo
    <3> QED
      BY <2>3
  <2>5. n + 1 \in Nat
    OBVIOUS
  <2> QED
    <3> HIDE DEF UpTo
    <3> QED
      BY <2>4, <2>5
<1>4. Cardinality(S) \in X
  BY <1>1, <1>2, <1>3, InductiveSet
<1>5. PICK g : UpTo(g, Cardinality(S))
  BY <1>4
<1> DEFINE gg == [T \in SUBSET S |-> g[T]]
<1>6. gg = [T \in SUBSET S |->
             IF T = {} THEN 0 ELSE f[Pick(T)] + gg[T \ {Pick(T)}]]
  <2>1. ASSUME NEW T \in SUBSET S
        PROVE  g[T] = IF T = {} THEN 0 ELSE f[Pick(T)] + gg[T \ {Pick(T)}]
    <3>1. Cardinality(T) <= Cardinality(S)
      BY FS_Subset
    <3>2. T \ {Pick(T)} \in SUBSET S
      OBVIOUS
    <3> QED
      BY <3>1, <3>2, <1>5 DEF Unfolds
  <2> QED
    BY <2>1
<1> HIDE DEF gg
<1>7. \E h : h = [T \in SUBSET S |->
                   IF T = {} THEN 0 ELSE f[Pick(T)] + h[T \ {Pick(T)}]]
  BY <1>6
<1> DEFINE a == SumTable(f, S)
<1>8. a = [T \in SUBSET S |->
             IF T = {} THEN 0 ELSE f[Pick(T)] + a[T \ {Pick(T)}]]
  BY <1>7 DEF SumTable
<1> HIDE DEF a
<1>9. Unfolds(f, a, T0)
  BY <1>8 DEF Unfolds
<1> QED
  BY <1>9 DEF a

\* Induction over a finite set S: a set that has {}, and every subset of S all
\* of whose one-item-smaller subsets it has, has S.
LEMMA FiniteSetInduction ==
  ASSUME NEW S, IsFiniteSet(S), NEW X,
         {} \in X,
         \A T \in SUBSET S : T # {} /\ (\A x \in T : T \ {x} \in X) => T \in X
  PROVE  S \in X
<1> DEFINE Y == {n \in Nat : \A T \in SUBSET S : Cardinality(T) <= n => T \in X}
<1>1. \A T \in SUBSET S : IsFiniteSet(T) /\ Cardinality(T) \in Nat
  BY FS_Subset, FS_CardinalityType
<1>2. 0 \in Y
  <2>1. ASSUME NEW T \in SUBSET S, Cardinality(T) <= 0 PROVE T = {}
    BY <1>1, <2>1, FS_EmptySet
  <2> QED
    BY <2>1
<1>3. ASSUME NEW n \in Y PROVE n + 1 \in Y
  <2>1. ASSUME NEW T \in SUBSET S, Cardinality(T) <= n + 1 PROVE T \in X
    <3>1. ASSUME NEW x \in T PROVE T \ {x} \in X
      <4>1. T \ {x} \in SUBSET S /\ Cardinality(T \ {x}) = Cardinality(T) - 1
        BY <1>1, FS_RemoveElement
      <4>2. Cardinality(T \ {x}) <= n
        BY <4>1, <1>1, <2>1
      <4> QED
        BY <4>1, <4>2
    <3> QED
      BY <3>1
  <2> QED
    BY <2>1
<1>4. Y = Nat
  <2> HIDE DEF Y
  <2>1. Y \subseteq Nat
    BY DEF Y
  <2> QED
    BY <1>2, <1>3, <2>1, InductiveSet
<1> QED
  BY <1>4, <1>1

\* The table of S and the table of a subset T agree at T.
LEMMA TableOfSubset ==
  ASSUME NEW f, NEW S, IsFiniteSet(S), NEW T \in SUBSET S
  PROVE  SumTable(f, S)[T] = SumTable(f, T)[T]
<1> DEFINE X == {U \in SUBSET T : SumTable(f, S)[U] = SumTable(f, T)[U]}
<1>1. IsFiniteSet(T)
  BY FS_Subset
<1>2. ASSUME NEW U \in SUBSET T,
             U # {} => U \ {Pick(U)} \in X
      PROVE  U \in X
  <2> DEFINE a == SumTable(f, S)
             b == SumTable(f, T)
             V == U \ {Pick(U)}
  <2>1. a[U] = IF U = {} THEN 0 ELSE f[Pick(U)] + a[V]
    <3>1. U \in SUBSET S
      OBVIOUS
    <3> QED
      BY <3>1, TableExists DEF Unfolds
  <2>2. b[U] = IF U = {} THEN 0 ELSE f[Pick(U)] + b[V]
    BY <1>1, TableExists DEF Unfolds
  <2>3. U # {} => a[V] = b[V]
    BY <1>2
  <2> HIDE DEF a, b, V
  <2>4. a[U] = b[U]
    BY <2>1, <2>2, <2>3
  <2> QED
    BY <2>4 DEF a, b
<1>3. {} \in X
  BY <1>2
<1>4. ASSUME NEW U \in SUBSET T, U # {}, \A x \in U : U \ {x} \in X
      PROVE  U \in X
  <2>1. Pick(U) \in U
    BY <1>4 DEF Pick
  <2> QED
    BY <2>1, <1>2, <1>4
<1> HIDE DEF X
<1>5. T \in X
  BY <1>1, <1>3, <1>4, FiniteSetInduction
<1> QED
  BY <1>5 DEF X

\* An empty sum is 0.
LEMMA SumEmpty ==
  ASSUME NEW f
  PROVE  SumFunctionOnSet(f, {}) = 0
<1>1. SumTable(f, {})[{}] = 0
  BY TableExists, FS_EmptySet DEF Unfolds
<1> QED
  BY <1>1, SumIsTable

\* A non-empty sum is the chosen item plus the sum of the others.
LEMMA SumPick ==
  ASSUME NEW f, NEW S, IsFiniteSet(S), S # {}
  PROVE  /\ Pick(S) \in S
         /\ SumFunctionOnSet(f, S)
              = f[Pick(S)] + SumFunctionOnSet(f, S \ {Pick(S)})
<1> DEFINE a == SumTable(f, S)
           V == S \ {Pick(S)}
<1>1. a[S] = f[Pick(S)] + a[V]
  BY TableExists DEF Unfolds
<1>2. SumFunctionOnSet(f, S) = a[S]
  BY SumIsTable
<1>3. SumFunctionOnSet(f, V) = a[V]
  BY SumIsTable, TableOfSubset, FS_Subset
<1>4. Pick(S) \in S
  BY DEF Pick
<1> QED
  BY <1>1, <1>2, <1>3, <1>4

\* A finite sum of integers is an integer.
LEMMA SumInt ==
  ASSUME NEW f, NEW S, IsFiniteSet(S), \A x \in S : f[x] \in Int
  PROVE  SumFunctionOnSet(f, S) \in Int
<1> DEFINE X == {T \in SUBSET S : SumFunctionOnSet(f, T) \in Int}
<1>1. {} \in X
  BY SumEmpty
<1>2. ASSUME NEW T \in SUBSET S, T # {}, \A x \in T : T \ {x} \in X
      PROVE  T \in X
  <2>1. IsFiniteSet(T)
    BY FS_Subset
  <2>2. /\ Pick(T) \in T
        /\ SumFunctionOnSet(f, T)
             = f[Pick(T)] + SumFunctionOnSet(f, T \ {Pick(T)})
    BY <2>1, <1>2, SumPick
  <2>3. SumFunctionOnSet(f, T \ {Pick(T)}) \in Int
    BY <2>2, <1>2
  <2> QED
    BY <2>2, <2>3
<1> HIDE DEF X
<1>3. S \in X
  BY <1>1, <1>2, FiniteSetInduction
<1> QED
  BY <1>3 DEF X

\* A finite sum is any one of its items plus the sum of the others: the order
\* of summation does not matter.
LEMMA SumRemove ==
  ASSUME NEW f, NEW S, IsFiniteSet(S), \A x \in S : f[x] \in Int,
         NEW x \in S
  PROVE  SumFunctionOnSet(f, S) = f[x] + SumFunctionOnSet(f, S \ {x})
<1> DEFINE Sum(T) == SumFunctionOnSet(f, T)
           X == {T \in SUBSET S : \A y \in T : Sum(T) = f[y] + Sum(T \ {y})}
<1>0. \A T \in SUBSET S : Sum(T) \in Int /\ IsFiniteSet(T)
  BY SumInt, FS_Subset
<1>1. {} \in X
  OBVIOUS
<1>2. ASSUME NEW T \in SUBSET S, T # {}, \A y \in T : T \ {y} \in X,
             NEW y \in T
      PROVE  Sum(T) = f[y] + Sum(T \ {y})
  <2> DEFINE p == Pick(T)
  <2>1. p \in T /\ Sum(T) = f[p] + Sum(T \ {p})
    BY <1>0, <1>2, SumPick
  <2>2. CASE y = p
    BY <2>1, <2>2
  <2>3. CASE y # p
    <3> HIDE DEF Sum, p
    <3>1. Sum(T \ {p}) = f[y] + Sum((T \ {p}) \ {y})
      BY <1>2, <2>1, <2>3
    <3>2. Sum(T \ {y}) = f[p] + Sum((T \ {y}) \ {p})
      BY <1>2, <2>1, <2>3
    <3>3. (T \ {p}) \ {y} = (T \ {y}) \ {p}
      OBVIOUS
    <3> DEFINE w == Sum((T \ {p}) \ {y})
    <3>4. w \in Int /\ f[p] \in Int /\ f[y] \in Int
      BY <1>0, <2>1
    <3>5. Sum(T) = f[p] + (f[y] + w)
      BY <2>1, <3>1
    <3>6. Sum(T \ {y}) = f[p] + w
      BY <3>2, <3>3
    <3> HIDE DEF w
    <3> QED
      BY <3>4, <3>5, <3>6
  <2> QED
    BY <2>2, <2>3
<1>3. ASSUME NEW T \in SUBSET S, T # {}, \A y \in T : T \ {y} \in X
      PROVE  T \in X
  BY <1>2, <1>3
<1> HIDE DEF X
<1>4. S \in X
  BY <1>1, <1>3, FiniteSetInduction
<1> QED
  BY <1>4 DEF X

\* Functions that agree on S have one sum over S.
LEMMA SumAgree ==
  ASSUME NEW f, NEW g, NEW S, IsFiniteSet(S),
         \A x \in S : f[x] \in Int /\ f[x] = g[x]
  PROVE  SumFunctionOnSet(f, S) = SumFunctionOnSet(g, S)
<1> DEFINE X == {T \in SUBSET S :
                   SumFunctionOnSet(f, T) = SumFunctionOnSet(g, T)}
<1>1. {} \in X
  BY SumEmpty
<1>2. ASSUME NEW T \in SUBSET S, T # {}, \A x \in T : T \ {x} \in X
      PROVE  T \in X
  <2>1. IsFiniteSet(T)
    BY FS_Subset
  <2> DEFINE p == Pick(T)
  <2>2. /\ p \in T
        /\ SumFunctionOnSet(f, T) = f[p] + SumFunctionOnSet(f, T \ {p})
    BY <2>1, <1>2, SumPick
  <2>3. SumFunctionOnSet(g, T) = g[p] + SumFunctionOnSet(g, T \ {p})
    BY <2>1, <1>2, SumPick
  <2>4. f[p] = g[p]
    BY <2>2
  <2>5. SumFunctionOnSet(f, T \ {p}) = SumFunctionOnSet(g, T \ {p})
    BY <2>2, <1>2
  <2> HIDE DEF p
  <2>6. SumFunctionOnSet(f, T) = SumFunctionOnSet(g, T)
    BY <2>2, <2>3, <2>4, <2>5
  <2> QED
    BY <2>6
<1> HIDE DEF X
<1>3. S \in X
  BY <1>1, <1>2, FiniteSetInduction
<1> QED
  BY <1>3 DEF X

\* A finite sum of naturals is a natural.
LEMMA SumNat ==
  ASSUME NEW f, NEW S, IsFiniteSet(S), \A x \in S : f[x] \in Nat
  PROVE  SumFunctionOnSet(f, S) \in Nat
<1> DEFINE X == {T \in SUBSET S : SumFunctionOnSet(f, T) \in Nat}
<1>1. {} \in X
  BY SumEmpty
<1>2. ASSUME NEW T \in SUBSET S, T # {}, \A x \in T : T \ {x} \in X
      PROVE  T \in X
  <2>1. IsFiniteSet(T)
    BY FS_Subset
  <2>2. /\ Pick(T) \in T
        /\ SumFunctionOnSet(f, T)
             = f[Pick(T)] + SumFunctionOnSet(f, T \ {Pick(T)})
    BY <2>1, <1>2, SumPick
  <2>3. SumFunctionOnSet(f, T \ {Pick(T)}) \in Nat
    BY <2>2, <1>2
  <2> QED
    BY <2>2, <2>3
<1> HIDE DEF X
<1>3. S \in X
  BY <1>1, <1>2, FiniteSetInduction
<1> QED
  BY <1>3 DEF X

\* R orders S strictly and totally; x is the last of S in R.
StrictTotalOrder(R, S) ==
  /\ \A x \in S : <<x, x>> \notin R
  /\ \A x, y \in S : x # y => <<x, y>> \in R \/ <<y, x>> \in R
  /\ \A x, y, z \in S : <<x, y>> \in R /\ <<y, z>> \in R => <<x, z>> \in R

IsLast(R, S, x) == x \in S /\ \A y \in S : y = x \/ <<y, x>> \in R

\* The sum over two sets that share nothing is the sum of both sums.
LEMMA SumUnion ==
  ASSUME NEW f, NEW S, NEW T, IsFiniteSet(S), IsFiniteSet(T), S \cap T = {},
         \A x \in S \cup T : f[x] \in Int
  PROVE  SumFunctionOnSet(f, S \cup T) = SumFunctionOnSet(f, S) + SumFunctionOnSet(f, T)
<1> DEFINE Sums(U) == SumFunctionOnSet(f, S \cup U) = SumFunctionOnSet(f, S) + SumFunctionOnSet(f, U)
           X == {U \in SUBSET T : Sums(U)}
<1>1. {} \in X
  <2>1. S \cup {} = S /\ SumFunctionOnSet(f, S) \in Int
    BY SumInt
  <2> QED
    BY <2>1, SumEmpty
<1>2. ASSUME NEW U \in SUBSET T, U # {}, \A x \in U : U \ {x} \in X
      PROVE  U \in X
  <2>1. PICK x \in U : TRUE
    BY <1>2
  <2>2. IsFiniteSet(U) /\ IsFiniteSet(S \cup U) /\ IsFiniteSet(U \ {x})
    BY FS_Subset, FS_Union
  <2>3. (S \cup U) \ {x} = S \cup (U \ {x})
    BY <2>1
  <2>4. SumFunctionOnSet(f, S \cup U) = f[x] + SumFunctionOnSet(f, S \cup (U \ {x}))
    <3>1. x \in S \cup U /\ \A y \in S \cup U : f[y] \in Int
      BY <2>1
    <3> QED
      BY <2>2, <2>3, <3>1, SumRemove
  <2>5. SumFunctionOnSet(f, U) = f[x] + SumFunctionOnSet(f, U \ {x})
    BY <2>1, <2>2, SumRemove
  <2>6. Sums(U \ {x})
    BY <1>2, <2>1
  <2>7. /\ SumFunctionOnSet(f, S) \in Int /\ SumFunctionOnSet(f, U \ {x}) \in Int
        /\ f[x] \in Int
    BY <2>1, <2>2, SumInt
  <2>8. Sums(U)
    BY <2>4, <2>5, <2>6, <2>7
  <2> QED
    BY <2>8
<1> HIDE DEF X
<1>3. T \in X
  BY <1>1, <1>2, FiniteSetInduction
<1> QED
  BY <1>3 DEF X

\* Of naturals, a part adds up to no more than the whole.
LEMMA SumPart ==
  ASSUME NEW f, NEW S, IsFiniteSet(S), \A x \in S : f[x] \in Nat, NEW T \in SUBSET S
  PROVE  SumFunctionOnSet(f, T) <= SumFunctionOnSet(f, S)
<1>1. S = T \cup (S \ T) /\ T \cap (S \ T) = {}
  OBVIOUS
<1>2. IsFiniteSet(T) /\ IsFiniteSet(S \ T)
  BY FS_Subset
<1>3. SumFunctionOnSet(f, S) = SumFunctionOnSet(f, T) + SumFunctionOnSet(f, S \ T)
  BY <1>1, <1>2, SumUnion
<1>4. SumFunctionOnSet(f, T) \in Nat /\ SumFunctionOnSet(f, S \ T) \in Nat
  BY <1>2, SumNat
<1> QED
  BY <1>3, <1>4


\* A sum does not depend on the names of its items.
LEMMA SumMoved ==
  ASSUME NEW f, NEW g, NEW h, NEW S, IsFiniteSet(S),
         \A x \in S : f[x] \in Int /\ g[h[x]] = f[x],
         \A x, y \in S : h[x] = h[y] => x = y
  PROVE  SumFunctionOnSet(g, {h[x] : x \in S}) = SumFunctionOnSet(f, S)
<1> DEFINE Named(U) == {h[x] : x \in U}
           Same(U) == /\ IsFiniteSet(Named(U))
                      /\ SumFunctionOnSet(g, Named(U)) = SumFunctionOnSet(f, U)
           X == {U \in SUBSET S : Same(U)}
<1>1. {} \in X
  <2>1. Named({}) = {}
    OBVIOUS
  <2> QED
    BY <2>1, SumEmpty, FS_EmptySet
<1>2. ASSUME NEW U \in SUBSET S, U # {}, \A x \in U : U \ {x} \in X
      PROVE  U \in X
  <2>1. PICK x \in U : TRUE
    BY <1>2
  <2>2. Same(U \ {x})
    BY <1>2, <2>1
  <2>3. Named(U) = Named(U \ {x}) \cup {h[x]} /\ Named(U) \ {h[x]} = Named(U \ {x})
    BY <2>1
  <2>4. h[x] \in Named(U) /\ \A n \in Named(U) : g[n] \in Int
    BY <2>1
  <2>5. IsFiniteSet(Named(U)) /\ IsFiniteSet(U)
    BY <2>2, <2>3, FS_AddElement, FS_Subset
  <2> HIDE DEF Named
  <2>6. SumFunctionOnSet(g, Named(U)) = g[h[x]] + SumFunctionOnSet(g, Named(U \ {x}))
    <3>1. \A n \in Named(U) :
            SumFunctionOnSet(g, Named(U)) = g[n] + SumFunctionOnSet(g, Named(U) \ {n})
      BY <2>4, <2>5, SumRemove
    <3> QED
      BY <2>3, <2>4, <3>1
  <2>7. SumFunctionOnSet(f, U) = f[x] + SumFunctionOnSet(f, U \ {x})
    BY <2>1, <2>5, SumRemove
  <2>8. SumFunctionOnSet(g, Named(U)) = SumFunctionOnSet(f, U)
    <3>1. g[h[x]] = f[x]
      BY <2>1
    <3> QED
      BY <2>2, <2>6, <2>7, <3>1
  <2>9. Same(U)
    BY <2>5, <2>8
  <2> QED
    BY <2>9
<1> HIDE DEF X
<1>3. S \in X
  BY <1>1, <1>2, FiniteSetInduction
<1> QED
  BY <1>3 DEF X


\* A finite non-empty set with a strict total order has a last element.
LEMMA LastElement ==
  ASSUME NEW R, NEW S, IsFiniteSet(S), S # {}, StrictTotalOrder(R, S)
  PROVE  \E x : IsLast(R, S, x)
<1> DEFINE Last(T, x) == x \in T /\ \A y \in T : y = x \/ <<y, x>> \in R
           X == {T \in SUBSET S : T # {} => \E x \in T : Last(T, x)}
<1>1. {} \in X
  OBVIOUS
<1>2. ASSUME NEW T \in SUBSET S, T # {}, \A x \in T : T \ {x} \in X
      PROVE  T \in X
  <2>1. PICK z \in T : TRUE
    BY <1>2
  <2>2. CASE T = {z}
    BY <2>2
  <2>3. CASE T # {z}
    <3>1. PICK w \in T \ {z} : Last(T \ {z}, w)
      BY <2>1, <2>3, <1>2
    <3>2. CASE <<w, z>> \in R
      <4>1. Last(T, z)
        <5>1. ASSUME NEW y \in T, y # z PROVE <<y, z>> \in R
          BY <3>1, <3>2, <5>1 DEF StrictTotalOrder
        <5> QED
          BY <5>1
      <4> QED
        BY <4>1
    <3>3. CASE <<z, w>> \in R
      <4>1. Last(T, w)
        BY <3>1, <3>3
      <4> QED
        BY <4>1
    <3> QED
      BY <3>1, <3>2, <3>3 DEF StrictTotalOrder
  <2> QED
    BY <2>2, <2>3
<1> HIDE DEF X
<1>3. S \in X
  BY <1>1, <1>2, FiniteSetInduction
<1> QED
  BY <1>3 DEF X, IsLast

\* A finite non-empty set of naturals has a greatest element.
LEMMA GreatestElement ==
  ASSUME NEW S \in SUBSET Nat, IsFiniteSet(S), S # {}
  PROVE  \E x \in S : \A y \in S : y <= x
<1>1. StrictTotalOrder(Less, S)
  BY DEF StrictTotalOrder, Less
<1>2. \E x : IsLast(Less, S, x)
  BY <1>1, LastElement
<1>3. PICK x : IsLast(Less, S, x)
  BY <1>2
<1>4. ASSUME NEW y \in S PROVE y <= x
  <2>1. y = x \/ y < x
    BY <1>3 DEF Less, IsLast
  <2>2. x \in Nat /\ y \in Nat
    BY <1>3 DEF IsLast
  <2> QED
    BY <2>1, <2>2
<1> QED
  BY <1>3, <1>4 DEF IsLast

\* Nothing but zeros add up to zero.
LEMMA SumZero ==
  ASSUME NEW f, NEW S, IsFiniteSet(S), \A x \in S : f[x] = 0
  PROVE  SumFunctionOnSet(f, S) = 0
<1> DEFINE X == {T \in SUBSET S : SumFunctionOnSet(f, T) = 0}
<1>1. {} \in X
  BY SumEmpty
<1>2. ASSUME NEW T \in SUBSET S, T # {}, \A x \in T : T \ {x} \in X
      PROVE  T \in X
  <2>1. PICK x \in T : TRUE
    BY <1>2
  <2>2. IsFiniteSet(T) /\ IsFiniteSet(T \ {x})
    BY FS_Subset
  <2>3. SumFunctionOnSet(f, T) = f[x] + SumFunctionOnSet(f, T \ {x})
    BY <2>1, <2>2, SumRemove
  <2>4. f[x] = 0 /\ SumFunctionOnSet(f, T \ {x}) = 0
    BY <1>2, <2>1
  <2>9. SumFunctionOnSet(f, T) = 0
    BY <2>3, <2>4
  <2> QED
    BY <2>9
<1> HIDE DEF X
<1>3. S \in X
  BY <1>1, <1>2, FiniteSetInduction
<1> QED
  BY <1>3 DEF X

\* The sum of the sums of two functions is the sum of their pointwise sums.
LEMMA SumPlus ==
  ASSUME NEW f, NEW g, NEW h, NEW S, IsFiniteSet(S),
         \A x \in S : f[x] \in Int /\ g[x] \in Int /\ h[x] = f[x] + g[x]
  PROVE  SumFunctionOnSet(h, S) = SumFunctionOnSet(f, S) + SumFunctionOnSet(g, S)
<1> DEFINE X == {T \in SUBSET S : SumFunctionOnSet(h, T) =
                   SumFunctionOnSet(f, T) + SumFunctionOnSet(g, T)}
<1>1. {} \in X
  BY SumEmpty
<1>2. ASSUME NEW T \in SUBSET S, T # {}, \A x \in T : T \ {x} \in X
      PROVE  T \in X
  <2>1. PICK x \in T : TRUE
    BY <1>2
  <2>2. IsFiniteSet(T) /\ IsFiniteSet(T \ {x})
    BY FS_Subset
  <2>3. \A y \in T : f[y] \in Int /\ g[y] \in Int /\ h[y] \in Int
    OBVIOUS
  <2>4. /\ SumFunctionOnSet(f, T) = f[x] + SumFunctionOnSet(f, T \ {x})
        /\ SumFunctionOnSet(g, T) = g[x] + SumFunctionOnSet(g, T \ {x})
        /\ SumFunctionOnSet(h, T) = h[x] + SumFunctionOnSet(h, T \ {x})
    BY <2>1, <2>2, <2>3, SumRemove
  <2>5. /\ SumFunctionOnSet(f, T \ {x}) \in Int
        /\ SumFunctionOnSet(g, T \ {x}) \in Int
    BY <2>2, <2>3, SumInt
  <2>6. SumFunctionOnSet(h, T \ {x}) =
          SumFunctionOnSet(f, T \ {x}) + SumFunctionOnSet(g, T \ {x})
    BY <1>2, <2>1
  <2>7. f[x] \in Int /\ g[x] \in Int /\ h[x] = f[x] + g[x]
    BY <2>1
  <2>9. SumFunctionOnSet(h, T) = SumFunctionOnSet(f, T) + SumFunctionOnSet(g, T)
    BY <2>4, <2>5, <2>6, <2>7
  <2> QED
    BY <2>9
<1> HIDE DEF X
<1>3. S \in X
  BY <1>1, <1>2, FiniteSetInduction
<1> QED
  BY <1>3 DEF X

\* A common factor comes out of a sum.
LEMMA SumTimes ==
  ASSUME NEW f, NEW g, NEW c \in Int, NEW S, IsFiniteSet(S),
         \A x \in S : f[x] \in Int /\ g[x] = c * f[x]
  PROVE  SumFunctionOnSet(g, S) = c * SumFunctionOnSet(f, S)
<1> DEFINE X == {T \in SUBSET S : SumFunctionOnSet(g, T) = c * SumFunctionOnSet(f, T)}
<1>1. {} \in X
  BY SumEmpty
<1>2. ASSUME NEW T \in SUBSET S, T # {}, \A x \in T : T \ {x} \in X
      PROVE  T \in X
  <2>1. PICK x \in T : TRUE
    BY <1>2
  <2>2. IsFiniteSet(T) /\ IsFiniteSet(T \ {x})
    BY FS_Subset
  <2>3. \A y \in T : f[y] \in Int /\ g[y] \in Int
    <3>1. \A a, b \in Int : a * b \in Int
      OBVIOUS
    <3> QED
      BY <3>1
  <2>4. /\ SumFunctionOnSet(f, T) = f[x] + SumFunctionOnSet(f, T \ {x})
        /\ SumFunctionOnSet(g, T) = g[x] + SumFunctionOnSet(g, T \ {x})
    BY <2>1, <2>2, <2>3, SumRemove
  <2>5. SumFunctionOnSet(f, T \ {x}) \in Int
    BY <2>2, <2>3, SumInt
  <2>6. SumFunctionOnSet(g, T \ {x}) = c * SumFunctionOnSet(f, T \ {x})
    BY <1>2, <2>1
  <2>7. f[x] \in Int /\ g[x] = c * f[x]
    BY <2>1
  <2>8. \A a, b \in Int : c * a + c * b = c * (a + b)
    OBVIOUS
  <2>9. SumFunctionOnSet(g, T) = c * SumFunctionOnSet(f, T)
    BY <2>4, <2>5, <2>6, <2>7, <2>8
  <2> QED
    BY <2>9
<1> HIDE DEF X
<1>3. S \in X
  BY <1>1, <1>2, FiniteSetInduction
<1> QED
  BY <1>3 DEF X

\* A sum of smaller numbers is smaller.
LEMMA SumMonotone ==
  ASSUME NEW f, NEW g, NEW S, IsFiniteSet(S),
         \A x \in S : f[x] \in Int /\ g[x] \in Int /\ f[x] <= g[x]
  PROVE  SumFunctionOnSet(f, S) <= SumFunctionOnSet(g, S)
<1> DEFINE X == {T \in SUBSET S : SumFunctionOnSet(f, T) <= SumFunctionOnSet(g, T)}
<1>1. {} \in X
  BY SumEmpty
<1>2. ASSUME NEW T \in SUBSET S, T # {}, \A x \in T : T \ {x} \in X
      PROVE  T \in X
  <2>1. PICK x \in T : TRUE
    BY <1>2
  <2>2. IsFiniteSet(T) /\ IsFiniteSet(T \ {x})
    BY FS_Subset
  <2>3. \A y \in T : f[y] \in Int /\ g[y] \in Int
    OBVIOUS
  <2>4. /\ SumFunctionOnSet(f, T) = f[x] + SumFunctionOnSet(f, T \ {x})
        /\ SumFunctionOnSet(g, T) = g[x] + SumFunctionOnSet(g, T \ {x})
    BY <2>1, <2>2, <2>3, SumRemove
  <2>5. /\ SumFunctionOnSet(f, T \ {x}) \in Int
        /\ SumFunctionOnSet(g, T \ {x}) \in Int
    BY <2>2, <2>3, SumInt
  <2>6. SumFunctionOnSet(f, T \ {x}) <= SumFunctionOnSet(g, T \ {x})
    BY <1>2, <2>1
  <2>7. f[x] \in Int /\ g[x] \in Int /\ f[x] <= g[x]
    BY <2>1
  <2>9. SumFunctionOnSet(f, T) <= SumFunctionOnSet(g, T)
    BY <2>4, <2>5, <2>6, <2>7
  <2> QED
    BY <2>9
<1> HIDE DEF X
<1>3. S \in X
  BY <1>1, <1>2, FiniteSetInduction
<1> QED
  BY <1>3 DEF X

\* An entry set apart from a sum, whether it is one of the sum's or not.
LEMMA SumApart ==
  ASSUME NEW g, NEW A, IsFiniteSet(A), \A y \in A : g[y] \in Int,
         NEW x, NEW T, T = A \ {x},
         NEW v \in Int, x \in A => v = g[x], x \notin A => v = 0
  PROVE  /\ SumFunctionOnSet(g, A) = v + SumFunctionOnSet(g, T)
         /\ IsFiniteSet(T) /\ \A y \in T : g[y] \in Int
<1>1. IsFiniteSet(T) /\ \A y \in T : g[y] \in Int
  BY FS_Subset
<1>2. SumFunctionOnSet(g, A) = v + SumFunctionOnSet(g, T)
  <2>1. CASE x \in A
    <3>1. SumFunctionOnSet(g, A) = g[x] + SumFunctionOnSet(g, T)
      BY <2>1, SumRemove
    <3> QED
      BY <2>1, <3>1
  <2>2. CASE x \notin A
    <3>1. T = A
      BY <2>2
    <3>2. SumFunctionOnSet(g, A) \in Int
      BY SumInt
    <3>3. SumFunctionOnSet(g, A) = 0 + SumFunctionOnSet(g, A)
      BY <3>2
    <3> QED
      BY <2>2, <3>1, <3>3
  <2> QED
    BY <2>1, <2>2
<1> QED
  BY <1>1, <1>2

=============================================================================
