--------------------------- MODULE StockCardProofs ---------------------------
(***************************************************************************)
(* The stock card never shows a negative balance where negative stock is   *)
(* refused, although striking a line out is checked against later issues   *)
(* only and never against the balance.  The balance alone is not inductive: *)
(* the invariant says that it was never negative after ANY line, in the    *)
(* card as it stands now.                                                  *)
(***************************************************************************)
EXTENDS StockCard, SumLemmas

\* A sum grows with every item that is not negative.
LEMMA SumGrows ==
  ASSUME NEW f, NEW S, IsFiniteSet(S), NEW T \in SUBSET S,
         \A x \in S : f[x] \in Int, \A x \in S \ T : f[x] >= 0
  PROVE  SumFunctionOnSet(f, S) >= SumFunctionOnSet(f, T)
<1> DEFINE Sum(U) == SumFunctionOnSet(f, U)
           R == S \ T
           X == {U \in SUBSET R : Sum(T \cup U) >= Sum(T)}
<1>0. \A U \in SUBSET R : IsFiniteSet(T \cup U) /\ Sum(T \cup U) \in Int
  <2>1. \A U \in SUBSET R : T \cup U \in SUBSET S
    OBVIOUS
  <2> QED
    BY <2>1, FS_Subset, SumInt
<1>1. {} \in X
  <2>1. T \cup {} = T /\ Sum(T \cup {}) \in Int
    BY <1>0
  <2> HIDE DEF Sum
  <2> QED
    BY <2>1
<1>2. ASSUME NEW U \in SUBSET R, U # {}, \A x \in U : U \ {x} \in X
      PROVE  U \in X
  <2>1. PICK x \in U : TRUE
    BY <1>2
  <2>2. (T \cup U) \ {x} = T \cup (U \ {x}) /\ x \in T \cup U
    BY <2>1
  <2>3. /\ IsFiniteSet(T \cup U) /\ \A y \in T \cup U : f[y] \in Int
        /\ f[x] \in Int /\ f[x] >= 0
    BY <1>0, <2>1
  <2>4. Sum(T \cup U) = f[x] + Sum((T \cup U) \ {x})
    BY <2>2, <2>3, SumRemove
  <2>5. Sum(T \cup (U \ {x})) >= Sum(T) /\ Sum(T \cup (U \ {x})) \in Int
    BY <1>0, <1>2, <2>1
  <2>6. Sum(T) \in Int
    <3>1. T \cup {} = T
      OBVIOUS
    <3> QED
      BY <1>0, <3>1
  <2> HIDE DEF Sum
  <2> QED
    BY <2>2, <2>3, <2>4, <2>5, <2>6
<1>3. IsFiniteSet(R)
  BY FS_Subset
<1> HIDE DEF X
<1>4. R \in X
  BY <1>1, <1>2, <1>3, FiniteSetInduction
<1>5. T \cup R = S
  OBVIOUS
<1> QED
  BY <1>4, <1>5 DEF X

-----------------------------------------------------------------------------
\* The entries of a card up to line n, and a card that is finite and adds up.
Upto(c, n) == {k \in DOMAIN c : k <= n}
Ledger(c) ==
  /\ DOMAIN c \in SUBSET Nat /\ IsFiniteSet(DOMAIN c)
  /\ \A k \in DOMAIN c : c[k] \in Int

\* No line of the card showed a negative balance, nor does its end.
NeverShort(c, b) ==
  b >= 0 /\ \A n \in Int : SumFunctionOnSet(c, Upto(c, n)) >= 0

CardInv ==
  /\ Ledger(card)
  /\ balance = SumFunctionOnSet(card, DOMAIN card)
  /\ AllowNegative \/ NeverShort(card, balance)

\* The sums of a card are integers.
LEMMA LedgerSums ==
  ASSUME NEW c, Ledger(c)
  PROVE  /\ SumFunctionOnSet(c, DOMAIN c) \in Int
         /\ \A n : Upto(c, n) \in SUBSET DOMAIN c /\ IsFiniteSet(Upto(c, n))
         /\ \A n : SumFunctionOnSet(c, Upto(c, n)) \in Int
<1>1. \A n : Upto(c, n) \in SUBSET DOMAIN c /\ IsFiniteSet(Upto(c, n))
  BY FS_Subset DEF Upto, Ledger
<1> QED
  BY <1>1, SumInt DEF Ledger

\* A card brought forward has the invariant.
LEMMA CardInit == ASSUME Init PROVE CardInv
<1>1. Ledger(card) /\ balance = SumFunctionOnSet(card, DOMAIN card) /\ balance >= 0
  BY DEF Init, Ledger, SumFunction
<1>2. ASSUME NEW n \in Int PROVE SumFunctionOnSet(card, Upto(card, n)) >= 0
  <2>1. CASE Upto(card, n) = {}
    BY <2>1, SumEmpty
  <2>2. CASE Upto(card, n) # {}
    <3>1. Upto(card, n) \in SUBSET Nat /\ IsFiniteSet(Upto(card, n))
      BY <1>1, LedgerSums DEF Ledger
    <3>2. PICK l \in Upto(card, n) : \A k \in Upto(card, n) : k <= l
      BY <2>2, <3>1, GreatestElement
    <3>3. l \in DOMAIN card /\ l \in Nat /\ l <= n /\ DOMAIN card \in SUBSET Nat
      BY <1>1, <3>2 DEF Upto, Ledger
    <3>4. Upto(card, n) = {k \in DOMAIN card : k <= l}
      BY <3>2, <3>3 DEF Upto
    <3> QED
      BY <3>3, <3>4 DEF Init, After
  <2> QED
    BY <2>1, <2>2
<1> QED
  BY <1>1, <1>2 DEF CardInv, NeverShort

\* Making an entry at the end keeps the invariant.
LEMMA EntersStep ==
  ASSUME CardInv, NEW id, NEW q, Enters(id, q)
  PROVE  CardInv'
<1> DEFINE D == DOMAIN card
           D2 == DOMAIN card'
<1>1. /\ id \in Nat /\ q \in Int /\ Ledger(card)
      /\ \A k \in D : k \in Nat /\ k < id
      /\ balance = SumFunctionOnSet(card, D) /\ balance \in Int
  BY LedgerSums DEF CardInv, Enters, Ledger
<1>2. /\ D2 = D \cup {id} /\ id \notin D /\ D2 \ {id} = D
      /\ card'[id] = q /\ \A k \in D : card'[k] = card[k]
  <2>1. card' = [k \in D \cup {id} |-> IF k = id THEN q ELSE card[k]]
    BY DEF Enters
  <2>2. id \notin D
    BY <1>1
  <2> QED
    BY <2>1, <2>2
<1>3. Ledger(card)'
  BY <1>1, <1>2, FS_AddElement DEF Ledger
<1>4. \A T \in SUBSET D : IsFiniteSet(T) /\ \A k \in T : card[k] \in Int
  BY <1>1, FS_Subset DEF Ledger
<1>5. \A T \in SUBSET D : SumFunctionOnSet(card', T) = SumFunctionOnSet(card, T)
  BY <1>2, <1>4, SumAgree
<1>6. SumFunctionOnSet(card', D2) = q + SumFunctionOnSet(card', D2 \ {id})
  BY <1>2, <1>3, SumRemove DEF Ledger
<1>7. balance' = SumFunctionOnSet(card', D2) /\ balance' = balance + q
  <2>1. SumFunctionOnSet(card', D) = SumFunctionOnSet(card, D)
    BY <1>5
  <2> QED
    BY <1>1, <1>2, <1>6, <2>1 DEF Enters
<1>8. ASSUME ~AllowNegative PROVE NeverShort(card, balance)'
  <2>1. NeverShort(card, balance)
    BY <1>8 DEF CardInv
  <2>2. balance' >= 0
    BY <1>1, <1>7, <1>8, <2>1 DEF Enters, NeverShort
  <2>3. ASSUME NEW n \in Int PROVE SumFunctionOnSet(card', Upto(card', n)) >= 0
    <3>1. CASE n < id
      <4>1. Upto(card', n) = Upto(card, n) /\ Upto(card, n) \in SUBSET D
        BY <1>1, <1>2, <3>1 DEF Upto
      <4> QED
        BY <1>5, <2>1, <4>1 DEF NeverShort
    <3>2. CASE n >= id
      <4>1. Upto(card', n) = D2
        BY <1>1, <1>2, <3>2 DEF Upto
      <4> QED
        BY <1>7, <2>2, <4>1
    <3> QED
      BY <1>1, <3>1, <3>2
  <2> QED
    BY <2>2, <2>3 DEF NeverShort
<1> QED
  BY <1>3, <1>7, <1>8 DEF CardInv

\* Striking an entry out keeps the invariant: what was issued after it stays
\* covered by what had been received before it.
LEMMA StrikesOutStep ==
  ASSUME CardInv, NEW id \in DOMAIN card, StrikesOut(id)
  PROVE  CardInv'
<1> DEFINE D == DOMAIN card
           D2 == DOMAIN card'
           q == card[id]
<1>1. /\ Ledger(card) /\ D \in SUBSET Nat /\ id \in Nat /\ q \in Int
      /\ \A k \in D : card[k] \in Int
      /\ balance = SumFunctionOnSet(card, D) /\ balance \in Int
  BY LedgerSums DEF CardInv, Ledger
<1>2. D2 = D \ {id} /\ \A k \in D2 : card'[k] = card[k]
  BY DEF StrikesOut
<1>3. Ledger(card)'
  BY <1>1, <1>2, FS_RemoveElement DEF Ledger
<1>4. \A T \in SUBSET D2 : SumFunctionOnSet(card', T) = SumFunctionOnSet(card, T)
  <2>1. \A T \in SUBSET D2 : IsFiniteSet(T) /\ \A k \in T : card[k] \in Int
    BY <1>1, <1>2, <1>3, FS_Subset DEF Ledger
  <2> QED
    BY <1>2, <2>1, SumAgree
<1>5. \A T \in SUBSET D : id \in T => /\ T \ {id} \in SUBSET D2
                                      /\ SumFunctionOnSet(card, T)
                                           = q + SumFunctionOnSet(card, T \ {id})
                                      /\ SumFunctionOnSet(card, T \ {id}) \in Int
  <2> SUFFICES ASSUME NEW T \in SUBSET D, id \in T
               PROVE  /\ T \ {id} \in SUBSET D2
                      /\ SumFunctionOnSet(card, T)
                           = q + SumFunctionOnSet(card, T \ {id})
                      /\ SumFunctionOnSet(card, T \ {id}) \in Int
    OBVIOUS
  <2>1. IsFiniteSet(T) /\ IsFiniteSet(T \ {id})
    BY <1>1, FS_Subset DEF Ledger
  <2> QED
    BY <1>1, <1>2, <2>1, SumRemove, SumInt
<1>6. balance' = SumFunctionOnSet(card', D2) /\ balance' = balance - q
  <2>1. /\ SumFunctionOnSet(card, D) = q + SumFunctionOnSet(card, D2)
        /\ SumFunctionOnSet(card, D2) \in Int
    BY <1>2, <1>5
  <2>2. SumFunctionOnSet(card', D2) = SumFunctionOnSet(card, D2)
    BY <1>4
  <2> QED
    BY <1>1, <2>1, <2>2 DEF StrikesOut
<1> DEFINE Covered(T) == id \in T => SumFunctionOnSet(card, T \ {id}) >= 0
<1>7. ASSUME ~AllowNegative PROVE Covered(D) /\ \A n \in Int : Covered(Upto(card, n))
  <2>0. NeverShort(card, balance)
    BY <1>7 DEF CardInv
  <2>1. \A n : /\ Upto(card, n) \in SUBSET D
               /\ SumFunctionOnSet(card, Upto(card, n)) \in Int
    BY <1>1, LedgerSums
  <2>2. CASE q <= 0
    <3>1. ASSUME NEW T \in SUBSET D, id \in T, SumFunctionOnSet(card, T) >= 0
          PROVE  SumFunctionOnSet(card, T \ {id}) >= 0
      BY <1>1, <1>5, <2>2, <3>1
    <3>2. Covered(D)
      BY <1>1, <2>0, <3>1 DEF NeverShort
    <3>3. \A n \in Int : Covered(Upto(card, n))
      BY <2>0, <2>1, <3>1 DEF NeverShort
    <3> QED
      BY <3>2, <3>3
  <2>3. CASE q > 0
    <3> DEFINE B == Upto(card, id - 1)
    <3>1. SumFunctionOnSet(card, B) >= 0 /\ SumFunctionOnSet(card, B) \in Int
      BY <1>1, <2>0, <2>1 DEF NeverShort
    <3>2. \A k \in D : k > id => card[k] >= 0
      BY <2>3 DEF StrikesOut
    <3>3. ASSUME NEW T \in SUBSET D, id \in T, B \in SUBSET T
          PROVE  SumFunctionOnSet(card, T \ {id}) >= 0
      <4>1. B \in SUBSET (T \ {id})
        BY <1>1, <3>3 DEF Upto
      <4>2. IsFiniteSet(T \ {id}) /\ \A k \in T \ {id} : card[k] \in Int
        BY <1>1, FS_Subset DEF Ledger
      <4>3. \A k \in (T \ {id}) \ B : card[k] >= 0
        BY <1>1, <3>2 DEF Upto
      <4>4. SumFunctionOnSet(card, T \ {id}) >= SumFunctionOnSet(card, B)
        BY <4>1, <4>2, <4>3, SumGrows
      <4>5. SumFunctionOnSet(card, T \ {id}) \in Int
        BY <1>5, <3>3
      <4> HIDE DEF B
      <4> QED
        BY <3>1, <4>4, <4>5
    <3>4. Covered(D)
      BY <2>1, <3>3
    <3>5. ASSUME NEW n \in Int, id \in Upto(card, n)
          PROVE  B \in SUBSET Upto(card, n)
      BY <1>1, <3>5 DEF Upto
    <3>6. \A n \in Int : Covered(Upto(card, n))
      BY <2>1, <3>3, <3>5
    <3> QED
      BY <3>4, <3>6
  <2> QED
    BY <1>1, <2>2, <2>3
<1>8. ASSUME ~AllowNegative PROVE NeverShort(card, balance)'
  <2>0. NeverShort(card, balance)
    BY <1>8 DEF CardInv
  <2>1. balance' >= 0
    <3>1. SumFunctionOnSet(card, D2) >= 0
      BY <1>2, <1>7, <1>8
    <3> QED
      BY <1>4, <1>6, <3>1
  <2>2. ASSUME NEW n \in Int PROVE SumFunctionOnSet(card', Upto(card', n)) >= 0
    <3>1. Upto(card', n) \in SUBSET D2 /\ Upto(card', n) = Upto(card, n) \ {id}
      BY <1>2 DEF Upto
    <3>2. SumFunctionOnSet(card', Upto(card', n))
            = SumFunctionOnSet(card, Upto(card, n) \ {id})
      BY <1>4, <3>1
    <3>3. CASE id \in Upto(card, n)
      BY <1>7, <1>8, <3>2, <3>3
    <3>4. CASE id \notin Upto(card, n)
      <4>1. Upto(card, n) \ {id} = Upto(card, n)
        BY <3>4
      <4> QED
        BY <2>0, <3>2, <4>1 DEF NeverShort
    <3> QED
      BY <3>3, <3>4
  <2> QED
    BY <2>1, <2>2 DEF NeverShort
<1> QED
  BY <1>3, <1>6, <1>8 DEF CardInv

\* A card whose issues were all covered when they were made stays covered
\* through every reversal the dependents guard lets pass.
THEOREM CardNeverBelowZero == Spec => []NeverBelowZero
<1>1. Init => CardInv
  BY CardInit
<1>2. CardInv /\ [Next]_<<card, balance>> => CardInv'
  <2> SUFFICES ASSUME CardInv, [Next]_<<card, balance>> PROVE CardInv'
    OBVIOUS
  <2>1. ASSUME NEW id, Enters(id, card'[id]) PROVE CardInv'
    <3>1. PICK q : q = card'[id]
      OBVIOUS
    <3>2. Enters(id, q)
      BY <2>1, <3>1
    <3> QED
      BY <3>2, EntersStep
  <2>2. ASSUME NEW id \in DOMAIN card, StrikesOut(id) PROVE CardInv'
    BY <2>2, StrikesOutStep
  <2>3. ASSUME UNCHANGED <<card, balance>> PROVE CardInv'
    BY <2>3 DEF CardInv, NeverShort, Ledger, Upto
  <2> QED
    BY <2>1, <2>2, <2>3 DEF Next
<1>3. CardInv => NeverBelowZero
  BY DEF CardInv, NeverShort, NeverBelowZero
<1> QED
  BY <1>1, <1>2, <1>3, PTL DEF Spec
=============================================================================
