--------------------------- MODULE StockFifoProofs ---------------------------
(***************************************************************************)
(* StockFifo keeps its invariants and implements the stock card, in every  *)
(* run and for all values of the constants.                                *)
(*   1. The books of the layers: typed rows that join live movements to    *)
(*      live layers, layers that fit what is held of them, rows at their   *)
(*      layer's cost.  Each operator of StockFifo keeps them.              *)
(*   2. The inductive invariant IInv: the types, the net quantity of the   *)
(*      journal as the balance, and the books.  Each action keeps it.      *)
(*   3. The refinement: each posting makes one entry at the end of the     *)
(*      card of StockCard, each reversal strikes one out that no later     *)
(*      issue relies on, so where negative stock is refused the balance    *)
(*      never goes below zero.                                             *)
(*   4. The four ledgers of the layers, which hold together in every run   *)
(*      whose reversals are regular, those of StockFifoCycle: each unit is *)
(*      accounted for, each fill and difference journal is the one its     *)
(*      receipt calls for, and what is open and not pending is the balance.*)
(*   5. With these, the reversal of the latest document leads back to the  *)
(*      stock before it.                                                   *)
(***************************************************************************)
EXTENDS StockFifoCycle, SumLemmas

-----------------------------------------------------------------------------
(***************************************************************************)
(* 1. The books of the layers                                              *)
(***************************************************************************)
\* The entry of a table, 0 where it has none.
At(f, k) == IF k \in DOMAIN f THEN f[k] ELSE 0

\* Two tables that differ at one key have sums that differ by that key's items.
LEMMA SumDelta ==
  ASSUME NEW f, IsFiniteSet(DOMAIN f), \A x \in DOMAIN f : f[x] \in Int,
         NEW g, IsFiniteSet(DOMAIN g), \A x \in DOMAIN g : g[x] \in Int,
         NEW k, DOMAIN f \ {k} = DOMAIN g \ {k},
         \A x \in DOMAIN f \ {k} : f[x] = g[x]
  PROVE  /\ SumFunction(f) \in Int /\ SumFunction(g) \in Int
         /\ SumFunction(g) = SumFunction(f) - At(f, k) + At(g, k)
<1> DEFINE D == DOMAIN f \ {k}
           w == SumFunctionOnSet(f, D)
<1>1. IsFiniteSet(D)
  BY FS_Subset
<1>2. w \in Int
  BY <1>1, SumInt
<1>3. w = SumFunctionOnSet(g, D)
  BY <1>1, SumAgree
<1>4. SumFunction(f) = w + At(f, k) /\ At(f, k) \in Int
  <2>1. CASE k \in DOMAIN f
    <3>1. SumFunctionOnSet(f, DOMAIN f)
            = f[k] + SumFunctionOnSet(f, DOMAIN f \ {k})
      BY <2>1, SumRemove
    <3> QED
      BY <2>1, <3>1, <1>2 DEF SumFunction, At
  <2>2. CASE k \notin DOMAIN f
    <3>1. D = DOMAIN f
      BY <2>2
    <3> QED
      BY <2>2, <3>1, <1>2 DEF SumFunction, At
  <2> QED
    BY <2>1, <2>2
<1>5. SumFunction(g) = w + At(g, k) /\ At(g, k) \in Int
  <2>1. CASE k \in DOMAIN g
    <3>1. SumFunctionOnSet(g, DOMAIN g)
            = g[k] + SumFunctionOnSet(g, DOMAIN g \ {k})
      BY <2>1, SumRemove
    <3>2. SumFunctionOnSet(g, DOMAIN g \ {k}) = w
      BY <1>3
    <3> HIDE DEF w
    <3> QED
      BY <2>1, <3>1, <3>2, <1>2 DEF SumFunction, At
  <2>2. CASE k \notin DOMAIN g
    <3>1. D = DOMAIN g
      BY <2>2
    <3> QED
      BY <2>2, <3>1, <1>2, <1>3 DEF SumFunction, At
  <2> QED
    BY <2>1, <2>2
<1> HIDE DEF w
<1> QED
  BY <1>2, <1>4, <1>5

\* A new row id is positive and above every id in use.
LEMMA NextIdNew ==
  ASSUME NEW ids \in SUBSET Nat, IsFiniteSet(ids)
  PROVE  /\ NextId(ids) \in Nat \ {0}
         /\ \A k \in ids : k < NextId(ids)
<1>1. CASE ids = {}
  BY <1>1 DEF NextId
<1>2. CASE ids # {}
  <2> DEFINE n == CHOOSE n \in ids : \A k \in ids : k <= n
  <2>1. n \in ids /\ \A k \in ids : k <= n
    BY <1>2, GreatestElement
  <2>2. NextId(ids) = 1 + n
    BY <1>2 DEF NextId
  <2> HIDE DEF n
  <2> QED
    BY <2>1, <2>2
<1> QED
  BY <1>1, <1>2

\* Rounding a non-negative quotient gives a natural.
LEMMA RoundNat ==
  ASSUME NEW n \in Nat, NEW d \in Nat \ {0}
  PROVE  RoundHalfEven(n, d) \in Nat
<1>1. n \div d \in Nat
  OBVIOUS
<1> QED
  BY <1>1 DEF RoundHalfEven

\* Decimal.quantize gives an integer, a natural of a non-negative quotient.
LEMMA QuantizeType ==
  ASSUME NEW n \in Int, NEW d \in Nat \ {0}
  PROVE  /\ Quantize(n, d) \in Int
         /\ n >= 0 => Quantize(n, d) \in Nat
<1>1. CASE n >= 0
  BY <1>1, RoundNat DEF Quantize
<1>2. CASE ~(n >= 0)
  <2>1. -n \in Nat
    BY <1>2
  <2> QED
    BY <1>2, <2>1, RoundNat DEF Quantize
<1> QED
  BY <1>1, <1>2

\* The greedy walk takes from each item no more than the item has.
LEMMA DrawBounds ==
  ASSUME NEW avail, IsFiniteSet(DOMAIN avail),
         \A i \in DOMAIN avail : avail[i] \in Nat,
         NEW order, NEW q \in Int
  PROVE  /\ DOMAIN Draw(avail, order, q) = DOMAIN avail
         /\ \A i \in DOMAIN avail : /\ Draw(avail, order, q)[i] \in Nat
                                    /\ Draw(avail, order, q)[i] <= avail[i]
<1> SUFFICES ASSUME NEW i \in DOMAIN avail
             PROVE  /\ Draw(avail, order, q)[i] \in Nat
                    /\ Draw(avail, order, q)[i] <= avail[i]
  BY DEF Draw
<1> DEFINE T == {k \in DOMAIN avail : <<k, i>> \in order}
           before == SumFunctionOnSet(avail, T)
<1>1. before \in Nat
  <2>1. IsFiniteSet(T)
    BY FS_Subset
  <2> QED
    BY <2>1, SumNat
<1>2. Draw(avail, order, q)[i]
        = IF before >= q THEN 0 ELSE MinOf(avail[i], q - before)
  BY DEF Draw
<1> HIDE DEF before
<1> QED
  BY <1>1, <1>2 DEF MinOf

\* The greedy walk over a strict total order takes in all the quantity asked
\* for or all there is, whichever is less: consume, reconcile_provisional and
\* restore_partial never take too much and leave nothing they could have taken.
LEMMA DrawTotal ==
  ASSUME NEW avail, IsFiniteSet(DOMAIN avail),
         \A i \in DOMAIN avail : avail[i] \in Nat,
         NEW order, StrictTotalOrder(order, DOMAIN avail), NEW q \in Nat
  PROVE  /\ SumFunction(Draw(avail, order, q)) \in Nat
         /\ SumFunction(Draw(avail, order, q)) <= q
         /\ SumFunction(Draw(avail, order, q))
              = MinOf(q, SumFunctionOnSet(avail, DOMAIN avail))
<1> DEFINE D == DOMAIN avail
           draw == Draw(avail, order, q)
           Down(T) == \A x \in T, k \in D : <<k, x>> \in order => k \in T
           Due(T) == SumFunctionOnSet(draw, T) = MinOf(q, SumFunctionOnSet(avail, T))
           X == {T \in SUBSET D : Down(T) => Due(T)}
<1>1. /\ DOMAIN draw = D
      /\ \A i \in D : draw[i] \in Nat
  BY DrawBounds
<1>2. ASSUME NEW T \in SUBSET D
      PROVE  /\ IsFiniteSet(T)
             /\ SumFunctionOnSet(avail, T) \in Nat
             /\ SumFunctionOnSet(draw, T) \in Nat
  <2>1. IsFiniteSet(T)
    BY FS_Subset
  <2> HIDE DEF draw
  <2> QED
    BY <2>1, <1>1, SumNat
<1>3. {} \in X
  <2> HIDE DEF draw
  <2> QED
    BY SumEmpty DEF MinOf
<1>4. ASSUME NEW T \in SUBSET D, T # {}, \A x \in T : T \ {x} \in X, Down(T)
      PROVE  Due(T)
  <2>1. StrictTotalOrder(order, T)
    BY DEF StrictTotalOrder
  <2>2. PICK x : IsLast(order, T, x)
    BY <1>2, <1>4, <2>1, LastElement
  <2>3. x \in T /\ \A y \in T : y = x \/ <<y, x>> \in order
    BY <2>2 DEF IsLast
  <2>4. \A y \in T : y # x => <<x, y>> \notin order
    BY <2>3 DEF StrictTotalOrder
  <2>5. Down(T \ {x})
    BY <1>4, <2>3, <2>4
  <2>6. {k \in D : <<k, x>> \in order} = T \ {x}
    BY <1>4, <2>3 DEF StrictTotalOrder
  <2> DEFINE b == SumFunctionOnSet(avail, T \ {x})
             c == SumFunctionOnSet(draw, T \ {x})
  <2>7. c = MinOf(q, b)
    BY <1>4, <2>3, <2>5
  <2>8. draw[x] = IF b >= q THEN 0 ELSE MinOf(avail[x], q - b)
    BY <2>3, <2>6 DEF Draw
  <2>9. SumFunctionOnSet(avail, T) = avail[x] + b
    BY <1>2, <2>3, SumRemove
  <2>10. SumFunctionOnSet(draw, T) = draw[x] + c
    <3> HIDE DEF draw
    <3>1. \A y \in T : draw[y] \in Int
      BY <1>1
    <3> QED
      BY <1>2, <2>3, <3>1, SumRemove
  <2>11. b \in Nat /\ avail[x] \in Nat
    BY <1>2, <2>3
  <2> HIDE DEF b, c, draw
  <2> QED
    BY <2>7, <2>8, <2>9, <2>10, <2>11 DEF MinOf
<1>5. ASSUME NEW T \in SUBSET D, T # {}, \A x \in T : T \ {x} \in X
      PROVE  T \in X
  BY <1>4, <1>5
<1> HIDE DEF X
<1>6. D \in X
  BY <1>3, <1>5, FiniteSetInduction
<1>7. Due(D)
  BY <1>6 DEF X
<1> QED
  <2> HIDE DEF draw
  <2>1. SumFunction(draw) = SumFunctionOnSet(draw, D)
    BY <1>1 DEF SumFunction
  <2>2. SumFunctionOnSet(draw, D) \in Nat /\ SumFunctionOnSet(avail, D) \in Nat
    BY <1>2
  <2>3. SumFunction(draw) \in Nat /\ SumFunction(draw) <= q
        /\ SumFunction(draw) = MinOf(q, SumFunctionOnSet(avail, D))
    BY <2>1, <2>2, <1>7 DEF MinOf
  <2> QED
    BY <2>3 DEF draw

\* Layers by date, then by id, are in a strict total order.
LEMMA FifoOrder ==
  ASSUME NEW ls, DOMAIN ls \subseteq Nat, \A l \in DOMAIN ls : ls[l].date \in Nat,
         NEW S \in SUBSET DOMAIN ls
  PROVE  StrictTotalOrder(Fifo(ls), S)
  BY DEF StrictTotalOrder, Fifo, Older

\* So are they in the order restore_partial gives units back.
LEMMA RestoreOrderTotal ==
  ASSUME NEW ls, DOMAIN ls \subseteq Nat, \A l \in DOMAIN ls : ls[l].date \in Nat,
         NEW S \in SUBSET DOMAIN ls, NEW o
  PROVE  StrictTotalOrder(RestoreOrder(o, ls), S)
  BY DEF StrictTotalOrder, RestoreOrder, Older

-----------------------------------------------------------------------------
\* What the rows hold of layer l, and the quantity of one row.
Consumed(rows, l) == SumFunction(RowsOn(rows, l))
QtyAt(rows, r) == IF r \in DOMAIN rows THEN rows[r].qty ELSE 0
\* A table of rows that join a movement of ids to a layer of ls.
RowTable(rows, ids, ls) ==
  /\ rows \in [DOMAIN rows -> Row]
  /\ DOMAIN rows \subseteq ids \X (DOMAIN ls)
\* Row ids: a finite set of naturals.
Ids(ids) == IsFiniteSet(ids) /\ ids \in SUBSET Nat

\* What the rows of a table hold of layer l is a finite table of naturals.
LEMMA RowsOnTable ==
  ASSUME NEW rows, NEW ids, NEW ls, RowTable(rows, ids, ls), Ids(ids), NEW l
  PROVE  /\ DOMAIN RowsOn(rows, l) \subseteq ids
         /\ \A m \in ids : m \in DOMAIN RowsOn(rows, l) <=> <<m, l>> \in DOMAIN rows
         /\ IsFiniteSet(DOMAIN RowsOn(rows, l))
         /\ \A m \in DOMAIN RowsOn(rows, l) : RowsOn(rows, l)[m] \in Nat
         /\ \A m \in DOMAIN RowsOn(rows, l) :
              RowsOn(rows, l)[m] = rows[<<m, l>>].qty
         /\ Consumed(rows, l) \in Nat
<1> DEFINE f == RowsOn(rows, l)
<1>1. DOMAIN f = {m \in ids : <<m, l>> \in DOMAIN rows}
  BY DEF RowTable, RowsOn
<1>2. \A m \in DOMAIN f : f[m] = rows[<<m, l>>].qty
  BY DEF RowsOn
<1>3. \A m \in DOMAIN f : f[m] \in Nat
  BY <1>1, <1>2 DEF RowTable, Row
<1>4. IsFiniteSet(DOMAIN f)
  BY <1>1, FS_Subset DEF Ids
<1> HIDE DEF f
<1>5. SumFunction(f) \in Nat
  BY <1>3, <1>4, SumNat DEF SumFunction
<1> QED
  BY <1>1, <1>2, <1>3, <1>4, <1>5 DEF f, Consumed

\* The quantity of a row, or 0 where there is none, is a natural.
LEMMA QtyAtNat ==
  ASSUME NEW rows, NEW ids, NEW ls, RowTable(rows, ids, ls), NEW r
  PROVE  QtyAt(rows, r) \in Nat
<1>1. CASE r \in DOMAIN rows
  <2>1. rows[r] \in Row
    BY <1>1 DEF RowTable
  <2> QED
    BY <1>1, <2>1 DEF QtyAt, Row
<1>2. CASE r \notin DOMAIN rows
  BY <1>2 DEF QtyAt
<1> QED
  BY <1>1, <1>2

\* Tables that agree but for the rows of movement m hold of layer l amounts
\* that differ by m's row on l.
LEMMA ConsumedDelta ==
  ASSUME NEW rows, NEW ids, NEW ls, RowTable(rows, ids, ls), Ids(ids),
         NEW rows2, NEW ids2, NEW ls2, RowTable(rows2, ids2, ls2), Ids(ids2),
         NEW m, NEW l,
         \A k \in (ids \cup ids2) \ {m} :
           /\ <<k, l>> \in DOMAIN rows <=> <<k, l>> \in DOMAIN rows2
           /\ <<k, l>> \in DOMAIN rows => rows[<<k, l>>].qty = rows2[<<k, l>>].qty
  PROVE  /\ Consumed(rows2, l)
              = Consumed(rows, l) - QtyAt(rows, <<m, l>>) + QtyAt(rows2, <<m, l>>)
         /\ Consumed(rows, l) \in Nat /\ Consumed(rows2, l) \in Nat
         /\ QtyAt(rows, <<m, l>>) \in Nat /\ QtyAt(rows2, <<m, l>>) \in Nat
<1> DEFINE f == RowsOn(rows, l)
           g == RowsOn(rows2, l)
<1>1. /\ DOMAIN f \subseteq ids
      /\ \A k \in ids : k \in DOMAIN f <=> <<k, l>> \in DOMAIN rows
      /\ IsFiniteSet(DOMAIN f)
      /\ \A k \in DOMAIN f : f[k] \in Nat
      /\ \A k \in DOMAIN f : f[k] = rows[<<k, l>>].qty
      /\ Consumed(rows, l) \in Nat
  BY RowsOnTable
<1>2. /\ DOMAIN g \subseteq ids2
      /\ \A k \in ids2 : k \in DOMAIN g <=> <<k, l>> \in DOMAIN rows2
      /\ IsFiniteSet(DOMAIN g)
      /\ \A k \in DOMAIN g : g[k] \in Nat
      /\ \A k \in DOMAIN g : g[k] = rows2[<<k, l>>].qty
      /\ Consumed(rows2, l) \in Nat
  BY RowsOnTable
<1>3. At(f, m) = QtyAt(rows, <<m, l>>) /\ At(g, m) = QtyAt(rows2, <<m, l>>)
  <2>1. m \in DOMAIN f <=> <<m, l>> \in DOMAIN rows
    BY <1>1 DEF RowTable
  <2>2. m \in DOMAIN g <=> <<m, l>> \in DOMAIN rows2
    BY <1>2 DEF RowTable
  <2> HIDE DEF f, g
  <2> QED
    BY <2>1, <2>2, <1>1, <1>2 DEF At, QtyAt
<1>4. QtyAt(rows, <<m, l>>) \in Nat /\ QtyAt(rows2, <<m, l>>) \in Nat
  BY QtyAtNat
<1>5. DOMAIN f \ {m} = DOMAIN g \ {m} /\ \A k \in DOMAIN f \ {m} : f[k] = g[k]
  <2> HIDE DEF f, g
  <2>1. \A k \in ids : <<k, l>> \in DOMAIN rows => k = m \/ k \in DOMAIN g
    BY <1>2 DEF RowTable
  <2>2. \A k \in ids2 : <<k, l>> \in DOMAIN rows2 => k = m \/ k \in DOMAIN f
    BY <1>1 DEF RowTable
  <2>3. DOMAIN f \ {m} = DOMAIN g \ {m}
    BY <1>1, <1>2, <2>1, <2>2
  <2> QED
    BY <1>1, <1>2, <2>3
<1> HIDE DEF f, g
<1>6. SumFunction(g) = SumFunction(f) - At(f, m) + At(g, m)
  <2>1. \A k \in DOMAIN f : f[k] \in Int
    BY <1>1
  <2>2. \A k \in DOMAIN g : g[k] \in Int
    BY <1>2
  <2> QED
    BY <1>1, <1>2, <1>5, <2>1, <2>2, SumDelta
<1> QED
  BY <1>1, <1>2, <1>3, <1>4, <1>6 DEF Consumed, f, g

-----------------------------------------------------------------------------
\* Layer v and the units used of it fit together: the terms of NoOverdraw.
Fits(v, used) ==
  /\ v.rem + used <= v.orig
  /\ v.recd <= v.orig
  /\ v.date = OpeningDate => v.recd = 0 /\ ~v.prov
\* Layers ls, consumption rows and fill rows of the movements ids agree.
Books(ls, rows, fills, ids) ==
  /\ Ids(ids) /\ Ids(DOMAIN ls)
  /\ ls \in [DOMAIN ls -> Layer]
  /\ RowTable(rows, ids, ls) /\ RowTable(fills, ids, ls)
  /\ \A l \in DOMAIN ls : Fits(ls[l], Consumed(rows, l))
  /\ \A r \in DOMAIN rows : rows[r].cost = ls[r[2]].cost

\* Opening a layer that nothing has consumed keeps the books.
LEMMA PutBooks ==
  ASSUME NEW ls, NEW rows, NEW fills, NEW ids, Books(ls, rows, fills, ids),
         NEW k \in Nat \ DOMAIN ls, NEW v \in Layer, v.rem <= v.orig,
         v.recd = 0, v.prov => v.date # OpeningDate
  PROVE  /\ Books(Put(ls, k, v), rows, fills, ids)
         /\ Consumed(rows, k) = 0
<1> DEFINE ls2 == Put(ls, k, v)
<1>1. /\ DOMAIN ls2 = DOMAIN ls \cup {k} /\ ls2[k] = v
      /\ \A l \in DOMAIN ls : ls2[l] = ls[l]
  BY DEF Put
<1> HIDE DEF ls2
<1>2. Ids(DOMAIN ls2)
  BY <1>1, FS_AddElement DEF Ids, Books
<1>3. ls2 \in [DOMAIN ls2 -> Layer]
  <2>1. \A l \in DOMAIN ls2 : ls2[l] \in Layer
    BY <1>1 DEF Books
  <2>2. ls2 = [l \in DOMAIN ls2 |-> ls2[l]]
    BY DEF ls2, Put
  <2> QED
    BY <2>1, <2>2
<1>4. RowTable(rows, ids, ls2) /\ RowTable(fills, ids, ls2)
  BY <1>1 DEF Books, RowTable
<1>5. Consumed(rows, k) = 0
  <2>0. RowTable(rows, ids, ls) /\ Ids(ids)
    BY DEF Books
  <2>1. /\ DOMAIN RowsOn(rows, k) \subseteq ids
        /\ \A m \in ids : m \in DOMAIN RowsOn(rows, k) <=> <<m, k>> \in DOMAIN rows
    BY <2>0, RowsOnTable
  <2>2. ASSUME NEW m \in ids PROVE <<m, k>> \notin DOMAIN rows
    BY DEF Books, RowTable
  <2>3. DOMAIN RowsOn(rows, k) = {}
    BY <2>1, <2>2
  <2> QED
    BY <2>3, SumEmpty DEF Consumed, SumFunction
<1>6. \A l \in DOMAIN ls2 : Fits(ls2[l], Consumed(rows, l))
  <2>1. Fits(v, 0)
    BY DEF Fits, Layer
  <2> QED
    BY <1>1, <1>5, <2>1 DEF Books
<1>7. \A r \in DOMAIN rows : rows[r].cost = ls2[r[2]].cost
  BY <1>1 DEF Books, RowTable
<1> QED
  BY <1>2, <1>3, <1>4, <1>5, <1>6, <1>7 DEF Books, ls2

\* Open units, their value and the average cost derived from them are naturals.
LEMMA OpenQtyNat ==
  ASSUME NEW ls, Ids(DOMAIN ls), ls \in [DOMAIN ls -> Layer]
  PROVE  /\ OpenQty(ls) \in Nat /\ OpenValue(ls) \in Nat
         /\ AvgCost(ls) \in Nat
<1>1. OpenQty(ls) \in Nat
  <2> DEFINE f == Rem(ls)
  <2>1. DOMAIN f = DOMAIN ls /\ \A l \in DOMAIN f : f[l] \in Nat
    BY DEF Rem, Layer
  <2> HIDE DEF f
  <2> QED
    BY <2>1, SumNat DEF OpenQty, SumFunction, Ids, f
<1>2. OpenValue(ls) \in Nat
  <2> DEFINE f == [l \in DOMAIN ls |-> ls[l].rem * ls[l].cost]
  <2>1. DOMAIN f = DOMAIN ls
    OBVIOUS
  <2>2. ASSUME NEW l \in DOMAIN ls PROVE f[l] \in Nat
    <3>1. ls[l].rem \in Nat /\ ls[l].cost \in Nat
      BY DEF Layer
    <3>2. f[l] = ls[l].rem * ls[l].cost
      OBVIOUS
    <3> HIDE DEF f
    <3> QED
      BY <3>1, <3>2
  <2>3. OpenValue(ls) = SumFunctionOnSet(f, DOMAIN f)
    BY DEF OpenValue, SumFunction
  <2> HIDE DEF f
  <2> QED
    BY <2>1, <2>2, <2>3, SumNat DEF Ids
<1>3. AvgCost(ls) \in Nat
  <2>1. CASE OpenQty(ls) = 0
    BY <2>1 DEF AvgCost
  <2>2. CASE OpenQty(ls) # 0
    <3>1. Quantize(OpenValue(ls), OpenQty(ls)) \in Nat
      BY <1>1, <1>2, <2>2, QuantizeType
    <3> QED
      BY <2>2, <3>1 DEF AvgCost
  <2> QED
    BY <2>1, <2>2
<1> QED
  BY <1>1, <1>2, <1>3

\* backfill_opening_layer keeps the books and leaves the other layers alone.
LEMMA BackfillBooks ==
  ASSUME NEW ls, NEW rows, NEW fills, NEW ids, Books(ls, rows, fills, ids),
         Ids(DOMAIN moves), NEW balance \in Int, NEW cost \in Nat
  PROVE  /\ Books(Backfill(ls, balance, cost), rows, fills, ids)
         /\ DOMAIN ls \subseteq DOMAIN Backfill(ls, balance, cost)
         /\ \A l \in DOMAIN ls : Backfill(ls, balance, cost)[l] = ls[l]
<1> DEFINE shortfall == balance - OpenQty(ls)
           k == NextId(DOMAIN ls \cup DOMAIN moves)
           v == [date |-> OpeningDate, orig |-> shortfall, rem |-> shortfall,
                 cost |-> cost, prov |-> FALSE, recd |-> 0]
<1>1. CASE balance > 0 /\ shortfall > 0
  <2>1. Backfill(ls, balance, cost) = Put(ls, k, v)
    BY <1>1 DEF Backfill
  <2>2. shortfall \in Nat
    BY <1>1, OpenQtyNat DEF Books
  <2>3. k \in Nat \ DOMAIN ls
    <3> DEFINE all == DOMAIN ls \cup DOMAIN moves
    <3>1. IsFiniteSet(all) /\ all \in SUBSET Nat
      BY FS_Union DEF Books, Ids
    <3>2. NextId(all) \in Nat \ {0} /\ \A n \in all : n < NextId(all)
      BY <3>1, NextIdNew
    <3> HIDE DEF all
    <3>3. NextId(all) \notin all
      BY <3>1, <3>2
    <3> QED
      BY <3>2, <3>3 DEF all
  <2> HIDE DEF shortfall, k
  <2>4. /\ v \in Layer /\ v.rem <= v.orig /\ v.recd = 0
        /\ v.prov => v.date # OpeningDate
    BY <2>2 DEF Layer, OpeningDate
  <2> HIDE DEF v
  <2>5. Books(Put(ls, k, v), rows, fills, ids)
    BY <2>3, <2>4, PutBooks
  <2> QED
    BY <2>1, <2>3, <2>5 DEF Put
<1>2. CASE ~(balance > 0 /\ shortfall > 0)
  <2>1. Backfill(ls, balance, cost) = ls
    BY <1>2 DEF Backfill
  <2> QED
    BY <2>1
<1> QED
  BY <1>1, <1>2

\* Changing the quantities of layers, not their costs, keeps the books when
\* each layer still fits what is held of it.
LEMMA RefitBooks ==
  ASSUME NEW ls, NEW rows, NEW fills, NEW ids, Books(ls, rows, fills, ids),
         NEW ls2 \in [DOMAIN ls -> Layer],
         \A l \in DOMAIN ls : Fits(ls2[l], Consumed(rows, l)),
         \A l \in DOMAIN ls : ls2[l].cost = ls[l].cost
  PROVE  Books(ls2, rows, fills, ids)
<1>1. DOMAIN ls2 = DOMAIN ls
  OBVIOUS
<1>2. RowTable(rows, ids, ls2) /\ RowTable(fills, ids, ls2)
  BY <1>1 DEF Books, RowTable
<1>3. \A r \in DOMAIN rows : rows[r].cost = ls2[r[2]].cost
  BY DEF Books, RowTable
<1> QED
  BY <1>1, <1>2, <1>3 DEF Books

\* What is held of a layer is a natural.
LEMMA ConsumedNat ==
  ASSUME NEW ls, NEW rows, NEW fills, NEW ids, Books(ls, rows, fills, ids), NEW l
  PROVE  Consumed(rows, l) \in Nat
<1>1. RowTable(rows, ids, ls) /\ Ids(ids)
  BY DEF Books
<1> QED
  BY <1>1, RowsOnTable

\* Taking units out of layers that have them keeps the books and leaves room
\* in each layer to record what was taken.
LEMMA ConsumeBooks ==
  ASSUME NEW ls, NEW rows, NEW fills, NEW ids, Books(ls, rows, fills, ids),
         NEW take, DOMAIN take = DOMAIN ls,
         \A l \in DOMAIN ls : take[l] \in Nat /\ take[l] <= ls[l].rem
  PROVE  /\ Books(Consume(ls, take), rows, fills, ids)
         /\ DOMAIN Consume(ls, take) = DOMAIN ls
         /\ \A l \in DOMAIN ls :
              Consume(ls, take)[l].rem + Consumed(rows, l) + take[l]
                <= Consume(ls, take)[l].orig
<1> DEFINE ls2 == Consume(ls, take)
<1>1. ASSUME NEW l \in DOMAIN ls
      PROVE  /\ ls2[l] \in Layer
             /\ Fits(ls2[l], Consumed(rows, l))
             /\ ls2[l].cost = ls[l].cost
             /\ ls2[l].rem + Consumed(rows, l) + take[l] <= ls2[l].orig
  <2>1. ls[l] \in Layer /\ Fits(ls[l], Consumed(rows, l))
    BY DEF Books
  <2>2. Consumed(rows, l) \in Nat
    BY ConsumedNat
  <2>3. ls2[l] = [ls[l] EXCEPT !.rem = ls[l].rem - take[l]]
    BY DEF Consume
  <2>4. /\ ls2[l].rem = ls[l].rem - take[l] /\ ls2[l].orig = ls[l].orig
        /\ ls2[l].cost = ls[l].cost /\ ls2[l].recd = ls[l].recd
        /\ ls2[l].date = ls[l].date /\ ls2[l].prov = ls[l].prov
    BY <2>1, <2>3 DEF Layer
  <2>5. ls2[l] \in Layer
    BY <2>1, <2>3 DEF Layer
  <2> HIDE DEF ls2
  <2>6. ls2[l].rem + Consumed(rows, l) + take[l] <= ls2[l].orig
    BY <2>1, <2>2, <2>4 DEF Fits, Layer
  <2>7. Fits(ls2[l], Consumed(rows, l))
    BY <2>1, <2>2, <2>4, <2>6 DEF Fits, Layer
  <2> QED
    BY <2>4, <2>5, <2>6, <2>7
<1>2. ls2 \in [DOMAIN ls -> Layer] /\ DOMAIN ls2 = DOMAIN ls
  BY <1>1 DEF Consume
<1> HIDE DEF ls2
<1>3. Books(ls2, rows, fills, ids)
  BY <1>1, <1>2, RefitBooks
<1> QED
  BY <1>1, <1>2, <1>3 DEF ls2

\* WithRows adds to a table the rows of one movement, with their quantities
\* and costs, and changes no row that was there.
LEMMA WithRowsTable ==
  ASSUME NEW rows, NEW ids, NEW ls, RowTable(rows, ids, ls),
         NEW m \in Nat, NEW taken, NEW ls0,
         DOMAIN taken \subseteq DOMAIN ls, DOMAIN taken \subseteq DOMAIN ls0,
         \A l \in DOMAIN taken : taken[l] \in Nat /\ ls0[l].cost \in Nat
  PROVE  /\ RowTable(WithRows(rows, m, taken, ls0), ids \cup {m}, ls)
         /\ \A r \in DOMAIN rows : /\ r \in DOMAIN WithRows(rows, m, taken, ls0)
                                    /\ WithRows(rows, m, taken, ls0)[r] = rows[r]
         /\ \A r \in DOMAIN WithRows(rows, m, taken, ls0) \ DOMAIN rows :
              /\ r[1] = m /\ r[2] \in DOMAIN taken /\ taken[r[2]] > 0
              /\ r = <<m, r[2]>>
              /\ WithRows(rows, m, taken, ls0)[r].qty = taken[r[2]]
              /\ WithRows(rows, m, taken, ls0)[r].cost = ls0[r[2]].cost
         /\ \A l \in DOMAIN taken :
              taken[l] > 0 => <<m, l>> \in DOMAIN WithRows(rows, m, taken, ls0)
<1> DEFINE new == {<<m, l>> : l \in {k \in DOMAIN taken : taken[k] > 0}}
           rows2 == WithRows(rows, m, taken, ls0)
<1>1. DOMAIN rows2 = DOMAIN rows \cup new
  BY DEF WithRows
<1>2. \A r \in DOMAIN rows2 :
        rows2[r] = IF r \in DOMAIN rows THEN rows[r]
                   ELSE [qty |-> taken[r[2]], cost |-> ls0[r[2]].cost]
  BY DEF WithRows
<1>3. \A r \in new : /\ r[1] = m /\ r[2] \in DOMAIN taken /\ taken[r[2]] > 0
                     /\ r = <<m, r[2]>>
  OBVIOUS
<1>4. \A l \in DOMAIN taken : taken[l] > 0 => <<m, l>> \in new
  OBVIOUS
<1>5. rows2 = [r \in DOMAIN rows2 |-> rows2[r]]
  BY DEF WithRows
<1> HIDE DEF new, rows2
<1>6. \A r \in DOMAIN rows2 : rows2[r] \in Row
  <2>1. ASSUME NEW r \in DOMAIN rows PROVE rows2[r] \in Row
    BY <1>1, <1>2 DEF RowTable
  <2>2. ASSUME NEW r \in new, r \notin DOMAIN rows PROVE rows2[r] \in Row
    <3>1. taken[r[2]] \in Nat /\ ls0[r[2]].cost \in Nat
      BY <1>3
    <3>2. rows2[r] = [qty |-> taken[r[2]], cost |-> ls0[r[2]].cost]
      BY <1>1, <1>2, <2>2
    <3> QED
      BY <3>1, <3>2 DEF Row
  <2> QED
    BY <1>1, <2>1, <2>2
<1>7. DOMAIN rows2 \subseteq (ids \cup {m}) \X (DOMAIN ls)
  <2>1. DOMAIN rows \subseteq (ids \cup {m}) \X (DOMAIN ls)
    BY DEF RowTable
  <2>2. new \subseteq (ids \cup {m}) \X (DOMAIN ls)
    BY <1>3
  <2> QED
    BY <1>1, <2>1, <2>2
<1>8. RowTable(rows2, ids \cup {m}, ls)
  BY <1>5, <1>6, <1>7 DEF RowTable
<1>9. \A r \in DOMAIN rows : r \in DOMAIN rows2 /\ rows2[r] = rows[r]
  BY <1>1, <1>2
<1>10. ASSUME NEW r \in DOMAIN rows2 \ DOMAIN rows
       PROVE  /\ r[1] = m /\ r[2] \in DOMAIN taken /\ taken[r[2]] > 0
              /\ r = <<m, r[2]>>
              /\ rows2[r].qty = taken[r[2]] /\ rows2[r].cost = ls0[r[2]].cost
  <2>1. r \in new
    BY <1>1
  <2>2. rows2[r] = [qty |-> taken[r[2]], cost |-> ls0[r[2]].cost]
    BY <1>2
  <2>3. rows2[r].qty = taken[r[2]] /\ rows2[r].cost = ls0[r[2]].cost
    BY <2>2
  <2> QED
    BY <1>3, <2>1, <2>3
<1>11. \A l \in DOMAIN taken : taken[l] > 0 => <<m, l>> \in DOMAIN rows2
  BY <1>1, <1>4
<1> QED
  BY <1>8, <1>9, <1>10, <1>11 DEF rows2

\* Recording what movement m took, where each layer has room for it, keeps
\* the books.
LEMMA AddRowsBooks ==
  ASSUME NEW ls, NEW rows, NEW fills, NEW ids, Books(ls, rows, fills, ids),
         NEW m \in Nat \ ids, NEW taken, DOMAIN taken \subseteq DOMAIN ls,
         \A l \in DOMAIN taken :
           /\ taken[l] \in Nat
           /\ ls[l].rem + Consumed(rows, l) + taken[l] <= ls[l].orig
  PROVE  Books(ls, WithRows(rows, m, taken, ls), fills, ids \cup {m})
<1> DEFINE rows2 == WithRows(rows, m, taken, ls)
           ids2 == ids \cup {m}
<1>1. RowTable(rows, ids, ls) /\ Ids(ids)
  BY DEF Books
<1>2. \A l \in DOMAIN ls : ls[l] \in Layer
  BY DEF Books
<1>3. \A l \in DOMAIN taken : taken[l] \in Nat /\ ls[l].cost \in Nat
  BY <1>2 DEF Layer
<1>4. /\ RowTable(rows2, ids2, ls)
      /\ \A r \in DOMAIN rows : r \in DOMAIN rows2 /\ rows2[r] = rows[r]
      /\ \A r \in DOMAIN rows2 \ DOMAIN rows :
           /\ r[1] = m /\ r[2] \in DOMAIN taken /\ taken[r[2]] > 0
           /\ r = <<m, r[2]>>
           /\ rows2[r].qty = taken[r[2]] /\ rows2[r].cost = ls[r[2]].cost
      /\ \A l \in DOMAIN taken : taken[l] > 0 => <<m, l>> \in DOMAIN rows2
  <2> HIDE DEF ids2
  <2> QED
    BY <1>1, <1>3, WithRowsTable DEF ids2
<1>5. Ids(ids2)
  BY <1>1, FS_AddElement DEF Ids
<1>6. RowTable(fills, ids2, ls)
  BY DEF Books, RowTable
<1>7. \A r \in DOMAIN rows2 : rows2[r].cost = ls[r[2]].cost
  BY <1>4 DEF Books
<1>8. ASSUME NEW l \in DOMAIN ls PROVE Fits(ls[l], Consumed(rows2, l))
  <2> HIDE DEF rows2, ids2
  <2>1. <<m, l>> \notin DOMAIN rows
    BY <1>1 DEF RowTable
  <2>2. ASSUME NEW k \in (ids \cup ids2) \ {m}
        PROVE  /\ <<k, l>> \in DOMAIN rows <=> <<k, l>> \in DOMAIN rows2
               /\ <<k, l>> \in DOMAIN rows => rows[<<k, l>>].qty = rows2[<<k, l>>].qty
    BY <1>4
  <2>3. /\ Consumed(rows2, l)
             = Consumed(rows, l) - QtyAt(rows, <<m, l>>) + QtyAt(rows2, <<m, l>>)
        /\ Consumed(rows, l) \in Nat /\ Consumed(rows2, l) \in Nat
    BY <1>1, <1>4, <1>5, <2>2, ConsumedDelta
  <2>4. QtyAt(rows, <<m, l>>) = 0
    BY <2>1 DEF QtyAt
  <2>5. Fits(ls[l], Consumed(rows, l)) /\ ls[l] \in Layer
    BY DEF Books
  <2>6. CASE <<m, l>> \in DOMAIN rows2
    <3>1. l \in DOMAIN taken /\ QtyAt(rows2, <<m, l>>) = taken[l]
      BY <1>4, <2>1, <2>6 DEF QtyAt
    <3>2. ls[l].rem + Consumed(rows, l) + taken[l] <= ls[l].orig /\ taken[l] \in Nat
      BY <3>1
    <3> QED
      BY <2>3, <2>4, <2>5, <3>1, <3>2 DEF Fits, Layer
  <2>7. CASE <<m, l>> \notin DOMAIN rows2
    <3>1. QtyAt(rows2, <<m, l>>) = 0
      BY <2>7 DEF QtyAt
    <3> QED
      BY <2>3, <2>4, <2>5, <3>1 DEF Fits, Layer
  <2> QED
    BY <2>6, <2>7
<1> HIDE DEF rows2, ids2
<1>9. Books(ls, rows2, fills, ids2)
  BY <1>4, <1>5, <1>6, <1>7, <1>8 DEF Books
<1> QED
  BY <1>9 DEF rows2, ids2

\* A movement without rows keeps the books.
LEMMA GrowBooks ==
  ASSUME NEW ls, NEW rows, NEW fills, NEW ids, Books(ls, rows, fills, ids),
         NEW m \in Nat
  PROVE  Books(ls, rows, fills, ids \cup {m})
<1>1. Ids(ids \cup {m})
  BY FS_AddElement DEF Books, Ids
<1>2. RowTable(rows, ids \cup {m}, ls) /\ RowTable(fills, ids \cup {m}, ls)
  BY DEF Books, RowTable
<1> QED
  BY <1>1, <1>2 DEF Books

\* reconcile_provisional, filling provisional layers within what is pending,
\* keeps the books.
LEMMA FillBooks ==
  ASSUME NEW ls, NEW rows, NEW fills, NEW ids, Books(ls, rows, fills, ids),
         NEW fill, DOMAIN fill \subseteq Provisional(ls),
         \A l \in DOMAIN fill : fill[l] \in Nat,
         \A l \in DOMAIN fill : fill[l] <= ls[l].orig - ls[l].recd
  PROVE  /\ Books(Reconcile(ls, fill), rows, fills, ids)
         /\ DOMAIN Reconcile(ls, fill) = DOMAIN ls
<1> DEFINE ls2 == Reconcile(ls, fill)
<1>1. ASSUME NEW l \in DOMAIN ls
      PROVE  /\ ls2[l] \in Layer
             /\ Fits(ls2[l], Consumed(rows, l))
             /\ ls2[l].cost = ls[l].cost
  <2>1. ls[l] \in Layer /\ Fits(ls[l], Consumed(rows, l))
    BY DEF Books
  <2>2. CASE l \in DOMAIN fill
    <3>1. ls2[l] = [ls[l] EXCEPT !.recd = ls[l].recd + fill[l]]
      BY <2>2 DEF Reconcile
    <3>2. ls[l].prov
      BY <2>2 DEF Provisional
    <3>3. fill[l] \in Nat /\ fill[l] <= ls[l].orig - ls[l].recd
      BY <2>2
    <3>4. ls2[l] \in Layer
      BY <2>1, <3>1, <3>3 DEF Layer
    <3>5. /\ ls2[l].rem = ls[l].rem /\ ls2[l].orig = ls[l].orig
          /\ ls2[l].cost = ls[l].cost /\ ls2[l].recd = ls[l].recd + fill[l]
          /\ ls2[l].date = ls[l].date /\ ls2[l].prov = ls[l].prov
      BY <2>1, <3>1 DEF Layer
    <3> HIDE DEF ls2
    <3>6. ls[l].date # OpeningDate
      BY <2>1, <3>2 DEF Fits
    <3>7. ls2[l].recd <= ls2[l].orig
      BY <2>1, <3>3, <3>5 DEF Layer
    <3> QED
      BY <2>1, <3>4, <3>5, <3>6, <3>7 DEF Fits
  <2>3. CASE l \notin DOMAIN fill
    BY <2>1, <2>3 DEF Reconcile
  <2> QED
    BY <2>2, <2>3
<1>2. ls2 \in [DOMAIN ls -> Layer] /\ DOMAIN ls2 = DOMAIN ls
  BY <1>1 DEF Reconcile
<1> HIDE DEF ls2
<1>3. Books(ls2, rows, fills, ids)
  BY <1>1, <1>2, RefitBooks
<1> QED
  BY <1>2, <1>3 DEF ls2

\* unreconcile, reopening layers within what is filled, keeps the books.
LEMMA ReopenBooks ==
  ASSUME NEW ls, NEW rows, NEW fills, NEW ids, Books(ls, rows, fills, ids),
         NEW open, DOMAIN open \subseteq DOMAIN ls,
         \A l \in DOMAIN open : open[l] \in Nat,
         \A l \in DOMAIN open : open[l] <= ls[l].recd
  PROVE  /\ Books(Reopen(ls, open), rows, fills, ids)
         /\ DOMAIN Reopen(ls, open) = DOMAIN ls
<1> DEFINE ls2 == Reopen(ls, open)
<1>1. ASSUME NEW l \in DOMAIN ls
      PROVE  /\ ls2[l] \in Layer
             /\ Fits(ls2[l], Consumed(rows, l))
             /\ ls2[l].cost = ls[l].cost
  <2>1. ls[l] \in Layer /\ Fits(ls[l], Consumed(rows, l))
    BY DEF Books
  <2>2. CASE l \in DOMAIN open
    <3>1. ls2[l] = [ls[l] EXCEPT !.recd = ls[l].recd - open[l]]
      BY <2>2 DEF Reopen
    <3>3. open[l] \in Nat /\ open[l] <= ls[l].recd
      BY <2>2
    <3>4. ls2[l] \in Layer
      BY <2>1, <3>1, <3>3 DEF Layer
    <3>5. /\ ls2[l].rem = ls[l].rem /\ ls2[l].orig = ls[l].orig
          /\ ls2[l].cost = ls[l].cost /\ ls2[l].recd = ls[l].recd - open[l]
          /\ ls2[l].date = ls[l].date /\ ls2[l].prov = ls[l].prov
      BY <2>1, <3>1 DEF Layer
    <3> HIDE DEF ls2
    <3>6. ls2[l].recd <= ls2[l].orig
      BY <2>1, <3>3, <3>5 DEF Layer, Fits
    <3>7. ls[l].recd = 0 => ls2[l].recd = 0
      BY <2>1, <3>3, <3>5 DEF Layer
    <3> QED
      BY <2>1, <3>4, <3>5, <3>6, <3>7 DEF Fits
  <2>3. CASE l \notin DOMAIN open
    BY <2>1, <2>3 DEF Reopen
  <2> QED
    BY <2>2, <2>3
<1>2. ls2 \in [DOMAIN ls -> Layer] /\ DOMAIN ls2 = DOMAIN ls
  BY <1>1 DEF Reopen
<1> HIDE DEF ls2
<1>3. Books(ls2, rows, fills, ids)
  BY <1>1, <1>2, RefitBooks
<1> QED
  BY <1>2, <1>3 DEF ls2

\* Recording what movement m filled keeps the books.
LEMMA AddFillsBooks ==
  ASSUME NEW ls, NEW rows, NEW fills, NEW ids, Books(ls, rows, fills, ids),
         NEW m \in Nat, NEW taken, NEW ls0,
         DOMAIN taken \subseteq DOMAIN ls, DOMAIN taken \subseteq DOMAIN ls0,
         \A l \in DOMAIN taken : taken[l] \in Nat /\ ls0[l].cost \in Nat
  PROVE  Books(ls, rows, WithRows(fills, m, taken, ls0), ids \cup {m})
<1>1. Books(ls, rows, fills, ids \cup {m})
  BY GrowBooks
<1>2. RowTable(fills, ids, ls)
  BY DEF Books
<1>3. RowTable(WithRows(fills, m, taken, ls0), ids \cup {m}, ls)
  BY <1>2, WithRowsTable
<1> QED
  BY <1>1, <1>3 DEF Books

-----------------------------------------------------------------------------
\* What movement m holds, or has filled, is a finite table of naturals.
LEMMA RowsOfTable ==
  ASSUME NEW rows, NEW ids, NEW ls, RowTable(rows, ids, ls), Ids(DOMAIN ls), NEW m
  PROVE  /\ DOMAIN RowsOf(rows, m) \subseteq DOMAIN ls
         /\ \A l \in DOMAIN ls : l \in DOMAIN RowsOf(rows, m) <=> <<m, l>> \in DOMAIN rows
         /\ IsFiniteSet(DOMAIN RowsOf(rows, m))
         /\ \A l \in DOMAIN RowsOf(rows, m) : RowsOf(rows, m)[l] \in Nat
         /\ \A l \in DOMAIN RowsOf(rows, m) : RowsOf(rows, m)[l] = QtyAt(rows, <<m, l>>)
         /\ SumFunction(RowsOf(rows, m)) \in Nat
<1> DEFINE f == RowsOf(rows, m)
<1>1. DOMAIN f = {l \in DOMAIN ls : <<m, l>> \in DOMAIN rows}
  BY DEF RowTable, RowsOf
<1>2. \A l \in DOMAIN f : f[l] = rows[<<m, l>>].qty
  BY DEF RowsOf
<1>3. \A l \in DOMAIN f : f[l] \in Nat
  BY <1>1, <1>2 DEF RowTable, Row
<1>4. IsFiniteSet(DOMAIN f)
  BY <1>1, FS_Subset DEF Ids
<1> HIDE DEF f
<1>5. SumFunction(f) \in Nat
  BY <1>3, <1>4, SumNat DEF SumFunction
<1> QED
  BY <1>1, <1>2, <1>3, <1>4, <1>5 DEF f, QtyAt

\* Giving units back to a layer raises what is left of it and nothing else.
LEMMA RefillLayer ==
  ASSUME NEW ls, ls \in [DOMAIN ls -> Layer], NEW give,
         DOMAIN give \subseteq DOMAIN ls, \A l \in DOMAIN give : give[l] \in Nat,
         NEW l \in DOMAIN ls
  PROVE  /\ Refill(ls, give)[l] \in Layer
         /\ Refill(ls, give)[l].rem = ls[l].rem + At(give, l)
         /\ Refill(ls, give)[l].orig = ls[l].orig
         /\ Refill(ls, give)[l].recd = ls[l].recd
         /\ Refill(ls, give)[l].date = ls[l].date
         /\ Refill(ls, give)[l].prov = ls[l].prov
         /\ Refill(ls, give)[l].cost = ls[l].cost
<1>0. ls[l] \in Layer
  OBVIOUS
<1>1. CASE l \in DOMAIN give
  <2>1. Refill(ls, give)[l] = [ls[l] EXCEPT !.rem = ls[l].rem + give[l]]
    BY <1>1 DEF Refill
  <2>2. At(give, l) = give[l] /\ give[l] \in Nat
    BY <1>1 DEF At
  <2> QED
    BY <1>0, <2>1, <2>2 DEF Layer
<1>2. CASE l \notin DOMAIN give
  <2>1. Refill(ls, give)[l] = ls[l]
    BY <1>2 DEF Refill
  <2>2. At(give, l) = 0
    BY <1>2 DEF At
  <2> QED
    BY <1>0, <2>1, <2>2 DEF Layer
<1> QED
  BY <1>1, <1>2

\* What the rows other than those of m hold of layer l.
Kept(rows, m, l) == Consumed(rows, l) - QtyAt(rows, <<m, l>>)

\* Deleting movement m with its layer and its rows keeps the books, when each
\* remaining layer fits what the rows of the others hold of it.
LEMMA DropBooks ==
  ASSUME NEW ls, NEW rows, NEW fills, NEW ids, Books(ls, rows, fills, ids),
         NEW m, NEW ls2 \in [DOMAIN ls -> Layer],
         \A l \in DOMAIN ls : ls2[l].cost = ls[l].cost,
         \A l \in DOMAIN ls : l # m => Fits(ls2[l], Kept(rows, m, l))
  PROVE  Books(Dropped(ls2, m), Without(rows, m), Without(fills, m), ids \ {m})
<1> DEFINE ls3 == Dropped(ls2, m)
           rows3 == Without(rows, m)
           fills3 == Without(fills, m)
           ids3 == ids \ {m}
<1>1. /\ RowTable(rows, ids, ls) /\ RowTable(fills, ids, ls)
      /\ Ids(ids) /\ Ids(DOMAIN ls)
  BY DEF Books
<1>2. DOMAIN ls3 = DOMAIN ls \ {m} /\ \A l \in DOMAIN ls3 : ls3[l] = ls2[l]
  BY DEF Dropped
<1>3. ls3 \in [DOMAIN ls3 -> Layer]
  BY <1>2 DEF Dropped
<1>4. Ids(ids3) /\ Ids(DOMAIN ls3)
  <2>1. \A S : Ids(S) => Ids(S \ {m})
    BY FS_RemoveElement DEF Ids
  <2> HIDE DEF ls3
  <2> QED
    BY <1>1, <1>2, <2>1
<1>5. ASSUME NEW t, RowTable(t, ids, ls)
      PROVE  /\ RowTable(Without(t, m), ids3, ls3)
             /\ \A r \in DOMAIN Without(t, m) : r \in DOMAIN t
             /\ \A r \in DOMAIN Without(t, m) : Without(t, m)[r] = t[r]
             /\ \A k \in ids : <<m, k>> \notin DOMAIN Without(t, m)
             /\ \A k \in ids, l \in DOMAIN ls3 :
                  k # m => (<<k, l>> \in DOMAIN t <=> <<k, l>> \in DOMAIN Without(t, m))
  <2> DEFINE t3 == Without(t, m)
  <2>1. \A r : r \in DOMAIN t3 <=> r \in DOMAIN t /\ m # r[1] /\ m # r[2]
    BY DEF Without
  <2>2. \A r \in DOMAIN t3 : t3[r] = t[r]
    BY DEF Without
  <2>3. t3 = [r \in DOMAIN t3 |-> t3[r]]
    BY DEF Without
  <2> HIDE DEF t3
  <2>4. DOMAIN t3 \subseteq ids3 \X (DOMAIN ls3)
    BY <1>2, <1>5, <2>1 DEF RowTable
  <2>5. \A r \in DOMAIN t3 : t3[r] \in Row
    BY <1>5, <2>1, <2>2 DEF RowTable
  <2>6. RowTable(t3, ids3, ls3)
    BY <2>3, <2>4, <2>5 DEF RowTable
  <2>7. \A k \in ids : <<m, k>> \notin DOMAIN t3
    BY <2>1
  <2>8. \A k \in ids, l \in DOMAIN ls3 :
          k # m => (<<k, l>> \in DOMAIN t <=> <<k, l>> \in DOMAIN t3)
    BY <1>2, <2>1
  <2> QED
    BY <2>1, <2>2, <2>6, <2>7, <2>8 DEF t3
<1>6. /\ RowTable(rows3, ids3, ls3) /\ RowTable(fills3, ids3, ls3)
      /\ \A r \in DOMAIN rows3 : r \in DOMAIN rows
      /\ \A r \in DOMAIN rows3 : rows3[r] = rows[r]
  BY <1>1, <1>5
<1>7. ASSUME NEW l \in DOMAIN ls3 PROVE Fits(ls3[l], Consumed(rows3, l))
  <2>1. \A k \in ids : k # m => (<<k, l>> \in DOMAIN rows <=> <<k, l>> \in DOMAIN rows3)
    BY <1>1, <1>5
  <2> HIDE DEF rows3, ids3, ls3, fills3
  <2>2. ids3 \subseteq ids
    BY DEF ids3
  <2>3. ASSUME NEW k \in (ids \cup ids3) \ {m}
        PROVE  /\ <<k, l>> \in DOMAIN rows <=> <<k, l>> \in DOMAIN rows3
               /\ <<k, l>> \in DOMAIN rows => rows[<<k, l>>].qty = rows3[<<k, l>>].qty
    BY <1>6, <2>1, <2>2
  <2>4. /\ Consumed(rows3, l)
             = Consumed(rows, l) - QtyAt(rows, <<m, l>>) + QtyAt(rows3, <<m, l>>)
        /\ Consumed(rows, l) \in Nat /\ QtyAt(rows, <<m, l>>) \in Nat
    BY <1>1, <1>4, <1>6, <2>3, ConsumedDelta
  <2>5. m \notin ids3
    BY DEF ids3
  <2>6. QtyAt(rows3, <<m, l>>) = 0
    BY <1>6, <2>5 DEF QtyAt, RowTable
  <2>7. Consumed(rows3, l) = Kept(rows, m, l)
    BY <2>4, <2>6 DEF Kept
  <2> QED
    BY <1>2, <2>7
<1>8. ASSUME NEW r \in DOMAIN rows3 PROVE rows3[r].cost = ls3[r[2]].cost
  <2>1. r[2] \in DOMAIN ls3 /\ r \in DOMAIN rows /\ rows3[r] = rows[r]
    BY <1>6 DEF RowTable
  <2>2. rows[r].cost = ls[r[2]].cost
    BY <2>1 DEF Books
  <2> QED
    BY <1>2, <2>1, <2>2
<1> HIDE DEF rows3, ids3, ls3, fills3
<1>9. Books(ls3, rows3, fills3, ids3)
  BY <1>3, <1>4, <1>6, <1>7, <1>8 DEF Books
<1> QED
  BY <1>9 DEF rows3, ids3, ls3, fills3

\* restore_partial keeps the books: what goes back to each layer leaves the
\* row that held it, and an emptied row is deleted.
LEMMA ReleasedBooks ==
  ASSUME NEW ls, NEW fills, NEW ids, Books(ls, cons, fills, ids), NEW o, NEW give,
         DOMAIN give = DOMAIN RowsOf(cons, o),
         \A l \in DOMAIN give : give[l] \in Nat,
         \A l \in DOMAIN give : give[l] <= RowsOf(cons, o)[l]
  PROVE  /\ Books(Refill(ls, give), Released(give, o), fills, ids)
         /\ DOMAIN Refill(ls, give) = DOMAIN ls
<1> DEFINE ls2 == Refill(ls, give)
           rows2 == Released(give, o)
<1>1. /\ RowTable(cons, ids, ls) /\ RowTable(fills, ids, ls)
      /\ Ids(ids) /\ Ids(DOMAIN ls)
      /\ ls \in [DOMAIN ls -> Layer]
  BY DEF Books
<1>2. /\ DOMAIN give \subseteq DOMAIN ls
      /\ \A l \in DOMAIN ls : l \in DOMAIN give <=> <<o, l>> \in DOMAIN cons
      /\ \A l \in DOMAIN give : give[l] <= QtyAt(cons, <<o, l>>)
  BY <1>1, RowsOfTable
<1>3. DOMAIN ls2 = DOMAIN ls
  BY DEF Refill
<1>4. ASSUME NEW l \in DOMAIN ls
      PROVE  /\ ls2[l] \in Layer
             /\ ls2[l].rem = ls[l].rem + At(give, l)
             /\ ls2[l].orig = ls[l].orig /\ ls2[l].recd = ls[l].recd
             /\ ls2[l].date = ls[l].date /\ ls2[l].prov = ls[l].prov
             /\ ls2[l].cost = ls[l].cost
  BY <1>1, <1>2, RefillLayer
<1>5. ls2 \in [DOMAIN ls2 -> Layer]
  BY <1>3, <1>4 DEF Refill
<1>6. ASSUME NEW r
      PROVE  /\ r \in DOMAIN rows2
                  <=> r \in DOMAIN cons /\ (r[1] = o => give[r[2]] < cons[r].qty)
             /\ r \in DOMAIN rows2 /\ r[1] # o => rows2[r] = cons[r]
             /\ r \in DOMAIN rows2 /\ r[1] = o
                  => rows2[r] = [cons[r] EXCEPT !.qty = cons[r].qty - give[r[2]]]
  BY DEF Released
<1>7. ASSUME NEW r \in DOMAIN cons
      PROVE  /\ r[1] \in ids /\ r[2] \in DOMAIN ls /\ r = <<r[1], r[2]>>
             /\ cons[r] \in Row
             /\ r[1] = o => r[2] \in DOMAIN give
  <2>1. r[1] \in ids /\ r[2] \in DOMAIN ls /\ r = <<r[1], r[2]>> /\ cons[r] \in Row
    BY <1>1 DEF RowTable
  <2> QED
    BY <1>2, <2>1
<1>8. ASSUME NEW r \in DOMAIN rows2
      PROVE  rows2[r] \in Row /\ rows2[r].cost = cons[r].cost
  <2>1. r \in DOMAIN cons /\ cons[r] \in Row
    BY <1>6, <1>7
  <2>2. CASE r[1] # o
    BY <1>6, <2>1, <2>2
  <2>3. CASE r[1] = o
    <3>1. /\ rows2[r] = [cons[r] EXCEPT !.qty = cons[r].qty - give[r[2]]]
          /\ give[r[2]] < cons[r].qty
      BY <1>6, <2>3
    <3>2. give[r[2]] \in Nat
      BY <1>7, <2>1, <2>3
    <3> HIDE DEF rows2
    <3> QED
      BY <2>1, <3>1, <3>2 DEF Row
  <2> QED
    BY <2>2, <2>3
<1>9. RowTable(rows2, ids, ls2)
  <2>1. DOMAIN rows2 \subseteq ids \X (DOMAIN ls2)
    BY <1>1, <1>3, <1>6 DEF RowTable
  <2>2. rows2 = [r \in DOMAIN rows2 |-> rows2[r]]
    BY DEF Released
  <2> HIDE DEF rows2
  <2> QED
    BY <1>8, <2>1, <2>2 DEF RowTable
<1>10. RowTable(fills, ids, ls2)
  BY <1>1, <1>3 DEF RowTable
<1>11. ASSUME NEW l \in DOMAIN ls2 PROVE Fits(ls2[l], Consumed(rows2, l))
  <2>1. ASSUME NEW k \in (ids \cup ids) \ {o}
        PROVE  /\ <<k, l>> \in DOMAIN cons <=> <<k, l>> \in DOMAIN rows2
               /\ <<k, l>> \in DOMAIN cons => cons[<<k, l>>].qty = rows2[<<k, l>>].qty
    BY <1>6
  <2> HIDE DEF rows2
  <2>2. /\ Consumed(rows2, l)
             = Consumed(cons, l) - QtyAt(cons, <<o, l>>) + QtyAt(rows2, <<o, l>>)
        /\ Consumed(cons, l) \in Nat /\ Consumed(rows2, l) \in Nat
        /\ QtyAt(cons, <<o, l>>) \in Nat /\ QtyAt(rows2, <<o, l>>) \in Nat
    BY <1>1, <1>9, <2>1, ConsumedDelta
  <2>3. QtyAt(rows2, <<o, l>>) = QtyAt(cons, <<o, l>>) - At(give, l)
    <3>1. CASE <<o, l>> \notin DOMAIN cons
      <4>1. l \notin DOMAIN give
        BY <1>2, <1>3, <3>1
      <4>2. <<o, l>> \notin DOMAIN rows2
        BY <1>6, <3>1
      <4> QED
        BY <3>1, <4>1, <4>2 DEF QtyAt, At
    <3>2. CASE <<o, l>> \in DOMAIN cons
      <4>1. l \in DOMAIN give /\ give[l] <= cons[<<o, l>>].qty /\ give[l] \in Nat
        BY <1>2, <1>3, <3>2 DEF QtyAt
      <4>2. cons[<<o, l>>] \in Row
        BY <1>7, <3>2
      <4>3. CASE give[l] < cons[<<o, l>>].qty
        <5>1. /\ <<o, l>> \in DOMAIN rows2
              /\ rows2[<<o, l>>] = [cons[<<o, l>>] EXCEPT !.qty = cons[<<o, l>>].qty - give[l]]
          BY <1>6, <3>2, <4>3
        <5> QED
          BY <3>2, <4>1, <4>2, <5>1 DEF QtyAt, At, Row
      <4>4. CASE ~(give[l] < cons[<<o, l>>].qty)
        <5>1. <<o, l>> \notin DOMAIN rows2
          BY <1>6, <4>4
        <5>2. give[l] = cons[<<o, l>>].qty
          BY <4>1, <4>2, <4>4 DEF Row
        <5> QED
          BY <3>2, <4>1, <5>1, <5>2 DEF QtyAt, At
      <4> QED
        BY <4>3, <4>4
    <3> QED
      BY <3>1, <3>2
  <2>4. At(give, l) \in Nat
    BY DEF At
  <2>5. Fits(ls[l], Consumed(cons, l)) /\ ls[l] \in Layer
    BY <1>3 DEF Books
  <2>6. /\ ls2[l].rem = ls[l].rem + At(give, l)
        /\ ls2[l].orig = ls[l].orig /\ ls2[l].recd = ls[l].recd
        /\ ls2[l].date = ls[l].date /\ ls2[l].prov = ls[l].prov
    BY <1>3, <1>4
  <2> HIDE DEF ls2
  <2> QED
    BY <2>2, <2>3, <2>4, <2>5, <2>6 DEF Fits, Layer
<1>12. ASSUME NEW r \in DOMAIN rows2 PROVE rows2[r].cost = ls2[r[2]].cost
  <2>1. r \in DOMAIN cons
    BY <1>6
  <2> QED
    BY <2>1, <1>4, <1>7, <1>8 DEF Books
<1>13. Ids(DOMAIN ls2)
  BY <1>1, <1>3
<1> HIDE DEF rows2, ls2
<1>14. Books(ls2, rows2, fills, ids)
  BY <1>1, <1>5, <1>9, <1>10, <1>11, <1>12, <1>13 DEF Books
<1> QED
  BY <1>3, <1>14 DEF rows2, ls2

\* trim_opening_layers keeps the books: what leaves an opening layer was open,
\* and a layer somebody has consumed keeps its cost.
LEMMA TrimmedBooks ==
  ASSUME NEW ls, NEW rows, NEW fills, NEW ids, Books(ls, rows, fills, ids),
         NEW balance \in Int, NEW q \in Nat, NEW cost \in Nat
  PROVE  Books(Trimmed(ls, rows, balance, q, cost), rows, fills, ids)
<1> DEFINE surplus == MinOf(OpenQty(ls) - MaxOf(balance, 0), q)
           openings == [l \in {k \in DOMAIN ls : ls[k].date = OpeningDate /\ ls[k].rem > 0}
                          |-> ls[l].rem]
           newest == {p \in (DOMAIN ls) \X (DOMAIN ls) : p[1] > p[2]}
           take == Draw(openings, newest, surplus)
           left(l) == ls[l].rem - take[l]
           recost(l) == Quantize(ls[l].rem * ls[l].cost - take[l] * cost, left(l))
           recosted(l) == /\ take[l] > 0 /\ cost > 0 /\ left(l) > 0
                          /\ \A r \in DOMAIN rows : r[2] # l
                          /\ recost(l) >= 0
           ls2 == Trimmed(ls, rows, balance, q, cost)
<1>1. /\ Ids(ids) /\ Ids(DOMAIN ls) /\ ls \in [DOMAIN ls -> Layer]
      /\ RowTable(rows, ids, ls) /\ RowTable(fills, ids, ls)
  BY DEF Books
<1>2. surplus \in Int
  BY <1>1, OpenQtyNat DEF MinOf, MaxOf
<1>3. /\ DOMAIN openings \subseteq DOMAIN ls
      /\ \A l \in DOMAIN openings : openings[l] = ls[l].rem
      /\ \A l \in DOMAIN openings : ls[l].date = OpeningDate
      /\ \A l \in DOMAIN openings : openings[l] \in Nat
  BY <1>1 DEF Layer
<1>4. IsFiniteSet(DOMAIN openings)
  BY <1>1, <1>3, FS_Subset DEF Ids
<1>5. /\ DOMAIN take = DOMAIN openings
      /\ \A l \in DOMAIN openings : take[l] \in Nat /\ take[l] <= openings[l]
  <2> HIDE DEF openings, surplus, newest
  <2> QED
    BY <1>2, <1>3, <1>4, DrawBounds
<1> HIDE DEF take, openings, surplus, newest
<1>6. DOMAIN ls2 = DOMAIN ls
  BY DEF Trimmed
<1>7. ASSUME NEW l \in DOMAIN ls
      PROVE  ls2[l] = IF l \in DOMAIN openings /\ take[l] > 0
                        THEN [ls[l] EXCEPT !.rem = ls[l].rem - take[l],
                                           !.orig = ls[l].orig - take[l],
                                           !.cost = IF recosted(l) THEN recost(l)
                                                    ELSE ls[l].cost]
                        ELSE ls[l]
  BY DEF Trimmed, take, openings, surplus, newest
<1>8. ASSUME NEW l \in DOMAIN ls
      PROVE  /\ ls2[l] \in Layer
             /\ Fits(ls2[l], Consumed(rows, l))
             /\ (\E r \in DOMAIN rows : r[2] = l) => ls2[l].cost = ls[l].cost
  <2>1. ls[l] \in Layer /\ Fits(ls[l], Consumed(rows, l))
    BY DEF Books
  <2>2. Consumed(rows, l) \in Nat
    BY ConsumedNat
  <2>3. CASE l \in DOMAIN openings /\ take[l] > 0
    <3> DEFINE c == IF recosted(l) THEN recost(l) ELSE ls[l].cost
    <3>1. ls2[l] = [ls[l] EXCEPT !.rem = ls[l].rem - take[l],
                                 !.orig = ls[l].orig - take[l], !.cost = c]
      BY <1>7, <2>3
    <3>2. /\ take[l] \in Nat /\ take[l] <= ls[l].rem /\ ls[l].date = OpeningDate
      BY <1>3, <1>5, <2>3
    <3>3. c \in Nat /\ ((\E r \in DOMAIN rows : r[2] = l) => c = ls[l].cost)
      <4>1. CASE recosted(l)
        <5>1. left(l) \in Nat \ {0}
          BY <2>1, <3>2, <4>1 DEF Layer
        <5>2. ls[l].rem * ls[l].cost - take[l] * cost \in Int
          BY <2>1, <3>2 DEF Layer
        <5>3. recost(l) \in Int
          <6> DEFINE n == ls[l].rem * ls[l].cost - take[l] * cost
                     d == left(l)
          <6> HIDE DEF n, d
          <6>1. n \in Int /\ d \in Nat \ {0}
            BY <5>1, <5>2 DEF n, d
          <6>2. Quantize(n, d) \in Int
            BY <6>1, QuantizeType
          <6> QED
            BY <6>2 DEF n, d
        <5>4. recost(l) >= 0 /\ \A r \in DOMAIN rows : r[2] # l
          BY <4>1
        <5> HIDE DEF recosted, recost
        <5>5. c = recost(l)
          BY <4>1
        <5> QED
          BY <5>3, <5>4, <5>5
      <4>2. CASE ~recosted(l)
        <5> HIDE DEF recosted, recost
        <5>1. c = ls[l].cost
          BY <4>2
        <5> QED
          BY <2>1, <5>1 DEF Layer
      <4> QED
        BY <4>1, <4>2
    <3> HIDE DEF c, ls2
    <3>4. /\ ls2[l].rem = ls[l].rem - take[l] /\ ls2[l].orig = ls[l].orig - take[l]
          /\ ls2[l].cost = c /\ ls2[l].recd = ls[l].recd
          /\ ls2[l].date = ls[l].date /\ ls2[l].prov = ls[l].prov
      BY <2>1, <3>1 DEF Layer
    <3>5. ls[l].rem + Consumed(rows, l) <= ls[l].orig /\ ls[l].recd = 0 /\ ~ls[l].prov
      BY <2>1, <3>2 DEF Fits
    <3>6. ls[l].rem - take[l] \in Nat /\ ls[l].orig - take[l] \in Nat
      BY <2>1, <2>2, <3>2, <3>5 DEF Layer
    <3>7. ls2[l] \in Layer
      BY <2>1, <3>1, <3>3, <3>6 DEF Layer
    <3>8. Fits(ls2[l], Consumed(rows, l))
      BY <2>1, <2>2, <3>2, <3>4, <3>5, <3>6 DEF Fits, Layer
    <3> QED
      BY <3>3, <3>4, <3>7, <3>8
  <2>4. CASE ~(l \in DOMAIN openings /\ take[l] > 0)
    <3>1. ls2[l] = ls[l]
      BY <1>7, <2>4
    <3> QED
      BY <2>1, <3>1
  <2> QED
    BY <2>3, <2>4
<1>9. ls2 \in [DOMAIN ls2 -> Layer]
  BY <1>6, <1>8 DEF Trimmed
<1> HIDE DEF ls2
<1>10. RowTable(rows, ids, ls2) /\ RowTable(fills, ids, ls2)
  BY <1>1, <1>6 DEF RowTable
<1>11. ASSUME NEW r \in DOMAIN rows PROVE rows[r].cost = ls2[r[2]].cost
  <2>1. r[2] \in DOMAIN ls
    BY <1>1 DEF RowTable
  <2>2. rows[r].cost = ls[r[2]].cost
    BY DEF Books
  <2> QED
    BY <1>8, <2>1, <2>2
<1>12. \A l \in DOMAIN ls2 : Fits(ls2[l], Consumed(rows, l))
  BY <1>6, <1>8
<1>13. Books(ls2, rows, fills, ids)
  BY <1>1, <1>6, <1>9, <1>10, <1>11, <1>12 DEF Books
<1> QED
  BY <1>13 DEF ls2

-----------------------------------------------------------------------------
(***************************************************************************)
(* 2. The invariants                                                       *)
(***************************************************************************)
\* What a movement adds to the balance, for each movement of a journal.
Gain(v) == IF v.type \in InboundTypes THEN v.qty ELSE -v.qty
Gains(ms) == [m \in DOMAIN ms |-> Gain(ms[m])]
\* A finite table of movements.
Journal(ms) == ms \in [DOMAIN ms -> Move] /\ Ids(DOMAIN ms)

\* Recording a movement moves the net quantity of the journal by its own.
LEMMA NetPut ==
  ASSUME NEW ms, Journal(ms), NEW k \in Nat \ DOMAIN ms, NEW v \in Move
  PROVE  /\ Journal(Put(ms, k, v)) /\ DOMAIN Put(ms, k, v) = DOMAIN ms \cup {k}
         /\ SumFunction(Gains(Put(ms, k, v))) = SumFunction(Gains(ms)) + Gain(v)
<1> DEFINE ms2 == Put(ms, k, v)
           f == Gains(ms)
           g == Gains(ms2)
<1>1. /\ DOMAIN ms2 = DOMAIN ms \cup {k} /\ ms2[k] = v
      /\ \A m \in DOMAIN ms : ms2[m] = ms[m]
  BY DEF Put
<1>2. ms2 = [m \in DOMAIN ms2 |-> ms2[m]]
  BY DEF Put
<1> HIDE DEF ms2
<1>3. \A m \in DOMAIN ms2 : ms2[m] \in Move
  BY <1>1 DEF Journal
<1>4. Ids(DOMAIN ms2)
  BY <1>1, FS_AddElement DEF Journal, Ids
<1>5. Journal(ms2)
  BY <1>2, <1>3, <1>4 DEF Journal
<1>6. /\ DOMAIN f = DOMAIN ms /\ DOMAIN g = DOMAIN ms2
      /\ \A m \in DOMAIN ms : f[m] = Gain(ms[m])
      /\ \A m \in DOMAIN ms2 : g[m] = Gain(ms2[m])
  BY DEF Gains
<1>7. \A w \in Move : Gain(w) \in Int
  BY DEF Gain, Move
<1> HIDE DEF f, g
<1>8. \A m \in DOMAIN f : f[m] \in Int
  BY <1>6, <1>7 DEF Journal
<1>9. \A m \in DOMAIN g : g[m] \in Int
  BY <1>3, <1>6, <1>7
<1>10. IsFiniteSet(DOMAIN f) /\ IsFiniteSet(DOMAIN g)
  BY <1>4, <1>6 DEF Journal, Ids
<1>11. /\ DOMAIN f \ {k} = DOMAIN g \ {k}
       /\ \A x \in DOMAIN f \ {k} : f[x] = g[x]
  BY <1>1, <1>6
<1>12. /\ SumFunction(f) \in Int
       /\ SumFunction(g) = SumFunction(f) - At(f, k) + At(g, k)
  BY <1>8, <1>9, <1>10, <1>11, SumDelta
<1>13. At(f, k) = 0 /\ At(g, k) = Gain(v)
  BY <1>1, <1>6 DEF At
<1>14. Gain(v) \in Int
  BY <1>7
<1>15. SumFunction(g) = SumFunction(f) + Gain(v)
  BY <1>12, <1>13, <1>14
<1> QED
  BY <1>1, <1>5, <1>15 DEF ms2, f, g

\* Deleting one leaves the net quantity of the others.
LEMMA NetDrop ==
  ASSUME NEW ms, Journal(ms), NEW k
  PROVE  /\ Journal(Dropped(ms, k)) /\ DOMAIN Dropped(ms, k) = DOMAIN ms \ {k}
         /\ SumFunction(Gains(Dropped(ms, k))) \in Int
         /\ SumFunction(Gains(Dropped(ms, k)))
              = SumFunctionOnSet(Gains(ms), DOMAIN ms \ {k})
<1> DEFINE ms2 == Dropped(ms, k)
           D == DOMAIN ms \ {k}
           f == Gains(ms)
           g == Gains(ms2)
<1>1. DOMAIN ms2 = D /\ \A m \in D : ms2[m] = ms[m]
  BY DEF Dropped
<1>2. ms2 = [m \in DOMAIN ms2 |-> ms2[m]]
  BY DEF Dropped
<1> HIDE DEF ms2
<1>3. \A m \in DOMAIN ms2 : ms2[m] \in Move
  BY <1>1 DEF Journal
<1>4. IsFiniteSet(D) /\ D \in SUBSET Nat
  BY FS_RemoveElement DEF Journal, Ids
<1>5. Journal(ms2)
  BY <1>1, <1>2, <1>3, <1>4 DEF Journal, Ids
<1>6. /\ DOMAIN g = D
      /\ \A m \in DOMAIN ms : f[m] = Gain(ms[m])
      /\ \A m \in DOMAIN ms2 : g[m] = Gain(ms2[m])
  BY <1>1 DEF Gains
<1>7. \A w \in Move : Gain(w) \in Int
  BY DEF Gain, Move
<1> HIDE DEF f, g
<1>8. \A m \in D : g[m] \in Int
  BY <1>1, <1>3, <1>6, <1>7
<1>9. \A m \in D : g[m] = f[m]
  BY <1>1, <1>6
<1> HIDE DEF D
<1>10. SumFunctionOnSet(g, D) = SumFunctionOnSet(f, D) /\ SumFunctionOnSet(g, D) \in Int
  BY <1>4, <1>8, <1>9, SumAgree, SumInt
<1> QED
  BY <1>1, <1>5, <1>6, <1>10 DEF ms2, f, g, D, SumFunction

\* The replay of _recompute_product_stock computes the net quantity.
LEMMA BalanceIsNet ==
  ASSUME Journal(moves)
  PROVE  /\ Balance(DOMAIN moves) = SumFunction(Gains(moves))
         /\ SumFunction(Gains(moves)) \in Int
         /\ \A k : Balance(DOMAIN moves \ {k})
                     = SumFunctionOnSet(Gains(moves), DOMAIN moves \ {k})
<1>1. [m \in DOMAIN moves |-> Signed(m)] = Gains(moves)
  BY DEF Gains, Gain, Signed
<1>2. DOMAIN Gains(moves) = DOMAIN moves
  BY DEF Gains
<1>3. \A m \in DOMAIN moves : Gains(moves)[m] \in Int
  BY DEF Gains, Gain, Journal, Move
<1>4. SumFunctionOnSet(Gains(moves), DOMAIN moves) \in Int
  BY <1>3, SumInt DEF Journal, Ids
<1> QED
  BY <1>1, <1>2, <1>4 DEF Balance, SumFunction

\* A new id is none of those in use.
LEMMA NextIdFresh ==
  ASSUME NEW A, Ids(A), NEW B, Ids(B)
  PROVE  NextId(A \cup B) \in Nat \ (A \cup B) /\ NextId(A \cup B) # 0
<1> DEFINE all == A \cup B
<1>1. IsFiniteSet(all) /\ all \in SUBSET Nat
  BY FS_Union DEF Ids
<1>2. NextId(all) \in Nat \ {0} /\ \A n \in all : n < NextId(all)
  BY <1>1, NextIdNew
<1> HIDE DEF all
<1>3. NextId(all) \notin all
  BY <1>1, <1>2
<1> QED
  BY <1>2, <1>3 DEF all

\* The id of a new row is above the ids of the rows it comes after.
LEMMA NextIdAbove ==
  ASSUME NEW A, Ids(A), NEW B, Ids(B)
  PROVE  \A k \in A : k < NextId(A \cup B)
<1> DEFINE all == A \cup B
<1>1. IsFiniteSet(all) /\ all \in SUBSET Nat
  BY FS_Union DEF Ids
<1>2. \A n \in all : n < NextId(all)
  BY <1>1, NextIdNew
<1> QED
  BY <1>2

\* The latest layer exists and has a cost, or the cost is 0.
LEMMA LastLayerCostNat ==
  ASSUME NEW ls, Ids(DOMAIN ls), ls \in [DOMAIN ls -> Layer]
  PROVE  LastLayerCost(ls) \in Nat
<1>1. CASE DOMAIN ls = {}
  BY <1>1 DEF LastLayerCost
<1>2. CASE DOMAIN ls # {}
  <2>1. \A l \in DOMAIN ls : ls[l].date \in Nat /\ ls[l].cost \in Nat
    BY DEF Layer
  <2>2. StrictTotalOrder(Fifo(ls), DOMAIN ls)
    BY <2>1, FifoOrder DEF Ids
  <2>3. PICK x : IsLast(Fifo(ls), DOMAIN ls, x)
    BY <1>2, <2>2, LastElement DEF Ids
  <2>4. x \in DOMAIN ls /\ \A k \in DOMAIN ls : k = x \/ Older(ls, k, x)
    BY <2>3 DEF IsLast, Fifo
  <2>5. (CHOOSE l \in DOMAIN ls :
           \A k \in DOMAIN ls : k = l \/ Older(ls, k, l)) \in DOMAIN ls
    BY <2>4
  <2> QED
    BY <1>2, <2>1, <2>5 DEF LastLayerCost
<1> QED
  BY <1>1, <1>2

\* What a draw costs is a natural.
LEMMA CostOfNat ==
  ASSUME NEW taken, IsFiniteSet(DOMAIN taken), NEW ls,
         \A l \in DOMAIN taken : taken[l] \in Nat,
         \A l \in DOMAIN taken : ls[l].cost \in Nat
  PROVE  CostOf(taken, ls) \in Nat
<1> DEFINE f == [l \in DOMAIN taken |-> taken[l] * ls[l].cost]
<1>1. DOMAIN f = DOMAIN taken
  OBVIOUS
<1>2. ASSUME NEW l \in DOMAIN taken PROVE f[l] \in Nat
  <2>1. taken[l] \in Nat /\ ls[l].cost \in Nat
    OBVIOUS
  <2>2. f[l] = taken[l] * ls[l].cost
    OBVIOUS
  <2> HIDE DEF f
  <2> QED
    BY <2>1, <2>2
<1>3. CostOf(taken, ls) = SumFunctionOnSet(f, DOMAIN f)
  BY DEF CostOf, SumFunction
<1> HIDE DEF f
<1> QED
  BY <1>1, <1>2, <1>3, SumNat

-----------------------------------------------------------------------------
\* The invariant of the stock, and with the transfer the inductive invariant.
StockInv ==
  /\ onHand \in Int /\ avg \in Nat
  /\ Journal(moves)
  /\ DOMAIN moves \cup DOMAIN layers \subseteq 1..MaxId
  /\ Books(layers, cons, recs, DOMAIN moves)
  /\ diffs \in [DOMAIN diffs -> Int] /\ DOMAIN diffs \subseteq DOMAIN moves
  /\ onHand = SumFunction(Gains(moves))
IInv == StockInv /\ transfer \in [qty : Nat, cost : Nat, date : Nat]

\* An inbound movement (receipt, return at average, surplus of a stocktake)
\* keeps the invariant.
LEMMA InboundStep ==
  ASSUME StockInv, NEW type \in InboundTypes, NEW ref \in References,
         NEW q \in Nat, NEW cost \in Nat, NEW date \in Nat,
         Inbound(type, ref, q, cost, date)
  PROVE  StockInv'
<1> DEFINE ls0 == Backfill(layers, onHand, avg)
           m == NextId(DOMAIN moves \cup DOMAIN ls0)
           fill == Draw(Pending(ls0), Fifo(ls0), q)
           filled == SumFunction(fill)
           diff == Cents(filled * cost - CostOf(fill, ls0))
           v == [date |-> date, orig |-> q, rem |-> q - filled,
                 cost |-> cost, prov |-> FALSE, recd |-> 0]
           lsr == Reconcile(ls0, fill)
           ls1 == Put(lsr, m, v)
           w == [type |-> type, ref |-> ref, qty |-> q, cost |-> cost,
                 total |-> Cents(q * cost)]
           ids == DOMAIN moves
<1>0. /\ layers' = ls1 /\ recs' = WithRows(recs, m, fill, ls0)
      /\ diffs' = IF diff = 0 THEN diffs ELSE Put(diffs, m, diff)
      /\ moves' = Put(moves, m, w)
      /\ onHand' = onHand + q /\ avg' = AvgCost(ls1) /\ cons' = cons
      /\ DOMAIN moves' \cup DOMAIN layers' \subseteq 1..MaxId
  BY DEF Inbound, Bounded
<1>1. Ids(ids) /\ onHand \in Int /\ avg \in Nat /\ Journal(moves)
  BY DEF StockInv, Journal
<1>2. Books(ls0, cons, recs, ids)
  BY <1>1, BackfillBooks DEF StockInv
<1> HIDE DEF ls0
<1>3. Ids(DOMAIN ls0) /\ ls0 \in [DOMAIN ls0 -> Layer]
  BY <1>2 DEF Books
<1>4. m \in Nat /\ m \notin ids /\ m \notin DOMAIN ls0
  BY <1>1, <1>3, NextIdFresh
<1> HIDE DEF m
<1>5. /\ DOMAIN Pending(ls0) = Provisional(ls0)
      /\ Provisional(ls0) \in SUBSET DOMAIN ls0
      /\ \A l \in DOMAIN Pending(ls0) : Pending(ls0)[l] = ls0[l].orig - ls0[l].recd
  BY DEF Pending, Provisional
<1>6. \A l \in DOMAIN ls0 : /\ ls0[l].cost \in Nat /\ ls0[l].date \in Nat
                            /\ ls0[l].orig - ls0[l].recd \in Nat
  <2>1. \A l \in DOMAIN ls0 : ls0[l] \in Layer /\ ls0[l].recd <= ls0[l].orig
    BY <1>2 DEF Books, Fits
  <2> QED
    BY <2>1 DEF Layer
<1>7. \A l \in DOMAIN Pending(ls0) : Pending(ls0)[l] \in Nat
  BY <1>5, <1>6
<1>8. IsFiniteSet(DOMAIN Pending(ls0))
  BY <1>3, <1>5, FS_Subset DEF Ids
<1>9. /\ DOMAIN fill = Provisional(ls0)
      /\ \A l \in DOMAIN fill : fill[l] \in Nat
      /\ \A l \in DOMAIN fill : fill[l] <= ls0[l].orig - ls0[l].recd
  BY <1>5, <1>7, <1>8, DrawBounds
<1>10. filled \in Nat /\ filled <= q
  <2>1. StrictTotalOrder(Fifo(ls0), Provisional(ls0))
    BY <1>3, <1>5, <1>6, FifoOrder DEF Ids
  <2>2. StrictTotalOrder(Fifo(ls0), DOMAIN Pending(ls0))
    BY <1>5, <2>1
  <2> QED
    BY <1>7, <1>8, <2>2, DrawTotal
<1> HIDE DEF fill
<1>11. Books(lsr, cons, recs, ids) /\ DOMAIN lsr = DOMAIN ls0
  BY <1>2, <1>9, FillBooks
<1>12. Books(lsr, cons, WithRows(recs, m, fill, ls0), ids \cup {m})
  <2> HIDE DEF lsr
  <2> QED
    BY <1>4, <1>5, <1>6, <1>9, <1>11, AddFillsBooks
<1> HIDE DEF lsr, filled
<1>13. v \in Layer /\ v.rem <= v.orig /\ v.recd = 0 /\ ~v.prov
  BY <1>10 DEF Layer
<1> HIDE DEF v
<1>14. Books(ls1, cons, WithRows(recs, m, fill, ls0), ids \cup {m})
  BY <1>4, <1>11, <1>12, <1>13, PutBooks
<1>15. Cents(q * cost) \in Nat
  <2>1. q * cost \in Nat
    OBVIOUS
  <2> QED
    BY <2>1, QuantizeType DEF Cents
<1>16. w \in Move /\ Gain(w) = q
  BY <1>15 DEF Move, Gain
<1> HIDE DEF w
<1>17. /\ Journal(moves') /\ DOMAIN moves' = ids \cup {m}
       /\ SumFunction(Gains(moves')) = SumFunction(Gains(moves)) + q
  BY <1>0, <1>1, <1>4, <1>16, NetPut
<1>18. Books(layers', cons', recs', DOMAIN moves')
  BY <1>0, <1>14, <1>17
<1>19. onHand' \in Int /\ onHand' = SumFunction(Gains(moves'))
  BY <1>0, <1>1, <1>17 DEF StockInv
<1>20. avg' \in Nat
  <2>1. Ids(DOMAIN layers') /\ layers' \in [DOMAIN layers' -> Layer]
    BY <1>18 DEF Books
  <2> HIDE DEF ls1
  <2> QED
    BY <1>0, <2>1, OpenQtyNat
<1>21. diffs' \in [DOMAIN diffs' -> Int] /\ DOMAIN diffs' \subseteq DOMAIN moves'
  <2>1. IsFiniteSet(DOMAIN fill)
    BY <1>5, <1>8, <1>9
  <2>2. CostOf(fill, ls0) \in Nat
    BY <1>5, <1>6, <1>9, <2>1, CostOfNat
  <2>3. filled * cost \in Nat
    BY <1>10
  <2>4. filled * cost - CostOf(fill, ls0) \in Int
    <3> DEFINE a == filled * cost
               b == CostOf(fill, ls0)
    <3> HIDE DEF a, b
    <3>1. a \in Nat /\ b \in Nat
      BY <2>2, <2>3 DEF a, b
    <3>2. a - b \in Int
      BY <3>1
    <3> QED
      BY <3>2 DEF a, b
  <2>5. diff \in Int
    BY <2>4, QuantizeType DEF Cents
  <2> HIDE DEF diff
  <2>6. diffs \in [DOMAIN diffs -> Int] /\ DOMAIN diffs \subseteq ids
    BY DEF StockInv
  <2> QED
    BY <1>0, <1>17, <2>5, <2>6 DEF Put
<1> QED
  BY <1>0, <1>17, <1>18, <1>19, <1>20, <1>21 DEF StockInv

\* An outbound movement (issue, purchase return, shortage of a stocktake,
\* first half of a transfer) keeps the invariant.
LEMMA OutboundStep ==
  ASSUME StockInv, NEW type \in OutboundTypes, NEW ref \in References,
         NEW q \in Nat \ {0}, NEW date \in Nat \ {0},
         Outbound(type, ref, q, date)
  PROVE  StockInv'
<1> DEFINE ls0 == Backfill(layers, onHand, avg)
           m == NextId(DOMAIN moves \cup DOMAIN ls0)
           take == Draw(Rem(ls0), Fifo(ls0), q)
           uncovered == q - SumFunction(take)
           guess == IF avg > 0 THEN avg ELSE LastLayerCost(ls0)
           total == Cents(CostOf(take, ls0) + uncovered * guess)
           lsc == Consume(ls0, take)
           v == [date |-> date, orig |-> uncovered, rem |-> 0,
                 cost |-> guess, prov |-> TRUE, recd |-> 0]
           ls1 == IF uncovered = 0 THEN lsc ELSE Put(lsc, m, v)
           taken == IF uncovered = 0 THEN take ELSE Put(take, m, uncovered)
           w == [type |-> type, ref |-> ref, qty |-> q,
                 cost |-> Quantize(100 * total, q), total |-> total]
           ids == DOMAIN moves
<1>0. /\ layers' = ls1 /\ cons' = WithRows(cons, m, taken, ls1)
      /\ moves' = Put(moves, m, w)
      /\ onHand' = onHand - q /\ avg' = AvgCost(ls1)
      /\ recs' = recs /\ diffs' = diffs
      /\ DOMAIN moves' \cup DOMAIN layers' \subseteq 1..MaxId
  BY DEF Outbound, Bounded
<1>1. Ids(ids) /\ onHand \in Int /\ avg \in Nat /\ Journal(moves)
  BY DEF StockInv, Journal
<1>2. Books(ls0, cons, recs, ids)
  BY <1>1, BackfillBooks DEF StockInv
<1> HIDE DEF ls0
<1>3. Ids(DOMAIN ls0) /\ ls0 \in [DOMAIN ls0 -> Layer]
  BY <1>2 DEF Books
<1>4. m \in Nat /\ m \notin ids /\ m \notin DOMAIN ls0
  BY <1>1, <1>3, NextIdFresh
<1> HIDE DEF m
<1>5. /\ DOMAIN Rem(ls0) = DOMAIN ls0
      /\ \A l \in DOMAIN Rem(ls0) : Rem(ls0)[l] = ls0[l].rem
  BY DEF Rem
<1>6. \A l \in DOMAIN ls0 : /\ ls0[l].cost \in Nat /\ ls0[l].date \in Nat
                            /\ ls0[l].rem \in Nat
  BY <1>3 DEF Layer
<1>7. \A l \in DOMAIN Rem(ls0) : Rem(ls0)[l] \in Nat
  BY <1>5, <1>6
<1>8. IsFiniteSet(DOMAIN Rem(ls0))
  BY <1>3, <1>5 DEF Ids
<1>9. /\ DOMAIN take = DOMAIN ls0
      /\ \A l \in DOMAIN take : take[l] \in Nat
      /\ \A l \in DOMAIN ls0 : take[l] \in Nat /\ take[l] <= ls0[l].rem
  BY <1>5, <1>7, <1>8, DrawBounds
<1>10. uncovered \in Nat
  <2>1. StrictTotalOrder(Fifo(ls0), DOMAIN ls0)
    BY <1>3, <1>6, FifoOrder DEF Ids
  <2>2. StrictTotalOrder(Fifo(ls0), DOMAIN Rem(ls0))
    BY <1>5, <2>1
  <2>3. SumFunction(take) \in Nat /\ SumFunction(take) <= q
    BY <1>7, <1>8, <2>2, DrawTotal
  <2> HIDE DEF take
  <2> QED
    BY <2>3
<1> HIDE DEF take
<1>11. /\ Books(lsc, cons, recs, ids) /\ DOMAIN lsc = DOMAIN ls0
       /\ \A l \in DOMAIN ls0 : lsc[l].rem + Consumed(cons, l) + take[l] <= lsc[l].orig
  BY <1>2, <1>9, ConsumeBooks
<1> HIDE DEF lsc, uncovered
<1>12. guess \in Nat
  <2>1. LastLayerCost(ls0) \in Nat
    BY <1>3, LastLayerCostNat
  <2> QED
    BY <1>1, <2>1
<1>13. total \in Nat
  <2>1. CostOf(take, ls0) \in Nat
    BY <1>3, <1>6, <1>9, CostOfNat DEF Ids
  <2> DEFINE a == CostOf(take, ls0)
             b == uncovered * guess
  <2>2. b \in Nat
    <3> HIDE DEF guess
    <3> QED
      BY <1>10, <1>12
  <2> HIDE DEF a, b
  <2>3. a + b \in Nat
    BY <2>1, <2>2 DEF a
  <2>4. Cents(a + b) \in Nat
    BY <2>3, QuantizeType DEF Cents
  <2> QED
    BY <2>4 DEF a, b
<1> HIDE DEF total, guess
<1>14. Books(ls1, WithRows(cons, m, taken, ls1), recs, ids \cup {m})
  <2>1. CASE uncovered = 0
    <3>1. ls1 = lsc /\ taken = take
      BY <2>1
    <3>2. Books(lsc, WithRows(cons, m, take, lsc), recs, ids \cup {m})
      BY <1>4, <1>9, <1>11, AddRowsBooks
    <3> QED
      BY <3>1, <3>2
  <2>2. CASE uncovered # 0
    <3> DEFINE lsp == Put(lsc, m, v)
               more == Put(take, m, uncovered)
    <3>1. ls1 = lsp /\ taken = more
      BY <2>2
    <3>2. v \in Layer /\ v.rem <= v.orig /\ v.recd = 0 /\ v.date # OpeningDate
      BY <1>10, <1>12 DEF Layer, OpeningDate
    <3>3. v.rem = 0 /\ v.orig = uncovered
      OBVIOUS
    <3> HIDE DEF v
    <3>4. Books(lsp, cons, recs, ids) /\ Consumed(cons, m) = 0
      BY <1>4, <1>11, <3>2, PutBooks
    <3>5. /\ DOMAIN lsp = DOMAIN lsc \cup {m} /\ lsp[m] = v
          /\ \A l \in DOMAIN lsc : lsp[l] = lsc[l]
      BY <1>4, <1>11 DEF Put
    <3>6. /\ DOMAIN more = DOMAIN take \cup {m} /\ more[m] = uncovered
          /\ \A l \in DOMAIN take : l # m => more[l] = take[l]
      BY DEF Put
    <3> HIDE DEF lsp, more
    <3>7. ASSUME NEW l \in DOMAIN more
          PROVE  /\ more[l] \in Nat
                 /\ lsp[l].rem + Consumed(cons, l) + more[l] <= lsp[l].orig
      <4>1. CASE l = m
        BY <1>10, <3>3, <3>4, <3>5, <3>6, <4>1
      <4>2. CASE l # m
        <5>1. l \in DOMAIN take /\ more[l] = take[l] /\ lsp[l] = lsc[l]
          BY <1>9, <1>11, <3>5, <3>6, <4>2
        <5> QED
          BY <1>9, <1>11, <5>1
      <4> QED
        BY <4>1, <4>2
    <3>8. DOMAIN more \subseteq DOMAIN lsp
      BY <1>9, <1>11, <3>5, <3>6
    <3>9. Books(lsp, WithRows(cons, m, more, lsp), recs, ids \cup {m})
      BY <1>4, <3>4, <3>7, <3>8, AddRowsBooks
    <3> QED
      BY <3>1, <3>9
  <2> QED
    BY <2>1, <2>2
<1>15. Quantize(100 * total, q) \in Nat
  <2>1. 100 * total \in Nat
    BY <1>13
  <2> QED
    BY <2>1, QuantizeType
<1>16. w \in Move /\ Gain(w) = -q
  <2>1. type \notin InboundTypes
    BY DEF InboundTypes, OutboundTypes
  <2> QED
    BY <1>13, <1>15, <2>1 DEF Move, Gain
<1> HIDE DEF w, ls1, taken
<1>17. /\ Journal(moves') /\ DOMAIN moves' = ids \cup {m}
       /\ SumFunction(Gains(moves')) = SumFunction(Gains(moves)) + (-q)
  BY <1>0, <1>1, <1>4, <1>16, NetPut
<1>18. Books(layers', cons', recs', DOMAIN moves')
  BY <1>0, <1>14, <1>17
<1>19. onHand' \in Int /\ onHand' = SumFunction(Gains(moves'))
  BY <1>0, <1>1, <1>17 DEF StockInv
<1>20. avg' \in Nat
  <2>1. Ids(DOMAIN layers') /\ layers' \in [DOMAIN layers' -> Layer]
    BY <1>18 DEF Books
  <2> QED
    BY <1>0, <2>1, OpenQtyNat
<1>21. diffs' \in [DOMAIN diffs' -> Int] /\ DOMAIN diffs' \subseteq DOMAIN moves'
  BY <1>0, <1>17 DEF StockInv
<1> QED
  BY <1>0, <1>17, <1>18, <1>19, <1>20, <1>21 DEF StockInv

\* A sales return of an original issue keeps the invariant.
LEMMA ReturnStep ==
  ASSUME StockInv, NEW o \in DOMAIN moves, NEW q \in Nat \ {0}, NEW date \in Nat,
         PostReturn(o, q, date)
  PROVE  StockInv'
<1> DEFINE ls0 == Backfill(layers, onHand, avg)
           m == NextId(DOMAIN moves \cup DOMAIN ls0)
           held == RowsOf(cons, o)
           give == Draw(held, RestoreOrder(o, ls0), q)
           given == SumFunction(give)
           restored == SumFunction([l \in DOMAIN give |-> give[l] * cons[<<o, l>>].cost])
           surplus == q - given
           surplusCost == Quantize(restored, given)
           total == IF surplus = 0 THEN Cents(restored)
                    ELSE Cents(100 * Cents(restored) + surplus * surplusCost)
           lsr == Refill(ls0, give)
           v == [date |-> date, orig |-> surplus, rem |-> surplus,
                 cost |-> surplusCost, prov |-> FALSE, recd |-> 0]
           ls1 == IF surplus = 0 THEN lsr ELSE Put(lsr, m, v)
           w == [type |-> "RETURN_IN", ref |-> "DOCUMENT", qty |-> q,
                 cost |-> Quantize(100 * total, q), total |-> total]
           ids == DOMAIN moves
<1>0. /\ given > 0
      /\ layers' = ls1 /\ cons' = Released(give, o)
      /\ moves' = Put(moves, m, w)
      /\ onHand' = onHand + q /\ avg' = AvgCost(ls1)
      /\ recs' = recs /\ diffs' = diffs
      /\ DOMAIN moves' \cup DOMAIN layers' \subseteq 1..MaxId
  BY DEF PostReturn, Bounded
<1>1. Ids(ids) /\ onHand \in Int /\ avg \in Nat /\ Journal(moves)
  BY DEF StockInv, Journal
<1>2. Books(ls0, cons, recs, ids)
  BY <1>1, BackfillBooks DEF StockInv
<1> HIDE DEF ls0
<1>3. /\ Ids(DOMAIN ls0) /\ ls0 \in [DOMAIN ls0 -> Layer]
      /\ RowTable(cons, ids, ls0)
  BY <1>2 DEF Books
<1>4. m \in Nat /\ m \notin ids /\ m \notin DOMAIN ls0
  BY <1>1, <1>3, NextIdFresh
<1> HIDE DEF m
<1>5. /\ DOMAIN held \subseteq DOMAIN ls0
      /\ \A l \in DOMAIN ls0 : l \in DOMAIN held <=> <<o, l>> \in DOMAIN cons
      /\ IsFiniteSet(DOMAIN held)
      /\ \A l \in DOMAIN held : held[l] \in Nat
  BY <1>3, RowsOfTable
<1> HIDE DEF held
<1>6. /\ DOMAIN give = DOMAIN held
      /\ \A l \in DOMAIN give : give[l] \in Nat
      /\ \A l \in DOMAIN give : give[l] <= held[l]
  BY <1>5, DrawBounds
<1>7. given \in Nat /\ given <= q
  <2>1. \A l \in DOMAIN ls0 : ls0[l].date \in Nat
    BY <1>3 DEF Layer
  <2>2. StrictTotalOrder(RestoreOrder(o, ls0), DOMAIN held)
    BY <1>3, <1>5, <2>1, RestoreOrderTotal DEF Ids
  <2> QED
    BY <1>5, <2>2, DrawTotal
<1> HIDE DEF give
<1>8. /\ Books(lsr, Released(give, o), recs, ids)
      /\ DOMAIN lsr = DOMAIN ls0
  BY <1>2, <1>6, ReleasedBooks DEF held
<1>9. restored \in Nat
  <2> DEFINE f == [l \in DOMAIN give |-> give[l] * cons[<<o, l>>].cost]
  <2>1. DOMAIN f = DOMAIN give
    OBVIOUS
  <2>2. ASSUME NEW l \in DOMAIN give PROVE f[l] \in Nat
    <3>1. <<o, l>> \in DOMAIN cons
      BY <1>5, <1>6
    <3>2. cons[<<o, l>>] \in Row
      BY <1>3, <3>1 DEF RowTable
    <3>3. cons[<<o, l>>].cost \in Nat /\ give[l] \in Nat
      BY <1>6, <3>2 DEF Row
    <3>4. f[l] = give[l] * cons[<<o, l>>].cost
      OBVIOUS
    <3> HIDE DEF f
    <3> QED
      BY <3>3, <3>4
  <2>3. restored = SumFunctionOnSet(f, DOMAIN f)
    BY DEF SumFunction
  <2> HIDE DEF f
  <2> QED
    BY <1>5, <1>6, <2>1, <2>2, <2>3, SumNat
<1> HIDE DEF given, restored, lsr
<1>10. surplus \in Nat
  BY <1>7
<1>11. surplusCost \in Nat
  BY <1>0, <1>7, <1>9, QuantizeType
<1> HIDE DEF surplusCost, surplus
<1>12. total \in Nat
  <2>1. Cents(restored) \in Nat
    BY <1>9, QuantizeType DEF Cents
  <2>2. 100 * Cents(restored) + surplus * surplusCost \in Nat
    <3>1. surplus * surplusCost \in Nat
      BY <1>10, <1>11
    <3>2. 100 * Cents(restored) \in Nat
      BY <2>1
    <3> DEFINE a == surplus * surplusCost
               b == 100 * Cents(restored)
    <3> HIDE DEF a, b
    <3>3. a \in Nat /\ b \in Nat
      BY <3>1, <3>2 DEF a, b
    <3>4. b + a \in Nat
      BY <3>3
    <3> QED
      BY <3>4 DEF a, b
  <2>3. Cents(100 * Cents(restored) + surplus * surplusCost) \in Nat
    <3> DEFINE n == 100 * Cents(restored) + surplus * surplusCost
    <3> HIDE DEF n
    <3>1. n \in Nat
      BY <2>2 DEF n
    <3>2. Cents(n) \in Nat
      BY <3>1, QuantizeType DEF Cents
    <3> QED
      BY <3>2 DEF n
  <2> QED
    BY <2>1, <2>3
<1> HIDE DEF total
<1>13. Books(ls1, Released(give, o), recs, ids)
  <2>1. CASE surplus = 0
    BY <1>8, <2>1
  <2>2. CASE surplus # 0
    <3>1. v \in Layer /\ v.rem <= v.orig /\ v.recd = 0 /\ ~v.prov
      BY <1>10, <1>11 DEF Layer
    <3> HIDE DEF v
    <3>2. Books(Put(lsr, m, v), Released(give, o), recs, ids)
      BY <1>4, <1>8, <3>1, PutBooks
    <3> QED
      BY <2>2, <3>2
  <2> QED
    BY <2>1, <2>2
<1>14. Quantize(100 * total, q) \in Nat
  <2>1. 100 * total \in Nat
    BY <1>12
  <2> QED
    BY <2>1, QuantizeType
<1>15. w \in Move /\ Gain(w) = q
  BY <1>12, <1>14 DEF Move, Gain, InboundTypes, References
<1> HIDE DEF w, ls1
<1>16. /\ Journal(moves') /\ DOMAIN moves' = ids \cup {m}
       /\ SumFunction(Gains(moves')) = SumFunction(Gains(moves)) + q
  BY <1>0, <1>1, <1>4, <1>15, NetPut
<1>17. Books(layers', cons', recs', DOMAIN moves')
  <2>1. Books(ls1, Released(give, o), recs, ids \cup {m})
    BY <1>4, <1>13, GrowBooks
  <2> QED
    BY <1>0, <1>16, <2>1
<1>18. onHand' \in Int /\ onHand' = SumFunction(Gains(moves'))
  BY <1>0, <1>1, <1>16 DEF StockInv
<1>19. avg' \in Nat
  <2>1. Ids(DOMAIN layers') /\ layers' \in [DOMAIN layers' -> Layer]
    BY <1>17 DEF Books
  <2> QED
    BY <1>0, <2>1, OpenQtyNat
<1>20. diffs' \in [DOMAIN diffs' -> Int] /\ DOMAIN diffs' \subseteq DOMAIN moves'
  BY <1>0, <1>16 DEF StockInv
<1> QED
  BY <1>0, <1>16, <1>17, <1>18, <1>19, <1>20 DEF StockInv

\* The receiving half of a transfer keeps the invariant.
LEMMA TransferInStep ==
  ASSUME StockInv, transfer \in [qty : Nat, cost : Nat, date : Nat], TransferIn
  PROVE  StockInv'
<1> DEFINE ls0 == Backfill(layers, onHand, avg)
           m == NextId(DOMAIN moves \cup DOMAIN ls0)
           v == [date |-> transfer.date, orig |-> transfer.qty,
                 rem |-> transfer.qty, cost |-> transfer.cost,
                 prov |-> FALSE, recd |-> 0]
           ls1 == Put(ls0, m, v)
           w == [type |-> "IN", ref |-> "TRANSFER",
                 qty |-> transfer.qty, cost |-> transfer.cost,
                 total |-> Cents(transfer.qty * transfer.cost)]
           ids == DOMAIN moves
<1>0. /\ layers' = ls1 /\ cons' = cons /\ recs' = recs /\ diffs' = diffs
      /\ moves' = Put(moves, m, w)
      /\ onHand' = onHand + transfer.qty /\ avg' = AvgCost(ls1)
      /\ DOMAIN moves' \cup DOMAIN layers' \subseteq 1..MaxId
  BY DEF TransferIn, Bounded
<1>1. Ids(ids) /\ onHand \in Int /\ avg \in Nat /\ Journal(moves)
  BY DEF StockInv, Journal
<1>2. Books(ls0, cons, recs, ids)
  BY <1>1, BackfillBooks DEF StockInv
<1> HIDE DEF ls0
<1>3. Ids(DOMAIN ls0)
  BY <1>2 DEF Books
<1>4. m \in Nat /\ m \notin ids /\ m \notin DOMAIN ls0
  BY <1>1, <1>3, NextIdFresh
<1> HIDE DEF m
<1>5. transfer.qty \in Nat /\ transfer.cost \in Nat /\ transfer.date \in Nat
  OBVIOUS
<1>6. v \in Layer /\ v.rem <= v.orig /\ v.recd = 0 /\ ~v.prov
  BY <1>5 DEF Layer
<1>7. Cents(transfer.qty * transfer.cost) \in Nat
  <2> DEFINE n == transfer.qty * transfer.cost
  <2>1. n \in Nat
    BY <1>5
  <2> HIDE DEF n
  <2>2. Cents(n) \in Nat
    BY <2>1, QuantizeType DEF Cents
  <2> QED
    BY <2>2 DEF n
<1>8. w \in Move /\ Gain(w) = transfer.qty
  BY <1>5, <1>7 DEF Move, Gain, InboundTypes, References
<1> HIDE DEF v, w
<1>9. Books(ls1, cons, recs, ids \cup {m})
  <2>1. Books(ls1, cons, recs, ids)
    BY <1>2, <1>4, <1>6, PutBooks
  <2> HIDE DEF ls1
  <2> QED
    BY <1>4, <2>1, GrowBooks
<1> HIDE DEF ls1
<1>10. /\ Journal(moves') /\ DOMAIN moves' = ids \cup {m}
       /\ SumFunction(Gains(moves')) = SumFunction(Gains(moves)) + transfer.qty
  BY <1>0, <1>1, <1>4, <1>8, NetPut
<1>11. Books(layers', cons', recs', DOMAIN moves')
  BY <1>0, <1>9, <1>10
<1>12. onHand' \in Int /\ onHand' = SumFunction(Gains(moves'))
  BY <1>0, <1>1, <1>5, <1>10 DEF StockInv
<1>13. avg' \in Nat
  <2>1. Ids(DOMAIN layers') /\ layers' \in [DOMAIN layers' -> Layer]
    BY <1>11 DEF Books
  <2> QED
    BY <1>0, <2>1, OpenQtyNat
<1>14. diffs' \in [DOMAIN diffs' -> Int] /\ DOMAIN diffs' \subseteq DOMAIN moves'
  BY <1>0, <1>10 DEF StockInv
<1> QED
  BY <1>0, <1>10, <1>11, <1>12, <1>13, <1>14 DEF StockInv

\* unreconcile keeps the books, for the fills on record and for the others.
LEMMA UnreconciledBooks ==
  ASSUME Books(layers, cons, recs, DOMAIN moves), NEW m
  PROVE  /\ Books(Unreconciled(m), cons, recs, DOMAIN moves)
         /\ DOMAIN Unreconciled(m) = DOMAIN layers
<1> DEFINE ids == DOMAIN moves
           rows == RowsOf(recs, m)
           back == [l \in DOMAIN rows |-> MinOf(rows[l], layers[l].recd)]
           ls1 == Reopen(layers, back)
           unrecorded == layers[m].orig - layers[m].rem
                           - SumFunction(RowsOn(cons, m)) - SumFunction(rows)
           earlier == [l \in {k \in Provisional(ls1) : k < m /\ ls1[k].recd > 0}
                         |-> ls1[l].recd]
           open == Draw(earlier, Lifo(ls1), unrecorded)
<1>0. Unreconciled(m) = IF m \notin DOMAIN layers \/ unrecorded <= 0 THEN ls1
                        ELSE Reopen(ls1, open)
  BY DEF Unreconciled
<1>1. /\ RowTable(recs, ids, layers) /\ RowTable(cons, ids, layers)
      /\ Ids(ids) /\ Ids(DOMAIN layers)
      /\ layers \in [DOMAIN layers -> Layer]
  BY DEF Books
<1>2. /\ DOMAIN rows \subseteq DOMAIN layers
      /\ \A l \in DOMAIN rows : rows[l] \in Nat
      /\ SumFunction(rows) \in Nat
  BY <1>1, RowsOfTable
<1> HIDE DEF rows
<1>3. /\ DOMAIN back \subseteq DOMAIN layers
      /\ \A l \in DOMAIN back : back[l] \in Nat
      /\ \A l \in DOMAIN back : back[l] <= layers[l].recd
  <2>1. \A l \in DOMAIN rows : layers[l].recd \in Nat
    BY <1>1, <1>2 DEF Layer
  <2>2. DOMAIN back = DOMAIN rows
    OBVIOUS
  <2>3. \A l \in DOMAIN rows : back[l] = MinOf(rows[l], layers[l].recd)
    OBVIOUS
  <2> HIDE DEF back
  <2> QED
    BY <1>2, <2>1, <2>2, <2>3 DEF MinOf
<1> HIDE DEF back
<1>4. Books(ls1, cons, recs, ids) /\ DOMAIN ls1 = DOMAIN layers
  BY <1>3, ReopenBooks
<1> HIDE DEF ls1
<1>5. ASSUME m \in DOMAIN layers
      PROVE  /\ Books(Reopen(ls1, open), cons, recs, ids)
             /\ DOMAIN Reopen(ls1, open) = DOMAIN layers
  <2>1. unrecorded \in Int
    <3>1. layers[m].orig \in Nat /\ layers[m].rem \in Nat
      BY <1>1, <1>5 DEF Layer
    <3>2. SumFunction(RowsOn(cons, m)) \in Nat
      BY <1>1, RowsOnTable DEF Consumed
    <3> QED
      BY <1>2, <3>1, <3>2
  <2> HIDE DEF unrecorded
  <2>2. /\ DOMAIN earlier \subseteq DOMAIN ls1
        /\ \A l \in DOMAIN earlier : earlier[l] = ls1[l].recd
    BY DEF Provisional
  <2>3. \A l \in DOMAIN earlier : earlier[l] \in Nat
    <3>1. \A l \in DOMAIN ls1 : ls1[l].recd \in Nat
      BY <1>4 DEF Books, Layer
    <3> HIDE DEF earlier
    <3> QED
      BY <2>2, <3>1
  <2> HIDE DEF earlier
  <2>4. IsFiniteSet(DOMAIN earlier)
    BY <1>1, <1>4, <2>2, FS_Subset DEF Ids
  <2>5. /\ DOMAIN open = DOMAIN earlier
        /\ \A l \in DOMAIN open : open[l] \in Nat
        /\ \A l \in DOMAIN open : open[l] <= ls1[l].recd
    BY <2>1, <2>2, <2>3, <2>4, DrawBounds
  <2> HIDE DEF open
  <2> QED
    BY <1>4, <2>2, <2>5, ReopenBooks
<1> HIDE DEF unrecorded, open
<1> QED
  BY <1>0, <1>4, <1>5

\* The reversal of a document keeps the invariant.
LEMMA UnpostStep ==
  ASSUME StockInv, NEW m \in DOMAIN moves, UnpostDocument(m)
  PROVE  StockInv'
<1> DEFINE ids == DOMAIN moves
           inbound == moves[m].type \in InboundTypes
           held == RowsOf(cons, m)
           missing == moves[m].qty - SumFunction(held)
           ls1 == IF inbound THEN Unreconciled(m) ELSE Refill(layers, held)
           ls2 == Dropped(ls1, m)
           rows == Without(cons, m)
           fills == Without(recs, m)
           balance == Balance(DOMAIN moves \ {m})
           unlayered == inbound /\ moves[m].type # "RETURN_IN" /\ m \notin DOMAIN layers
           ls3 == IF unlayered
                    THEN Trimmed(ls2, rows, balance, moves[m].qty, moves[m].cost)
                    ELSE ls2
           ls4 == IF inbound THEN Backfill(ls3, balance, avg)
                  ELSE Backfill(ls3, balance - missing, avg)
           ls5 == IF inbound \/ missing = 0 THEN ls4
                  ELSE Backfill(ls4, balance, moves[m].cost)
           ids2 == ids \ {m}
<1>0. /\ layers' = ls5 /\ cons' = rows /\ recs' = fills
      /\ diffs' = Dropped(diffs, m)
      /\ moves' = Dropped(moves, m)
      /\ onHand' = balance /\ avg' = AvgCost(ls5)
      /\ DOMAIN moves' \cup DOMAIN layers' \subseteq 1..MaxId
  BY DEF UnpostDocument, Bounded, WithoutDiff
<1>1. /\ Ids(ids) /\ onHand \in Int /\ avg \in Nat /\ Journal(moves)
      /\ Books(layers, cons, recs, ids)
  BY DEF StockInv, Journal
<1>2. /\ RowTable(cons, ids, layers) /\ Ids(DOMAIN layers)
      /\ layers \in [DOMAIN layers -> Layer]
  BY <1>1 DEF Books
<1>3. moves[m].qty \in Nat /\ moves[m].cost \in Nat
  BY <1>1 DEF Journal, Move
<1>4. /\ DOMAIN held \subseteq DOMAIN layers
      /\ \A l \in DOMAIN layers : l \in DOMAIN held <=> <<m, l>> \in DOMAIN cons
      /\ \A l \in DOMAIN held : held[l] \in Nat
      /\ \A l \in DOMAIN held : held[l] = QtyAt(cons, <<m, l>>)
      /\ SumFunction(held) \in Nat
  BY <1>2, RowsOfTable
<1>5. missing \in Int
  BY <1>3, <1>4
<1> HIDE DEF held
<1>6. ASSUME NEW l \in DOMAIN layers
      PROVE  /\ layers[l] \in Layer /\ Fits(layers[l], Consumed(cons, l))
             /\ Consumed(cons, l) \in Nat /\ QtyAt(cons, <<m, l>>) \in Nat
  <2>1. layers[l] \in Layer /\ Fits(layers[l], Consumed(cons, l))
    BY <1>1 DEF Books
  <2> QED
    BY <1>1, <1>2, <2>1, ConsumedNat, QtyAtNat
<1> HIDE DEF missing, balance, unlayered, ls3, ls4, ls5
<1>7. Books(ls2, rows, fills, ids2)
  <2>1. CASE inbound
    <3> DEFINE u == Unreconciled(m)
    <3>1. Books(u, cons, recs, ids) /\ DOMAIN u = DOMAIN layers
      BY <1>1, UnreconciledBooks
    <3> HIDE DEF u
    <3>2. u \in [DOMAIN u -> Layer]
      BY <3>1 DEF Books
    <3>3. ASSUME NEW l \in DOMAIN u
          PROVE  l # m => Fits(u[l], Kept(cons, m, l))
      <4>1. Fits(u[l], Consumed(cons, l)) /\ u[l] \in Layer
        BY <3>1, <3>2 DEF Books
      <4>2. Consumed(cons, l) \in Nat /\ QtyAt(cons, <<m, l>>) \in Nat
        BY <1>6, <3>1
      <4> QED
        BY <4>1, <4>2 DEF Fits, Layer, Kept
    <3>4. Books(Dropped(u, m), Without(cons, m), Without(recs, m), ids \ {m})
      BY <3>1, <3>2, <3>3, DropBooks
    <3> QED
      BY <2>1, <3>4 DEF u
  <2>2. CASE ~inbound
    <3> DEFINE u == Refill(layers, held)
    <3>1. DOMAIN u = DOMAIN layers
      BY DEF Refill
    <3>2. ASSUME NEW l \in DOMAIN layers
          PROVE  /\ u[l] \in Layer
                 /\ u[l].rem = layers[l].rem + At(held, l)
                 /\ u[l].orig = layers[l].orig /\ u[l].recd = layers[l].recd
                 /\ u[l].date = layers[l].date /\ u[l].prov = layers[l].prov
                 /\ u[l].cost = layers[l].cost
      BY <1>2, <1>4, RefillLayer
    <3>3. u \in [DOMAIN layers -> Layer]
      BY <3>1, <3>2 DEF Refill
    <3> HIDE DEF u
    <3>4. ASSUME NEW l \in DOMAIN layers
          PROVE  l # m => Fits(u[l], Kept(cons, m, l))
      <4>1. At(held, l) = QtyAt(cons, <<m, l>>)
        BY <1>4 DEF At, QtyAt
      <4> QED
        BY <1>6, <3>2, <4>1 DEF Fits, Layer, Kept
    <3>5. \A l \in DOMAIN layers : u[l].cost = layers[l].cost
      BY <3>2
    <3>6. Books(Dropped(u, m), Without(cons, m), Without(recs, m), ids \ {m})
      BY <1>1, <3>3, <3>4, <3>5, DropBooks
    <3> QED
      BY <2>2, <3>6 DEF u
  <2> QED
    BY <2>1, <2>2
<1> HIDE DEF ls2, rows, fills
<1>8. /\ Journal(moves') /\ DOMAIN moves' = ids2
      /\ balance \in Int /\ balance = SumFunction(Gains(moves'))
  <2>1. /\ Journal(Dropped(moves, m)) /\ DOMAIN Dropped(moves, m) = ids2
        /\ SumFunction(Gains(Dropped(moves, m))) \in Int
        /\ SumFunction(Gains(Dropped(moves, m)))
             = SumFunctionOnSet(Gains(moves), DOMAIN moves \ {m})
    BY <1>1, NetDrop
  <2>2. balance = SumFunctionOnSet(Gains(moves), DOMAIN moves \ {m})
    BY <1>1, BalanceIsNet DEF balance
  <2> QED
    BY <1>0, <2>1, <2>2
<1> HIDE DEF ids2
<1>9. Books(ls3, rows, fills, ids2)
  BY <1>3, <1>7, <1>8, TrimmedBooks DEF ls3
<1>10. Books(ls4, rows, fills, ids2)
  <2>1. balance - missing \in Int
    BY <1>5, <1>8
  <2> QED
    BY <1>1, <1>8, <1>9, <2>1, BackfillBooks DEF ls4
<1>11. Books(ls5, rows, fills, ids2)
  BY <1>1, <1>3, <1>8, <1>10, BackfillBooks DEF ls5
<1>12. Books(layers', cons', recs', DOMAIN moves')
  BY <1>0, <1>8, <1>11
<1>13. avg' \in Nat
  <2>1. Ids(DOMAIN layers') /\ layers' \in [DOMAIN layers' -> Layer]
    BY <1>12 DEF Books
  <2> QED
    BY <1>0, <2>1, OpenQtyNat
<1>14. diffs' \in [DOMAIN diffs' -> Int] /\ DOMAIN diffs' \subseteq DOMAIN moves'
  <2>1. diffs \in [DOMAIN diffs -> Int] /\ DOMAIN diffs \subseteq ids
    BY DEF StockInv
  <2> QED
    BY <1>0, <1>8, <2>1 DEF Dropped, ids2
<1> QED
  BY <1>0, <1>8, <1>12, <1>13, <1>14 DEF StockInv

\* What a product kept from before layers existed: its average and its rows.
LEMMA LegacyProduct ==
  ASSUME NEW first \in Nat, NEW second \in Nat, NEW out \in Nat,
         NEW cost1 \in Nat, NEW cost2 \in Nat,
         NEW ms, ms = LegacyMoves(first, second, out, cost1, cost2)
  PROVE  /\ LegacyAvg(first, second, cost1, cost2) \in Nat
         /\ ms = [m \in DOMAIN ms |-> ms[m]]
         /\ \A m : m \in DOMAIN ms
                  <=> (m = 1 /\ first > 0) \/ (m = 2 /\ second > 0) \/ (m = 3 /\ out > 0)
         /\ \A m \in DOMAIN ms :
              /\ ms[m] \in Move
              /\ ms[m].type = IF m = 3 THEN "OUT" ELSE "IN"
              /\ ms[m].qty = IF m = 1 THEN first ELSE IF m = 2 THEN second ELSE out
<1> DEFINE mean == LegacyAvg(first, second, cost1, cost2)
<1>1. mean \in Nat
  <2> DEFINE value == first * cost1 + second * cost2
             units == first + second
  <2>1. value \in Nat /\ units \in Nat
    <3>1. first * cost1 \in Nat /\ second * cost2 \in Nat
      OBVIOUS
    <3> QED
      BY <3>1
  <2> HIDE DEF value, units
  <2>2. units # 0 => Quantize(value, units) \in Nat
    BY <2>1, QuantizeType
  <2> QED
    BY <2>2 DEF LegacyAvg, value, units
<1> HIDE DEF mean
<1>2. ASSUME NEW type \in InboundTypes \cup OutboundTypes, NEW q \in Nat, NEW cost \in Nat
      PROVE  /\ LegacyMove(type, q, cost) \in Move
             /\ LegacyMove(type, q, cost).type = type
             /\ LegacyMove(type, q, cost).qty = q
  <2> DEFINE p == q * cost
  <2>1. p \in Nat
    OBVIOUS
  <2> HIDE DEF p
  <2>2. Cents(p) \in Nat
    BY <2>1, QuantizeType DEF Cents
  <2>3. LegacyMove(type, q, cost) = [type |-> type, ref |-> "DOCUMENT", qty |-> q,
                                     cost |-> cost, total |-> Cents(p)]
    BY DEF LegacyMove, p
  <2> QED
    BY <2>2, <2>3 DEF Move, References
<1>3. /\ DOMAIN ms = {m \in 1..3 : (IF m = 1 THEN first ELSE IF m = 2 THEN second ELSE out) > 0}
      /\ ms = [m \in DOMAIN ms |-> ms[m]]
      /\ \A m \in DOMAIN ms :
           ms[m] = IF m = 1 THEN LegacyMove("IN", first, cost1)
                   ELSE IF m = 2 THEN LegacyMove("IN", second, cost2)
                   ELSE LegacyMove("OUT", out, mean)
  BY DEF LegacyMoves, mean
<1>4. "IN" \in InboundTypes /\ "OUT" \in OutboundTypes
  BY DEF InboundTypes, OutboundTypes
<1>5. /\ LegacyMove("IN", first, cost1) \in Move
      /\ LegacyMove("IN", first, cost1).type = "IN"
      /\ LegacyMove("IN", first, cost1).qty = first
      /\ LegacyMove("IN", second, cost2) \in Move
      /\ LegacyMove("IN", second, cost2).type = "IN"
      /\ LegacyMove("IN", second, cost2).qty = second
      /\ LegacyMove("OUT", out, mean) \in Move
      /\ LegacyMove("OUT", out, mean).type = "OUT"
      /\ LegacyMove("OUT", out, mean).qty = out
  BY <1>1, <1>2, <1>4
<1>6. \A m : m \in DOMAIN ms
                  <=> (m = 1 /\ first > 0) \/ (m = 2 /\ second > 0) \/ (m = 3 /\ out > 0)
  BY <1>3
<1>7. ASSUME NEW m \in DOMAIN ms
      PROVE  /\ ms[m] \in Move
             /\ ms[m].type = IF m = 3 THEN "OUT" ELSE "IN"
             /\ ms[m].qty = IF m = 1 THEN first ELSE IF m = 2 THEN second ELSE out
  BY <1>3, <1>5, <1>6
<1> QED
  BY <1>1, <1>3, <1>6, <1>7 DEF mean

\* A product as the layers found it satisfies the invariant.
LEMMA InitStock ==
  ASSUME Init
  PROVE  IInv
<1>1. PICK first \in LegacyIn, second \in LegacyIn, out \in LegacyOut,
           cost1 \in Costs, cost2 \in Costs :
        /\ out <= first + second
        /\ onHand = first + second - out
        /\ avg = LegacyAvg(first, second, cost1, cost2)
        /\ moves = LegacyMoves(first, second, out, cost1, cost2)
  BY DEF Init
<1>2. /\ first \in Nat /\ second \in Nat /\ out \in Nat
      /\ cost1 \in Nat /\ cost2 \in Nat
  BY ConstantsAssumption
<1>5. /\ avg \in Nat
      /\ moves = [m \in DOMAIN moves |-> moves[m]]
      /\ \A m : m \in DOMAIN moves
                  <=> (m = 1 /\ first > 0) \/ (m = 2 /\ second > 0) \/ (m = 3 /\ out > 0)
      /\ \A m \in DOMAIN moves :
           /\ moves[m] \in Move
           /\ moves[m].type = IF m = 3 THEN "OUT" ELSE "IN"
           /\ moves[m].qty = IF m = 1 THEN first ELSE IF m = 2 THEN second ELSE out
  BY <1>1, <1>2, LegacyProduct
<1>6. IsFiniteSet(DOMAIN moves) /\ DOMAIN moves \in SUBSET Nat
  <2>1. DOMAIN moves \subseteq 1..3
    BY <1>5
  <2>2. IsFiniteSet(1..3)
    <3>1. 1 \in Int /\ 3 \in Int
      OBVIOUS
    <3> QED
      BY <3>1, FS_Interval, Zenon
  <2> QED
    BY <2>1, <2>2, FS_Subset
<1>8. Journal(moves)
  BY <1>5, <1>6 DEF Journal, Ids
<1> DEFINE f == Gains(moves)
<1>9. /\ DOMAIN f = DOMAIN moves
      /\ \A m \in DOMAIN moves :
           f[m] = IF m = 1 THEN first ELSE IF m = 2 THEN second ELSE -out
  BY <1>5 DEF Gains, Gain, InboundTypes
<1> HIDE DEF f
<1>10. \A m \in DOMAIN f : f[m] \in Int
  BY <1>2, <1>9
<1>11. SumFunction(f) = onHand
  <2> DEFINE D == DOMAIN f
             D2 == D \ {1}
             D3 == D2 \ {2}
             D4 == D3 \ {3}
             v3 == -out
  <2>1. D4 = {}
    BY <1>5, <1>9
  <2>2. D2 = D \ {1} /\ D3 = D2 \ {2} /\ D4 = D3 \ {3}
    OBVIOUS
  <2>3. /\ first \in Int /\ second \in Int /\ v3 \in Int
        /\ (1 \in D => first = f[1]) /\ (1 \notin D => first = 0)
        /\ (2 \in D2 => second = f[2]) /\ (2 \notin D2 => second = 0)
        /\ (3 \in D3 => v3 = f[3]) /\ (3 \notin D3 => v3 = 0)
    BY <1>2, <1>5, <1>9
  <2>4. IsFiniteSet(D) /\ \A m \in D : f[m] \in Int
    BY <1>6, <1>9, <1>10
  <2>5. SumFunctionOnSet(f, D) = first + second + v3
    <3> HIDE DEF D, D2, D3, D4, v3
    <3> QED
      <4>1. /\ SumFunctionOnSet(f, D) = first + SumFunctionOnSet(f, D2)
            /\ IsFiniteSet(D2) /\ \A y \in D2 : f[y] \in Int
        BY <2>2, <2>3, <2>4, SumApart
      <4>2. /\ SumFunctionOnSet(f, D2) = second + SumFunctionOnSet(f, D3)
            /\ IsFiniteSet(D3) /\ \A y \in D3 : f[y] \in Int
        BY <2>2, <2>3, <4>1, SumApart
      <4>3. /\ SumFunctionOnSet(f, D3) = v3 + SumFunctionOnSet(f, D4)
            /\ IsFiniteSet(D4) /\ \A y \in D4 : f[y] \in Int
        BY <2>2, <2>3, <4>2, SumApart
      <4>4. SumFunctionOnSet(f, D4) = 0
        BY <2>1, SumEmpty
      <4> QED
        BY <2>3, <4>1, <4>2, <4>3, <4>4
  <2> QED
    BY <1>1, <1>2, <2>5 DEF SumFunction
<1>12. /\ layers = <<>> /\ cons = <<>> /\ recs = <<>> /\ diffs = <<>>
       /\ transfer = NoTransfer
  BY DEF Init
<1>13. Books(layers, cons, recs, DOMAIN moves)
  <2>1. DOMAIN layers = {} /\ DOMAIN cons = {} /\ DOMAIN recs = {}
    BY <1>12
  <2>2. Ids(DOMAIN layers) /\ Ids(DOMAIN moves)
    BY <1>6, <2>1, FS_EmptySet DEF Ids
  <2>3. layers \in [DOMAIN layers -> Layer]
    BY <1>12
  <2>4. cons \in [DOMAIN cons -> Row] /\ recs \in [DOMAIN recs -> Row]
    BY <1>12
  <2> QED
    BY <2>1, <2>2, <2>3, <2>4 DEF Books, RowTable
<1>14. DOMAIN moves \cup DOMAIN layers \subseteq 1..MaxId
  BY <1>5, <1>12, ConstantsAssumption
<1>15. onHand \in Int /\ avg \in Nat
  BY <1>1, <1>2, <1>5
<1>16. diffs \in [DOMAIN diffs -> Int] /\ DOMAIN diffs \subseteq DOMAIN moves
  BY <1>12
<1>17. transfer \in [qty : Nat, cost : Nat, date : Nat]
  BY <1>12 DEF NoTransfer
<1> QED
  BY <1>8, <1>11, <1>13, <1>14, <1>15, <1>16, <1>17 DEF IInv, StockInv, f

\* Every step keeps the invariant.
LEMMA NextStock ==
  ASSUME IInv, [Next]_vars
  PROVE  IInv'
<1> DEFINE TransferType == transfer \in [qty : Nat, cost : Nat, date : Nat]
<1>0. StockInv /\ TransferType /\ onHand \in Int /\ avg \in Nat
  BY DEF IInv, StockInv
<1>1. ASSUME NEW q \in Qtys, NEW cost \in Costs, NEW date \in Dates,
             PostReceipt(q, cost, date)
      PROVE  IInv'
  <2>1. /\ q \in Nat /\ cost \in Nat /\ date \in Nat
        /\ "IN" \in InboundTypes /\ "DOCUMENT" \in References
    BY ConstantsAssumption DEF InboundTypes, References
  <2>2. Inbound("IN", "DOCUMENT", q, cost, date) /\ transfer' = transfer
    BY <1>1 DEF PostReceipt
  <2>3. StockInv'
    BY <1>0, <2>1, <2>2, InboundStep
  <2> QED
    BY <1>0, <2>2, <2>3 DEF IInv
<1>2. ASSUME NEW type \in {"OUT", "RETURN_OUT"}, NEW q \in Qtys, NEW date \in Dates,
             PostIssue(type, q, date)
      PROVE  IInv'
  <2>1. /\ q \in Nat \ {0} /\ date \in Nat \ {0}
        /\ type \in OutboundTypes /\ "DOCUMENT" \in References
    BY ConstantsAssumption DEF OutboundTypes, References
  <2>2. Outbound(type, "DOCUMENT", q, date) /\ transfer' = transfer
    BY <1>2 DEF PostIssue
  <2>3. StockInv'
    BY <1>0, <2>1, <2>2, OutboundStep
  <2> QED
    BY <1>0, <2>2, <2>3 DEF IInv
<1>3. ASSUME NEW q \in Qtys, NEW date \in Dates, PostReturnAtAverage(q, date)
      PROVE  IInv'
  <2>1. /\ q \in Nat /\ date \in Nat
        /\ "RETURN_IN" \in InboundTypes /\ "DOCUMENT" \in References
    BY ConstantsAssumption DEF InboundTypes, References
  <2>2. Inbound("RETURN_IN", "DOCUMENT", q, avg, date) /\ transfer' = transfer
    BY <1>3 DEF PostReturnAtAverage
  <2>3. StockInv'
    BY <1>0, <2>1, <2>2, InboundStep
  <2> QED
    BY <1>0, <2>2, <2>3 DEF IInv
<1>4. ASSUME NEW o \in DOMAIN moves, NEW q \in Qtys, NEW date \in Dates,
             PostReturn(o, q, date)
      PROVE  IInv'
  <2>1. q \in Nat \ {0} /\ date \in Nat
    BY ConstantsAssumption
  <2>2. transfer' = transfer
    BY <1>4 DEF PostReturn
  <2>3. StockInv'
    BY <1>0, <1>4, <2>1, ReturnStep
  <2> QED
    BY <1>0, <2>2, <2>3 DEF IInv
<1>5. ASSUME NEW counted \in Counts, NEW date \in Dates, PostStocktake(counted, date)
      PROVE  IInv'
  <2>1. /\ counted \in Nat /\ date \in Nat \ {0}
        /\ "ADJUST_IN" \in InboundTypes /\ "ADJUST_OUT" \in OutboundTypes
        /\ "STOCKTAKE" \in References
    BY ConstantsAssumption DEF InboundTypes, OutboundTypes, References
  <2>2. transfer' = transfer
    BY <1>5 DEF PostStocktake
  <2>3. CASE counted > onHand
    <3>1. Inbound("ADJUST_IN", "STOCKTAKE", counted - onHand, avg, date)
      BY <1>5, <2>3 DEF PostStocktake
    <3>2. counted - onHand \in Nat
      BY <1>0, <2>1, <2>3
    <3>3. StockInv'
      BY <1>0, <2>1, <3>1, <3>2, InboundStep
    <3> QED
      BY <1>0, <2>2, <3>3 DEF IInv
  <2>4. CASE ~(counted > onHand)
    <3>1. Outbound("ADJUST_OUT", "STOCKTAKE", onHand - counted, date) /\ counted # onHand
      BY <1>5, <2>4 DEF PostStocktake
    <3>2. onHand - counted \in Nat \ {0}
      BY <1>0, <2>1, <2>4, <3>1
    <3>3. StockInv'
      BY <1>0, <2>1, <3>1, <3>2, OutboundStep
    <3> QED
      BY <1>0, <2>2, <3>3 DEF IInv
  <2> QED
    BY <2>3, <2>4
<1>6. ASSUME NEW q \in Qtys, NEW date \in Dates, TransferOut(q, date)
      PROVE  IInv'
  <2>1. /\ q \in Nat \ {0} /\ date \in Nat \ {0}
        /\ "OUT" \in OutboundTypes /\ "TRANSFER" \in References
    BY ConstantsAssumption DEF OutboundTypes, References
  <2>2. /\ Outbound("OUT", "TRANSFER", q, date)
        /\ transfer' = [qty |-> q, cost |-> avg, date |-> date]
    BY <1>6 DEF TransferOut
  <2>3. StockInv'
    BY <1>0, <2>1, <2>2, OutboundStep
  <2> QED
    BY <1>0, <2>1, <2>2, <2>3 DEF IInv
<1>7. ASSUME TransferIn
      PROVE  IInv'
  <2>1. StockInv'
    BY <1>0, <1>7, TransferInStep
  <2>2. transfer' = NoTransfer
    BY <1>7 DEF TransferIn
  <2> QED
    BY <2>1, <2>2 DEF IInv, NoTransfer
<1>8. ASSUME NEW m \in DOMAIN moves, UnpostDocument(m)
      PROVE  IInv'
  <2>1. StockInv'
    BY <1>0, <1>8, UnpostStep
  <2>2. transfer' = transfer
    BY <1>8 DEF UnpostDocument
  <2> QED
    BY <1>0, <2>1, <2>2 DEF IInv
<1>9. CASE UNCHANGED vars
  BY <1>9 DEF IInv, StockInv, vars
<1> QED
  BY <1>1, <1>2, <1>3, <1>4, <1>5, <1>6, <1>7, <1>8, <1>9 DEF Next, Post

\* The inductive invariant holds in every state of every run.
LEMMA Invariant == Spec => []IInv
<1>1. Init => IInv
  BY InitStock
<1>2. IInv /\ [Next]_vars => IInv'
  BY NextStock
<1> QED
  BY <1>1, <1>2, PTL DEF Spec

\* Every column keeps its type and every foreign key resolves, for any
\* quantities, costs, dates and legacy stock, with negative stock or without.
THEOREM TypeCorrect == Spec => []TypeOK
<1>1. IInv => TypeOK
  BY DEF IInv, StockInv, Journal, Books, RowTable, TypeOK
<1> QED
  BY <1>1, Invariant, PTL

\* Product.quantity_on_hand is the balance of the live movements after any
\* sequence of postings, returns, stocktakes, transfers and reversals, so the
\* replay of a reversal never moves it by more than the reversed document.
THEOREM BalanceIsLedger == Spec => []LedgerBalance
<1>1. IInv => LedgerBalance
  BY BalanceIsNet DEF IInv, StockInv, LedgerBalance
<1> QED
  BY <1>1, Invariant, PTL

\* No layer is overdrawn or filled beyond its quantity, whatever the order of
\* issues, returns and reversals.
THEOREM NoUnitTwice == Spec => []NoOverdraw
<1>1. IInv => NoOverdraw
  BY DEF IInv, StockInv, Books, Fits, Consumed, NoOverdraw
<1> QED
  BY <1>1, Invariant, PTL

\* A consumption row keeps the unit cost of its layer: trimming an opening
\* layer recosts it only while nobody has consumed it.
THEOREM CostsAsTaken == Spec => []SnapshotCost
<1>1. IInv => SnapshotCost
  BY DEF IInv, StockInv, Books, SnapshotCost
<1> QED
  BY <1>1, Invariant, PTL

\* Every posting records a movement that was not there.
LEMMA PostingAdds ==
  ASSUME StockInv,
         NEW v, moves' = Put(moves, NextId(DOMAIN moves
                                  \cup DOMAIN Backfill(layers, onHand, avg)), v)
  PROVE  ~(DOMAIN moves' \subseteq DOMAIN moves)
<1> DEFINE ls0 == Backfill(layers, onHand, avg)
           k == NextId(DOMAIN moves \cup DOMAIN ls0)
<1>1. /\ Ids(DOMAIN moves) /\ Books(layers, cons, recs, DOMAIN moves)
      /\ onHand \in Int /\ avg \in Nat
  BY DEF StockInv, Journal
<1>2. Ids(DOMAIN ls0)
  <2>1. Books(ls0, cons, recs, DOMAIN moves)
    BY <1>1, BackfillBooks
  <2> QED
    BY <2>1 DEF Books
<1> HIDE DEF ls0
<1>3. k \notin DOMAIN moves
  BY <1>1, <1>2, NextIdFresh
<1>4. moves' = Put(moves, k, v)
  BY DEF ls0
<1> HIDE DEF k
<1>5. k \in DOMAIN moves'
  BY <1>4 DEF Put
<1> QED
  BY <1>3, <1>5

\* A reversal leaves the consumption rows of every other document as they
\* were: the guard _assert_layers_not_consumed_elsewhere is enough to keep the
\* cascade of the delete away from them.
THEOREM OthersSurviveReversal == Spec => ForeignRowsSurvive
<1> DEFINE Spared == DOMAIN moves' \subseteq DOMAIN moves =>
                       \A r \in DOMAIN cons :
                         r[1] \in DOMAIN moves' => r \in DOMAIN cons' /\ cons'[r] = cons[r]
<1>1. ASSUME IInv, Post PROVE Spared
  <2>1. StockInv
    BY <1>1 DEF IInv
  <2> DEFINE Adds == \E v : moves' = Put(moves, NextId(DOMAIN moves
                                    \cup DOMAIN Backfill(layers, onHand, avg)), v)
  <2>a. ASSUME NEW type, NEW ref, NEW q, NEW cost, NEW date,
               Inbound(type, ref, q, cost, date)
        PROVE  Adds
    BY <2>a, Zenon DEF Inbound
  <2>b. ASSUME NEW type, NEW ref, NEW q, NEW date, Outbound(type, ref, q, date)
        PROVE  Adds
    BY <2>b, Zenon DEF Outbound
  <2>c. ASSUME NEW o, NEW q, NEW date, PostReturn(o, q, date)
        PROVE  Adds
    BY <2>c, Zenon DEF PostReturn
  <2>d. ASSUME TransferIn
        PROVE  Adds
    BY <2>d, Zenon DEF TransferIn
  <2>e. Adds
    <3> HIDE DEF Adds
    <3> QED
      BY <1>1, <2>a, <2>b, <2>c, <2>d
         DEF Post, PostReceipt, PostIssue, PostReturnAtAverage, PostStocktake, TransferOut
  <2>3. ~(DOMAIN moves' \subseteq DOMAIN moves)
    BY <2>1, <2>e, PostingAdds
  <2> QED
    BY <2>3
<1>2. ASSUME NEW m \in DOMAIN moves, UnpostDocument(m) PROVE Spared
  <2>1. cons' = Without(cons, m) /\ moves' = Dropped(moves, m)
    BY <1>2 DEF UnpostDocument
  <2>2. \A r \in DOMAIN cons : r[2] = m => r[1] = m
    BY <1>2 DEF UnpostDocument, NotConsumedElsewhere
  <2>3. m \notin DOMAIN moves'
    BY <2>1 DEF Dropped
  <2>4. ASSUME NEW r \in DOMAIN cons, r[1] \in DOMAIN moves'
        PROVE  r \in DOMAIN cons' /\ cons'[r] = cons[r]
    <3>1. m # r[1] /\ m # r[2]
      BY <2>2, <2>3, <2>4
    <3> QED
      BY <2>1, <3>1 DEF Without
  <2> QED
    BY <2>4
<1>3. ASSUME UNCHANGED vars PROVE Spared
  BY <1>3 DEF vars
<1>4. IInv /\ [Next]_vars => [Spared]_vars
  BY <1>1, <1>2, <1>3 DEF Next
<1> HIDE DEF Spared
<1>5. Spec => [][Spared]_vars
  BY <1>4, Invariant, PTL DEF Spec
<1> QED
  BY <1>5 DEF ForeignRowsSurvive, Spared

-----------------------------------------------------------------------------
(***************************************************************************)
(* 3. The stock card                                                       *)
(***************************************************************************)
Theory == INSTANCE StockCardProofs
            WITH card <- [m \in DOMAIN moves |-> Signed(m)], balance <- onHand

\* The sums of the card's module, and of its theory, are the sums of the ledger.
LEMMA CardSums ==
  ASSUME NEW f
  PROVE  /\ \A S : Card!SumFunctionOnSet(f, S) = SumFunctionOnSet(f, S)
         /\ \A S : Theory!SumFunctionOnSet(f, S) = SumFunctionOnSet(f, S)
         /\ Card!SumFunction(f) = SumFunction(f)
         /\ Theory!SumFunction(f) = SumFunction(f)
<1>1. ASSUME NEW S PROVE Card!SumFunctionOnSet(f, S) = SumFunctionOnSet(f, S)
  <2>1. Card!SumFunctionOnSet(f, S) = SumTable(f, S)[S]
    BY Zenon DEF Card!SumFunctionOnSet, Card!FoldFunctionOnSet, Card!MapThenFoldSet,
                 SumTable, Pick
  <2> QED
    BY <2>1, SumIsTable
<1>2. ASSUME NEW S PROVE Theory!SumFunctionOnSet(f, S) = SumFunctionOnSet(f, S)
  <2>1. Theory!SumFunctionOnSet(f, S) = SumTable(f, S)[S]
    BY Zenon DEF Theory!SumFunctionOnSet, Theory!FoldFunctionOnSet,
                 Theory!MapThenFoldSet, SumTable, Pick
  <2> QED
    BY <2>1, SumIsTable
<1> QED
  BY <1>1, <1>2 DEF SumFunction, Card!SumFunction, Theory!SumFunction

\* So are their finite sets.
LEMMA CardFinite ==
  ASSUME NEW S
  PROVE  /\ Card!IsFiniteSet(S) <=> IsFiniteSet(S)
         /\ Theory!IsFiniteSet(S) <=> IsFiniteSet(S)
  BY Zenon DEF IsFiniteSet, Card!IsFiniteSet, Theory!IsFiniteSet

\* The card of the ledger is the signed quantities of its journal.
LEMMA CardOfJournal ==
  ASSUME Journal(moves)
  PROVE  /\ [m \in DOMAIN moves |-> Signed(m)] = Gains(moves)
         /\ DOMAIN Gains(moves) = DOMAIN moves
         /\ \A m \in DOMAIN moves : Gains(moves)[m] = Gain(moves[m])
                                    /\ Gain(moves[m]) \in Int
  BY DEF Gains, Gain, Signed, Journal, Move

-----------------------------------------------------------------------------
\* The bound on the ids is no part of the argument: an id is new and last.
LEMMA PostingEnters ==
  ASSUME StockInv, NEW v \in Move,
         moves' = Put(moves, NextId(DOMAIN moves
                            \cup DOMAIN Backfill(layers, onHand, avg)), v),
         onHand' = onHand + Gain(v),
         Gain(v) < 0 => onHand + Gain(v) >= 0 \/ AllowNegative
  PROVE  Card!Next
<1> DEFINE ls0 == Backfill(layers, onHand, avg)
           k == NextId(DOMAIN moves \cup DOMAIN ls0)
           c == [m \in DOMAIN moves |-> Signed(m)]
<1>1. /\ Ids(DOMAIN moves) /\ Books(layers, cons, recs, DOMAIN moves)
      /\ onHand \in Int /\ avg \in Nat /\ Journal(moves)
  BY DEF StockInv, Journal
<1>2. Ids(DOMAIN ls0)
  <2>1. Books(ls0, cons, recs, DOMAIN moves)
    BY <1>1, BackfillBooks
  <2> QED
    BY <2>1 DEF Books
<1>3. k \in Nat /\ (\A m \in DOMAIN moves : m < k) /\ DOMAIN moves \in SUBSET Nat
  <2> DEFINE all == DOMAIN moves \cup DOMAIN ls0
  <2>1. IsFiniteSet(all) /\ all \in SUBSET Nat
    BY <1>1, <1>2, FS_Union DEF Ids
  <2>2. NextId(all) \in Nat \ {0} /\ \A n \in all : n < NextId(all)
    BY <2>1, NextIdNew
  <2> QED
    BY <1>1, <2>2 DEF Ids
<1>4. moves' = Put(moves, k, v)
  OBVIOUS
<1> HIDE DEF k, ls0
<1>5. /\ DOMAIN moves' = DOMAIN moves \cup {k} /\ moves'[k] = v
      /\ \A m \in DOMAIN moves : m # k /\ moves'[m] = moves[m]
  <2>1. k \notin DOMAIN moves
    BY <1>3
  <2> QED
    BY <1>4, <2>1 DEF Put
<1>6. /\ c' = [m \in DOMAIN moves' |-> Gain(moves'[m])]
      /\ c = [m \in DOMAIN moves |-> Gain(moves[m])]
  BY DEF Signed, Gain
<1>7. DOMAIN c = DOMAIN moves /\ DOMAIN c' = DOMAIN moves'
  OBVIOUS
<1> DEFINE q == Gain(v)
<1>8. q \in Int
  BY DEF Gain, Move
<1>9. c' = [m \in DOMAIN moves \cup {k} |-> IF m = k THEN q ELSE c[m]] /\ c'[k] = q
  BY <1>5, <1>6
<1>10. k \in DOMAIN c' \ DOMAIN c
  <2>1. k \notin DOMAIN moves /\ k \in DOMAIN moves'
    BY <1>3, <1>5
  <2> QED
    BY <1>7, <2>1
<1>11. Card!Enters(k, c'[k])
  BY <1>3, <1>7, <1>8, <1>9 DEF Card!Enters
<1> QED
  BY <1>10, <1>11 DEF Card!Next

\* A reversal strikes its movement out of the card: the replay of what is left
\* is the balance less that movement, and the guard on later issues is the card's.
LEMMA UnpostStrikesOut ==
  ASSUME StockInv, NEW m \in DOMAIN moves, UnpostDocument(m)
  PROVE  Card!Next
<1> DEFINE c == [k \in DOMAIN moves |-> Signed(k)]
           D == DOMAIN moves
<1>1. Journal(moves) /\ onHand = SumFunction(Gains(moves)) /\ Ids(D)
  BY DEF StockInv, Journal
<1>2. /\ c = Gains(moves) /\ DOMAIN c = D
      /\ \A k \in D : c[k] = Gain(moves[k]) /\ c[k] \in Int
  BY <1>1, CardOfJournal
<1>3. moves' = Dropped(moves, m) /\ onHand' = Balance(D \ {m}) /\ NoDependents(m)
  BY DEF UnpostDocument
<1>4. SumFunctionOnSet(c, D) = c[m] + SumFunctionOnSet(c, D \ {m})
  <2> HIDE DEF c
  <2> QED
    BY <1>1, <1>2, SumRemove DEF Ids
<1>5. SumFunctionOnSet(c, D \ {m}) \in Int
  <2>1. IsFiniteSet(D \ {m}) /\ \A k \in D \ {m} : c[k] \in Int
    BY <1>1, <1>2, FS_RemoveElement DEF Ids
  <2> HIDE DEF c
  <2> QED
    BY <2>1, SumInt
<1>6. onHand' = onHand - c[m]
  <2>1. onHand = SumFunctionOnSet(c, D)
    BY <1>1, <1>2 DEF SumFunction
  <2>2. onHand' = SumFunctionOnSet(c, D \ {m})
    BY <1>1, <1>2, <1>3, BalanceIsNet
  <2>3. c[m] \in Int
    BY <1>2
  <2> HIDE DEF c
  <2> QED
    BY <1>4, <1>5, <2>1, <2>2, <2>3
<1>7. c' = [k \in D \ {m} |-> c[k]]
  <2>1. c' = [k \in DOMAIN moves' |-> Gain(moves'[k])]
    BY DEF Signed, Gain
  <2>2. DOMAIN moves' = D \ {m} /\ \A k \in D \ {m} : moves'[k] = moves[k]
    BY <1>3 DEF Dropped
  <2> QED
    BY <1>2, <2>1, <2>2
<1>8. ASSUME c[m] > 0, NEW k \in D, k > m PROVE c[k] >= 0
  <2>1. moves[m].type \in InboundTypes
    <3>1. moves[m].qty \in Nat
      BY <1>1 DEF Journal, Move
    <3> QED
      BY <1>2, <1>8, <3>1 DEF Gain
  <2>2. moves[k].type \in InboundTypes /\ moves[k].qty \in Nat
    BY <1>1, <1>3, <1>8, <2>1 DEF NoDependents, Journal, Move
  <2> QED
    BY <1>2, <2>2 DEF Gain
<1>9. Card!StrikesOut(m)
  BY <1>2, <1>6, <1>7, <1>8 DEF Card!StrikesOut
<1> QED
  BY <1>2, <1>9 DEF Card!Next

-----------------------------------------------------------------------------
\* Each kind of posting records one movement of its type, and an issue looks
\* at the balance first.
LEMMA InboundEnters ==
  ASSUME StockInv, NEW type \in InboundTypes, NEW ref \in References,
         NEW q \in Nat, NEW cost \in Nat, NEW date, Inbound(type, ref, q, cost, date)
  PROVE  Card!Next
<1> DEFINE v == [type |-> type, ref |-> ref, qty |-> q, cost |-> cost,
                 total |-> Cents(q * cost)]
<1>1. Cents(q * cost) \in Nat
  <2> DEFINE p == q * cost
  <2>1. p \in Nat
    OBVIOUS
  <2> HIDE DEF p
  <2>2. Cents(p) \in Nat
    BY <2>1, QuantizeType DEF Cents
  <2> QED
    BY <2>2 DEF p
<1>2. v \in Move /\ Gain(v) = q
  BY <1>1 DEF Move, Gain
<1>3. /\ moves' = Put(moves, NextId(DOMAIN moves
                            \cup DOMAIN Backfill(layers, onHand, avg)), v)
      /\ onHand' = onHand + q
  BY Zenon DEF Inbound
<1> HIDE DEF v
<1> QED
  BY <1>2, <1>3, PostingEnters

LEMMA OutboundEnters ==
  ASSUME StockInv, NEW type \in OutboundTypes, NEW ref \in References,
         NEW q \in Nat \ {0}, NEW date \in Nat \ {0}, Outbound(type, ref, q, date)
  PROVE  Card!Next
<1> DEFINE Recorded(v) ==
             moves' = Put(moves, NextId(DOMAIN moves
                                 \cup DOMAIN Backfill(layers, onHand, avg)), v)
<1>a. PICK cost, total : Recorded([type |-> type, ref |-> ref, qty |-> q,
                                  cost |-> cost, total |-> total])
  BY Zenon DEF Outbound
<1>1. PICK v : v.type = type /\ v.qty = q /\ Recorded(v)
  BY <1>a
<1>2. /\ onHand' = onHand - q /\ onHand \in Int
      /\ q <= onHand \/ AllowNegative
  BY DEF Outbound, StockInv
<1>3. v \in Move
  <2>1. Journal(moves)' /\ moves'[NextId(DOMAIN moves
                              \cup DOMAIN Backfill(layers, onHand, avg))] = v
    BY <1>1, OutboundStep DEF StockInv, Put
  <2>2. NextId(DOMAIN moves \cup DOMAIN Backfill(layers, onHand, avg)) \in DOMAIN moves'
    BY <1>1 DEF Put
  <2> QED
    BY <2>1, <2>2 DEF Journal
<1>4. Gain(v) = -q
  BY <1>1 DEF Gain, InboundTypes, OutboundTypes
<1>5. /\ onHand' = onHand + Gain(v)
      /\ Gain(v) < 0 => onHand + Gain(v) >= 0 \/ AllowNegative
  BY <1>2, <1>4
<1> QED
  BY <1>1, <1>3, <1>5, PostingEnters

LEMMA ReturnEnters ==
  ASSUME StockInv, NEW o \in DOMAIN moves, NEW q \in Nat \ {0}, NEW date \in Nat,
         PostReturn(o, q, date)
  PROVE  Card!Next
<1> DEFINE Recorded(v) ==
             moves' = Put(moves, NextId(DOMAIN moves
                                 \cup DOMAIN Backfill(layers, onHand, avg)), v)
<1>a. PICK cost, total : Recorded([type |-> "RETURN_IN", ref |-> "DOCUMENT", qty |-> q,
                                  cost |-> cost, total |-> total])
  BY Zenon DEF PostReturn
<1>1. PICK v : v.type = "RETURN_IN" /\ v.qty = q /\ Recorded(v)
  BY <1>a
<1>2. onHand' = onHand + q
  BY DEF PostReturn
<1>3. v \in Move
  <2>1. Journal(moves)' /\ moves'[NextId(DOMAIN moves
                              \cup DOMAIN Backfill(layers, onHand, avg))] = v
    BY <1>1, ReturnStep DEF StockInv, Put
  <2>2. NextId(DOMAIN moves \cup DOMAIN Backfill(layers, onHand, avg)) \in DOMAIN moves'
    BY <1>1 DEF Put
  <2> QED
    BY <2>1, <2>2 DEF Journal
<1>4. Gain(v) = q
  BY <1>1 DEF Gain, InboundTypes
<1> QED
  BY <1>1, <1>2, <1>3, <1>4, PostingEnters

LEMMA TransferInEnters ==
  ASSUME IInv, TransferIn
  PROVE  Card!Next
<1> DEFINE Recorded(v) ==
             moves' = Put(moves, NextId(DOMAIN moves
                                 \cup DOMAIN Backfill(layers, onHand, avg)), v)
<1>a. PICK cost, total : Recorded([type |-> "IN", ref |-> "TRANSFER", qty |-> transfer.qty,
                                  cost |-> cost, total |-> total])
  BY Zenon DEF TransferIn
<1>1. PICK v : v.type = "IN" /\ v.qty = transfer.qty /\ Recorded(v)
  BY <1>a
<1>2. onHand' = onHand + transfer.qty /\ transfer.qty \in Nat /\ StockInv
  BY DEF TransferIn, IInv
<1>3. v \in Move
  <2>1. Journal(moves)' /\ moves'[NextId(DOMAIN moves
                              \cup DOMAIN Backfill(layers, onHand, avg))] = v
    BY <1>1, TransferInStep DEF IInv, StockInv, Put
  <2>2. NextId(DOMAIN moves \cup DOMAIN Backfill(layers, onHand, avg)) \in DOMAIN moves'
    BY <1>1 DEF Put
  <2> QED
    BY <2>1, <2>2 DEF Journal
<1>4. Gain(v) = transfer.qty
  BY <1>1 DEF Gain, InboundTypes
<1> QED
  BY <1>1, <1>2, <1>3, <1>4, PostingEnters

\* Every step of the ledger is a step of the card, or leaves it alone.
LEMMA StepOfCard ==
  ASSUME IInv, [Next]_vars
  PROVE  [Card!Next]_<<[m \in DOMAIN moves |-> Signed(m)], onHand>>
<1>0. StockInv /\ onHand \in Int /\ avg \in Nat
  BY DEF IInv, StockInv
<1>1. ASSUME NEW q \in Qtys, NEW cost \in Costs, NEW date \in Dates,
             PostReceipt(q, cost, date)
      PROVE  Card!Next
  <2>1. /\ q \in Nat /\ cost \in Nat
        /\ "IN" \in InboundTypes /\ "DOCUMENT" \in References
    BY ConstantsAssumption DEF InboundTypes, References
  <2> QED
    BY <1>0, <1>1, <2>1, InboundEnters DEF PostReceipt
<1>2. ASSUME NEW type \in {"OUT", "RETURN_OUT"}, NEW q \in Qtys, NEW date \in Dates,
             PostIssue(type, q, date)
      PROVE  Card!Next
  <2>1. /\ q \in Nat \ {0} /\ date \in Nat \ {0}
        /\ type \in OutboundTypes /\ "DOCUMENT" \in References
    BY ConstantsAssumption DEF OutboundTypes, References
  <2> QED
    BY <1>0, <1>2, <2>1, OutboundEnters DEF PostIssue
<1>3. ASSUME NEW q \in Qtys, NEW date \in Dates, PostReturnAtAverage(q, date)
      PROVE  Card!Next
  <2>1. /\ q \in Nat
        /\ "RETURN_IN" \in InboundTypes /\ "DOCUMENT" \in References
    BY ConstantsAssumption DEF InboundTypes, References
  <2> QED
    BY <1>0, <1>3, <2>1, InboundEnters DEF PostReturnAtAverage
<1>4. ASSUME NEW o \in DOMAIN moves, NEW q \in Qtys, NEW date \in Dates,
             PostReturn(o, q, date)
      PROVE  Card!Next
  <2>1. q \in Nat \ {0} /\ date \in Nat
    BY ConstantsAssumption
  <2> QED
    BY <1>0, <1>4, <2>1, ReturnEnters
<1>5. ASSUME NEW counted \in Counts, NEW date \in Dates, PostStocktake(counted, date)
      PROVE  Card!Next
  <2>1. /\ counted \in Nat /\ date \in Nat \ {0}
        /\ "ADJUST_IN" \in InboundTypes /\ "ADJUST_OUT" \in OutboundTypes
        /\ "STOCKTAKE" \in References
    BY ConstantsAssumption DEF InboundTypes, OutboundTypes, References
  <2>2. CASE counted > onHand
    <3>1. Inbound("ADJUST_IN", "STOCKTAKE", counted - onHand, avg, date)
      BY <1>5, <2>2 DEF PostStocktake
    <3>2. counted - onHand \in Nat
      BY <1>0, <2>1, <2>2
    <3> QED
      BY <1>0, <2>1, <3>1, <3>2, InboundEnters
  <2>3. CASE ~(counted > onHand)
    <3>1. Outbound("ADJUST_OUT", "STOCKTAKE", onHand - counted, date) /\ counted # onHand
      BY <1>5, <2>3 DEF PostStocktake
    <3>2. onHand - counted \in Nat \ {0}
      BY <1>0, <2>1, <2>3, <3>1
    <3> QED
      BY <1>0, <2>1, <3>1, <3>2, OutboundEnters
  <2> QED
    BY <2>2, <2>3
<1>6. ASSUME NEW q \in Qtys, NEW date \in Dates, TransferOut(q, date)
      PROVE  Card!Next
  <2>1. /\ q \in Nat \ {0} /\ date \in Nat \ {0}
        /\ "OUT" \in OutboundTypes /\ "TRANSFER" \in References
    BY ConstantsAssumption DEF OutboundTypes, References
  <2> QED
    BY <1>0, <1>6, <2>1, OutboundEnters DEF TransferOut
<1>7. ASSUME TransferIn PROVE Card!Next
  BY <1>7, TransferInEnters
<1>8. ASSUME NEW m \in DOMAIN moves, UnpostDocument(m) PROVE Card!Next
  BY <1>0, <1>8, UnpostStrikesOut
<1>9. CASE UNCHANGED vars
  BY <1>9 DEF vars, Signed
<1> QED
  BY <1>1, <1>2, <1>3, <1>4, <1>5, <1>6, <1>7, <1>8, <1>9 DEF Next, Post

\* Stock older than the layers is a card brought forward.
LEMMA InitOfCard == ASSUME Init PROVE Card!Init
<1> DEFINE c == [m \in DOMAIN moves |-> Signed(m)]
<1>1. /\ Journal(moves) /\ onHand = SumFunction(Gains(moves))
      /\ DOMAIN moves \in SUBSET Nat /\ IsFiniteSet(DOMAIN moves)
  BY InitStock DEF IInv, StockInv, Journal, Ids
<1>2. PICK first \in LegacyIn, second \in LegacyIn, out \in LegacyOut,
           cost1 \in Costs, cost2 \in Costs :
        /\ out <= first + second
        /\ onHand = first + second - out
        /\ moves = LegacyMoves(first, second, out, cost1, cost2)
  BY DEF Init
<1>3. /\ first \in Nat /\ second \in Nat /\ out \in Nat
      /\ cost1 \in Nat /\ cost2 \in Nat
  BY ConstantsAssumption
<1>4. /\ c = Gains(moves) /\ DOMAIN c = DOMAIN moves
      /\ \A m \in DOMAIN c : c[m] \in Int
  BY <1>1, CardOfJournal
<1>5. /\ \A m : m \in DOMAIN moves
                  <=> (m = 1 /\ first > 0) \/ (m = 2 /\ second > 0) \/ (m = 3 /\ out > 0)
      /\ \A m \in DOMAIN c :
           c[m] = IF m = 1 THEN first ELSE IF m = 2 THEN second ELSE -out
  <2>1. \A m : m \in DOMAIN moves
               <=> (m = 1 /\ first > 0) \/ (m = 2 /\ second > 0) \/ (m = 3 /\ out > 0)
    BY <1>2, <1>3, LegacyProduct
  <2>2. \A m \in DOMAIN moves :
          /\ moves[m].type = IF m = 3 THEN "OUT" ELSE "IN"
          /\ moves[m].qty = IF m = 1 THEN first ELSE IF m = 2 THEN second ELSE out
    BY <1>2, <1>3, LegacyProduct
  <2> QED
    BY <2>1, <2>2 DEF Signed, InboundTypes
<1> HIDE DEF c
<1>6. ASSUME NEW n \in DOMAIN c
      PROVE  SumFunctionOnSet(c, {k \in DOMAIN c : k <= n}) >= 0
  <2> DEFINE S == {k \in DOMAIN c : k <= n}
             v1 == IF 1 \in S THEN c[1] ELSE 0
             v2 == IF 2 \in S THEN c[2] ELSE 0
             v3 == IF 3 \in S THEN c[3] ELSE 0
  <2> DEFINE S2 == S \ {1}
             S3 == S2 \ {2}
             S4 == S3 \ {3}
  <2>1. IsFiniteSet(S) /\ \A x \in S : c[x] \in Int
    <3>1. S \subseteq DOMAIN c /\ IsFiniteSet(DOMAIN c)
      BY <1>1, <1>4
    <3>2. IsFiniteSet(S)
      BY <3>1, FS_Subset
    <3> QED
      BY <1>4, <3>1, <3>2
  <2>2. SumFunctionOnSet(c, S) = v1 + v2 + v3
    <3>1. S2 = S \ {1} /\ S3 = S2 \ {2} /\ S4 = S3 \ {3} /\ S4 = {}
      BY <1>4, <1>5
    <3>2. /\ v1 \in Int /\ v2 \in Int /\ v3 \in Int
          /\ (1 \in S => v1 = c[1]) /\ (1 \notin S => v1 = 0)
          /\ (2 \in S2 => v2 = c[2]) /\ (2 \notin S2 => v2 = 0)
          /\ (3 \in S3 => v3 = c[3]) /\ (3 \notin S3 => v3 = 0)
      BY <2>1
    <3> HIDE DEF S, S2, S3, S4, v1, v2, v3
    <3> QED
      <4>1. /\ SumFunctionOnSet(c, S) = v1 + SumFunctionOnSet(c, S2)
            /\ IsFiniteSet(S2) /\ \A y \in S2 : c[y] \in Int
        BY <2>1, <3>1, <3>2, SumApart
      <4>2. /\ SumFunctionOnSet(c, S2) = v2 + SumFunctionOnSet(c, S3)
            /\ IsFiniteSet(S3) /\ \A y \in S3 : c[y] \in Int
        BY <3>1, <3>2, <4>1, SumApart
      <4>3. /\ SumFunctionOnSet(c, S3) = v3 + SumFunctionOnSet(c, S4)
            /\ IsFiniteSet(S4) /\ \A y \in S4 : c[y] \in Int
        BY <3>1, <3>2, <4>2, SumApart
      <4>4. SumFunctionOnSet(c, S4) = 0
        BY <3>1, SumEmpty
      <4> QED
        BY <3>2, <4>1, <4>2, <4>3, <4>4
  <2> HIDE DEF S, v1, v2, v3
  <2>3. CASE n = 3
    <3>1. S = DOMAIN c
      BY <1>4, <1>5, <2>3 DEF S
    <3>2. v1 = first /\ v2 = second /\ v3 = -out
      BY <1>3, <1>4, <1>5, <3>1 DEF v1, v2, v3
    <3> QED
      BY <1>2, <1>3, <2>2, <3>2 DEF S
  <2>4. CASE n # 3
    <3>1. v3 = 0 /\ v1 \in Nat /\ v2 \in Nat
      BY <1>3, <1>4, <1>5, <1>6, <2>4 DEF S, v1, v2, v3
    <3> QED
      BY <2>2, <3>1 DEF S
  <2> QED
    BY <2>3, <2>4
<1>7. onHand = SumFunction(c) /\ onHand >= 0
  <2>1. onHand >= 0
    BY <1>2, <1>3
  <2> QED
    BY <1>1, <1>4, <2>1
<1> QED
  BY <1>1, <1>4, <1>6, <1>7, CardSums, CardFinite DEF c, Card!Init, Card!After

\* The cost ledger, layers, fills and journals included, implements the stock
\* card: no posting or reversal moves the balance by anything but its own
\* quantity, or takes out of the journal what a later issue relies on.
THEOREM LedgerImplementsCard == Spec => ImplementsCard
<1>1. Init => Card!Init
  BY InitOfCard
<1>2. IInv /\ [Next]_vars
        => [Card!Next]_<<[m \in DOMAIN moves |-> Signed(m)], onHand>>
  BY StepOfCard
<1> QED
  BY <1>1, <1>2, Invariant, PTL DEF Spec, ImplementsCard, Card!Spec

\* Where negative stock is refused the balance of a product never goes below
\* zero, although reverse_stock_movements never looks at the balance.
THEOREM BalanceNeverNegative == Spec => [](~AllowNegative => onHand >= 0)
<1> DEFINE c == [m \in DOMAIN moves |-> Signed(m)]
<1>1. Card!Init => Theory!Init
  <2>1. Card!SumFunction(c) = Theory!SumFunction(c)
    BY CardSums
  <2>2. ASSUME NEW n PROVE Card!After(n) = Theory!After(n)
    BY CardSums DEF Card!After, Theory!After
  <2>3. Card!IsFiniteSet(DOMAIN c) <=> Theory!IsFiniteSet(DOMAIN c)
    BY CardFinite
  <2> QED
    BY <2>1, <2>2, <2>3 DEF Card!Init, Theory!Init
<1>2. [Card!Next]_<<c, onHand>> => [Theory!Next]_<<c, onHand>>
  BY Zenon DEF Card!Next, Card!Enters, Card!StrikesOut,
               Theory!Next, Theory!Enters, Theory!StrikesOut
<1>3. Theory!Spec => []Theory!NeverBelowZero
  BY Theory!CardNeverBelowZero
<1>4. Theory!NeverBelowZero => (~AllowNegative => onHand >= 0)
  BY DEF Theory!NeverBelowZero
<1> QED
  BY <1>1, <1>2, <1>3, <1>4, LedgerImplementsCard, PTL
     DEF ImplementsCard, Card!Spec, Theory!Spec

-----------------------------------------------------------------------------
(***************************************************************************)
(* 4. The four ledgers                                                     *)
(***************************************************************************)
\* Raising the entries of a table by those of another raises its sum by theirs.
LEMMA SumShift ==
  ASSUME NEW f, IsFiniteSet(DOMAIN f), \A x \in DOMAIN f : f[x] \in Int,
         NEW h, DOMAIN h \subseteq DOMAIN f, \A x \in DOMAIN h : h[x] \in Int,
         NEW g, DOMAIN g = DOMAIN f, \A x \in DOMAIN f : g[x] = f[x] + At(h, x)
  PROVE  /\ SumFunction(f) \in Int /\ SumFunction(h) \in Int
         /\ SumFunction(g) = SumFunction(f) + SumFunction(h)
<1> DEFINE D == DOMAIN f
           T == DOMAIN h
           e == [x \in D |-> At(h, x)]
<1>1. \A x \in D : e[x] = At(h, x) /\ e[x] \in Int
  BY DEF At
<1> HIDE DEF e
<1>2. SumFunctionOnSet(g, D) = SumFunctionOnSet(f, D) + SumFunctionOnSet(e, D)
  BY <1>1, SumPlus
<1>3. IsFiniteSet(T) /\ IsFiniteSet(D \ T) /\ T \cap (D \ T) = {} /\ T \cup (D \ T) = D
  BY FS_Subset
<1>4. SumFunctionOnSet(e, D) = SumFunctionOnSet(e, T) + SumFunctionOnSet(e, D \ T)
  <2>1. \A x \in T \cup (D \ T) : e[x] \in Int
    BY <1>1, <1>3
  <2> HIDE DEF D, T
  <2>2. SumFunctionOnSet(e, T \cup (D \ T))
          = SumFunctionOnSet(e, T) + SumFunctionOnSet(e, D \ T)
    BY <1>3, <2>1, SumUnion
  <2> QED
    BY <1>3, <2>2
<1>5. SumFunctionOnSet(e, D \ T) = 0
  <2>1. \A x \in D \ T : e[x] = 0
    BY <1>1 DEF At
  <2> QED
    BY <1>3, <2>1, SumZero
<1>6. SumFunctionOnSet(e, T) = SumFunctionOnSet(h, T)
  <2>1. \A x \in T : e[x] \in Int /\ e[x] = h[x]
    BY <1>1 DEF At
  <2> QED
    BY <1>3, <2>1, SumAgree
<1>7. /\ SumFunctionOnSet(f, D) \in Int /\ SumFunctionOnSet(h, T) \in Int
  BY <1>3, SumInt
<1> QED
  BY <1>2, <1>4, <1>5, <1>6, <1>7 DEF SumFunction

\* What adds nothing may be left out of a sum.
LEMMA SumNonzero ==
  ASSUME NEW f, NEW S, IsFiniteSet(S), \A x \in S : f[x] \in Int,
         NEW T \in SUBSET S, \A x \in S \ T : f[x] = 0
  PROVE  /\ SumFunctionOnSet(f, T) = SumFunctionOnSet(f, S)
         /\ SumFunctionOnSet(f, T) \in Int
<1>1. IsFiniteSet(T) /\ IsFiniteSet(S \ T) /\ T \cap (S \ T) = {} /\ T \cup (S \ T) = S
  BY FS_Subset
<1>2. SumFunctionOnSet(f, T \cup (S \ T))
        = SumFunctionOnSet(f, T) + SumFunctionOnSet(f, S \ T)
  BY <1>1, SumUnion
<1>3. SumFunctionOnSet(f, S \ T) = 0 /\ SumFunctionOnSet(f, T) \in Int
  BY <1>1, SumZero, SumInt
<1>4. SumFunctionOnSet(f, S) = SumFunctionOnSet(f, T) + 0
  BY <1>1, <1>2, <1>3, Zenon
<1> QED
  BY <1>3, <1>4

-----------------------------------------------------------------------------
\* What the rows of movement m say it took or filled, over all layers.
Spent(rows, m) == SumFunction(RowsOf(rows, m))

\* Over any set of layers that has them all, the rows of m may be summed by
\* layer, a layer without a row counting nothing.
LEMMA SpentIs ==
  ASSUME NEW rows, NEW ids, NEW ls, RowTable(rows, ids, ls), Ids(DOMAIN ls), NEW m,
         NEW S, IsFiniteSet(S), DOMAIN ls \subseteq S
  PROVE  /\ Spent(rows, m) = SumFunctionOnSet([l \in S |-> QtyAt(rows, <<m, l>>)], S)
         /\ Spent(rows, m) \in Nat
<1> DEFINE f == RowsOf(rows, m)
           g == [l \in S |-> QtyAt(rows, <<m, l>>)]
           T == DOMAIN f
<1>1. /\ T \subseteq DOMAIN ls
      /\ \A l \in DOMAIN ls : l \in T <=> <<m, l>> \in DOMAIN rows
      /\ IsFiniteSet(T)
      /\ \A l \in T : f[l] \in Nat
      /\ \A l \in T : f[l] = QtyAt(rows, <<m, l>>)
      /\ SumFunction(f) \in Nat
  BY RowsOfTable
<1>2. \A l \in S : g[l] = QtyAt(rows, <<m, l>>) /\ g[l] \in Int
  BY QtyAtNat
<1>3. \A l \in S \ T : g[l] = 0
  <2>1. \A l : <<m, l>> \in DOMAIN rows => l \in DOMAIN ls
    BY DEF RowTable
  <2> HIDE DEF f, g
  <2> QED
    BY <1>1, <1>2, <2>1 DEF QtyAt
<1> HIDE DEF f, g
<1>4. SumFunctionOnSet(g, T) = SumFunctionOnSet(g, S)
  <2>1. T \in SUBSET S
    BY <1>1
  <2> HIDE DEF T
  <2> QED
    BY <1>2, <1>3, <2>1, SumNonzero
<1>5. SumFunctionOnSet(f, T) = SumFunctionOnSet(g, T)
  <2>1. \A l \in T : f[l] \in Int /\ f[l] = g[l]
    BY <1>1, <1>2
  <2> QED
    BY <1>1, <2>1, SumAgree
<1> QED
  BY <1>1, <1>4, <1>5 DEF Spent, SumFunction, f, g

\* Rows of m that differ by a table differ by the sum of the table.
LEMMA SpentShift ==
  ASSUME NEW rows, NEW ids, NEW ls, RowTable(rows, ids, ls), Ids(DOMAIN ls),
         NEW rows2, NEW ids2, NEW ls2, RowTable(rows2, ids2, ls2), Ids(DOMAIN ls2),
         NEW m, NEW S, IsFiniteSet(S), DOMAIN ls \subseteq S, DOMAIN ls2 \subseteq S,
         NEW h, DOMAIN h \subseteq S, \A l \in DOMAIN h : h[l] \in Int,
         \A l \in S :
           QtyAt(rows2, <<m, l>>) = QtyAt(rows, <<m, l>>) + At(h, l)
  PROVE  /\ Spent(rows2, m) = Spent(rows, m) + SumFunction(h)
         /\ Spent(rows2, m) \in Nat /\ Spent(rows, m) \in Nat /\ SumFunction(h) \in Int
<1> DEFINE f == [l \in S |-> QtyAt(rows, <<m, l>>)]
           g == [l \in S |-> QtyAt(rows2, <<m, l>>)]
<1>2. /\ Spent(rows, m) = SumFunctionOnSet(f, S) /\ Spent(rows, m) \in Nat
      /\ Spent(rows2, m) = SumFunctionOnSet(g, S) /\ Spent(rows2, m) \in Nat
  BY SpentIs
<1>3. /\ DOMAIN f = S /\ DOMAIN g = S
      /\ \A l \in S : f[l] \in Int /\ g[l] = f[l] + At(h, l)
  BY QtyAtNat
<1> HIDE DEF f, g
<1>4. DOMAIN h \subseteq DOMAIN f
  BY <1>3
<1>5. SumFunction(g) = SumFunction(f) + SumFunction(h) /\ SumFunction(h) \in Int
  BY <1>3, <1>4, SumShift
<1> QED
  BY <1>2, <1>3, <1>5 DEF SumFunction

\* The rows on layer l, summed by movement over any set that has them all.
LEMMA ConsumedIs ==
  ASSUME NEW rows, NEW ids, NEW ls, RowTable(rows, ids, ls), Ids(ids), NEW l,
         NEW S, IsFiniteSet(S), ids \subseteq S
  PROVE  /\ Consumed(rows, l) = SumFunctionOnSet([m \in S |-> QtyAt(rows, <<m, l>>)], S)
         /\ Consumed(rows, l) \in Nat
<1> DEFINE f == RowsOn(rows, l)
           g == [m \in S |-> QtyAt(rows, <<m, l>>)]
           T == DOMAIN f
<1>1. /\ T \subseteq ids
      /\ \A m \in ids : m \in T <=> <<m, l>> \in DOMAIN rows
      /\ IsFiniteSet(T)
      /\ \A m \in T : f[m] \in Nat
      /\ \A m \in T : f[m] = rows[<<m, l>>].qty
      /\ Consumed(rows, l) \in Nat
  BY RowsOnTable
<1>2. \A m \in S : g[m] = QtyAt(rows, <<m, l>>) /\ g[m] \in Int
  BY QtyAtNat
<1>3. \A m \in S \ T : g[m] = 0
  <2>1. \A m : <<m, l>> \in DOMAIN rows => m \in ids
    BY DEF RowTable
  <2> HIDE DEF f, g
  <2> QED
    BY <1>1, <1>2, <2>1 DEF QtyAt
<1> HIDE DEF f, g
<1>4. SumFunctionOnSet(g, T) = SumFunctionOnSet(g, S)
  <2>1. T \in SUBSET S
    BY <1>1
  <2> HIDE DEF T
  <2> QED
    BY <1>2, <1>3, <2>1, SumNonzero
<1>5. SumFunctionOnSet(f, T) = SumFunctionOnSet(g, T)
  <2>1. \A m \in T : f[m] \in Int /\ f[m] = g[m]
    BY <1>1, <1>2 DEF QtyAt
  <2> QED
    BY <1>1, <2>1, SumAgree
<1> QED
  BY <1>1, <1>4, <1>5 DEF Consumed, SumFunction, f, g

\* Rows that differ at one movement hold of a layer what differs there.
LEMMA ConsumedShift ==
  ASSUME NEW rows, NEW ids, NEW ls, RowTable(rows, ids, ls), Ids(ids),
         NEW rows2, NEW ids2, NEW ls2, RowTable(rows2, ids2, ls2), Ids(ids2),
         NEW m, NEW l,
         \A k \in (ids \cup ids2) \ {m} :
           QtyAt(rows2, <<k, l>>) = QtyAt(rows, <<k, l>>)
  PROVE  /\ Consumed(rows2, l)
              = Consumed(rows, l) - QtyAt(rows, <<m, l>>) + QtyAt(rows2, <<m, l>>)
         /\ Consumed(rows, l) \in Nat /\ Consumed(rows2, l) \in Nat
         /\ QtyAt(rows, <<m, l>>) \in Nat /\ QtyAt(rows2, <<m, l>>) \in Nat
<1> DEFINE S == (ids \cup ids2) \cup {m}
           f == [k \in S |-> QtyAt(rows, <<k, l>>)]
           g == [k \in S |-> QtyAt(rows2, <<k, l>>)]
<1>1. IsFiniteSet(S)
  <2>1. IsFiniteSet(ids \cup ids2)
    BY FS_Union DEF Ids
  <2> QED
    BY <2>1, FS_AddElement
<1>2. /\ Consumed(rows, l) = SumFunctionOnSet(f, S) /\ Consumed(rows, l) \in Nat
      /\ Consumed(rows2, l) = SumFunctionOnSet(g, S) /\ Consumed(rows2, l) \in Nat
  <2>1. ids \subseteq S /\ ids2 \subseteq S
    OBVIOUS
  <2> HIDE DEF S
  <2> QED
    BY <1>1, <2>1, ConsumedIs
<1>3. QtyAt(rows, <<m, l>>) \in Nat /\ QtyAt(rows2, <<m, l>>) \in Nat
  BY QtyAtNat
<1>4. /\ DOMAIN f = S /\ DOMAIN g = S
      /\ \A k \in S : f[k] \in Int /\ g[k] \in Int
      /\ \A k \in S \ {m} : f[k] = g[k]
      /\ At(f, m) = QtyAt(rows, <<m, l>>) /\ At(g, m) = QtyAt(rows2, <<m, l>>)
  BY QtyAtNat DEF At
<1> HIDE DEF f, g, S
<1>5. SumFunction(g) = SumFunction(f) - At(f, m) + At(g, m)
  BY <1>1, <1>4, SumDelta
<1> QED
  BY <1>2, <1>3, <1>4, <1>5 DEF SumFunction

-----------------------------------------------------------------------------
\* Table rows2 has the rows of rows and those of movement m, which took taken.
Adds(rows2, rows, ids, ls, m, taken) ==
  /\ RowTable(rows2, ids \cup {m}, ls)
  /\ \A l : /\ Consumed(rows2, l) = Consumed(rows, l) + At(taken, l)
            /\ Consumed(rows, l) \in Nat /\ At(taken, l) \in Nat
  /\ Spent(rows2, m) = SumFunction(taken)
  /\ SumFunction(taken) \in Nat
  /\ \A k : k # m => Spent(rows2, k) = Spent(rows, k)
  /\ \A l : QtyAt(rows2, <<m, l>>) = At(taken, l)
  /\ \A r \in DOMAIN rows : r \in DOMAIN rows2 /\ rows2[r] = rows[r]
  /\ \A r \in DOMAIN rows2 \ DOMAIN rows :
       /\ r[1] = m /\ r[2] \in DOMAIN taken /\ taken[r[2]] > 0
       /\ r = <<m, r[2]>> /\ rows2[r].qty = taken[r[2]]

\* Rows of a new movement: they add what it took to each layer, and leave what
\* the other movements have as it was.
LEMMA AddedRows ==
  ASSUME NEW rows, NEW ids, NEW ls, RowTable(rows, ids, ls), Ids(ids), Ids(DOMAIN ls),
         NEW m \in Nat \ ids, NEW taken, DOMAIN taken \subseteq DOMAIN ls,
         NEW ls0, DOMAIN taken \subseteq DOMAIN ls0,
         \A l \in DOMAIN taken : taken[l] \in Nat /\ ls0[l].cost \in Nat
  PROVE  Adds(WithRows(rows, m, taken, ls0), rows, ids, ls, m, taken)
<1> DEFINE rows2 == WithRows(rows, m, taken, ls0)
<1>0. /\ RowTable(WithRows(rows, m, taken, ls0), ids \cup {m}, ls)
      /\ \A r \in DOMAIN rows : /\ r \in DOMAIN WithRows(rows, m, taken, ls0)
                                 /\ WithRows(rows, m, taken, ls0)[r] = rows[r]
      /\ \A r \in DOMAIN WithRows(rows, m, taken, ls0) \ DOMAIN rows :
           /\ r[1] = m /\ r[2] \in DOMAIN taken /\ taken[r[2]] > 0
           /\ r = <<m, r[2]>>
           /\ WithRows(rows, m, taken, ls0)[r].qty = taken[r[2]]
           /\ WithRows(rows, m, taken, ls0)[r].cost = ls0[r[2]].cost
      /\ \A l \in DOMAIN taken :
           taken[l] > 0 => <<m, l>> \in DOMAIN WithRows(rows, m, taken, ls0)
  BY WithRowsTable
<1>1. /\ RowTable(rows2, ids \cup {m}, ls)
      /\ \A r \in DOMAIN rows : r \in DOMAIN rows2 /\ rows2[r] = rows[r]
      /\ \A r \in DOMAIN rows2 \ DOMAIN rows :
           /\ r[1] = m /\ r[2] \in DOMAIN taken /\ taken[r[2]] > 0
           /\ r = <<m, r[2]>> /\ rows2[r].qty = taken[r[2]]
      /\ \A l \in DOMAIN taken : taken[l] > 0 => <<m, l>> \in DOMAIN rows2
  BY <1>0
<1> HIDE DEF rows2
<1>2. \A l : <<m, l>> \notin DOMAIN rows
  BY DEF RowTable
<1>3. \A k, l : k # m => QtyAt(rows2, <<k, l>>) = QtyAt(rows, <<k, l>>)
  <2> SUFFICES ASSUME NEW k, NEW l, k # m
               PROVE  QtyAt(rows2, <<k, l>>) = QtyAt(rows, <<k, l>>)
    OBVIOUS
  <2>1. <<k, l>>[1] # m
    OBVIOUS
  <2>2. <<k, l>> \in DOMAIN rows2 => <<k, l>> \in DOMAIN rows
    BY <1>1, <2>1
  <2> QED
    BY <1>1, <2>2 DEF QtyAt
<1>4. \A l : At(taken, l) \in Nat
  BY DEF At
<1>5. \A l : QtyAt(rows, <<m, l>>) = 0 /\ QtyAt(rows2, <<m, l>>) = At(taken, l)
  <2> SUFFICES ASSUME NEW l
               PROVE  QtyAt(rows, <<m, l>>) = 0 /\ QtyAt(rows2, <<m, l>>) = At(taken, l)
    OBVIOUS
  <2>1. QtyAt(rows, <<m, l>>) = 0
    BY <1>2 DEF QtyAt
  <2>2. CASE <<m, l>> \in DOMAIN rows2
    <3>1. <<m, l>>[2] = l
      OBVIOUS
    <3>2. l \in DOMAIN taken /\ rows2[<<m, l>>].qty = taken[l]
      BY <1>1, <1>2, <2>2, <3>1
    <3> QED
      BY <2>1, <2>2, <3>2 DEF QtyAt, At
  <2>3. CASE <<m, l>> \notin DOMAIN rows2
    <3>1. l \in DOMAIN taken => taken[l] = 0
      BY <1>1, <2>3
    <3> QED
      BY <2>1, <2>3, <3>1 DEF QtyAt, At
  <2> QED
    BY <2>2, <2>3
<1>6. Ids(ids \cup {m})
  BY FS_AddElement DEF Ids
<1>7. ASSUME NEW l
      PROVE  /\ Consumed(rows2, l) = Consumed(rows, l) + At(taken, l)
             /\ Consumed(rows, l) \in Nat /\ At(taken, l) \in Nat
  <2>1. \A k \in (ids \cup (ids \cup {m})) \ {m} :
          QtyAt(rows2, <<k, l>>) = QtyAt(rows, <<k, l>>)
    BY <1>3
  <2>2. /\ Consumed(rows2, l)
             = Consumed(rows, l) - QtyAt(rows, <<m, l>>) + QtyAt(rows2, <<m, l>>)
        /\ Consumed(rows, l) \in Nat
    BY <1>1, <1>6, <2>1, ConsumedShift
  <2>3. QtyAt(rows, <<m, l>>) = 0 /\ QtyAt(rows2, <<m, l>>) = At(taken, l)
    BY <1>5
  <2> QED
    BY <1>4, <2>2, <2>3
<1>8. Spent(rows2, m) = SumFunction(taken) /\ SumFunction(taken) \in Nat
  <2>1. \A l \in DOMAIN ls :
          QtyAt(rows2, <<m, l>>) = QtyAt(rows, <<m, l>>) + At(taken, l)
    BY <1>4, <1>5
  <2>2. /\ IsFiniteSet(DOMAIN ls) /\ DOMAIN ls \subseteq DOMAIN ls
        /\ \A l \in DOMAIN taken : taken[l] \in Int
    BY DEF Ids
  <2>3. /\ Spent(rows2, m) = Spent(rows, m) + SumFunction(taken)
        /\ Spent(rows2, m) \in Nat
    BY <1>1, <2>1, <2>2, SpentShift
  <2>4. Spent(rows, m) = 0
    <3> DEFINE g == [l \in DOMAIN ls |-> QtyAt(rows, <<m, l>>)]
    <3>1. Spent(rows, m) = SumFunctionOnSet(g, DOMAIN ls)
      <4>1. IsFiniteSet(DOMAIN ls) /\ DOMAIN ls \subseteq DOMAIN ls
        BY DEF Ids
      <4> QED
        BY <4>1, SpentIs
    <3>2. \A l \in DOMAIN ls : g[l] = 0
      BY <1>5
    <3> HIDE DEF g
    <3> QED
      BY <3>1, <3>2, SumZero DEF Ids
  <2>5. IsFiniteSet(DOMAIN taken)
    BY FS_Subset DEF Ids
  <2>6. SumFunction(taken) \in Nat
    BY <2>5, SumNat DEF SumFunction
  <2> QED
    BY <2>3, <2>4, <2>6
<1>9. ASSUME NEW k, k # m PROVE Spent(rows2, k) = Spent(rows, k)
  <2> DEFINE g == [l \in DOMAIN ls |-> QtyAt(rows, <<k, l>>)]
             g2 == [l \in DOMAIN ls |-> QtyAt(rows2, <<k, l>>)]
  <2>1. g = g2
    BY <1>3, <1>9
  <2>2. IsFiniteSet(DOMAIN ls) /\ DOMAIN ls \subseteq DOMAIN ls
    BY DEF Ids
  <2>3. Spent(rows, k) = SumFunctionOnSet(g, DOMAIN ls)
    BY <2>2, SpentIs
  <2>4. Spent(rows2, k) = SumFunctionOnSet(g2, DOMAIN ls)
    BY <1>1, <2>2, SpentIs
  <2> QED
    BY <2>1, <2>3, <2>4
<1> QED
  BY <1>1, <1>5, <1>7, <1>8, <1>9 DEF rows2, Adds

\* Table rows2 has the rows of rows but those of movement m and of its layer:
\* each other layer loses what m held of it, and when nothing else had rows on
\* its layer, each other movement keeps what it has.
Removes(rows2, rows, m) ==
  /\ \A l : l # m =>
       /\ Consumed(rows2, l) = Consumed(rows, l) - QtyAt(rows, <<m, l>>)
       /\ Consumed(rows, l) \in Nat /\ QtyAt(rows, <<m, l>>) \in Nat
  /\ (\A k : k # m => QtyAt(rows, <<k, m>>) = 0) =>
       \A k : k # m => Spent(rows2, k) = Spent(rows, k)

\* That is what deleting them does.
LEMMA RemovedRows ==
  ASSUME NEW rows, NEW ids, NEW ls, RowTable(rows, ids, ls), Ids(ids), Ids(DOMAIN ls),
         NEW m, NEW ls3, DOMAIN ls3 = DOMAIN ls \ {m}
  PROVE  /\ RowTable(Without(rows, m), ids \ {m}, ls3)
         /\ Removes(Without(rows, m), rows, m)
<1> DEFINE rows2 == Without(rows, m)
<1>1. /\ \A r : r \in DOMAIN rows2 <=> r \in DOMAIN rows /\ m # r[1] /\ m # r[2]
      /\ \A r \in DOMAIN rows2 : rows2[r] = rows[r]
      /\ rows2 = [r \in DOMAIN rows2 |-> rows2[r]]
  BY DEF Without
<1> HIDE DEF rows2
<1>2. RowTable(rows2, ids \ {m}, ls3)
  <2>1. DOMAIN rows2 \subseteq (ids \ {m}) \X (DOMAIN ls3)
    BY <1>1 DEF RowTable
  <2>2. \A r \in DOMAIN rows2 : rows2[r] \in Row
    BY <1>1 DEF RowTable
  <2> QED
    BY <1>1, <2>1, <2>2 DEF RowTable
<1>3. \A k, l : k # m /\ l # m => QtyAt(rows2, <<k, l>>) = QtyAt(rows, <<k, l>>)
  <2> SUFFICES ASSUME NEW k, NEW l, k # m, l # m
               PROVE  QtyAt(rows2, <<k, l>>) = QtyAt(rows, <<k, l>>)
    OBVIOUS
  <2>1. <<k, l>>[1] = k /\ <<k, l>>[2] = l
    OBVIOUS
  <2>2. <<k, l>> \in DOMAIN rows2 <=> <<k, l>> \in DOMAIN rows
    BY <1>1, <2>1
  <2> QED
    BY <1>1, <2>2 DEF QtyAt
<1>4. \A l : QtyAt(rows2, <<m, l>>) = 0
  BY <1>1 DEF QtyAt
<1>5. \A k : QtyAt(rows2, <<k, m>>) = 0
  BY <1>1 DEF QtyAt
<1>6. Ids(ids \ {m}) /\ Ids(DOMAIN ls3)
  <2>1. \A S : Ids(S) => Ids(S \ {m})
    BY FS_RemoveElement DEF Ids
  <2> QED
    BY <2>1
<1>7. ASSUME NEW l, l # m
      PROVE  /\ Consumed(rows2, l) = Consumed(rows, l) - QtyAt(rows, <<m, l>>)
             /\ Consumed(rows, l) \in Nat /\ QtyAt(rows, <<m, l>>) \in Nat
  <2>1. \A k \in (ids \cup (ids \ {m})) \ {m} :
          QtyAt(rows2, <<k, l>>) = QtyAt(rows, <<k, l>>)
    BY <1>3, <1>7
  <2>2. /\ Consumed(rows2, l)
             = Consumed(rows, l) - QtyAt(rows, <<m, l>>) + QtyAt(rows2, <<m, l>>)
        /\ Consumed(rows, l) \in Nat /\ QtyAt(rows, <<m, l>>) \in Nat
    BY <1>2, <1>6, <2>1, ConsumedShift
  <2> QED
    BY <1>4, <2>2
<1>8. ASSUME \A k : k # m => QtyAt(rows, <<k, m>>) = 0, NEW k, k # m
      PROVE  Spent(rows2, k) = Spent(rows, k)
  <2> DEFINE g == [l \in DOMAIN ls |-> QtyAt(rows, <<k, l>>)]
             g2 == [l \in DOMAIN ls |-> QtyAt(rows2, <<k, l>>)]
  <2>1. g = g2
    <3>1. \A l \in DOMAIN ls : QtyAt(rows, <<k, l>>) = QtyAt(rows2, <<k, l>>)
      BY <1>3, <1>5, <1>8
    <3> QED
      BY <3>1
  <2>2. IsFiniteSet(DOMAIN ls) /\ DOMAIN ls \subseteq DOMAIN ls /\ DOMAIN ls3 \subseteq DOMAIN ls
    BY DEF Ids
  <2>3. Spent(rows, k) = SumFunctionOnSet(g, DOMAIN ls)
    BY <2>2, SpentIs
  <2>4. Spent(rows2, k) = SumFunctionOnSet(g2, DOMAIN ls)
    BY <1>2, <1>6, <2>2, SpentIs
  <2> QED
    BY <2>1, <2>3, <2>4
<1> QED
  BY <1>2, <1>7, <1>8 DEF rows2, Removes

-----------------------------------------------------------------------------
\* What the difference journal of movement m comes to, by its rows.
DiffOf(rows, m, cost) ==
  Cents(SumFunction([l \in DOMAIN RowsOf(rows, m) |->
                       rows[<<m, l>>].qty * (cost - rows[<<m, l>>].cost)]))

\* It is what the rows of m say, and no others.
LEMMA DiffOfSame ==
  ASSUME NEW rows, NEW ids, NEW ls, RowTable(rows, ids, ls),
         NEW rows2, NEW ids2, NEW ls2, RowTable(rows2, ids2, ls2), NEW m, NEW cost,
         \A l : /\ <<m, l>> \in DOMAIN rows <=> <<m, l>> \in DOMAIN rows2
                /\ <<m, l>> \in DOMAIN rows => rows2[<<m, l>>] = rows[<<m, l>>]
  PROVE  DiffOf(rows2, m, cost) = DiffOf(rows, m, cost)
<1> DEFINE D == DOMAIN RowsOf(rows, m)
           D2 == DOMAIN RowsOf(rows2, m)
<1>1. \A l : l \in D <=> <<m, l>> \in DOMAIN rows
  BY DEF RowsOf, RowTable
<1>2. \A l : l \in D2 <=> <<m, l>> \in DOMAIN rows2
  BY DEF RowsOf, RowTable
<1>3. D = D2
  BY <1>1, <1>2
<1>4. \A l \in D : rows2[<<m, l>>] = rows[<<m, l>>]
  BY <1>1
<1> HIDE DEF D, D2
<1>5. [l \in D |-> rows[<<m, l>>].qty * (cost - rows[<<m, l>>].cost)]
        = [l \in D2 |-> rows2[<<m, l>>].qty * (cost - rows2[<<m, l>>].cost)]
  BY <1>3, <1>4
<1> QED
  BY <1>5 DEF DiffOf, D, D2

\* A movement without rows calls for no journal.
LEMMA DiffOfNone ==
  ASSUME NEW rows, NEW m, \A r \in DOMAIN rows : r[1] # m, NEW cost
  PROVE  DiffOf(rows, m, cost) = 0
<1> DEFINE f == [l \in DOMAIN RowsOf(rows, m) |->
                   rows[<<m, l>>].qty * (cost - rows[<<m, l>>].cost)]
<1>1. DOMAIN f = {}
  BY DEF RowsOf
<1> HIDE DEF f
<1>2. SumFunction(f) = 0
  BY <1>1, SumEmpty DEF SumFunction
<1>3. Cents(0) = 0
  BY DEF Cents, Quantize, RoundHalfEven
<1> QED
  BY <1>2, <1>3 DEF DiffOf, f

\* The difference the code books when a receipt fills is the one its rows call
\* for: all it filled at its own cost, less what that was taken at.
LEMMA DiffOfAdded ==
  ASSUME NEW rows, NEW ids, NEW ls, RowTable(rows, ids, ls), Ids(DOMAIN ls),
         NEW m \in Nat \ ids, NEW taken, DOMAIN taken \subseteq DOMAIN ls,
         \A l \in DOMAIN taken : taken[l] \in Nat /\ ls[l].cost \in Nat,
         NEW cost \in Nat
  PROVE  DiffOf(WithRows(rows, m, taken, ls), m, cost)
           = Cents(SumFunction(taken) * cost - CostOf(taken, ls))
<1> DEFINE rows2 == WithRows(rows, m, taken, ls)
           T == DOMAIN RowsOf(rows2, m)
           S == DOMAIN taken
           d == [l \in T |-> rows2[<<m, l>>].qty * (cost - rows2[<<m, l>>].cost)]
           e == [l \in S |-> taken[l] * (cost - ls[l].cost)]
           p == [l \in S |-> cost * taken[l]]
           n == [l \in S |-> taken[l] * ls[l].cost]
<1>0. /\ RowTable(WithRows(rows, m, taken, ls), ids \cup {m}, ls)
      /\ \A r \in DOMAIN rows : /\ r \in DOMAIN WithRows(rows, m, taken, ls)
                                 /\ WithRows(rows, m, taken, ls)[r] = rows[r]
      /\ \A r \in DOMAIN WithRows(rows, m, taken, ls) \ DOMAIN rows :
           /\ r[1] = m /\ r[2] \in DOMAIN taken /\ taken[r[2]] > 0
           /\ r = <<m, r[2]>>
           /\ WithRows(rows, m, taken, ls)[r].qty = taken[r[2]]
           /\ WithRows(rows, m, taken, ls)[r].cost = ls[r[2]].cost
      /\ \A l \in DOMAIN taken :
           taken[l] > 0 => <<m, l>> \in DOMAIN WithRows(rows, m, taken, ls)
  BY WithRowsTable
<1>1. /\ RowTable(rows2, ids \cup {m}, ls)
      /\ \A r \in DOMAIN rows2 \ DOMAIN rows :
           /\ r[1] = m /\ r[2] \in DOMAIN taken /\ taken[r[2]] > 0
           /\ r = <<m, r[2]>> /\ rows2[r].qty = taken[r[2]]
           /\ rows2[r].cost = ls[r[2]].cost
      /\ \A l \in DOMAIN taken : taken[l] > 0 => <<m, l>> \in DOMAIN rows2
  BY <1>0
<1> HIDE DEF rows2
<1>2. \A l : <<m, l>> \notin DOMAIN rows
  BY DEF RowTable
<1>3. \A l : l \in T <=> <<m, l>> \in DOMAIN rows2
  BY <1>1 DEF RowsOf, RowTable
<1>4. ASSUME NEW l \in T
      PROVE  /\ l \in S /\ rows2[<<m, l>>].qty = taken[l]
             /\ rows2[<<m, l>>].cost = ls[l].cost
  <2>1. <<m, l>> \in DOMAIN rows2 \ DOMAIN rows /\ <<m, l>>[2] = l
    BY <1>2, <1>3
  <2> QED
    BY <1>1, <2>1
<1>5. \A l \in S \ T : taken[l] = 0
  <2> SUFFICES ASSUME NEW l \in S, l \notin T PROVE taken[l] = 0
    OBVIOUS
  <2>1. <<m, l>> \notin DOMAIN rows2
    BY <1>3
  <2>2. ~(taken[l] > 0) /\ taken[l] \in Nat
    BY <1>1, <2>1
  <2> QED
    BY <2>2
<1>6. IsFiniteSet(S)
  BY FS_Subset DEF Ids
<1>7. \A a, b, c \in Int : /\ a * (b - c) = b * a + (-1) * (a * c)
                           /\ b * a \in Int /\ (-1) * (a * c) \in Int
                           /\ a * c \in Int /\ a * (b - c) \in Int
  OBVIOUS
<1>8. ASSUME NEW l \in S
      PROVE  /\ e[l] \in Int /\ p[l] \in Int /\ n[l] \in Int
             /\ e[l] = p[l] + (-1) * n[l]
             /\ p[l] = cost * taken[l] /\ n[l] = taken[l] * ls[l].cost
             /\ taken[l] = 0 => e[l] = 0
  <2>1. /\ e[l] = taken[l] * (cost - ls[l].cost) /\ p[l] = cost * taken[l]
        /\ n[l] = taken[l] * ls[l].cost
    OBVIOUS
  <2>2. taken[l] \in Int /\ ls[l].cost \in Int /\ cost \in Int
    OBVIOUS
  <2>3. \A x \in Int : 0 * x = 0
    OBVIOUS
  <2>4. cost - ls[l].cost \in Int
    BY <2>2
  <2> HIDE DEF e, p, n
  <2> QED
    BY <1>7, <2>1, <2>2, <2>3, <2>4
<1>9. DOMAIN d = T /\ \A l \in T : d[l] = e[l]
  BY <1>4
<1>10. DOMAIN e = S /\ DOMAIN p = S /\ DOMAIN n = S
  OBVIOUS
<1>11. T \in SUBSET S
  BY <1>4
<1> DEFINE k == [l \in S |-> (-1) * n[l]]
<1>12. \A l \in S : k[l] = (-1) * n[l] /\ k[l] \in Int
  <2>1. \A x \in Int : (-1) * x \in Int
    OBVIOUS
  <2> HIDE DEF n
  <2> QED
    BY <1>8, <2>1
<1> HIDE DEF d, e, p, n, k, T, S
<1>13. SumFunctionOnSet(e, T) = SumFunctionOnSet(e, S)
  BY <1>5, <1>6, <1>8, <1>11, SumNonzero
<1>14. SumFunctionOnSet(d, T) = SumFunctionOnSet(e, T)
  <2>1. IsFiniteSet(T)
    BY <1>6, <1>11, FS_Subset
  <2>2. \A l \in T : d[l] \in Int /\ d[l] = e[l]
    BY <1>8, <1>9, <1>11
  <2> QED
    BY <2>1, <2>2, SumAgree
<1>15. SumFunctionOnSet(e, S) = SumFunctionOnSet(p, S) + SumFunctionOnSet(k, S)
  <2>1. \A l \in S : p[l] \in Int /\ k[l] \in Int /\ e[l] = p[l] + k[l]
    BY <1>8, <1>12
  <2> QED
    BY <1>6, <2>1, SumPlus
<1>16. SumFunctionOnSet(p, S) = cost * SumFunctionOnSet(taken, S)
  <2>1. \A l \in S : taken[l] \in Int /\ p[l] = cost * taken[l]
    BY <1>8 DEF S
  <2> QED
    BY <1>6, <2>1, SumTimes
<1>17. SumFunctionOnSet(k, S) = (-1) * SumFunctionOnSet(n, S)
  <2>1. \A l \in S : n[l] \in Int /\ k[l] = (-1) * n[l]
    BY <1>8, <1>12
  <2>2. (-1) \in Int
    OBVIOUS
  <2> QED
    BY <1>6, <2>1, <2>2, SumTimes
<1>18. SumFunctionOnSet(taken, S) \in Int /\ SumFunctionOnSet(n, S) \in Int
  <2>1. \A l \in S : taken[l] \in Int
    BY DEF S
  <2> QED
    BY <1>6, <1>8, <2>1, SumInt
<1>19. \A a, b \in Int : cost * a + (-1) * b = a * cost - b
  OBVIOUS
<1>20. SumFunctionOnSet(d, T)
         = SumFunctionOnSet(taken, S) * cost - SumFunctionOnSet(n, S)
  BY <1>13, <1>14, <1>15, <1>16, <1>17, <1>18, <1>19
<1>21. CostOf(taken, ls) = SumFunctionOnSet(n, S)
  BY <1>10 DEF CostOf, SumFunction, n, S
<1>22. SumFunction(d) = SumFunctionOnSet(d, T) /\ SumFunction(taken) = SumFunctionOnSet(taken, S)
  BY <1>9 DEF SumFunction, S
<1> QED
  BY <1>20, <1>21, <1>22 DEF DiffOf, d, T, rows2

-----------------------------------------------------------------------------
\* What a layer adds to the covered balance: its open units, less its pending
\* ones if it is provisional.
NetOf(v) == IF v.prov THEN v.rem - (v.orig - v.recd) ELSE v.rem
Nets(ls) == [l \in DOMAIN ls |-> NetOf(ls[l])]
Net(ls) == SumFunction(Nets(ls))
\* A finite table of layers.
Queue(ls) == Ids(DOMAIN ls) /\ ls \in [DOMAIN ls -> Layer]

LEMMA NetsInt ==
  ASSUME NEW ls, Queue(ls)
  PROVE  /\ IsFiniteSet(DOMAIN Nets(ls)) /\ DOMAIN Nets(ls) = DOMAIN ls
         /\ \A l \in DOMAIN ls : Nets(ls)[l] = NetOf(ls[l]) /\ NetOf(ls[l]) \in Int
         /\ Net(ls) \in Int
<1>1. DOMAIN Nets(ls) = DOMAIN ls /\ \A l \in DOMAIN ls : Nets(ls)[l] = NetOf(ls[l])
  BY DEF Nets
<1>2. ASSUME NEW l \in DOMAIN ls PROVE NetOf(ls[l]) \in Int
  <2>1. ls[l] \in Layer
    BY DEF Queue
  <2> QED
    BY <2>1 DEF Layer, NetOf
<1>3. IsFiniteSet(DOMAIN ls)
  BY DEF Queue, Ids
<1>4. Net(ls) \in Int
  BY <1>1, <1>2, <1>3, SumInt DEF Net, SumFunction
<1> QED
  BY <1>1, <1>2, <1>3, <1>4

\* The nets add up to the open units less the pending provisional ones.
LEMMA NetIsOpen ==
  ASSUME NEW ls, Queue(ls)
  PROVE  /\ Net(ls) = OpenQty(ls) - PendingQty(ls)
         /\ OpenQty(ls) \in Nat /\ PendingQty(ls) \in Int
<1> DEFINE D == DOMAIN ls
           P == Provisional(ls)
           f == Nets(ls)
           g == Pending(ls)
           h == Rem(ls)
<1>1. IsFiniteSet(D) /\ \A l \in D : ls[l] \in Layer
  BY DEF Queue, Ids
<1>2. P \in SUBSET D /\ \A l \in D : l \in P <=> ls[l].prov
  BY DEF Provisional
<1>3. DOMAIN g = P /\ \A l \in P : g[l] = ls[l].orig - ls[l].recd
  BY DEF Pending
<1>4. DOMAIN h = D /\ \A l \in D : h[l] = ls[l].rem
  BY DEF Rem
<1>5. DOMAIN f = D /\ \A l \in D : f[l] = NetOf(ls[l]) /\ f[l] \in Int
  BY NetsInt
<1>6. \A l \in P : g[l] \in Int
  BY <1>1, <1>2, <1>3 DEF Layer
<1>7. ASSUME NEW l \in D PROVE h[l] = f[l] + At(g, l)
  <2>1. ls[l] \in Layer /\ h[l] = ls[l].rem /\ f[l] = NetOf(ls[l])
    BY <1>1, <1>4, <1>5
  <2>2. CASE l \in P
    <3>1. ls[l].prov /\ At(g, l) = ls[l].orig - ls[l].recd
      BY <1>2, <1>3, <2>2 DEF At
    <3> QED
      BY <2>1, <3>1 DEF NetOf, Layer
  <2>3. CASE l \notin P
    <3>1. ~ls[l].prov /\ At(g, l) = 0
      BY <1>2, <1>3, <2>3 DEF At
    <3> QED
      BY <2>1, <3>1 DEF NetOf, Layer
  <2> QED
    BY <2>2, <2>3
<1> HIDE DEF f, g, h, P
<1>8. SumFunction(h) = SumFunction(f) + SumFunction(g) /\ SumFunction(g) \in Int
  BY <1>1, <1>2, <1>3, <1>4, <1>5, <1>6, <1>7, SumShift
<1>9. OpenQty(ls) \in Nat
  BY OpenQtyNat DEF Queue
<1> QED
  BY <1>8, <1>9, NetsInt DEF Net, OpenQty, PendingQty, f, g, h

\* No layer has less than nothing pending, if none is filled beyond its size.
LEMMA PendingNat ==
  ASSUME NEW ls, Queue(ls), \A l \in DOMAIN ls : ls[l].recd <= ls[l].orig
  PROVE  PendingQty(ls) \in Nat
<1> DEFINE g == Pending(ls)
<1>1. DOMAIN g \subseteq DOMAIN ls /\ \A l \in DOMAIN g : g[l] = ls[l].orig - ls[l].recd
  BY DEF Pending, Provisional
<1>2. \A l \in DOMAIN ls : ls[l] \in Layer
  BY DEF Queue
<1>3. IsFiniteSet(DOMAIN g)
  BY <1>1, FS_Subset DEF Queue, Ids
<1>4. \A l \in DOMAIN g : g[l] \in Nat
  BY <1>1, <1>2 DEF Layer
<1> HIDE DEF g
<1> QED
  BY <1>3, <1>4, SumNat DEF PendingQty, SumFunction, g

\* A new layer adds its own net.
LEMMA NetOfPut ==
  ASSUME NEW ls, Queue(ls), NEW k \in Nat \ DOMAIN ls, NEW v \in Layer
  PROVE  /\ Queue(Put(ls, k, v)) /\ Net(Put(ls, k, v)) = Net(ls) + NetOf(v)
         /\ NetOf(v) \in Int /\ Net(ls) \in Int
<1> DEFINE ls2 == Put(ls, k, v)
<1>1. /\ DOMAIN ls2 = DOMAIN ls \cup {k} /\ ls2[k] = v
      /\ \A l \in DOMAIN ls : ls2[l] = ls[l]
      /\ ls2 = [l \in DOMAIN ls2 |-> ls2[l]]
  BY DEF Put
<1> HIDE DEF ls2
<1>2. Queue(ls2)
  <2>1. \A l \in DOMAIN ls2 : ls2[l] \in Layer
    BY <1>1 DEF Queue
  <2>2. Ids(DOMAIN ls2)
    BY <1>1, FS_AddElement DEF Queue, Ids
  <2> QED
    BY <1>1, <2>1, <2>2 DEF Queue
<1> DEFINE f == Nets(ls)
           g == Nets(ls2)
<1>3. /\ IsFiniteSet(DOMAIN f) /\ DOMAIN f = DOMAIN ls
      /\ \A l \in DOMAIN ls : f[l] = NetOf(ls[l]) /\ f[l] \in Int
      /\ SumFunction(f) \in Int
  BY NetsInt DEF Net
<1>4. /\ IsFiniteSet(DOMAIN g) /\ DOMAIN g = DOMAIN ls2
      /\ \A l \in DOMAIN ls2 : g[l] = NetOf(ls2[l]) /\ g[l] \in Int
  BY <1>2, NetsInt
<1> HIDE DEF f, g
<1>5. /\ DOMAIN f \ {k} = DOMAIN g \ {k}
      /\ \A x \in DOMAIN f \ {k} : f[x] = g[x]
  BY <1>1, <1>3, <1>4
<1>6. SumFunction(g) = SumFunction(f) - At(f, k) + At(g, k)
  BY <1>3, <1>4, <1>5, SumDelta
<1>7. At(f, k) = 0 /\ At(g, k) = NetOf(v) /\ NetOf(v) \in Int
  BY <1>1, <1>3, <1>4 DEF At
<1>8. SumFunction(g) = SumFunction(f) + NetOf(v)
  BY <1>3, <1>6, <1>7
<1> QED
  BY <1>2, <1>3, <1>7, <1>8 DEF Net, f, g, ls2

\* A dropped layer takes its own net away.
LEMMA NetOfDrop ==
  ASSUME NEW ls, Queue(ls), NEW k
  PROVE  /\ Queue(Dropped(ls, k)) /\ Net(Dropped(ls, k)) = Net(ls) - At(Nets(ls), k)
         /\ At(Nets(ls), k) \in Int /\ Net(ls) \in Int
<1> DEFINE ls2 == Dropped(ls, k)
<1>1. /\ DOMAIN ls2 = DOMAIN ls \ {k}
      /\ \A l \in DOMAIN ls2 : ls2[l] = ls[l]
      /\ ls2 = [l \in DOMAIN ls2 |-> ls2[l]]
  BY DEF Dropped
<1> HIDE DEF ls2
<1>2. Queue(ls2)
  <2>1. \A l \in DOMAIN ls2 : ls2[l] \in Layer
    BY <1>1 DEF Queue
  <2>2. Ids(DOMAIN ls2)
    BY <1>1, FS_RemoveElement DEF Queue, Ids
  <2> QED
    BY <1>1, <2>1, <2>2 DEF Queue
<1> DEFINE f == Nets(ls)
           g == Nets(ls2)
<1>3. /\ IsFiniteSet(DOMAIN f) /\ DOMAIN f = DOMAIN ls
      /\ \A l \in DOMAIN ls : f[l] = NetOf(ls[l]) /\ f[l] \in Int
      /\ SumFunction(f) \in Int
  BY NetsInt DEF Net
<1>4. /\ IsFiniteSet(DOMAIN g) /\ DOMAIN g = DOMAIN ls2
      /\ \A l \in DOMAIN ls2 : g[l] = NetOf(ls2[l]) /\ g[l] \in Int
  BY <1>2, NetsInt
<1> HIDE DEF f, g
<1>5. /\ DOMAIN f \ {k} = DOMAIN g \ {k}
      /\ \A x \in DOMAIN f \ {k} : f[x] = g[x]
  BY <1>1, <1>3, <1>4
<1>6. SumFunction(g) = SumFunction(f) - At(f, k) + At(g, k)
  BY <1>3, <1>4, <1>5, SumDelta
<1>7. At(f, k) \in Int /\ At(g, k) = 0
  BY <1>1, <1>3, <1>4 DEF At
<1>8. SumFunction(g) = SumFunction(f) - At(f, k)
  BY <1>3, <1>6, <1>7
<1> QED
  BY <1>2, <1>3, <1>7, <1>8 DEF Net, f, g, ls2

\* Layers whose nets grow by a table grow by its sum.
LEMMA NetOfShift ==
  ASSUME NEW ls, Queue(ls), NEW ls2, Queue(ls2), DOMAIN ls2 = DOMAIN ls,
         NEW h, DOMAIN h \subseteq DOMAIN ls, \A l \in DOMAIN h : h[l] \in Int,
         \A l \in DOMAIN ls : NetOf(ls2[l]) = NetOf(ls[l]) + At(h, l)
  PROVE  /\ Net(ls2) = Net(ls) + SumFunction(h)
         /\ Net(ls) \in Int /\ SumFunction(h) \in Int
<1> DEFINE f == Nets(ls)
           g == Nets(ls2)
<1>1. /\ IsFiniteSet(DOMAIN f) /\ DOMAIN f = DOMAIN ls
      /\ \A l \in DOMAIN ls : f[l] = NetOf(ls[l]) /\ f[l] \in Int
  BY NetsInt
<1>2. /\ DOMAIN g = DOMAIN ls2
      /\ \A l \in DOMAIN ls2 : g[l] = NetOf(ls2[l])
  BY NetsInt
<1> HIDE DEF f, g
<1>3. \A x \in DOMAIN f : g[x] = f[x] + At(h, x)
  BY <1>1, <1>2
<1>4. /\ SumFunction(g) = SumFunction(f) + SumFunction(h)
      /\ SumFunction(f) \in Int /\ SumFunction(h) \in Int
  BY <1>1, <1>2, <1>3, SumShift
<1> QED
  BY <1>4 DEF Net, f, g

-----------------------------------------------------------------------------
\* Whether a movement brings stock in.
Inward(v) == v.type \in InboundTypes

\* Who opens what: issues consume and open the provisional layers, receipts
\* fill those and open the others, one layer each for what they did not fill
\* and did not give back; the opening layers are nobody's.  A receipt without a
\* layer of its own is from before layers existed, and so from before any issue
\* of which a layer tells.
OnlyReceiptsBefore(ms, m) == \A k \in DOMAIN ms : k < m => Inward(ms[k])
Kinds(ls, rows, fills, ms) ==
  /\ \A r \in DOMAIN rows : ~Inward(ms[r[1]])
  /\ \A r \in DOMAIN fills :
       Inward(ms[r[1]]) /\ r[1] \in DOMAIN ls /\ ls[r[2]].prov /\ fills[r].qty > 0
  /\ \A l \in DOMAIN ls :
       /\ ls[l].prov <=> l \in DOMAIN ms /\ ~Inward(ms[l])
       /\ ls[l].date = OpeningDate <=> l \notin DOMAIN ms
       /\ l \in DOMAIN ms /\ Inward(ms[l]) =>
            /\ ls[l].orig <= ms[l].qty
            /\ ms[l].type # "RETURN_IN" => ls[l].orig = ms[l].qty
  /\ \A m \in DOMAIN ms :
       /\ Inward(ms[m]) /\ ms[m].type # "RETURN_IN" /\ m \notin DOMAIN ls
            => OnlyReceiptsBefore(ms, m)
       /\ ~Inward(ms[m]) => Spent(rows, m) <= ms[m].qty

\* A layer is accounted for: what entered it is open, held, or was spent on
\* provisional layers, and what filled it are the fills recorded on it.
Square(v, l, rows, fills) ==
  /\ v.orig = v.rem + Consumed(rows, l) + Spent(fills, l)
  /\ v.recd = Consumed(fills, l)
Accounts(ls, rows, fills, ms) ==
  /\ Kinds(ls, rows, fills, ms)
  /\ \A l \in DOMAIN ls : Square(ls[l], l, rows, fills)

\* The layers cover the balance, or there are none yet.
Covered(ls, balance) == (DOMAIN ls = {} /\ balance >= 0) \/ balance = Net(ls)

\* Backfilling leaves the layers as they are, or adds an opening layer.
LEMMA BackfillIs ==
  ASSUME NEW ls, Queue(ls), Ids(DOMAIN moves), NEW balance \in Int, NEW cost \in Nat
  PROVE  \/ /\ Backfill(ls, balance, cost) = ls
            /\ ~(balance > 0 /\ balance > OpenQty(ls))
         \/ \E k \in Nat, v \in Layer :
              /\ Backfill(ls, balance, cost) = Put(ls, k, v)
              /\ k \notin DOMAIN ls /\ k \notin DOMAIN moves
              /\ v.date = OpeningDate /\ v.orig = balance - OpenQty(ls) /\ v.rem = v.orig
              /\ ~v.prov /\ v.recd = 0
              /\ balance > 0 /\ balance > OpenQty(ls)
<1> DEFINE shortfall == balance - OpenQty(ls)
           k == NextId(DOMAIN ls \cup DOMAIN moves)
           v == [date |-> OpeningDate, orig |-> shortfall, rem |-> shortfall,
                 cost |-> cost, prov |-> FALSE, recd |-> 0]
<1>0. OpenQty(ls) \in Nat
  BY OpenQtyNat DEF Queue
<1>1. CASE balance > 0 /\ shortfall > 0
  <2>1. Backfill(ls, balance, cost) = Put(ls, k, v)
    BY <1>1 DEF Backfill
  <2>2. shortfall \in Nat /\ balance > OpenQty(ls)
    BY <1>0, <1>1
  <2>3. k \in Nat /\ k \notin DOMAIN ls /\ k \notin DOMAIN moves
    BY NextIdFresh DEF Queue
  <2>4. /\ v \in Layer /\ v.date = OpeningDate /\ v.orig = shortfall
        /\ v.rem = v.orig /\ ~v.prov /\ v.recd = 0
    BY <2>2 DEF Layer, OpeningDate
  <2>5. v.orig = balance - OpenQty(ls)
    BY <2>4
  <2> HIDE DEF v, k, shortfall
  <2> QED
    BY <1>1, <2>1, <2>2, <2>3, <2>4, <2>5
<1>2. CASE ~(balance > 0 /\ shortfall > 0)
  <2>1. Backfill(ls, balance, cost) = ls
    BY <1>2 DEF Backfill
  <2>2. ~(balance > 0 /\ balance > OpenQty(ls))
    BY <1>0, <1>2
  <2> QED
    BY <2>1, <2>2
<1> QED
  BY <1>1, <1>2

\* A new layer that is nobody's, open as a whole, keeps the accounts.
LEMMA OpeningAccounts ==
  ASSUME NEW ls, NEW rows, NEW fills, NEW ms, Books(ls, rows, fills, DOMAIN ms),
         Accounts(ls, rows, fills, ms), NEW k \in Nat, k \notin DOMAIN ls,
         k \notin DOMAIN ms, NEW v \in Layer, v.date = OpeningDate, v.rem = v.orig,
         ~v.prov, v.recd = 0
  PROVE  Accounts(Put(ls, k, v), rows, fills, ms)
<1> DEFINE ls2 == Put(ls, k, v)
<1>1. /\ DOMAIN ls2 = DOMAIN ls \cup {k} /\ ls2[k] = v
      /\ \A l \in DOMAIN ls : ls2[l] = ls[l]
  BY DEF Put
<1> HIDE DEF ls2
<1>2. /\ RowTable(rows, DOMAIN ms, ls) /\ RowTable(fills, DOMAIN ms, ls)
      /\ Ids(DOMAIN ms) /\ Ids(DOMAIN ls)
  BY DEF Books
<1>3. Consumed(rows, k) = 0 /\ Consumed(fills, k) = 0
  <2>1. ASSUME NEW t, RowTable(t, DOMAIN ms, ls) PROVE Consumed(t, k) = 0
    <3>1. DOMAIN RowsOn(t, k) = {}
      BY <2>1 DEF RowsOn, RowTable
    <3> QED
      BY <3>1, SumEmpty DEF Consumed, SumFunction
  <2> QED
    BY <1>2, <2>1
<1>4. Spent(fills, k) = 0
  <2>1. DOMAIN RowsOf(fills, k) = {}
    BY <1>2 DEF RowsOf, RowTable
  <2> QED
    BY <2>1, SumEmpty DEF Spent, SumFunction
<1>5. ASSUME NEW l \in DOMAIN ls2 PROVE Square(ls2[l], l, rows, fills)
  <2>1. CASE l \in DOMAIN ls
    BY <1>1, <2>1 DEF Accounts
  <2>2. CASE l = k
    BY <1>1, <1>3, <1>4, <2>2 DEF Square, Layer
  <2> QED
    BY <1>1, <2>1, <2>2
<1>6. Kinds(ls2, rows, fills, ms)
  <2>1. \A r \in DOMAIN fills : r[1] \in DOMAIN ls /\ r[2] \in DOMAIN ls
    BY <1>2 DEF Accounts, Kinds, RowTable
  <2>2. \A r \in DOMAIN fills :
          Inward(ms[r[1]]) /\ r[1] \in DOMAIN ls2 /\ ls2[r[2]].prov /\ fills[r].qty > 0
    BY <1>1, <2>1 DEF Accounts, Kinds
  <2>3. ASSUME NEW l \in DOMAIN ls2
        PROVE  /\ ls2[l].prov <=> l \in DOMAIN ms /\ ~Inward(ms[l])
               /\ ls2[l].date = OpeningDate <=> l \notin DOMAIN ms
               /\ l \in DOMAIN ms /\ Inward(ms[l]) =>
                    /\ ls2[l].orig <= ms[l].qty
                    /\ ms[l].type # "RETURN_IN" => ls2[l].orig = ms[l].qty
    <3>1. CASE l \in DOMAIN ls
      <4>1. ls2[l] = ls[l]
        BY <1>1, <3>1
      <4> QED
        BY <3>1, <4>1 DEF Accounts, Kinds
    <3>2. CASE l = k
      BY <1>1, <3>2
    <3> QED
      BY <1>1, <3>1, <3>2
  <2>4. \A m \in DOMAIN ms : m \notin DOMAIN ls2 => m \notin DOMAIN ls
    BY <1>1
  <2> QED
    BY <2>2, <2>3, <2>4 DEF Accounts, Kinds
<1> QED
  BY <1>5, <1>6 DEF Accounts, ls2

\* A new layer adds what is left of it to the open units.
LEMMA OpenOfPut ==
  ASSUME NEW ls, Queue(ls), NEW k \in Nat \ DOMAIN ls, NEW v \in Layer
  PROVE  OpenQty(Put(ls, k, v)) = OpenQty(ls) + v.rem /\ OpenQty(ls) \in Nat
<1> DEFINE ls2 == Put(ls, k, v)
           f == Rem(ls)
           g == Rem(ls2)
<1>1. /\ DOMAIN ls2 = DOMAIN ls \cup {k} /\ ls2[k] = v
      /\ \A l \in DOMAIN ls : ls2[l] = ls[l]
  BY DEF Put
<1> HIDE DEF ls2
<1>2. /\ DOMAIN f = DOMAIN ls /\ \A l \in DOMAIN ls : f[l] = ls[l].rem
      /\ DOMAIN g = DOMAIN ls2 /\ \A l \in DOMAIN ls2 : g[l] = ls2[l].rem
  BY DEF Rem
<1> HIDE DEF f, g
<1>3. v.rem \in Int /\ \A l \in DOMAIN ls : ls[l].rem \in Int
  BY DEF Queue, Layer
<1>4. IsFiniteSet(DOMAIN f) /\ IsFiniteSet(DOMAIN g)
  BY <1>1, <1>2, FS_AddElement DEF Queue, Ids
<1>5. /\ DOMAIN f \ {k} = DOMAIN g \ {k}
      /\ \A x \in DOMAIN f \ {k} : f[x] = g[x]
      /\ \A x \in DOMAIN f : f[x] \in Int
      /\ \A x \in DOMAIN g : g[x] \in Int
  BY <1>1, <1>2, <1>3
<1>6. SumFunction(g) = SumFunction(f) - At(f, k) + At(g, k) /\ SumFunction(f) \in Int
  BY <1>4, <1>5, SumDelta
<1>7. At(f, k) = 0 /\ At(g, k) = v.rem
  BY <1>1, <1>2 DEF At
<1>8. SumFunction(g) = SumFunction(f) + v.rem
  BY <1>3, <1>6, <1>7
<1>9. OpenQty(ls) \in Nat
  BY OpenQtyNat DEF Queue
<1> QED
  BY <1>8, <1>9 DEF OpenQty, f, g, ls2

\* Backfilling keeps the accounts, leaves what is pending pending, and raises
\* the open units to the balance where they do not reach it.
LEMMA BackfillAccounts ==
  ASSUME NEW ls, NEW rows, NEW fills, NEW ms, Books(ls, rows, fills, DOMAIN ms),
         Accounts(ls, rows, fills, ms), Ids(DOMAIN moves), DOMAIN ms \subseteq DOMAIN moves,
         NEW balance \in Int, NEW cost \in Nat
  PROVE  /\ Accounts(Backfill(ls, balance, cost), rows, fills, ms)
         /\ Queue(Backfill(ls, balance, cost))
         /\ PendingQty(Backfill(ls, balance, cost)) = PendingQty(ls)
         /\ OpenQty(Backfill(ls, balance, cost))
              = IF balance > 0 /\ balance > OpenQty(ls) THEN balance ELSE OpenQty(ls)
<1> DEFINE ls2 == Backfill(ls, balance, cost)
<1>1. Queue(ls)
  BY DEF Books, Queue
<1>2. /\ Net(ls) = OpenQty(ls) - PendingQty(ls)
      /\ OpenQty(ls) \in Nat /\ PendingQty(ls) \in Int
  BY <1>1, NetIsOpen
<1>3. CASE ls2 = ls /\ ~(balance > 0 /\ balance > OpenQty(ls))
  <2> HIDE DEF ls2
  <2>1. ls2 = ls
    BY <1>3
  <2> QED
    BY <1>1, <1>3, <2>1 DEF ls2
<1>4. ASSUME NEW k \in Nat, NEW v \in Layer, ls2 = Put(ls, k, v),
             k \notin DOMAIN ls /\ k \notin DOMAIN moves,
             v.date = OpeningDate /\ v.orig = balance - OpenQty(ls) /\ v.rem = v.orig,
             ~v.prov /\ v.recd = 0,
             balance > 0 /\ balance > OpenQty(ls)
      PROVE  /\ Accounts(ls2, rows, fills, ms) /\ Queue(ls2)
             /\ PendingQty(ls2) = PendingQty(ls) /\ OpenQty(ls2) = balance
  <2>1. k \notin DOMAIN ms
    BY <1>4
  <2>2. Accounts(Put(ls, k, v), rows, fills, ms)
    BY <1>4, <2>1, OpeningAccounts
  <2>3. /\ Queue(Put(ls, k, v)) /\ Net(Put(ls, k, v)) = Net(ls) + NetOf(v)
    BY <1>1, <1>4, NetOfPut
  <2>4. OpenQty(Put(ls, k, v)) = OpenQty(ls) + v.rem
    BY <1>1, <1>4, OpenOfPut
  <2>5. NetOf(v) = v.rem /\ v.rem \in Int
    BY <1>4 DEF NetOf, Layer
  <2>6. /\ Net(Put(ls, k, v)) = OpenQty(Put(ls, k, v)) - PendingQty(Put(ls, k, v))
        /\ PendingQty(Put(ls, k, v)) \in Int
    BY <2>3, NetIsOpen
  <2> DEFINE a == OpenQty(Put(ls, k, v))
             b == PendingQty(Put(ls, k, v))
             c == Net(Put(ls, k, v))
  <2> HIDE DEF ls2, a, b, c
  <2>7. a = OpenQty(ls) + v.rem /\ c = Net(ls) + v.rem /\ c = a - b /\ b \in Int
    BY <2>3, <2>4, <2>5, <2>6 DEF a, b, c
  <2>8. b = PendingQty(ls) /\ a = balance
    BY <1>2, <1>4, <2>5, <2>7
  <2> QED
    BY <1>4, <2>2, <2>3, <2>8 DEF a, b
<1>5. \/ ls2 = ls /\ ~(balance > 0 /\ balance > OpenQty(ls))
      \/ \E k \in Nat, v \in Layer :
              /\ ls2 = Put(ls, k, v)
              /\ k \notin DOMAIN ls /\ k \notin DOMAIN moves
              /\ v.date = OpeningDate /\ v.orig = balance - OpenQty(ls) /\ v.rem = v.orig
              /\ ~v.prov /\ v.recd = 0
              /\ balance > 0 /\ balance > OpenQty(ls)
  BY <1>1, BackfillIs
<1>6. CASE \E k \in Nat, v \in Layer :
              /\ ls2 = Put(ls, k, v)
              /\ k \notin DOMAIN ls /\ k \notin DOMAIN moves
              /\ v.date = OpeningDate /\ v.orig = balance - OpenQty(ls) /\ v.rem = v.orig
              /\ ~v.prov /\ v.recd = 0
              /\ balance > 0 /\ balance > OpenQty(ls)
  <2> HIDE DEF ls2
  <2>1. /\ Accounts(ls2, rows, fills, ms) /\ Queue(ls2)
        /\ PendingQty(ls2) = PendingQty(ls) /\ OpenQty(ls2) = balance
        /\ balance > 0 /\ balance > OpenQty(ls)
    BY <1>4, <1>6
  <2> QED
    BY <2>1 DEF ls2
<1> HIDE DEF ls2
<1> QED
  BY <1>3, <1>5, <1>6 DEF ls2

\* Once the layers cover the balance, backfilling makes them cover it exactly.
LEMMA BackfillCovers ==
  ASSUME NEW ls, NEW rows, NEW fills, NEW ms, Books(ls, rows, fills, DOMAIN ms),
         Accounts(ls, rows, fills, ms), Ids(DOMAIN moves), DOMAIN ms \subseteq DOMAIN moves,
         NEW balance \in Int, NEW cost \in Nat, Covered(ls, balance)
  PROVE  Net(Backfill(ls, balance, cost)) = balance
<1> DEFINE ls2 == Backfill(ls, balance, cost)
<1>1. Queue(ls) /\ \A l \in DOMAIN ls : ls[l].recd <= ls[l].orig
  BY DEF Books, Queue, Fits
<1>2. /\ Net(ls) = OpenQty(ls) - PendingQty(ls)
      /\ OpenQty(ls) \in Nat /\ PendingQty(ls) \in Nat
  BY <1>1, NetIsOpen, PendingNat
<1>3. /\ Queue(ls2) /\ PendingQty(ls2) = PendingQty(ls)
      /\ OpenQty(ls2) = IF balance > 0 /\ balance > OpenQty(ls) THEN balance ELSE OpenQty(ls)
  BY BackfillAccounts
<1> HIDE DEF ls2
<1>4. Net(ls2) = OpenQty(ls2) - PendingQty(ls2)
  BY <1>3, NetIsOpen
<1>5. balance = Net(ls) => Net(ls2) = balance
  BY <1>2, <1>3, <1>4
<1>6. ASSUME DOMAIN ls = {}, balance >= 0 PROVE Net(ls2) = balance
  <2>1. OpenQty(ls) = 0
    BY <1>6, SumEmpty DEF OpenQty, Rem, SumFunction
  <2>2. PendingQty(ls) = 0
    <3>1. DOMAIN Pending(ls) = {}
      BY <1>6 DEF Pending, Provisional
    <3> QED
      BY <3>1, SumEmpty DEF PendingQty, SumFunction
  <2> QED
    BY <1>3, <1>4, <1>6, <2>1, <2>2
<1> QED
  BY <1>5, <1>6 DEF Covered, ls2

-----------------------------------------------------------------------------
\* The ledgers of the rows: each layer and each difference journal.
Tallies == Accounts(layers, cons, recs, moves) /\ DiffLedger

\* The difference ledger in the words of DiffOf.
LEMMA DiffLedgerIs ==
  DiffLedger <=> \A m \in DOMAIN moves : DiffOf(recs, m, moves[m].cost) = At(diffs, m)
BY DEF DiffLedger, DiffOf, At

LEMMA DiffLedgerIsNext ==
  DiffLedger' <=>
    \A m \in DOMAIN moves' : DiffOf(recs', m, moves'[m].cost) = At(diffs', m)
BY DEF DiffLedger, DiffOf, At

\* Filling provisional layers: nothing else of a layer changes.
LEMMA ReconcileLayer ==
  ASSUME NEW ls, ls \in [DOMAIN ls -> Layer], NEW fill,
         DOMAIN fill \subseteq DOMAIN ls, \A l \in DOMAIN fill : fill[l] \in Nat,
         NEW l \in DOMAIN ls
  PROVE  /\ Reconcile(ls, fill)[l] \in Layer
         /\ Reconcile(ls, fill)[l].recd = ls[l].recd + At(fill, l)
         /\ Reconcile(ls, fill)[l].rem = ls[l].rem
         /\ Reconcile(ls, fill)[l].orig = ls[l].orig
         /\ Reconcile(ls, fill)[l].date = ls[l].date
         /\ Reconcile(ls, fill)[l].prov = ls[l].prov
         /\ Reconcile(ls, fill)[l].cost = ls[l].cost
<1>0. ls[l] \in Layer
  OBVIOUS
<1>1. CASE l \in DOMAIN fill
  <2>1. Reconcile(ls, fill)[l] = [ls[l] EXCEPT !.recd = ls[l].recd + fill[l]]
    BY <1>1 DEF Reconcile
  <2>2. At(fill, l) = fill[l] /\ fill[l] \in Nat
    BY <1>1 DEF At
  <2> QED
    BY <1>0, <2>1, <2>2 DEF Layer
<1>2. CASE l \notin DOMAIN fill
  <2>1. Reconcile(ls, fill)[l] = ls[l]
    BY <1>2 DEF Reconcile
  <2>2. At(fill, l) = 0
    BY <1>2 DEF At
  <2> QED
    BY <1>0, <2>1, <2>2 DEF Layer
<1> QED
  BY <1>1, <1>2

\* A receipt keeps the accounts: what it fills is recorded on the layers it
\* fills and in its own, and the rest of it is open.
LEMMA InboundAccounts ==
  ASSUME NEW ls, NEW rows, NEW fills, NEW ms, Books(ls, rows, fills, DOMAIN ms),
         Accounts(ls, rows, fills, ms),
         NEW m \in Nat, m \notin DOMAIN ms, m \notin DOMAIN ls,
         NEW fill, DOMAIN fill \subseteq Provisional(ls),
         \A l \in DOMAIN fill : fill[l] \in Nat,
         NEW q \in Nat, SumFunction(fill) <= q,
         NEW w \in Move, Inward(w), w.qty = q,
         NEW v \in Layer, v.date # OpeningDate, v.orig = q, v.rem = q - SumFunction(fill),
         ~v.prov, v.recd = 0
  PROVE  /\ Accounts(Put(Reconcile(ls, fill), m, v), rows,
                     WithRows(fills, m, fill, ls), Put(ms, m, w))
         /\ Net(Put(Reconcile(ls, fill), m, v)) = Net(ls) + q
<1> DEFINE lsr == Reconcile(ls, fill)
           ls2 == Put(lsr, m, v)
           fills2 == WithRows(fills, m, fill, ls)
           ms2 == Put(ms, m, w)
           filled == SumFunction(fill)
<1>1. /\ RowTable(rows, DOMAIN ms, ls) /\ RowTable(fills, DOMAIN ms, ls)
      /\ Ids(DOMAIN ms) /\ Ids(DOMAIN ls) /\ ls \in [DOMAIN ls -> Layer]
  BY DEF Books
<1>2. /\ DOMAIN fill \subseteq DOMAIN ls
      /\ \A l \in DOMAIN fill : ls[l].prov /\ fill[l] \in Nat /\ ls[l].cost \in Nat
  BY <1>1 DEF Provisional, Layer
<1>3. /\ DOMAIN lsr = DOMAIN ls
      /\ \A l \in DOMAIN ls :
           /\ lsr[l] \in Layer /\ lsr[l].recd = ls[l].recd + At(fill, l)
           /\ lsr[l].rem = ls[l].rem /\ lsr[l].orig = ls[l].orig
           /\ lsr[l].date = ls[l].date /\ lsr[l].prov = ls[l].prov
  BY <1>1, <1>2, ReconcileLayer DEF Reconcile
<1>4. Queue(ls) /\ Queue(lsr)
  <2>1. lsr = [l \in DOMAIN lsr |-> lsr[l]]
    BY DEF Reconcile
  <2> HIDE DEF lsr
  <2> QED
    BY <1>1, <1>3, <2>1 DEF Queue
<1>5. /\ DOMAIN ls2 = DOMAIN ls \cup {m} /\ ls2[m] = v
      /\ \A l \in DOMAIN ls : ls2[l] = lsr[l] /\ l # m
  BY <1>3 DEF Put
<1>6. /\ DOMAIN ms2 = DOMAIN ms \cup {m} /\ ms2[m] = w
      /\ \A k \in DOMAIN ms : ms2[k] = ms[k] /\ k # m
  BY DEF Put
<1>7. Adds(fills2, fills, DOMAIN ms, ls, m, fill)
  BY <1>1, <1>2, AddedRows
<1>8. /\ RowTable(fills2, DOMAIN ms \cup {m}, ls)
      /\ \A l : /\ Consumed(fills2, l) = Consumed(fills, l) + At(fill, l)
                /\ Consumed(fills, l) \in Nat /\ At(fill, l) \in Nat
      /\ Spent(fills2, m) = filled /\ filled \in Nat
      /\ \A k : k # m => Spent(fills2, k) = Spent(fills, k)
  <2> HIDE DEF fills2
  <2> QED
    BY <1>7 DEF Adds
<1>9. Net(ls2) = Net(ls) + q
  <2>1. \A l \in DOMAIN ls : NetOf(lsr[l]) = NetOf(ls[l]) + At(fill, l)
    <3> SUFFICES ASSUME NEW l \in DOMAIN ls
                 PROVE  NetOf(lsr[l]) = NetOf(ls[l]) + At(fill, l)
      OBVIOUS
    <3>1. /\ lsr[l].recd = ls[l].recd + At(fill, l)
          /\ lsr[l].rem = ls[l].rem /\ lsr[l].orig = ls[l].orig
          /\ lsr[l].prov = ls[l].prov
      BY <1>3
    <3>2. ls[l] \in Layer /\ At(fill, l) \in Nat
      BY <1>1, <1>8
    <3>3. ~ls[l].prov => At(fill, l) = 0
      BY <1>2 DEF At
    <3> HIDE DEF lsr
    <3> QED
      BY <3>1, <3>2, <3>3 DEF NetOf, Layer
  <2> HIDE DEF lsr
  <2>2. Net(lsr) = Net(ls) + filled /\ Net(ls) \in Int /\ filled \in Int
    BY <1>2, <1>3, <1>4, <2>1, NetOfShift
  <2>3. m \in Nat \ DOMAIN lsr
    BY <1>3
  <2>4. Net(ls2) = Net(lsr) + NetOf(v) /\ NetOf(v) \in Int
    BY <1>4, <2>3, NetOfPut
  <2>5. NetOf(v) = q - filled
    BY DEF NetOf
  <2> HIDE DEF ls2, filled
  <2> QED
    BY <2>2, <2>4, <2>5
<1> HIDE DEF lsr, ls2, fills2, ms2, filled
<1>10. ASSUME NEW l \in DOMAIN ls2 PROVE Square(ls2[l], l, rows, fills2)
  <2>1. CASE l \in DOMAIN ls
    <3>1. Square(ls[l], l, rows, fills)
      BY <2>1 DEF Accounts
    <3>2. /\ ls2[l].recd = ls[l].recd + At(fill, l)
          /\ ls2[l].rem = ls[l].rem /\ ls2[l].orig = ls[l].orig
      BY <1>3, <1>5, <2>1
    <3>3. Spent(fills2, l) = Spent(fills, l)
      BY <1>5, <1>8, <2>1
    <3> QED
      BY <1>8, <3>1, <3>2, <3>3 DEF Square
  <2>2. CASE l = m
    <3>1. Consumed(rows, m) = 0 /\ Consumed(fills, m) = 0
      <4>1. ASSUME NEW t, RowTable(t, DOMAIN ms, ls) PROVE Consumed(t, m) = 0
        <5>1. DOMAIN RowsOn(t, m) = {}
          BY <4>1 DEF RowsOn, RowTable
        <5> QED
          BY <5>1, SumEmpty DEF Consumed, SumFunction
      <4> QED
        BY <1>1, <4>1
    <3>2. At(fill, m) = 0
      BY <1>2 DEF At
    <3>3. Consumed(fills2, m) = 0
      BY <1>8, <3>1, <3>2
    <3>4. ls2[m].orig = q /\ ls2[m].rem = q - filled /\ ls2[m].recd = 0
      BY <1>5 DEF filled
    <3> QED
      BY <1>8, <2>2, <3>1, <3>3, <3>4 DEF Square
  <2> QED
    BY <1>5, <2>1, <2>2
<1>11. Kinds(ls2, rows, fills2, ms2)
  <2>1. Kinds(ls, rows, fills, ms)
    BY DEF Accounts
  <2>2. ASSUME NEW r \in DOMAIN rows PROVE ~Inward(ms2[r[1]])
    <3>1. r[1] \in DOMAIN ms
      BY <1>1 DEF RowTable
    <3> QED
      BY <1>6, <2>1, <3>1 DEF Kinds
  <2>3. ASSUME NEW r \in DOMAIN fills2
        PROVE  /\ Inward(ms2[r[1]]) /\ r[1] \in DOMAIN ls2 /\ ls2[r[2]].prov
               /\ fills2[r].qty > 0
    <3>1. CASE r \in DOMAIN fills
      <4>1. r[1] \in DOMAIN ms /\ r[2] \in DOMAIN ls /\ fills2[r] = fills[r]
        BY <1>1, <1>7, <3>1 DEF RowTable, Adds
      <4>2. /\ Inward(ms[r[1]]) /\ r[1] \in DOMAIN ls /\ ls[r[2]].prov
            /\ fills[r].qty > 0
        BY <2>1, <3>1 DEF Kinds
      <4> QED
        BY <1>3, <1>5, <1>6, <4>1, <4>2
    <3>2. CASE r \notin DOMAIN fills
      <4>1. r[1] = m /\ r[2] \in DOMAIN fill /\ fills2[r].qty = fill[r[2]] /\ fill[r[2]] > 0
        BY <1>7, <3>2 DEF Adds
      <4> QED
        BY <1>2, <1>3, <1>5, <1>6, <4>1
    <3> QED
      BY <3>1, <3>2
  <2>4. ASSUME NEW l \in DOMAIN ls2
        PROVE  /\ ls2[l].prov <=> l \in DOMAIN ms2 /\ ~Inward(ms2[l])
               /\ ls2[l].date = OpeningDate <=> l \notin DOMAIN ms2
               /\ l \in DOMAIN ms2 /\ Inward(ms2[l]) =>
                    /\ ls2[l].orig <= ms2[l].qty
                    /\ ms2[l].type # "RETURN_IN" => ls2[l].orig = ms2[l].qty
    <3>1. CASE l \in DOMAIN ls
      <4>1. /\ ls2[l].prov = ls[l].prov /\ ls2[l].date = ls[l].date
            /\ ls2[l].orig = ls[l].orig
        BY <1>3, <1>5, <3>1
      <4>2. /\ l \in DOMAIN ms2 <=> l \in DOMAIN ms
            /\ l \in DOMAIN ms => ms2[l] = ms[l]
        BY <1>5, <1>6, <3>1
      <4> QED
        BY <2>1, <3>1, <4>1, <4>2 DEF Kinds
    <3>2. CASE l = m
      <4>1. ls2[l] = v /\ l \in DOMAIN ms2 /\ ms2[l] = w
        BY <1>5, <1>6, <3>2
      <4> QED
        BY <4>1
    <3> QED
      BY <1>5, <3>1, <3>2
  <2>5. ASSUME NEW k \in DOMAIN ms2
        PROVE  /\ Inward(ms2[k]) /\ ms2[k].type # "RETURN_IN" /\ k \notin DOMAIN ls2
                    => OnlyReceiptsBefore(ms2, k)
               /\ ~Inward(ms2[k]) => Spent(rows, k) <= ms2[k].qty
    <3>1. CASE k \in DOMAIN ms
      <4>1. ms2[k] = ms[k] /\ (k \notin DOMAIN ls2 => k \notin DOMAIN ls)
        BY <1>5, <1>6, <3>1
      <4>2. OnlyReceiptsBefore(ms, k) => OnlyReceiptsBefore(ms2, k)
        BY <1>6 DEF OnlyReceiptsBefore
      <4> QED
        BY <2>1, <3>1, <4>1, <4>2 DEF Kinds
    <3>2. CASE k = m
      BY <1>5, <1>6, <3>2
    <3> QED
      BY <1>6, <3>1, <3>2
  <2> QED
    BY <2>2, <2>3, <2>4, <2>5 DEF Kinds
<1> QED
  BY <1>9, <1>10, <1>11 DEF Accounts, lsr, ls2, fills2, ms2

\* A receipt, a return at average or the surplus of a stocktake keeps the
\* ledgers, and moves what the layers cover by its quantity.
LEMMA InboundTallies ==
  ASSUME StockInv, Tallies, NEW type \in InboundTypes, NEW ref \in References,
         NEW q \in Nat, NEW cost \in Nat, NEW date \in Nat \ {0},
         Inbound(type, ref, q, cost, date)
  PROVE  Tallies' /\ (Covered(layers, onHand) => onHand' = Net(layers'))
<1> DEFINE ls0 == Backfill(layers, onHand, avg)
           m == NextId(DOMAIN moves \cup DOMAIN ls0)
           fill == Draw(Pending(ls0), Fifo(ls0), q)
           filled == SumFunction(fill)
           diff == Cents(filled * cost - CostOf(fill, ls0))
           v == [date |-> date, orig |-> q, rem |-> q - filled,
                 cost |-> cost, prov |-> FALSE, recd |-> 0]
           lsr == Reconcile(ls0, fill)
           ls1 == Put(lsr, m, v)
           w == [type |-> type, ref |-> ref, qty |-> q, cost |-> cost,
                 total |-> Cents(q * cost)]
           ids == DOMAIN moves
<1>0. /\ layers' = ls1 /\ recs' = WithRows(recs, m, fill, ls0)
      /\ diffs' = IF diff = 0 THEN diffs ELSE Put(diffs, m, diff)
      /\ moves' = Put(moves, m, w)
      /\ onHand' = onHand + q /\ cons' = cons
  BY DEF Inbound
<1>1. Ids(ids) /\ onHand \in Int /\ avg \in Nat /\ Journal(moves)
  BY DEF StockInv, Journal
<1>2. Books(layers, cons, recs, ids) /\ Accounts(layers, cons, recs, moves)
  BY DEF StockInv, Tallies
<1>3. Books(ls0, cons, recs, ids) /\ Accounts(ls0, cons, recs, moves)
  BY <1>1, <1>2, BackfillBooks, BackfillAccounts
<1>4. Covered(layers, onHand) => Net(ls0) = onHand
  BY <1>1, <1>2, BackfillCovers
<1> HIDE DEF ls0
<1>5. Ids(DOMAIN ls0) /\ ls0 \in [DOMAIN ls0 -> Layer] /\ Queue(ls0)
  BY <1>3 DEF Books, Queue
<1>6. m \in Nat /\ m \notin ids /\ m \notin DOMAIN ls0
  BY <1>1, <1>5, NextIdFresh
<1> HIDE DEF m
<1>7. /\ DOMAIN Pending(ls0) = Provisional(ls0)
      /\ Provisional(ls0) \in SUBSET DOMAIN ls0
      /\ \A l \in DOMAIN Pending(ls0) : Pending(ls0)[l] = ls0[l].orig - ls0[l].recd
  BY DEF Pending, Provisional
<1>8. \A l \in DOMAIN ls0 : /\ ls0[l].cost \in Nat /\ ls0[l].date \in Nat
                            /\ ls0[l].orig - ls0[l].recd \in Nat
  <2>1. \A l \in DOMAIN ls0 : ls0[l] \in Layer /\ ls0[l].recd <= ls0[l].orig
    BY <1>3 DEF Books, Fits
  <2> QED
    BY <2>1 DEF Layer
<1>9. \A l \in DOMAIN Pending(ls0) : Pending(ls0)[l] \in Nat
  BY <1>7, <1>8
<1>10. IsFiniteSet(DOMAIN Pending(ls0))
  BY <1>5, <1>7, FS_Subset DEF Ids
<1>11. /\ DOMAIN fill = Provisional(ls0)
       /\ \A l \in DOMAIN fill : fill[l] \in Nat
  BY <1>7, <1>9, <1>10, DrawBounds
<1>12. filled \in Nat /\ filled <= q
  <2>1. StrictTotalOrder(Fifo(ls0), Provisional(ls0))
    BY <1>5, <1>7, <1>8, FifoOrder DEF Ids
  <2>2. StrictTotalOrder(Fifo(ls0), DOMAIN Pending(ls0))
    BY <1>7, <2>1
  <2> QED
    BY <1>9, <1>10, <2>2, DrawTotal
<1> HIDE DEF fill, lsr
<1>13. /\ v \in Layer /\ v.date # OpeningDate /\ v.orig = q /\ v.rem = q - filled
       /\ ~v.prov /\ v.recd = 0
  <2> HIDE DEF filled
  <2> QED
    BY <1>12 DEF Layer, OpeningDate
<1>14. w \in Move /\ Inward(w) /\ w.qty = q /\ w.cost = cost
  <2>1. q * cost \in Nat
    OBVIOUS
  <2>2. Cents(q * cost) \in Nat
    BY <2>1, QuantizeType DEF Cents
  <2> QED
    BY <2>2 DEF Move, Inward
<1> HIDE DEF v, w
<1>15. /\ Accounts(ls1, cons, WithRows(recs, m, fill, ls0), Put(moves, m, w))
       /\ Net(ls1) = Net(ls0) + q
  <2>1. DOMAIN fill \subseteq Provisional(ls0) /\ SumFunction(fill) <= q
    BY <1>11, <1>12
  <2>2. v.rem = q - SumFunction(fill)
    BY <1>13
  <2> QED
    BY <1>3, <1>6, <1>11, <1>13, <1>14, <2>1, <2>2, InboundAccounts DEF lsr
<1> HIDE DEF ls1
<1>16. Accounts(layers', cons', recs', moves')
  BY <1>0, <1>15
<1>17. Covered(layers, onHand) => onHand' = Net(layers')
  BY <1>0, <1>4, <1>15
<1>18. DiffLedger'
  <2>1. /\ RowTable(recs, ids, ls0) /\ DOMAIN fill \subseteq DOMAIN ls0
        /\ \A l \in DOMAIN fill : fill[l] \in Nat /\ ls0[l].cost \in Nat
    BY <1>3, <1>7, <1>8, <1>11 DEF Books
  <2>2. Adds(recs', recs, ids, ls0, m, fill)
    BY <1>0, <1>1, <1>5, <1>6, <2>1, AddedRows
  <2>3. \A k \in ids : k # m
    BY <1>6
  <2>4. DOMAIN moves' = ids \cup {m} /\ moves'[m] = w /\ \A k \in ids : moves'[k] = moves[k]
    BY <1>0, <2>3 DEF Put
  <2>5. diffs \in [DOMAIN diffs -> Int] /\ DOMAIN diffs \subseteq ids
    BY DEF StockInv
  <2>6. ASSUME NEW k \in ids PROVE DiffOf(recs', k, moves'[k].cost) = At(diffs', k)
    <3>1. ASSUME NEW l
          PROVE  /\ <<k, l>> \in DOMAIN recs <=> <<k, l>> \in DOMAIN recs'
                 /\ <<k, l>> \in DOMAIN recs => recs'[<<k, l>>] = recs[<<k, l>>]
      <4>1. <<k, l>>[1] # m
        BY <2>3
      <4> QED
        BY <2>2, <4>1 DEF Adds
    <3>2. RowTable(recs', ids \cup {m}, ls0)
      BY <2>2 DEF Adds
    <3>3. DiffOf(recs', k, moves[k].cost) = DiffOf(recs, k, moves[k].cost)
      BY <2>1, <3>1, <3>2, DiffOfSame
    <3>4. DiffOf(recs, k, moves[k].cost) = At(diffs, k)
      BY DiffLedgerIs DEF Tallies
    <3>5. At(diffs', k) = At(diffs, k)
      BY <1>0, <2>3 DEF At, Put
    <3> QED
      BY <2>4, <3>3, <3>4, <3>5
  <2>7. DiffOf(recs', m, moves'[m].cost) = At(diffs', m)
    <3>1. m \in Nat \ ids
      BY <1>6
    <3>2. DiffOf(recs', m, cost) = diff
      BY <1>0, <1>5, <2>1, <3>1, DiffOfAdded
    <3>3. At(diffs', m) = diff
      <4> HIDE DEF diff
      <4>1. m \notin DOMAIN diffs
        BY <1>6, <2>5
      <4> QED
        BY <1>0, <4>1 DEF At, Put
    <3> QED
      BY <1>14, <2>4, <3>2, <3>3
  <2>8. \A k \in DOMAIN moves' : DiffOf(recs', k, moves'[k].cost) = At(diffs', k)
    BY <2>4, <2>6, <2>7
  <2> QED
    BY <2>8, DiffLedgerIsNext
<1> QED
  BY <1>16, <1>17, <1>18 DEF Tallies

-----------------------------------------------------------------------------
\* Where there is no row there is nothing taken.
LEMMA NoneConsumed ==
  ASSUME NEW rows, NEW l, \A r \in DOMAIN rows : r[2] # l
  PROVE  Consumed(rows, l) = 0
<1>1. DOMAIN RowsOn(rows, l) = {}
  BY DEF RowsOn
<1> QED
  BY <1>1, SumEmpty DEF Consumed, SumFunction

LEMMA NoneSpent ==
  ASSUME NEW rows, NEW m, \A r \in DOMAIN rows : r[1] # m
  PROVE  Spent(rows, m) = 0
<1>1. DOMAIN RowsOf(rows, m) = {}
  BY DEF RowsOf
<1> QED
  BY <1>1, SumEmpty DEF Spent, SumFunction

\* What is taken away is a negative sum.
LEMMA SumNegated ==
  ASSUME NEW t, IsFiniteSet(DOMAIN t), \A x \in DOMAIN t : t[x] \in Int
  PROVE  SumFunction([x \in DOMAIN t |-> -t[x]]) = -SumFunction(t)
<1> DEFINE S == DOMAIN t
           n == [x \in S |-> -t[x]]
<1>1. \A x \in S : t[x] \in Int /\ n[x] = (-1) * t[x]
  OBVIOUS
<1>2. DOMAIN n = S
  OBVIOUS
<1> HIDE DEF n
<1>3. SumFunctionOnSet(n, S) = (-1) * SumFunctionOnSet(t, S)
  BY <1>1, SumTimes
<1>4. SumFunctionOnSet(t, S) \in Int
  BY SumInt
<1> QED
  BY <1>2, <1>3, <1>4 DEF SumFunction, n

\* Taking units out of a layer: nothing else of it changes.
LEMMA ConsumeLayer ==
  ASSUME NEW ls, ls \in [DOMAIN ls -> Layer], NEW take, NEW l \in DOMAIN ls,
         take[l] \in Nat, take[l] <= ls[l].rem
  PROVE  /\ Consume(ls, take)[l] \in Layer
         /\ Consume(ls, take)[l].rem = ls[l].rem - take[l]
         /\ Consume(ls, take)[l].orig = ls[l].orig
         /\ Consume(ls, take)[l].recd = ls[l].recd
         /\ Consume(ls, take)[l].date = ls[l].date
         /\ Consume(ls, take)[l].prov = ls[l].prov
         /\ Consume(ls, take)[l].cost = ls[l].cost
<1>1. ls[l] \in Layer
  OBVIOUS
<1>2. Consume(ls, take)[l] = [ls[l] EXCEPT !.rem = ls[l].rem - take[l]]
  BY DEF Consume
<1> QED
  BY <1>1, <1>2 DEF Layer

\* An issue keeps the accounts: its rows hold what it took of the layers, the
\* units they could not cover in a provisional layer of its own.
LEMMA IssueAccounts ==
  ASSUME NEW ls, NEW rows, NEW fills, NEW ms, Books(ls, rows, fills, DOMAIN ms),
         Accounts(ls, rows, fills, ms), NEW m \in Nat, m \notin DOMAIN ms,
         \A k \in DOMAIN ms : k < m,
         m \notin DOMAIN ls, NEW ls2, Queue(ls2), NEW taken, DOMAIN taken = DOMAIN ls2,
         DOMAIN ls \subseteq DOMAIN ls2, DOMAIN ls2 \subseteq DOMAIN ls \cup {m},
         \A l \in DOMAIN ls2 : taken[l] \in Nat,
         \A l \in DOMAIN ls :
           /\ ls2[l].rem = ls[l].rem - taken[l] /\ ls2[l].orig = ls[l].orig
           /\ ls2[l].recd = ls[l].recd /\ ls2[l].date = ls[l].date
           /\ ls2[l].prov = ls[l].prov,
         m \in DOMAIN ls2 =>
           /\ ls2[m].orig = taken[m] /\ ls2[m].rem = 0 /\ ls2[m].recd = 0
           /\ ls2[m].prov /\ ls2[m].date # OpeningDate,
         NEW w \in Move, ~Inward(w), SumFunction(taken) <= w.qty
  PROVE  Accounts(ls2, WithRows(rows, m, taken, ls2), fills, Put(ms, m, w))
<1> DEFINE rows2 == WithRows(rows, m, taken, ls2)
           ms2 == Put(ms, m, w)
<1>1. /\ RowTable(rows, DOMAIN ms, ls) /\ RowTable(fills, DOMAIN ms, ls)
      /\ Ids(DOMAIN ms) /\ Ids(DOMAIN ls) /\ ls \in [DOMAIN ls -> Layer]
      /\ Ids(DOMAIN ls2) /\ ls2 \in [DOMAIN ls2 -> Layer]
  BY DEF Books, Queue
<1>2. \A l \in DOMAIN ls : l # m /\ l \in DOMAIN ls2
  OBVIOUS
<1>3. RowTable(rows, DOMAIN ms, ls2)
  BY <1>1 DEF RowTable
<1>4. /\ DOMAIN ms2 = DOMAIN ms \cup {m} /\ ms2[m] = w
      /\ \A k \in DOMAIN ms : ms2[k] = ms[k] /\ k # m
  BY DEF Put
<1>5. Adds(rows2, rows, DOMAIN ms, ls2, m, taken)
  <2>1. /\ DOMAIN taken \subseteq DOMAIN ls2
        /\ \A l \in DOMAIN taken : taken[l] \in Nat /\ ls2[l].cost \in Nat
    BY <1>1 DEF Layer
  <2>2. m \in Nat \ DOMAIN ms
    OBVIOUS
  <2> QED
    BY <1>1, <1>3, <2>1, <2>2, AddedRows
<1>6. /\ \A l : /\ Consumed(rows2, l) = Consumed(rows, l) + At(taken, l)
                /\ Consumed(rows, l) \in Nat /\ At(taken, l) \in Nat
      /\ Spent(rows2, m) = SumFunction(taken) /\ SumFunction(taken) \in Nat
      /\ \A k : k # m => Spent(rows2, k) = Spent(rows, k)
  <2> HIDE DEF rows2
  <2> QED
    BY <1>5 DEF Adds
<1> HIDE DEF rows2, ms2
<1>7. ASSUME NEW l \in DOMAIN ls2 PROVE Square(ls2[l], l, rows2, fills)
  <2>1. At(taken, l) = taken[l] /\ taken[l] \in Nat /\ ls2[l] \in Layer
    BY <1>1 DEF At
  <2>2. CASE l \in DOMAIN ls
    <3>1. Square(ls[l], l, rows, fills)
      BY <2>2 DEF Accounts
    <3>2. /\ ls2[l].recd = ls[l].recd
          /\ ls2[l].rem = ls[l].rem - taken[l] /\ ls2[l].orig = ls[l].orig
      BY <2>2
    <3>3. ls[l] \in Layer /\ Spent(fills, l) \in Nat
      BY <1>1, <2>2, SpentIs DEF Ids
    <3> QED
      BY <1>6, <2>1, <3>1, <3>2, <3>3 DEF Square, Layer
  <2>3. CASE l = m
    <3>1. Consumed(rows, m) = 0 /\ Consumed(fills, m) = 0
      <4>1. /\ \A r \in DOMAIN rows : r[2] # m
            /\ \A r \in DOMAIN fills : r[2] # m
        BY <1>1 DEF RowTable
      <4> QED
        BY <4>1, NoneConsumed
    <3>2. Spent(fills, m) = 0
      <4>1. \A r \in DOMAIN fills : r[1] # m
        BY <1>1 DEF RowTable
      <4> QED
        BY <4>1, NoneSpent
    <3>3. ls2[m].orig = taken[m] /\ ls2[m].rem = 0 /\ ls2[m].recd = 0
      BY <2>3
    <3> QED
      BY <1>6, <2>1, <2>3, <3>1, <3>2, <3>3 DEF Square
  <2> QED
    BY <2>2, <2>3
<1>8. Kinds(ls2, rows2, fills, ms2)
  <2>1. Kinds(ls, rows, fills, ms)
    BY DEF Accounts
  <2>2. ASSUME NEW r \in DOMAIN rows2 PROVE ~Inward(ms2[r[1]])
    <3>1. CASE r \in DOMAIN rows
      <4>1. r[1] \in DOMAIN ms
        BY <1>1, <3>1 DEF RowTable
      <4> QED
        BY <1>4, <2>1, <3>1, <4>1 DEF Kinds
    <3>2. CASE r \notin DOMAIN rows
      <4>1. r[1] = m
        BY <1>5, <3>2 DEF Adds
      <4> QED
        BY <1>4, <4>1
    <3> QED
      BY <3>1, <3>2
  <2>3. ASSUME NEW r \in DOMAIN fills
        PROVE  /\ Inward(ms2[r[1]]) /\ r[1] \in DOMAIN ls2 /\ ls2[r[2]].prov
               /\ fills[r].qty > 0
    <3>1. r[1] \in DOMAIN ms /\ r[2] \in DOMAIN ls
      BY <1>1 DEF RowTable
    <3>2. /\ Inward(ms[r[1]]) /\ r[1] \in DOMAIN ls /\ ls[r[2]].prov
          /\ fills[r].qty > 0
      BY <2>1 DEF Kinds
    <3> QED
      BY <1>2, <1>4, <3>1, <3>2
  <2>4. ASSUME NEW l \in DOMAIN ls2
        PROVE  /\ ls2[l].prov <=> l \in DOMAIN ms2 /\ ~Inward(ms2[l])
               /\ ls2[l].date = OpeningDate <=> l \notin DOMAIN ms2
               /\ l \in DOMAIN ms2 /\ Inward(ms2[l]) =>
                    /\ ls2[l].orig <= ms2[l].qty
                    /\ ms2[l].type # "RETURN_IN" => ls2[l].orig = ms2[l].qty
    <3>1. CASE l \in DOMAIN ls
      <4>1. /\ ls2[l].prov = ls[l].prov /\ ls2[l].date = ls[l].date
            /\ ls2[l].orig = ls[l].orig
        BY <3>1
      <4>2. /\ l \in DOMAIN ms2 <=> l \in DOMAIN ms
            /\ l \in DOMAIN ms => ms2[l] = ms[l]
        BY <1>2, <1>4, <3>1
      <4> QED
        BY <2>1, <3>1, <4>1, <4>2 DEF Kinds
    <3>2. CASE l = m
      <4>1. ls2[l].prov /\ ls2[l].date # OpeningDate /\ l \in DOMAIN ms2 /\ ms2[l] = w
        BY <1>4, <3>2
      <4> QED
        BY <4>1
    <3> QED
      BY <3>1, <3>2
  <2>5. ASSUME NEW k \in DOMAIN ms2
        PROVE  /\ Inward(ms2[k]) /\ ms2[k].type # "RETURN_IN" /\ k \notin DOMAIN ls2
                    => OnlyReceiptsBefore(ms2, k)
               /\ ~Inward(ms2[k]) => Spent(rows2, k) <= ms2[k].qty
    <3>1. CASE k \in DOMAIN ms
      <4>1. /\ ms2[k] = ms[k] /\ k # m /\ (k \notin DOMAIN ls2 => k \notin DOMAIN ls)
            /\ Spent(rows2, k) = Spent(rows, k)
        BY <1>2, <1>4, <1>6, <3>1
      <4>2. OnlyReceiptsBefore(ms, k) => OnlyReceiptsBefore(ms2, k)
        <5>1. k \in Nat /\ k < m
          BY <1>1, <3>1 DEF Ids
        <5> QED
          BY <1>4, <5>1 DEF OnlyReceiptsBefore
      <4> QED
        BY <2>1, <3>1, <4>1, <4>2 DEF Kinds
    <3>2. CASE k = m
      BY <1>4, <1>6, <3>2
    <3> QED
      BY <1>4, <3>1, <3>2
  <2> QED
    BY <2>2, <2>3, <2>4, <2>5 DEF Kinds
<1> QED
  BY <1>7, <1>8 DEF Accounts, rows2, ms2

\* The nets of the layers go down by what is taken of them.
LEMMA NetConsumed ==
  ASSUME NEW ls, Queue(ls), NEW take, DOMAIN take = DOMAIN ls,
         \A l \in DOMAIN ls : take[l] \in Nat /\ take[l] <= ls[l].rem
  PROVE  /\ Queue(Consume(ls, take)) /\ DOMAIN Consume(ls, take) = DOMAIN ls
         /\ Net(Consume(ls, take)) = Net(ls) - SumFunction(take)
<1> DEFINE ls2 == Consume(ls, take)
           h == [l \in DOMAIN take |-> -take[l]]
<1>1. /\ DOMAIN ls2 = DOMAIN ls
      /\ \A l \in DOMAIN ls :
           /\ ls2[l] \in Layer /\ ls2[l].recd = ls[l].recd
           /\ ls2[l].rem = ls[l].rem - take[l] /\ ls2[l].orig = ls[l].orig
           /\ ls2[l].prov = ls[l].prov
  BY ConsumeLayer DEF Consume, Queue
<1>2. Queue(ls2)
  <2>1. ls2 = [l \in DOMAIN ls2 |-> ls2[l]]
    BY DEF Consume
  <2> HIDE DEF ls2
  <2> QED
    BY <1>1, <2>1 DEF Queue
<1> HIDE DEF ls2
<1>3. IsFiniteSet(DOMAIN take)
  BY DEF Queue, Ids
<1>4. SumFunction(h) = -SumFunction(take) /\ SumFunction(take) \in Int
  BY <1>3, SumNegated, SumInt DEF SumFunction
<1>5. \A l \in DOMAIN ls : NetOf(ls2[l]) = NetOf(ls[l]) + At(h, l)
  <2> SUFFICES ASSUME NEW l \in DOMAIN ls
               PROVE  NetOf(ls2[l]) = NetOf(ls[l]) + At(h, l)
    OBVIOUS
  <2>1. At(h, l) = -take[l] /\ take[l] \in Nat
    BY DEF At
  <2>2. ls[l] \in Layer
    BY DEF Queue
  <2> HIDE DEF h
  <2> QED
    BY <1>1, <2>1, <2>2 DEF NetOf, Layer
<1>6. DOMAIN h \subseteq DOMAIN ls /\ \A l \in DOMAIN h : h[l] \in Int
  OBVIOUS
<1> HIDE DEF h
<1>7. Net(ls2) = Net(ls) + SumFunction(h) /\ Net(ls) \in Int
  BY <1>1, <1>2, <1>5, <1>6, NetOfShift
<1>8. Net(ls2) = Net(ls) - SumFunction(take)
  BY <1>4, <1>7
<1> QED
  BY <1>1, <1>2, <1>8 DEF ls2

\* A movement that fills nothing leaves the difference journals right.
LEMMA DiffsKept ==
  ASSUME StockInv, DiffLedger, NEW m \in Nat, m \notin DOMAIN moves, NEW w,
         moves' = Put(moves, m, w), recs' = recs, diffs' = diffs
  PROVE  DiffLedger'
<1>1. /\ DOMAIN moves' = DOMAIN moves \cup {m}
      /\ \A k \in DOMAIN moves : moves'[k] = moves[k] /\ k # m
  BY DEF Put
<1>2. DOMAIN diffs \subseteq DOMAIN moves /\ RowTable(recs, DOMAIN moves, layers)
  BY DEF StockInv, Books
<1>3. ASSUME NEW k \in DOMAIN moves' PROVE DiffOf(recs', k, moves'[k].cost) = At(diffs', k)
  <2>1. CASE k \in DOMAIN moves
    <3>1. DiffOf(recs, k, moves[k].cost) = At(diffs, k)
      BY <2>1, DiffLedgerIs
    <3> QED
      BY <1>1, <2>1, <3>1
  <2>2. CASE k = m
    <3>1. \A r \in DOMAIN recs : r[1] # m
      BY <1>2 DEF RowTable
    <3>2. DiffOf(recs, m, moves'[m].cost) = 0
      BY <3>1, DiffOfNone
    <3>3. At(diffs, m) = 0
      BY <1>2 DEF At
    <3> QED
      BY <2>2, <3>2, <3>3
  <2> QED
    BY <1>1, <2>1, <2>2
<1> QED
  BY <1>3, DiffLedgerIsNext

\* What an issue of q units takes: of the open layers, and of the provisional
\* layer m it opens for what they do not cover.
Takes(ls, q) == Draw(Rem(ls), Fifo(ls), q)
Uncovered(ls, q) == q - SumFunction(Takes(ls, q))
TakesAll(ls, m, q) ==
  IF Uncovered(ls, q) = 0 THEN Takes(ls, q) ELSE Put(Takes(ls, q), m, Uncovered(ls, q))

\* It takes q in all.
LEMMA TakenIs ==
  ASSUME NEW ls, Queue(ls), NEW q \in Nat, NEW m, m \notin DOMAIN ls
  PROVE  /\ DOMAIN Takes(ls, q) = DOMAIN ls
         /\ \A l \in DOMAIN ls : Takes(ls, q)[l] \in Nat /\ Takes(ls, q)[l] <= ls[l].rem
         /\ SumFunction(Takes(ls, q)) \in Nat /\ Uncovered(ls, q) \in Nat
         /\ SumFunction(TakesAll(ls, m, q)) = q
<1> DEFINE take == Takes(ls, q)
           uncovered == Uncovered(ls, q)
<1>1. Ids(DOMAIN ls) /\ \A l \in DOMAIN ls : ls[l].date \in Nat /\ ls[l].rem \in Nat
  BY DEF Queue, Layer
<1>2. /\ DOMAIN Rem(ls) = DOMAIN ls /\ IsFiniteSet(DOMAIN Rem(ls))
      /\ \A l \in DOMAIN Rem(ls) : Rem(ls)[l] = ls[l].rem /\ Rem(ls)[l] \in Nat
  BY <1>1 DEF Rem, Ids
<1>3. /\ DOMAIN take = DOMAIN ls
      /\ \A l \in DOMAIN ls : take[l] \in Nat /\ take[l] <= ls[l].rem
  <2>1. /\ DOMAIN take = DOMAIN Rem(ls)
        /\ \A l \in DOMAIN Rem(ls) : take[l] \in Nat /\ take[l] <= Rem(ls)[l]
    BY <1>2, DrawBounds DEF Takes
  <2> QED
    BY <1>2, <2>1
<1>4. SumFunction(take) \in Nat /\ SumFunction(take) <= q
  <2>1. StrictTotalOrder(Fifo(ls), DOMAIN Rem(ls))
    BY <1>1, <1>2, FifoOrder DEF Ids
  <2> QED
    BY <1>2, <2>1, DrawTotal DEF Takes
<1> HIDE DEF take
<1>5. uncovered = q - SumFunction(take) /\ uncovered \in Nat
  BY <1>4 DEF Uncovered, take
<1> HIDE DEF uncovered
<1>6. CASE uncovered = 0
  <2>1. TakesAll(ls, m, q) = take
    BY <1>6 DEF TakesAll, take, uncovered
  <2> QED
    BY <1>3, <1>4, <1>5, <1>6, <2>1 DEF take, uncovered
<1>7. CASE uncovered # 0
  <2> DEFINE more == Put(take, m, uncovered)
  <2>1. /\ DOMAIN more = DOMAIN take \cup {m} /\ more[m] = uncovered
        /\ \A l \in DOMAIN take : more[l] = take[l] /\ l # m
    BY <1>3 DEF Put
  <2>2. TakesAll(ls, m, q) = more
    BY <1>7 DEF TakesAll, take, uncovered
  <2> HIDE DEF more
  <2>3. /\ IsFiniteSet(DOMAIN take) /\ IsFiniteSet(DOMAIN more)
        /\ DOMAIN take \ {m} = DOMAIN more \ {m}
    BY <1>1, <1>3, <2>1, FS_AddElement DEF Ids
  <2>4. /\ \A l \in DOMAIN take : take[l] \in Int
        /\ \A l \in DOMAIN more : more[l] \in Int
        /\ \A l \in DOMAIN take \ {m} : take[l] = more[l]
    BY <1>3, <1>5, <2>1
  <2>5. SumFunction(more) = SumFunction(take) - At(take, m) + At(more, m)
    BY <2>3, <2>4, SumDelta
  <2>6. At(take, m) = 0 /\ At(more, m) = uncovered
    BY <1>3, <2>1 DEF At
  <2>7. SumFunction(more) = q
    BY <1>4, <1>5, <2>5, <2>6
  <2> QED
    BY <1>3, <1>4, <1>5, <2>2, <2>7 DEF take, uncovered
<1> QED
  BY <1>6, <1>7

\* An issue, a purchase return, the shortage of a stocktake or the first half
\* of a transfer keeps the ledgers, and takes its quantity out of what the
\* layers cover.
LEMMA OutboundTallies ==
  ASSUME StockInv, Tallies, NEW type \in OutboundTypes, NEW ref \in References,
         NEW q \in Nat \ {0}, NEW date \in Nat \ {0},
         Outbound(type, ref, q, date)
  PROVE  Tallies' /\ (Covered(layers, onHand) => onHand' = Net(layers'))
<1> DEFINE ls0 == Backfill(layers, onHand, avg)
           m == NextId(DOMAIN moves \cup DOMAIN ls0)
           take == Takes(ls0, q)
           uncovered == Uncovered(ls0, q)
           guess == IF avg > 0 THEN avg ELSE LastLayerCost(ls0)
           total == Cents(CostOf(take, ls0) + uncovered * guess)
           lsc == Consume(ls0, take)
           v == [date |-> date, orig |-> uncovered, rem |-> 0,
                 cost |-> guess, prov |-> TRUE, recd |-> 0]
           ls1 == IF uncovered = 0 THEN lsc ELSE Put(lsc, m, v)
           taken == TakesAll(ls0, m, q)
           w == [type |-> type, ref |-> ref, qty |-> q,
                 cost |-> Quantize(100 * total, q), total |-> total]
           ids == DOMAIN moves
<1>0. /\ layers' = ls1 /\ cons' = WithRows(cons, m, taken, ls1)
      /\ moves' = Put(moves, m, w)
      /\ onHand' = onHand - q /\ recs' = recs /\ diffs' = diffs
  BY DEF Outbound, Takes, Uncovered, TakesAll
<1>1. Ids(ids) /\ onHand \in Int /\ avg \in Nat
  BY DEF StockInv, Journal
<1>2. Books(layers, cons, recs, ids) /\ Accounts(layers, cons, recs, moves)
  BY DEF StockInv, Tallies
<1>3. Books(ls0, cons, recs, ids) /\ Accounts(ls0, cons, recs, moves)
  BY <1>1, <1>2, BackfillBooks, BackfillAccounts
<1>4. Covered(layers, onHand) => Net(ls0) = onHand
  BY <1>1, <1>2, BackfillCovers
<1> HIDE DEF ls0
<1>5. Ids(DOMAIN ls0) /\ ls0 \in [DOMAIN ls0 -> Layer] /\ Queue(ls0)
  BY <1>3 DEF Books, Queue
<1>6. m \in Nat /\ m \notin ids /\ m \notin DOMAIN ls0 /\ \A k \in ids : k < m
  BY <1>1, <1>5, NextIdFresh, NextIdAbove
<1> HIDE DEF m
<1>7. /\ DOMAIN take = DOMAIN ls0
      /\ \A l \in DOMAIN ls0 : take[l] \in Nat /\ take[l] <= ls0[l].rem
      /\ SumFunction(take) \in Nat /\ uncovered \in Nat /\ SumFunction(taken) = q
  BY <1>5, <1>6, TakenIs
<1>9. /\ DOMAIN take = DOMAIN ls0
      /\ \A l \in DOMAIN ls0 : take[l] \in Nat /\ take[l] <= ls0[l].rem
  BY <1>7
<1>10. SumFunction(take) \in Nat /\ uncovered = q - SumFunction(take) /\ uncovered \in Nat
  BY <1>7 DEF Uncovered
<1>16. taken = IF uncovered = 0 THEN take ELSE Put(take, m, uncovered)
  BY DEF TakesAll
<1> HIDE DEF take, uncovered, taken
<1>11. /\ Queue(lsc) /\ DOMAIN lsc = DOMAIN ls0
       /\ Net(lsc) = Net(ls0) - SumFunction(take)
       /\ \A l \in DOMAIN ls0 :
            /\ lsc[l].rem = ls0[l].rem - take[l] /\ lsc[l].orig = ls0[l].orig
            /\ lsc[l].recd = ls0[l].recd /\ lsc[l].date = ls0[l].date
            /\ lsc[l].prov = ls0[l].prov
  BY <1>5, <1>9, NetConsumed, ConsumeLayer
<1>12. guess \in Nat
  <2>1. LastLayerCost(ls0) \in Nat
    BY <1>5, LastLayerCostNat
  <2> QED
    BY <1>1, <2>1
<1>13. v \in Layer
  <2> HIDE DEF guess, uncovered
  <2> QED
    BY <1>10, <1>12 DEF Layer
<1>14. /\ moves' \in [DOMAIN moves' -> Move] /\ w = moves'[m] /\ m \in DOMAIN moves'
  <2>1. StockInv'
    BY OutboundStep
  <2> HIDE DEF w
  <2> QED
    BY <1>0, <2>1 DEF StockInv, Journal, Put
<1>15. w \in Move /\ ~Inward(w) /\ w.qty = q
  <2>1. w \in Move
    <3> HIDE DEF w
    <3> QED
      BY <1>14
  <2> QED
    BY <2>1 DEF Inward, InboundTypes, OutboundTypes
<1> HIDE DEF w, lsc, guess
<1>17. /\ Accounts(layers', cons', recs', moves')
       /\ Covered(layers, onHand) => onHand' = Net(layers')
  <2>1. CASE uncovered = 0
    <3>1. ls1 = lsc /\ taken = take /\ SumFunction(take) = q
      BY <1>10, <1>16, <2>1
    <3>2. /\ DOMAIN take = DOMAIN lsc /\ m \notin DOMAIN lsc
          /\ DOMAIN ls0 \subseteq DOMAIN lsc /\ DOMAIN lsc \subseteq DOMAIN ls0 \cup {m}
          /\ \A l \in DOMAIN lsc : take[l] \in Nat
          /\ SumFunction(take) <= w.qty
      BY <1>6, <1>9, <1>11, <1>15, <3>1
    <3>3. Accounts(lsc, WithRows(cons, m, take, lsc), recs, Put(moves, m, w))
      BY <1>3, <1>6, <1>11, <1>15, <3>2, IssueAccounts
    <3>4. Net(lsc) = Net(ls0) - q
      BY <1>11, <3>1
    <3> HIDE DEF ls1, taken
    <3> QED
      BY <1>0, <1>4, <3>1, <3>3, <3>4
  <2>2. CASE uncovered # 0
    <3> DEFINE lsp == Put(lsc, m, v)
               more == Put(take, m, uncovered)
    <3>1. ls1 = lsp /\ taken = more
      BY <1>16, <2>2
    <3>2. /\ v.rem = 0 /\ v.orig = uncovered /\ v.prov /\ v.recd = 0
          /\ v.date # OpeningDate
      BY DEF OpeningDate
    <3> HIDE DEF v
    <3>3. m \in Nat \ DOMAIN lsc
      BY <1>6, <1>11
    <3>4. Queue(lsp) /\ Net(lsp) = Net(lsc) + NetOf(v) /\ Net(lsc) \in Int
      BY <1>11, <1>13, <3>3, NetOfPut
    <3>5. /\ DOMAIN lsp = DOMAIN ls0 \cup {m} /\ lsp[m] = v
          /\ \A l \in DOMAIN ls0 : lsp[l] = lsc[l]
      BY <1>6, <1>11 DEF Put
    <3>6. /\ DOMAIN more = DOMAIN ls0 \cup {m} /\ more[m] = uncovered
          /\ \A l \in DOMAIN ls0 : more[l] = take[l] /\ l # m
      BY <1>6, <1>9 DEF Put
    <3> HIDE DEF lsp, more
    <3>7. /\ \A l \in DOMAIN lsp : more[l] \in Nat
          /\ DOMAIN more = DOMAIN lsp /\ SumFunction(more) <= w.qty
      <4>1. SumFunction(more) <= w.qty
        <5>1. SumFunction(more) = q
          BY <1>7, <3>1
        <5> QED
          BY <1>15, <5>1
      <4> HIDE DEF uncovered
      <4> QED
        BY <1>9, <1>10, <3>5, <3>6, <4>1
    <3>8. \A l \in DOMAIN ls0 :
            /\ lsp[l].rem = ls0[l].rem - more[l] /\ lsp[l].orig = ls0[l].orig
            /\ lsp[l].recd = ls0[l].recd /\ lsp[l].date = ls0[l].date
            /\ lsp[l].prov = ls0[l].prov
      BY <1>11, <3>5, <3>6
    <3>9. /\ lsp[m].orig = more[m] /\ lsp[m].rem = 0 /\ lsp[m].recd = 0
          /\ lsp[m].prov /\ lsp[m].date # OpeningDate
      BY <3>2, <3>5, <3>6
    <3>10. Accounts(lsp, WithRows(cons, m, more, lsp), recs, Put(moves, m, w))
      <4>1. DOMAIN ls0 \subseteq DOMAIN lsp /\ DOMAIN lsp \subseteq DOMAIN ls0 \cup {m}
        BY <3>5
      <4> QED
        BY <1>3, <1>6, <1>15, <3>4, <3>7, <3>8, <3>9, <4>1, IssueAccounts
    <3>11. Net(lsp) = Net(ls0) - q
      <4>1. NetOf(v) = -uncovered
        <5> HIDE DEF uncovered
        <5> QED
          BY <1>10, <3>2 DEF NetOf
      <4>2. Net(ls0) \in Int
        BY <1>5, NetsInt
      <4> QED
        BY <1>10, <1>11, <3>4, <4>1, <4>2
    <3> HIDE DEF ls1, taken
    <3> QED
      BY <1>0, <1>4, <3>1, <3>10, <3>11
  <2> QED
    BY <2>1, <2>2
<1>18. DiffLedger'
  BY <1>0, <1>6, DiffsKept DEF Tallies
<1> QED
  BY <1>17, <1>18 DEF Tallies

\* A receipt that fills nothing keeps the accounts: what is not back in old
\* layers is open in a layer of its own.
LEMMA OpenedAccounts ==
  ASSUME NEW ls, NEW rows, NEW fills, NEW ms,
         RowTable(rows, DOMAIN ms, ls), RowTable(fills, DOMAIN ms, ls),
         Queue(ls), Accounts(ls, rows, fills, ms),
         NEW m \in Nat, m \notin DOMAIN ms, m \notin DOMAIN ls,
         NEW w \in Move, Inward(w), NEW ls2,
         \/ ls2 = ls /\ w.type = "RETURN_IN"
         \/ \E v \in Layer :
              /\ ls2 = Put(ls, m, v) /\ v.date # OpeningDate /\ v.rem = v.orig
              /\ ~v.prov /\ v.recd = 0 /\ v.orig <= w.qty
              /\ w.type # "RETURN_IN" => v.orig = w.qty
  PROVE  Accounts(ls2, rows, fills, Put(ms, m, w))
<1> DEFINE ms2 == Put(ms, m, w)
<1>1. /\ DOMAIN ms2 = DOMAIN ms \cup {m} /\ ms2[m] = w
      /\ \A k \in DOMAIN ms : ms2[k] = ms[k] /\ k # m
  BY DEF Put
<1> HIDE DEF ms2
<1>2. /\ DOMAIN ls \subseteq DOMAIN ls2 /\ DOMAIN ls2 \subseteq DOMAIN ls \cup {m}
      /\ \A l \in DOMAIN ls : ls2[l] = ls[l] /\ l # m
      /\ m \notin DOMAIN ls2 => w.type = "RETURN_IN"
      /\ m \in DOMAIN ls2 =>
           /\ ls2[m] \in Layer /\ ls2[m].date # OpeningDate /\ ls2[m].rem = ls2[m].orig
           /\ ~ls2[m].prov /\ ls2[m].recd = 0 /\ ls2[m].orig <= w.qty
           /\ w.type # "RETURN_IN" => ls2[m].orig = w.qty
  <2>1. CASE ls2 = ls /\ w.type = "RETURN_IN"
    BY <2>1
  <2>2. ASSUME NEW v \in Layer, ls2 = Put(ls, m, v), v.date # OpeningDate,
               v.rem = v.orig, ~v.prov, v.recd = 0, v.orig <= w.qty,
               w.type # "RETURN_IN" => v.orig = w.qty
        PROVE <1>2!1 /\ <1>2!2 /\ <1>2!3 /\ <1>2!4
    <3>1. /\ DOMAIN ls2 = DOMAIN ls \cup {m} /\ ls2[m] = v
          /\ \A l \in DOMAIN ls : ls2[l] = ls[l] /\ l # m
      BY <2>2 DEF Put
    <3> QED
      BY <2>2, <3>1
  <2> QED
    BY <2>1, <2>2
<1>3. ASSUME NEW l \in DOMAIN ls2 PROVE Square(ls2[l], l, rows, fills)
  <2>1. CASE l \in DOMAIN ls
    BY <1>2, <2>1 DEF Accounts
  <2>2. CASE l = m
    <3>1. /\ \A r \in DOMAIN rows : r[2] # m
          /\ \A r \in DOMAIN fills : r[2] # m /\ r[1] # m
      BY DEF RowTable
    <3>2. Consumed(rows, m) = 0 /\ Consumed(fills, m) = 0 /\ Spent(fills, m) = 0
      BY <3>1, NoneConsumed, NoneSpent
    <3>3. ls2[m] \in Layer /\ ls2[m].rem = ls2[m].orig /\ ls2[m].recd = 0
      BY <1>2, <2>2
    <3> QED
      BY <2>2, <3>2, <3>3 DEF Square, Layer
  <2> QED
    BY <1>2, <2>1, <2>2
<1>4. Kinds(ls2, rows, fills, ms2)
  <2>1. Kinds(ls, rows, fills, ms)
    BY DEF Accounts
  <2>2. ASSUME NEW r \in DOMAIN rows PROVE ~Inward(ms2[r[1]])
    <3>1. r[1] \in DOMAIN ms
      BY DEF RowTable
    <3> QED
      BY <1>1, <2>1, <3>1 DEF Kinds
  <2>3. ASSUME NEW r \in DOMAIN fills
        PROVE  /\ Inward(ms2[r[1]]) /\ r[1] \in DOMAIN ls2 /\ ls2[r[2]].prov
               /\ fills[r].qty > 0
    <3>1. r[1] \in DOMAIN ms /\ r[2] \in DOMAIN ls
      BY DEF RowTable
    <3>2. /\ Inward(ms[r[1]]) /\ r[1] \in DOMAIN ls /\ ls[r[2]].prov
          /\ fills[r].qty > 0
      BY <2>1 DEF Kinds
    <3> QED
      BY <1>1, <1>2, <3>1, <3>2
  <2>4. ASSUME NEW l \in DOMAIN ls2
        PROVE  /\ ls2[l].prov <=> l \in DOMAIN ms2 /\ ~Inward(ms2[l])
               /\ ls2[l].date = OpeningDate <=> l \notin DOMAIN ms2
               /\ l \in DOMAIN ms2 /\ Inward(ms2[l]) =>
                    /\ ls2[l].orig <= ms2[l].qty
                    /\ ms2[l].type # "RETURN_IN" => ls2[l].orig = ms2[l].qty
    <3>1. CASE l \in DOMAIN ls
      <4>1. ls2[l] = ls[l] /\ (l \in DOMAIN ms2 <=> l \in DOMAIN ms)
        BY <1>1, <1>2, <3>1
      <4>2. l \in DOMAIN ms => ms2[l] = ms[l]
        BY <1>1
      <4> QED
        BY <2>1, <3>1, <4>1, <4>2 DEF Kinds
    <3>2. CASE l = m
      BY <1>1, <1>2, <3>2
    <3> QED
      BY <1>2, <3>1, <3>2
  <2>5. ASSUME NEW k \in DOMAIN ms2
        PROVE  /\ Inward(ms2[k]) /\ ms2[k].type # "RETURN_IN" /\ k \notin DOMAIN ls2
                    => OnlyReceiptsBefore(ms2, k)
               /\ ~Inward(ms2[k]) => Spent(rows, k) <= ms2[k].qty
    <3>1. CASE k \in DOMAIN ms
      <4>1. ms2[k] = ms[k] /\ (k \notin DOMAIN ls2 => k \notin DOMAIN ls)
        BY <1>1, <1>2, <3>1
      <4>2. OnlyReceiptsBefore(ms, k) => OnlyReceiptsBefore(ms2, k)
        BY <1>1 DEF OnlyReceiptsBefore
      <4> QED
        BY <2>1, <3>1, <4>1, <4>2 DEF Kinds
    <3>2. CASE k = m
      BY <1>1, <1>2, <3>2
    <3> QED
      BY <1>1, <3>1, <3>2
  <2> QED
    BY <2>2, <2>3, <2>4, <2>5 DEF Kinds
<1> QED
  BY <1>3, <1>4 DEF Accounts, ms2

\* The receiving half of a transfer keeps the ledgers.
LEMMA TransferInTallies ==
  ASSUME StockInv, Tallies, transfer \in [qty : Nat, cost : Nat, date : Nat],
         transfer # NoTransfer => transfer.date # OpeningDate, TransferIn
  PROVE  Tallies' /\ (Covered(layers, onHand) => onHand' = Net(layers'))
<1> DEFINE ls0 == Backfill(layers, onHand, avg)
           m == NextId(DOMAIN moves \cup DOMAIN ls0)
           q == transfer.qty
           v == [date |-> transfer.date, orig |-> q, rem |-> q,
                 cost |-> transfer.cost, prov |-> FALSE, recd |-> 0]
           ls1 == Put(ls0, m, v)
           w == [type |-> "IN", ref |-> "TRANSFER", qty |-> q,
                 cost |-> transfer.cost, total |-> Cents(q * transfer.cost)]
           ids == DOMAIN moves
<1>0. /\ layers' = ls1 /\ cons' = cons /\ recs' = recs /\ diffs' = diffs
      /\ moves' = Put(moves, m, w) /\ onHand' = onHand + q
      /\ transfer # NoTransfer
  BY DEF TransferIn
<1>1. Ids(ids) /\ onHand \in Int /\ avg \in Nat /\ q \in Nat
  BY DEF StockInv, Journal
<1>2. Books(layers, cons, recs, ids) /\ Accounts(layers, cons, recs, moves)
  BY DEF StockInv, Tallies
<1>3. Books(ls0, cons, recs, ids) /\ Accounts(ls0, cons, recs, moves)
  BY <1>1, <1>2, BackfillBooks, BackfillAccounts
<1>4. Covered(layers, onHand) => Net(ls0) = onHand
  BY <1>1, <1>2, BackfillCovers
<1> HIDE DEF ls0
<1>5. /\ Ids(DOMAIN ls0) /\ Queue(ls0)
      /\ RowTable(cons, ids, ls0) /\ RowTable(recs, ids, ls0)
  BY <1>3 DEF Books, Queue
<1>6. m \in Nat /\ m \notin ids /\ m \notin DOMAIN ls0
  BY <1>1, <1>5, NextIdFresh
<1> HIDE DEF m
<1>7. /\ v \in Layer /\ v.date # OpeningDate /\ v.rem = v.orig /\ v.orig = q
      /\ ~v.prov /\ v.recd = 0
  BY <1>0 DEF Layer
<1>8. w \in Move /\ Inward(w) /\ w.qty = q
  <2>1. q * transfer.cost \in Nat
    OBVIOUS
  <2>2. Cents(q * transfer.cost) \in Nat
    BY <2>1, QuantizeType DEF Cents
  <2> QED
    BY <2>2 DEF Move, Inward, InboundTypes, References
<1> HIDE DEF v, w, q
<1>9. Accounts(ls1, cons, recs, Put(moves, m, w))
  <2>1. \E u \in Layer :
          /\ ls1 = Put(ls0, m, u) /\ u.date # OpeningDate /\ u.rem = u.orig
          /\ ~u.prov /\ u.recd = 0 /\ u.orig <= w.qty
          /\ w.type # "RETURN_IN" => u.orig = w.qty
    BY <1>1, <1>7, <1>8
  <2> HIDE DEF ls1
  <2> QED
    BY <1>3, <1>5, <1>6, <1>8, <2>1, OpenedAccounts
<1>10. Net(ls1) = Net(ls0) + q
  <2>1. m \in Nat \ DOMAIN ls0
    BY <1>6
  <2>2. Net(ls1) = Net(ls0) + NetOf(v)
    BY <1>5, <1>7, <2>1, NetOfPut
  <2> QED
    BY <1>7, <2>2 DEF NetOf
<1> HIDE DEF ls1
<1>11. /\ Accounts(layers', cons', recs', moves')
       /\ Covered(layers, onHand) => onHand' = Net(layers')
  BY <1>0, <1>4, <1>9, <1>10
<1>12. DiffLedger'
  BY <1>0, <1>6, DiffsKept DEF Tallies
<1> QED
  BY <1>11, <1>12 DEF Tallies

\* The rows of issue o once give has gone back: each holds so much less, and a
\* row that holds nothing is gone.
LEMMA ReleasedRows ==
  ASSUME NEW ids, NEW ls, RowTable(cons, ids, ls), Ids(DOMAIN ls), NEW o, NEW give,
         DOMAIN give = DOMAIN RowsOf(cons, o),
         \A l \in DOMAIN give : give[l] \in Nat /\ give[l] <= RowsOf(cons, o)[l]
  PROVE  /\ DOMAIN Released(give, o) \subseteq DOMAIN cons
         /\ \A k, l : k # o =>
              QtyAt(Released(give, o), <<k, l>>) = QtyAt(cons, <<k, l>>)
         /\ \A l : QtyAt(Released(give, o), <<o, l>>)
                     = QtyAt(cons, <<o, l>>) - At(give, l)
<1> DEFINE rows2 == Released(give, o)
<1>1. /\ DOMAIN give \subseteq DOMAIN ls
      /\ \A l \in DOMAIN ls : l \in DOMAIN give <=> <<o, l>> \in DOMAIN cons
      /\ \A l \in DOMAIN give : give[l] <= QtyAt(cons, <<o, l>>)
  BY RowsOfTable
<1>2. ASSUME NEW r
      PROVE  /\ r \in DOMAIN rows2
                  <=> r \in DOMAIN cons /\ (r[1] = o => give[r[2]] < cons[r].qty)
             /\ r \in DOMAIN rows2 /\ r[1] # o => rows2[r] = cons[r]
             /\ r \in DOMAIN rows2 /\ r[1] = o
                  => rows2[r] = [cons[r] EXCEPT !.qty = cons[r].qty - give[r[2]]]
  BY DEF Released
<1> HIDE DEF rows2
<1>3. DOMAIN rows2 \subseteq DOMAIN cons
  BY <1>2
<1>4. ASSUME NEW k, NEW l, k # o PROVE QtyAt(rows2, <<k, l>>) = QtyAt(cons, <<k, l>>)
  <2>1. <<k, l>>[1] # o
    BY <1>4
  <2>2. <<k, l>> \in DOMAIN rows2 <=> <<k, l>> \in DOMAIN cons
    BY <1>2, <2>1
  <2>3. <<k, l>> \in DOMAIN rows2 => rows2[<<k, l>>] = cons[<<k, l>>]
    BY <1>2, <2>1
  <2> QED
    BY <2>2, <2>3 DEF QtyAt
<1>5. ASSUME NEW l PROVE QtyAt(rows2, <<o, l>>) = QtyAt(cons, <<o, l>>) - At(give, l)
  <2>1. CASE <<o, l>> \notin DOMAIN cons
    <3>1. l \notin DOMAIN give
      BY <1>1, <2>1
    <3>2. <<o, l>> \notin DOMAIN rows2
      BY <1>2, <2>1
    <3> QED
      BY <2>1, <3>1, <3>2 DEF QtyAt, At
  <2>2. CASE <<o, l>> \in DOMAIN cons
    <3>0. l \in DOMAIN ls /\ cons[<<o, l>>] \in Row
      BY <2>2 DEF RowTable
    <3>1. l \in DOMAIN give /\ give[l] <= cons[<<o, l>>].qty /\ give[l] \in Nat
      BY <1>1, <2>2, <3>0 DEF QtyAt
    <3>3. CASE give[l] < cons[<<o, l>>].qty
      <4>1. /\ <<o, l>> \in DOMAIN rows2
            /\ rows2[<<o, l>>] = [cons[<<o, l>>] EXCEPT !.qty = cons[<<o, l>>].qty - give[l]]
        BY <1>2, <2>2, <3>3
      <4> QED
        BY <2>2, <3>0, <3>1, <4>1 DEF QtyAt, At, Row
    <3>4. CASE ~(give[l] < cons[<<o, l>>].qty)
      <4>1. <<o, l>> \notin DOMAIN rows2
        BY <1>2, <3>4
      <4>2. give[l] = cons[<<o, l>>].qty
        BY <3>0, <3>1, <3>4 DEF Row
      <4> QED
        BY <2>2, <3>1, <4>1, <4>2 DEF QtyAt, At
    <3> QED
      BY <3>3, <3>4
  <2> QED
    BY <2>1, <2>2
<1> QED
  BY <1>3, <1>4, <1>5 DEF rows2

\* The nets of the layers go up by what is given back to them.
LEMMA NetRefilled ==
  ASSUME NEW ls, Queue(ls), NEW give, DOMAIN give \subseteq DOMAIN ls,
         \A l \in DOMAIN give : give[l] \in Nat
  PROVE  /\ Queue(Refill(ls, give)) /\ DOMAIN Refill(ls, give) = DOMAIN ls
         /\ Net(Refill(ls, give)) = Net(ls) + SumFunction(give)
         /\ Net(ls) \in Int /\ SumFunction(give) \in Int
<1> DEFINE ls2 == Refill(ls, give)
<1>1. /\ DOMAIN ls2 = DOMAIN ls
      /\ \A l \in DOMAIN ls :
           /\ ls2[l] \in Layer /\ ls2[l].recd = ls[l].recd
           /\ ls2[l].rem = ls[l].rem + At(give, l) /\ ls2[l].orig = ls[l].orig
           /\ ls2[l].prov = ls[l].prov
  BY RefillLayer DEF Refill, Queue
<1>2. Queue(ls2)
  <2>1. ls2 = [l \in DOMAIN ls2 |-> ls2[l]]
    BY DEF Refill
  <2> HIDE DEF ls2
  <2> QED
    BY <1>1, <2>1 DEF Queue
<1> HIDE DEF ls2
<1>3. \A l \in DOMAIN ls : NetOf(ls2[l]) = NetOf(ls[l]) + At(give, l)
  <2> SUFFICES ASSUME NEW l \in DOMAIN ls
               PROVE  NetOf(ls2[l]) = NetOf(ls[l]) + At(give, l)
    OBVIOUS
  <2>1. At(give, l) \in Nat
    BY DEF At
  <2>2. ls[l] \in Layer
    BY DEF Queue
  <2> QED
    BY <1>1, <2>1, <2>2 DEF NetOf, Layer
<1>4. \A l \in DOMAIN give : give[l] \in Int
  OBVIOUS
<1>5. Net(ls2) = Net(ls) + SumFunction(give) /\ Net(ls) \in Int /\ SumFunction(give) \in Int
  BY <1>1, <1>2, <1>3, <1>4, NetOfShift
<1> QED
  BY <1>1, <1>2, <1>5 DEF ls2

\* Giving units of issue o back to their layers keeps the accounts.
LEMMA ReleasedAccounts ==
  ASSUME NEW ls, NEW fills, NEW ms, Books(ls, cons, fills, DOMAIN ms),
         Accounts(ls, cons, fills, ms), NEW o, NEW give,
         DOMAIN give = DOMAIN RowsOf(cons, o),
         \A l \in DOMAIN give : give[l] \in Nat /\ give[l] <= RowsOf(cons, o)[l],
         \A k \in DOMAIN ms : ms[k].qty \in Nat
  PROVE  Accounts(Refill(ls, give), Released(give, o), fills, ms)
<1> DEFINE ls2 == Refill(ls, give)
           rows2 == Released(give, o)
<1>1. /\ RowTable(cons, DOMAIN ms, ls) /\ RowTable(fills, DOMAIN ms, ls)
      /\ Ids(DOMAIN ms) /\ Ids(DOMAIN ls) /\ ls \in [DOMAIN ls -> Layer]
  BY DEF Books
<1>2. DOMAIN give \subseteq DOMAIN ls
  BY <1>1, RowsOfTable
<1>3. /\ DOMAIN ls2 = DOMAIN ls
      /\ \A l \in DOMAIN ls :
           /\ ls2[l] \in Layer /\ ls2[l].recd = ls[l].recd
           /\ ls2[l].rem = ls[l].rem + At(give, l) /\ ls2[l].orig = ls[l].orig
           /\ ls2[l].date = ls[l].date /\ ls2[l].prov = ls[l].prov
  BY <1>1, <1>2, RefillLayer DEF Refill
<1>4. RowTable(rows2, DOMAIN ms, ls)
  <2>1. Books(ls2, rows2, fills, DOMAIN ms)
    BY ReleasedBooks
  <2> HIDE DEF ls2, rows2
  <2> QED
    BY <1>3, <2>1 DEF Books, RowTable
<1>5. /\ DOMAIN rows2 \subseteq DOMAIN cons
      /\ \A k, l : k # o => QtyAt(rows2, <<k, l>>) = QtyAt(cons, <<k, l>>)
      /\ \A l : QtyAt(rows2, <<o, l>>) = QtyAt(cons, <<o, l>>) - At(give, l)
  BY <1>1, ReleasedRows
<1> HIDE DEF ls2, rows2
<1>6. ASSUME NEW l
      PROVE  /\ Consumed(rows2, l) = Consumed(cons, l) - At(give, l)
             /\ Consumed(cons, l) \in Nat /\ At(give, l) \in Nat
  <2>1. \A k \in (DOMAIN ms \cup DOMAIN ms) \ {o} :
          QtyAt(rows2, <<k, l>>) = QtyAt(cons, <<k, l>>)
    BY <1>5
  <2>2. /\ Consumed(rows2, l)
             = Consumed(cons, l) - QtyAt(cons, <<o, l>>) + QtyAt(rows2, <<o, l>>)
        /\ Consumed(cons, l) \in Nat
        /\ QtyAt(cons, <<o, l>>) \in Nat /\ QtyAt(rows2, <<o, l>>) \in Nat
    BY <1>1, <1>4, <2>1, ConsumedShift
  <2>3. At(give, l) \in Nat
    BY DEF At
  <2>4. QtyAt(rows2, <<o, l>>) = QtyAt(cons, <<o, l>>) - At(give, l)
    BY <1>5
  <2> QED
    BY <2>2, <2>3, <2>4
<1>7. \A l \in DOMAIN ls2 : Square(ls2[l], l, rows2, fills)
  <2> SUFFICES ASSUME NEW l \in DOMAIN ls2 PROVE Square(ls2[l], l, rows2, fills)
    OBVIOUS
  <2>1. Square(ls[l], l, cons, fills) /\ ls[l] \in Layer /\ Spent(fills, l) \in Nat
    BY <1>1, <1>3, SpentIs DEF Accounts, Ids
  <2>2. /\ ls2[l].recd = ls[l].recd
        /\ ls2[l].rem = ls[l].rem + At(give, l) /\ ls2[l].orig = ls[l].orig
    BY <1>3
  <2>3. /\ Consumed(rows2, l) = Consumed(cons, l) - At(give, l)
        /\ Consumed(cons, l) \in Nat /\ At(give, l) \in Nat
    BY <1>6
  <2> QED
    BY <2>1, <2>2, <2>3 DEF Square, Layer
<1>8. ASSUME NEW k PROVE Spent(rows2, k) \in Nat /\ Spent(cons, k) \in Nat
                         /\ Spent(rows2, k) <= Spent(cons, k)
  <2> DEFINE f == [l \in DOMAIN ls |-> QtyAt(cons, <<k, l>>)]
             g == [l \in DOMAIN ls |-> QtyAt(rows2, <<k, l>>)]
  <2>0. IsFiniteSet(DOMAIN ls) /\ DOMAIN ls \subseteq DOMAIN ls
    BY <1>1 DEF Ids
  <2>1. /\ Spent(cons, k) = SumFunctionOnSet(f, DOMAIN ls) /\ Spent(cons, k) \in Nat
        /\ Spent(rows2, k) = SumFunctionOnSet(g, DOMAIN ls) /\ Spent(rows2, k) \in Nat
    BY <1>1, <1>4, <2>0, SpentIs
  <2>2. ASSUME NEW l \in DOMAIN ls PROVE f[l] \in Int /\ g[l] \in Int /\ g[l] <= f[l]
    <3>1. /\ QtyAt(cons, <<k, l>>) \in Nat /\ QtyAt(rows2, <<k, l>>) \in Nat
          /\ At(give, l) \in Nat
      BY <1>1, <1>4, <1>6, QtyAtNat
    <3>2. QtyAt(rows2, <<k, l>>) = QtyAt(cons, <<k, l>>)
            \/ QtyAt(rows2, <<k, l>>) = QtyAt(cons, <<k, l>>) - At(give, l)
      BY <1>5
    <3>3. f[l] = QtyAt(cons, <<k, l>>) /\ g[l] = QtyAt(rows2, <<k, l>>)
      OBVIOUS
    <3> HIDE DEF f, g
    <3> QED
      BY <3>1, <3>2, <3>3
  <2> HIDE DEF f, g
  <2>3. SumFunctionOnSet(g, DOMAIN ls) <= SumFunctionOnSet(f, DOMAIN ls)
    BY <2>0, <2>2, SumMonotone
  <2> QED
    BY <2>1, <2>3
<1>9. Kinds(ls2, rows2, fills, ms)
  <2>1. Kinds(ls, cons, fills, ms)
    BY DEF Accounts
  <2>2. \A r \in DOMAIN rows2 : ~Inward(ms[r[1]])
    BY <1>5, <2>1 DEF Kinds
  <2>3. ASSUME NEW r \in DOMAIN fills
        PROVE  /\ Inward(ms[r[1]]) /\ r[1] \in DOMAIN ls2 /\ ls2[r[2]].prov
               /\ fills[r].qty > 0
    <3>1. r[1] \in DOMAIN ms /\ r[2] \in DOMAIN ls
      BY <1>1 DEF RowTable
    <3> QED
      BY <1>3, <2>1, <3>1 DEF Kinds
  <2>4. ASSUME NEW l \in DOMAIN ls2
        PROVE  /\ ls2[l].prov <=> l \in DOMAIN ms /\ ~Inward(ms[l])
               /\ ls2[l].date = OpeningDate <=> l \notin DOMAIN ms
               /\ l \in DOMAIN ms /\ Inward(ms[l]) =>
                    /\ ls2[l].orig <= ms[l].qty
                    /\ ms[l].type # "RETURN_IN" => ls2[l].orig = ms[l].qty
    <3>1. /\ ls2[l].prov = ls[l].prov /\ ls2[l].date = ls[l].date
          /\ ls2[l].orig = ls[l].orig /\ l \in DOMAIN ls
      BY <1>3
    <3> QED
      BY <2>1, <3>1 DEF Kinds
  <2>5. ASSUME NEW k \in DOMAIN ms
        PROVE  /\ Inward(ms[k]) /\ ms[k].type # "RETURN_IN" /\ k \notin DOMAIN ls2
                    => OnlyReceiptsBefore(ms, k)
               /\ ~Inward(ms[k]) => Spent(rows2, k) <= ms[k].qty
    <3>1. ~Inward(ms[k]) => Spent(cons, k) <= ms[k].qty
      BY <2>1 DEF Kinds
    <3>2. Inward(ms[k]) /\ ms[k].type # "RETURN_IN" /\ k \notin DOMAIN ls
            => OnlyReceiptsBefore(ms, k)
      BY <2>1 DEF Kinds
    <3> QED
      BY <1>3, <1>8, <3>1, <3>2
  <2> QED
    BY <2>2, <2>3, <2>4, <2>5 DEF Kinds
<1> QED
  BY <1>7, <1>9 DEF Accounts, ls2, rows2

\* A sales return of an original issue keeps the ledgers.
LEMMA ReturnTallies ==
  ASSUME StockInv, Tallies, NEW o \in DOMAIN moves, NEW q \in Nat \ {0},
         NEW date \in Nat \ {0}, PostReturn(o, q, date)
  PROVE  Tallies' /\ (Covered(layers, onHand) => onHand' = Net(layers'))
<1> DEFINE ls0 == Backfill(layers, onHand, avg)
           m == NextId(DOMAIN moves \cup DOMAIN ls0)
           held == RowsOf(cons, o)
           give == Draw(held, RestoreOrder(o, ls0), q)
           given == SumFunction(give)
           restored == SumFunction([l \in DOMAIN give |-> give[l] * cons[<<o, l>>].cost])
           surplus == q - given
           surplusCost == Quantize(restored, given)
           total == IF surplus = 0 THEN Cents(restored)
                    ELSE Cents(100 * Cents(restored) + surplus * surplusCost)
           lsr == Refill(ls0, give)
           v == [date |-> date, orig |-> surplus, rem |-> surplus,
                 cost |-> surplusCost, prov |-> FALSE, recd |-> 0]
           ls1 == IF surplus = 0 THEN lsr ELSE Put(lsr, m, v)
           rows2 == Released(give, o)
           w == [type |-> "RETURN_IN", ref |-> "DOCUMENT", qty |-> q,
                 cost |-> Quantize(100 * total, q), total |-> total]
           ids == DOMAIN moves
<1>0. /\ layers' = ls1 /\ cons' = rows2
      /\ moves' = Put(moves, m, w)
      /\ onHand' = onHand + q /\ recs' = recs /\ diffs' = diffs
  BY DEF PostReturn
<1>1. /\ Ids(ids) /\ onHand \in Int /\ avg \in Nat
      /\ \A k \in ids : moves[k].qty \in Nat
  BY DEF StockInv, Journal, Move
<1>2. Books(layers, cons, recs, ids) /\ Accounts(layers, cons, recs, moves)
  BY DEF StockInv, Tallies
<1>3. Books(ls0, cons, recs, ids) /\ Accounts(ls0, cons, recs, moves)
  BY <1>1, <1>2, BackfillBooks, BackfillAccounts
<1>4. Covered(layers, onHand) => Net(ls0) = onHand
  BY <1>1, <1>2, BackfillCovers
<1> HIDE DEF ls0
<1>5. /\ Ids(DOMAIN ls0) /\ ls0 \in [DOMAIN ls0 -> Layer] /\ Queue(ls0)
      /\ RowTable(cons, ids, ls0)
  BY <1>3 DEF Books, Queue
<1>6. m \in Nat /\ m \notin ids /\ m \notin DOMAIN ls0
  BY <1>1, <1>5, NextIdFresh
<1> HIDE DEF m
<1>7. /\ DOMAIN held \subseteq DOMAIN ls0
      /\ IsFiniteSet(DOMAIN held)
      /\ \A l \in DOMAIN held : held[l] \in Nat
  BY <1>5, RowsOfTable
<1> HIDE DEF held
<1>8. /\ DOMAIN give = DOMAIN held
      /\ \A l \in DOMAIN give : give[l] \in Nat /\ give[l] <= held[l]
  BY <1>7, DrawBounds
<1>9. given \in Nat /\ given <= q
  <2>1. \A l \in DOMAIN ls0 : ls0[l].date \in Nat
    BY <1>5 DEF Layer
  <2>2. StrictTotalOrder(RestoreOrder(o, ls0), DOMAIN held)
    BY <1>5, <1>7, <2>1, RestoreOrderTotal DEF Ids
  <2> QED
    BY <1>7, <2>2, DrawTotal
<1> HIDE DEF give
<1>10. /\ Accounts(lsr, rows2, recs, moves)
       /\ Queue(lsr) /\ DOMAIN lsr = DOMAIN ls0 /\ Net(lsr) = Net(ls0) + given
  <2>1. Accounts(lsr, rows2, recs, moves)
    BY <1>1, <1>3, <1>8, ReleasedAccounts DEF held
  <2>2. Queue(lsr) /\ DOMAIN lsr = DOMAIN ls0 /\ Net(lsr) = Net(ls0) + given
    BY <1>5, <1>7, <1>8, NetRefilled
  <2> QED
    BY <2>1, <2>2
<1>11. RowTable(rows2, ids, lsr) /\ RowTable(recs, ids, lsr)
  <2>1. Books(lsr, rows2, recs, ids)
    BY <1>3, <1>8, ReleasedBooks DEF held
  <2> HIDE DEF rows2, lsr
  <2> QED
    BY <2>1 DEF Books
<1> HIDE DEF lsr, rows2, restored
<1>12. /\ Journal(moves') /\ Books(layers', cons', recs', DOMAIN moves')
  <2>1. StockInv'
    BY ReturnStep
  <2> QED
    BY <2>1 DEF StockInv
<1>13. w \in Move /\ Inward(w) /\ w.qty = q /\ w.type = "RETURN_IN"
  <2>1. w \in Move
    <3> HIDE DEF w
    <3>1. m \in DOMAIN moves' /\ moves'[m] = w
      BY <1>0 DEF Put
    <3> QED
      BY <1>12, <3>1 DEF Journal
  <2> QED
    BY <2>1 DEF Inward, InboundTypes
<1> HIDE DEF w, surplusCost, given
<1>14. /\ Accounts(ls1, rows2, recs, Put(moves, m, w))
       /\ Net(ls1) = Net(ls0) + q
  <2>1. CASE surplus = 0
    <3>1. ls1 = lsr
      BY <2>1
    <3>2. Accounts(lsr, rows2, recs, Put(moves, m, w))
      BY <1>6, <1>10, <1>11, <1>13, OpenedAccounts
    <3>3. given = q
      BY <1>9, <2>1
    <3> QED
      BY <1>10, <3>1, <3>2, <3>3
  <2>2. CASE surplus # 0
    <3> DEFINE lsp == Put(lsr, m, v)
    <3>1. ls1 = lsp
      BY <2>2
    <3>2. /\ v.rem = v.orig /\ v.orig = surplus /\ ~v.prov /\ v.recd = 0
          /\ v.date # OpeningDate
      BY DEF OpeningDate
    <3> HIDE DEF v, ls1
    <3>3. v \in Layer
      <4>1. m \in DOMAIN layers' /\ layers'[m] = v
        BY <1>0, <3>1 DEF Put
      <4> QED
        BY <1>12, <4>1 DEF Books
    <3>4. \E u \in Layer :
            /\ lsp = Put(lsr, m, u) /\ u.date # OpeningDate /\ u.rem = u.orig
            /\ ~u.prov /\ u.recd = 0 /\ u.orig <= w.qty
            /\ w.type # "RETURN_IN" => u.orig = w.qty
      <4>1. v.orig <= w.qty
        BY <1>9, <1>13, <3>2
      <4> QED
        BY <1>13, <3>2, <3>3, <4>1
    <3>5. m \notin DOMAIN lsr
      BY <1>6, <1>10
    <3> HIDE DEF lsp
    <3>6. Accounts(lsp, rows2, recs, Put(moves, m, w))
      BY <1>6, <1>10, <1>11, <1>13, <3>4, <3>5, OpenedAccounts
    <3>7. m \in Nat \ DOMAIN lsr
      BY <1>6, <3>5
    <3>8. Net(lsp) = Net(lsr) + NetOf(v) /\ NetOf(v) = surplus
      BY <1>10, <3>2, <3>3, <3>7, NetOfPut DEF lsp, NetOf
    <3>9. Net(ls0) \in Int
      BY <1>5, NetsInt
    <3>10. Net(lsp) = Net(ls0) + q
      BY <1>9, <1>10, <3>8, <3>9
    <3> QED
      BY <3>1, <3>6, <3>10
  <2> QED
    BY <2>1, <2>2
<1> HIDE DEF ls1
<1>15. /\ Accounts(layers', cons', recs', moves')
       /\ Covered(layers, onHand) => onHand' = Net(layers')
  BY <1>0, <1>4, <1>14
<1>16. DiffLedger'
  BY <1>0, <1>6, DiffsKept DEF Tallies
<1> QED
  BY <1>15, <1>16 DEF Tallies

-----------------------------------------------------------------------------
\* No row holds more of a layer than all of them.
LEMMA RowWithin ==
  ASSUME NEW rows, NEW ids, NEW ls, RowTable(rows, ids, ls), Ids(ids), NEW k, NEW l
  PROVE  /\ QtyAt(rows, <<k, l>>) <= Consumed(rows, l)
         /\ QtyAt(rows, <<k, l>>) \in Nat /\ Consumed(rows, l) \in Nat
<1> DEFINE f == [m \in ids |-> QtyAt(rows, <<m, l>>)]
<1>0. IsFiniteSet(ids) /\ ids \subseteq ids
  BY DEF Ids
<1>1. Consumed(rows, l) = SumFunctionOnSet(f, ids) /\ Consumed(rows, l) \in Nat
  BY <1>0, ConsumedIs
<1>2. QtyAt(rows, <<k, l>>) \in Nat /\ \A m \in ids : f[m] \in Nat
  BY QtyAtNat
<1>3. CASE k \in ids
  <2>1. f[k] = QtyAt(rows, <<k, l>>)
    BY <1>3
  <2> HIDE DEF f
  <2>2. SumFunctionOnSet(f, ids) = f[k] + SumFunctionOnSet(f, ids \ {k})
    BY <1>0, <1>2, <1>3, SumRemove
  <2>3. SumFunctionOnSet(f, ids \ {k}) \in Nat
    <3>1. IsFiniteSet(ids \ {k})
      BY <1>0, FS_RemoveElement
    <3> QED
      BY <1>2, <3>1, SumNat
  <2> QED
    BY <1>1, <1>2, <2>1, <2>2, <2>3
<1>4. CASE k \notin ids
  <2>1. <<k, l>> \notin DOMAIN rows
    BY <1>4 DEF RowTable
  <2> QED
    BY <1>1, <2>1 DEF QtyAt
<1> QED
  BY <1>3, <1>4

\* The guards of a reversal leave no row of another movement on the layer it
\* deletes, and a movement only has rows of its own kind.
LEMMA NoForeignRows ==
  ASSUME Books(layers, cons, recs, DOMAIN moves), Accounts(layers, cons, recs, moves),
         NEW m \in DOMAIN moves, NotConsumedElsewhere(m), ~DropsFill(m)
  PROVE  /\ \A r \in DOMAIN cons : r[2] = m => r[1] = m
         /\ \A r \in DOMAIN recs : r[2] # m
         /\ Inward(moves[m]) => \A r \in DOMAIN cons : r[1] # m /\ r[2] # m
         /\ ~Inward(moves[m]) => \A r \in DOMAIN recs : r[1] # m
<1>1. Kinds(layers, cons, recs, moves) /\ RowTable(recs, DOMAIN moves, layers)
      /\ Ids(DOMAIN moves)
  BY DEF Accounts, Books
<1>2. \A r \in DOMAIN cons : r[2] = m => r[1] = m
  BY DEF NotConsumedElsewhere
<1>3. ASSUME NEW r \in DOMAIN recs PROVE r[2] # m
  <2> SUFFICES ASSUME r[2] = m PROVE FALSE
    OBVIOUS
  <2>1. m \in DOMAIN layers /\ layers[m].prov /\ recs[r].qty > 0 /\ r = <<r[1], m>>
    BY <1>1 DEF Kinds, RowTable
  <2>2. layers[m].recd = Consumed(recs, m)
    BY <2>1 DEF Accounts, Square
  <2>3. ~(Consumed(recs, m) > 0)
    BY <2>1, <2>2 DEF DropsFill, Provisional
  <2>4. QtyAt(recs, <<r[1], m>>) = recs[r].qty
    BY <2>1 DEF QtyAt
  <2>5. /\ QtyAt(recs, <<r[1], m>>) <= Consumed(recs, m)
        /\ QtyAt(recs, <<r[1], m>>) \in Nat /\ Consumed(recs, m) \in Nat
    BY <1>1, RowWithin
  <2> QED
    BY <2>1, <2>3, <2>4, <2>5
<1>4. Inward(moves[m]) => \A r \in DOMAIN cons : r[1] # m /\ r[2] # m
  BY <1>1, <1>2 DEF Kinds
<1>5. ~Inward(moves[m]) => \A r \in DOMAIN recs : r[1] # m
  BY <1>1 DEF Kinds
<1> QED
  BY <1>2, <1>3, <1>4, <1>5

\* Deleting movement m with its layer and its rows keeps the accounts of the
\* others, when what it held and what it filled has gone back.
LEMMA DroppedAccounts ==
  ASSUME NEW ls, NEW rows, NEW fills, NEW ms, Books(ls, rows, fills, DOMAIN ms),
         Accounts(ls, rows, fills, ms), NEW m,
         NEW ls2, ls2 \in [DOMAIN ls -> Layer],
         \A l \in DOMAIN ls : l # m =>
           /\ ls2[l].rem = ls[l].rem + QtyAt(rows, <<m, l>>)
           /\ ls2[l].recd = ls[l].recd - QtyAt(fills, <<m, l>>)
           /\ ls2[l].orig = ls[l].orig /\ ls2[l].date = ls[l].date
           /\ ls2[l].prov = ls[l].prov,
         \A r \in DOMAIN rows : r[2] = m => r[1] = m,
         \A r \in DOMAIN fills : r[2] # m
  PROVE  Accounts(Dropped(ls2, m), Without(rows, m), Without(fills, m), Dropped(ms, m))
<1> DEFINE ls3 == Dropped(ls2, m)
           rows3 == Without(rows, m)
           fills3 == Without(fills, m)
           ms3 == Dropped(ms, m)
           ids == DOMAIN ms
<1>1. /\ RowTable(rows, ids, ls) /\ RowTable(fills, ids, ls)
      /\ Ids(ids) /\ Ids(DOMAIN ls) /\ ls \in [DOMAIN ls -> Layer]
  BY DEF Books
<1>2. /\ DOMAIN ls3 = DOMAIN ls \ {m} /\ \A l \in DOMAIN ls3 : ls3[l] = ls2[l]
      /\ DOMAIN ms3 = ids \ {m} /\ \A k \in DOMAIN ms3 : ms3[k] = ms[k]
  BY DEF Dropped
<1>3. /\ DOMAIN rows3 \subseteq DOMAIN rows
      /\ \A r \in DOMAIN rows3 : r[1] # m /\ r[2] # m /\ rows3[r] = rows[r]
      /\ DOMAIN fills3 \subseteq DOMAIN fills
      /\ \A r \in DOMAIN fills3 : r[1] # m /\ r[2] # m /\ fills3[r] = fills[r]
  BY DEF Without
<1>4. /\ \A l : l # m =>
           /\ Consumed(rows3, l) = Consumed(rows, l) - QtyAt(rows, <<m, l>>)
           /\ Consumed(rows, l) \in Nat /\ QtyAt(rows, <<m, l>>) \in Nat
      /\ \A k : k # m => Spent(rows3, k) = Spent(rows, k)
  <2>1. \A k : k # m => QtyAt(rows, <<k, m>>) = 0
    <3> SUFFICES ASSUME NEW k, k # m PROVE <<k, m>> \notin DOMAIN rows
      BY DEF QtyAt
    <3> QED
      OBVIOUS
  <2>2. DOMAIN ls3 = DOMAIN ls \ {m}
    BY <1>2
  <2> HIDE DEF ls3
  <2>3. Removes(rows3, rows, m)
    BY <1>1, <2>2, RemovedRows
  <2> HIDE DEF rows3
  <2> QED
    BY <2>1, <2>3 DEF Removes
<1>5. /\ \A l : l # m =>
           /\ Consumed(fills3, l) = Consumed(fills, l) - QtyAt(fills, <<m, l>>)
           /\ Consumed(fills, l) \in Nat /\ QtyAt(fills, <<m, l>>) \in Nat
      /\ \A k : k # m => Spent(fills3, k) = Spent(fills, k)
  <2>1. \A k : k # m => QtyAt(fills, <<k, m>>) = 0
    <3> SUFFICES ASSUME NEW k, k # m PROVE <<k, m>> \notin DOMAIN fills
      BY DEF QtyAt
    <3> QED
      OBVIOUS
  <2>2. DOMAIN ls3 = DOMAIN ls \ {m}
    BY <1>2
  <2> HIDE DEF ls3
  <2>3. Removes(fills3, fills, m)
    BY <1>1, <2>2, RemovedRows
  <2> HIDE DEF fills3
  <2> QED
    BY <2>1, <2>3 DEF Removes
<1> HIDE DEF ls3, rows3, fills3, ms3
<1>6. ASSUME NEW l \in DOMAIN ls3 PROVE Square(ls3[l], l, rows3, fills3)
  <2>1. l \in DOMAIN ls /\ l # m /\ ls3[l] = ls2[l]
    BY <1>2
  <2>2. Square(ls[l], l, rows, fills) /\ ls[l] \in Layer /\ Spent(fills, l) \in Nat
    BY <1>1, <2>1, SpentIs DEF Accounts, Ids
  <2>3. /\ ls2[l].rem = ls[l].rem + QtyAt(rows, <<m, l>>)
        /\ ls2[l].recd = ls[l].recd - QtyAt(fills, <<m, l>>)
        /\ ls2[l].orig = ls[l].orig
    BY <2>1
  <2>4. /\ Consumed(rows3, l) = Consumed(rows, l) - QtyAt(rows, <<m, l>>)
        /\ Consumed(rows, l) \in Nat /\ QtyAt(rows, <<m, l>>) \in Nat
        /\ Consumed(fills3, l) = Consumed(fills, l) - QtyAt(fills, <<m, l>>)
        /\ Consumed(fills, l) \in Nat /\ QtyAt(fills, <<m, l>>) \in Nat
        /\ Spent(fills3, l) = Spent(fills, l)
    BY <1>4, <1>5, <2>1
  <2> QED
    BY <2>1, <2>2, <2>3, <2>4 DEF Square, Layer
<1>7. Kinds(ls3, rows3, fills3, ms3)
  <2>1. Kinds(ls, rows, fills, ms)
    BY DEF Accounts
  <2>2. ASSUME NEW r \in DOMAIN rows3 PROVE ~Inward(ms3[r[1]])
    <3>1. r \in DOMAIN rows /\ r[1] # m /\ r[1] \in ids
      BY <1>1, <1>3 DEF RowTable
    <3> QED
      BY <1>2, <2>1, <3>1 DEF Kinds
  <2>3. ASSUME NEW r \in DOMAIN fills3
        PROVE  /\ Inward(ms3[r[1]]) /\ r[1] \in DOMAIN ls3 /\ ls3[r[2]].prov
               /\ fills3[r].qty > 0
    <3>1. /\ r \in DOMAIN fills /\ r[1] # m /\ r[2] # m /\ fills3[r] = fills[r]
          /\ r[1] \in ids /\ r[2] \in DOMAIN ls
      BY <1>1, <1>3 DEF RowTable
    <3>2. /\ Inward(ms[r[1]]) /\ r[1] \in DOMAIN ls /\ ls[r[2]].prov
          /\ fills[r].qty > 0
      BY <2>1, <3>1 DEF Kinds
    <3> QED
      BY <1>2, <3>1, <3>2
  <2>4. ASSUME NEW l \in DOMAIN ls3
        PROVE  /\ ls3[l].prov <=> l \in DOMAIN ms3 /\ ~Inward(ms3[l])
               /\ ls3[l].date = OpeningDate <=> l \notin DOMAIN ms3
               /\ l \in DOMAIN ms3 /\ Inward(ms3[l]) =>
                    /\ ls3[l].orig <= ms3[l].qty
                    /\ ms3[l].type # "RETURN_IN" => ls3[l].orig = ms3[l].qty
    <3>1. /\ l \in DOMAIN ls /\ l # m
          /\ ls3[l].prov = ls[l].prov /\ ls3[l].date = ls[l].date
          /\ ls3[l].orig = ls[l].orig
      BY <1>2
    <3>2. /\ l \in DOMAIN ms3 <=> l \in DOMAIN ms
          /\ l \in DOMAIN ms3 => ms3[l] = ms[l]
      BY <1>2, <3>1
    <3> QED
      BY <2>1, <3>1, <3>2 DEF Kinds
  <2>5. ASSUME NEW k \in DOMAIN ms3
        PROVE  /\ Inward(ms3[k]) /\ ms3[k].type # "RETURN_IN" /\ k \notin DOMAIN ls3
                    => OnlyReceiptsBefore(ms3, k)
               /\ ~Inward(ms3[k]) => Spent(rows3, k) <= ms3[k].qty
    <3>1. /\ k \in ids /\ k # m /\ ms3[k] = ms[k] /\ Spent(rows3, k) = Spent(rows, k)
          /\ (k \notin DOMAIN ls3 => k \notin DOMAIN ls)
      BY <1>2, <1>4
    <3>2. OnlyReceiptsBefore(ms, k) => OnlyReceiptsBefore(ms3, k)
      BY <1>2 DEF OnlyReceiptsBefore
    <3> QED
      BY <2>1, <3>1, <3>2 DEF Kinds
  <2> QED
    BY <2>2, <2>3, <2>4, <2>5 DEF Kinds
<1> QED
  BY <1>6, <1>7 DEF Accounts, ls3, rows3, fills3, ms3

-----------------------------------------------------------------------------
\* Every fill is on record, so the reversal of a receipt reopens the layers its
\* rows name, by what they name, and guesses nothing.
LEMMA UnreconciledIs ==
  ASSUME Books(layers, cons, recs, DOMAIN moves), Accounts(layers, cons, recs, moves),
         NEW m
  PROVE  /\ Unreconciled(m) = Reopen(layers, RowsOf(recs, m))
         /\ DOMAIN RowsOf(recs, m) \subseteq Provisional(layers)
         /\ \A l \in DOMAIN RowsOf(recs, m) :
              RowsOf(recs, m)[l] \in Nat /\ RowsOf(recs, m)[l] <= layers[l].recd
         /\ \A l : At(RowsOf(recs, m), l) = QtyAt(recs, <<m, l>>)
<1> DEFINE rows == RowsOf(recs, m)
           back == [l \in DOMAIN rows |-> MinOf(rows[l], layers[l].recd)]
           ls1 == Reopen(layers, back)
           unrecorded == layers[m].orig - layers[m].rem
                           - SumFunction(RowsOn(cons, m)) - SumFunction(rows)
           earlier == [l \in {k \in Provisional(ls1) : k < m /\ ls1[k].recd > 0}
                         |-> ls1[l].recd]
           open == Draw(earlier, Lifo(ls1), unrecorded)
<1>0. Unreconciled(m) = IF m \notin DOMAIN layers \/ unrecorded <= 0 THEN ls1
                        ELSE Reopen(ls1, open)
  BY DEF Unreconciled
<1>1. /\ RowTable(recs, DOMAIN moves, layers) /\ RowTable(cons, DOMAIN moves, layers)
      /\ Ids(DOMAIN moves) /\ Ids(DOMAIN layers)
      /\ layers \in [DOMAIN layers -> Layer]
  BY DEF Books
<1>2. /\ DOMAIN rows \subseteq DOMAIN layers
      /\ \A l \in DOMAIN layers : l \in DOMAIN rows <=> <<m, l>> \in DOMAIN recs
      /\ \A l \in DOMAIN rows : rows[l] \in Nat /\ rows[l] = QtyAt(recs, <<m, l>>)
      /\ SumFunction(rows) \in Nat
  BY <1>1, RowsOfTable
<1>3. ASSUME NEW l \in DOMAIN rows PROVE rows[l] <= layers[l].recd /\ layers[l].recd \in Nat
  <2>1. layers[l].recd = Consumed(recs, l) /\ layers[l].recd \in Nat
    BY <1>1, <1>2 DEF Accounts, Square, Layer
  <2>2. QtyAt(recs, <<m, l>>) <= Consumed(recs, l)
    BY <1>1, RowWithin
  <2> QED
    BY <1>2, <2>1, <2>2
<1>4. back = rows
  <2>1. rows = [l \in DOMAIN rows |-> rows[l]]
    BY DEF RowsOf
  <2> HIDE DEF rows
  <2> QED
    BY <1>2, <1>3, <2>1 DEF MinOf
<1>5. m \in DOMAIN layers => unrecorded <= 0
  <2> SUFFICES ASSUME m \in DOMAIN layers PROVE unrecorded <= 0
    OBVIOUS
  <2>1. layers[m].orig = layers[m].rem + Consumed(cons, m) + Spent(recs, m)
    BY DEF Accounts, Square
  <2>2. Consumed(cons, m) \in Nat /\ layers[m].rem \in Nat
    BY <1>1, RowsOnTable DEF Layer
  <2>3. SumFunction(RowsOn(cons, m)) = Consumed(cons, m) /\ SumFunction(rows) = Spent(recs, m)
    BY DEF Consumed, Spent
  <2> HIDE DEF rows
  <2> QED
    BY <1>2, <2>1, <2>2, <2>3
<1>6. Unreconciled(m) = Reopen(layers, rows)
  <2> HIDE DEF unrecorded, open, rows, back
  <2> QED
    BY <1>0, <1>4, <1>5
<1>7. DOMAIN rows \subseteq Provisional(layers)
  <2>1. \A r \in DOMAIN recs : layers[r[2]].prov
    BY DEF Accounts, Kinds
  <2>2. \A l \in DOMAIN rows : layers[<<m, l>>[2]].prov
    BY <1>2, <2>1
  <2> QED
    BY <1>2, <2>2 DEF Provisional
<1>8. \A l : At(rows, l) = QtyAt(recs, <<m, l>>)
  <2> SUFFICES ASSUME NEW l PROVE At(rows, l) = QtyAt(recs, <<m, l>>)
    OBVIOUS
  <2>1. CASE l \in DOMAIN rows
    BY <1>2, <2>1 DEF At
  <2>2. CASE l \notin DOMAIN rows
    <3>1. <<m, l>> \notin DOMAIN recs
      BY <1>1, <1>2, <2>2 DEF RowTable
    <3> QED
      BY <2>2, <3>1 DEF At, QtyAt
  <2> QED
    BY <2>1, <2>2
<1> QED
  BY <1>2, <1>3, <1>6, <1>7, <1>8

\* Reopening provisional layers: nothing else of a layer changes, and the nets
\* go down by what is reopened.
LEMMA ReopenLayer ==
  ASSUME NEW ls, ls \in [DOMAIN ls -> Layer], NEW open,
         \A l \in DOMAIN open : open[l] \in Nat /\ open[l] <= ls[l].recd,
         NEW l \in DOMAIN ls
  PROVE  /\ Reopen(ls, open)[l] \in Layer
         /\ Reopen(ls, open)[l].recd = ls[l].recd - At(open, l)
         /\ Reopen(ls, open)[l].rem = ls[l].rem
         /\ Reopen(ls, open)[l].orig = ls[l].orig
         /\ Reopen(ls, open)[l].date = ls[l].date
         /\ Reopen(ls, open)[l].prov = ls[l].prov
         /\ Reopen(ls, open)[l].cost = ls[l].cost
<1>0. ls[l] \in Layer
  OBVIOUS
<1>1. CASE l \in DOMAIN open
  <2>1. Reopen(ls, open)[l] = [ls[l] EXCEPT !.recd = ls[l].recd - open[l]]
    BY <1>1 DEF Reopen
  <2>2. At(open, l) = open[l] /\ open[l] \in Nat /\ open[l] <= ls[l].recd
    BY <1>1 DEF At
  <2> QED
    BY <1>0, <2>1, <2>2 DEF Layer
<1>2. CASE l \notin DOMAIN open
  <2>1. Reopen(ls, open)[l] = ls[l]
    BY <1>2 DEF Reopen
  <2>2. At(open, l) = 0
    BY <1>2 DEF At
  <2> QED
    BY <1>0, <2>1, <2>2 DEF Layer
<1> QED
  BY <1>1, <1>2

LEMMA NetReopened ==
  ASSUME NEW ls, Queue(ls), NEW open, DOMAIN open \subseteq Provisional(ls),
         \A l \in DOMAIN open : open[l] \in Nat /\ open[l] <= ls[l].recd
  PROVE  /\ Queue(Reopen(ls, open)) /\ DOMAIN Reopen(ls, open) = DOMAIN ls
         /\ Net(Reopen(ls, open)) = Net(ls) - SumFunction(open)
         /\ Net(ls) \in Int /\ SumFunction(open) \in Int
<1> DEFINE ls2 == Reopen(ls, open)
           h == [l \in DOMAIN open |-> -open[l]]
<1>1. /\ DOMAIN ls2 = DOMAIN ls
      /\ \A l \in DOMAIN ls :
           /\ ls2[l] \in Layer /\ ls2[l].recd = ls[l].recd - At(open, l)
           /\ ls2[l].rem = ls[l].rem /\ ls2[l].orig = ls[l].orig
           /\ ls2[l].prov = ls[l].prov
  BY ReopenLayer DEF Reopen, Queue
<1>2. Queue(ls2)
  <2>1. ls2 = [l \in DOMAIN ls2 |-> ls2[l]]
    BY DEF Reopen
  <2> HIDE DEF ls2
  <2> QED
    BY <1>1, <2>1 DEF Queue
<1> HIDE DEF ls2
<1>3. IsFiniteSet(DOMAIN open) /\ DOMAIN open \subseteq DOMAIN ls
  BY FS_Subset DEF Queue, Ids, Provisional
<1>4. SumFunction(h) = -SumFunction(open) /\ SumFunction(open) \in Int
  BY <1>3, SumNegated, SumInt DEF SumFunction
<1>5. \A l \in DOMAIN ls : NetOf(ls2[l]) = NetOf(ls[l]) + At(h, l)
  <2> SUFFICES ASSUME NEW l \in DOMAIN ls
               PROVE  NetOf(ls2[l]) = NetOf(ls[l]) + At(h, l)
    OBVIOUS
  <2>1. At(h, l) = -At(open, l) /\ At(open, l) \in Nat
    BY DEF At
  <2>2. ~ls[l].prov => At(open, l) = 0
    BY DEF At, Provisional
  <2>3. ls[l] \in Layer
    BY DEF Queue
  <2> HIDE DEF h
  <2> QED
    BY <1>1, <2>1, <2>2, <2>3 DEF NetOf, Layer
<1>6. DOMAIN h \subseteq DOMAIN ls /\ \A l \in DOMAIN h : h[l] \in Int
  BY <1>3
<1> HIDE DEF h
<1>7. Net(ls2) = Net(ls) + SumFunction(h) /\ Net(ls) \in Int
  BY <1>1, <1>2, <1>5, <1>6, NetOfShift
<1>8. Net(ls2) = Net(ls) - SumFunction(open)
  BY <1>4, <1>7
<1> QED
  BY <1>1, <1>2, <1>4, <1>7, <1>8 DEF ls2

-----------------------------------------------------------------------------
\* What trim_opening_layers takes of each opening layer.
Openings(ls) ==
  [l \in {k \in DOMAIN ls : ls[k].date = OpeningDate /\ ls[k].rem > 0} |-> ls[l].rem]
Newest(ls) == {p \in (DOMAIN ls) \X (DOMAIN ls) : p[1] > p[2]}
Surplus(ls, balance, q) == MinOf(OpenQty(ls) - MaxOf(balance, 0), q)
Trims(ls, balance, q) == Draw(Openings(ls), Newest(ls), Surplus(ls, balance, q))

\* Layers ls2 are layers ls with take taken out of their opening layers: out of
\* what is open and out of what entered; the rest of a layer, its cost aside,
\* stays.
Trimming(ls2, ls, take) ==
  /\ DOMAIN ls2 = DOMAIN ls /\ DOMAIN take = DOMAIN Openings(ls)
  /\ \A l \in DOMAIN Openings(ls) :
       /\ take[l] \in Nat /\ take[l] <= ls[l].rem
       /\ l \in DOMAIN ls /\ ls[l].date = OpeningDate
  /\ \A l \in DOMAIN ls :
       /\ ls2[l].rem = ls[l].rem - At(take, l) /\ ls2[l].orig = ls[l].orig - At(take, l)
       /\ ls2[l].recd = ls[l].recd /\ ls2[l].date = ls[l].date
       /\ ls2[l].prov = ls[l].prov

\* That is what trim_opening_layers does.
LEMMA TrimmedIs ==
  ASSUME NEW ls, Queue(ls), NEW rows, NEW balance \in Int, NEW q \in Nat, NEW cost
  PROVE  Trimming(Trimmed(ls, rows, balance, q, cost), ls, Trims(ls, balance, q))
<1> DEFINE openings == Openings(ls)
           take == Trims(ls, balance, q)
           left(l) == ls[l].rem - take[l]
           recost(l) == Quantize(ls[l].rem * ls[l].cost - take[l] * cost, left(l))
           recosted(l) == /\ take[l] > 0 /\ cost > 0 /\ left(l) > 0
                          /\ \A r \in DOMAIN rows : r[2] # l
                          /\ recost(l) >= 0
           ls2 == Trimmed(ls, rows, balance, q, cost)
<1>1. IsFiniteSet(DOMAIN ls) /\ \A l \in DOMAIN ls : ls[l] \in Layer
  BY DEF Queue, Ids
<1>2. Surplus(ls, balance, q) \in Int
  BY OpenQtyNat DEF Queue, Surplus, MinOf, MaxOf
<1>3. /\ DOMAIN openings \subseteq DOMAIN ls
      /\ \A l \in DOMAIN openings : openings[l] = ls[l].rem /\ ls[l].date = OpeningDate
  BY DEF Openings
<1>4. IsFiniteSet(DOMAIN openings) /\ \A l \in DOMAIN openings : openings[l] \in Nat
  BY <1>1, <1>3, FS_Subset DEF Layer
<1>5. /\ DOMAIN take = DOMAIN openings
      /\ \A l \in DOMAIN openings : take[l] \in Nat /\ take[l] <= openings[l]
  <2> HIDE DEF openings
  <2> QED
    BY <1>2, <1>4, DrawBounds DEF Trims, openings
<1>6. DOMAIN ls2 = DOMAIN ls
  BY DEF Trimmed
<1>7. ASSUME NEW l \in DOMAIN ls
      PROVE  ls2[l] = IF l \in DOMAIN openings /\ take[l] > 0
                        THEN [ls[l] EXCEPT !.rem = ls[l].rem - take[l],
                                           !.orig = ls[l].orig - take[l],
                                           !.cost = IF recosted(l) THEN recost(l)
                                                    ELSE ls[l].cost]
                        ELSE ls[l]
  BY DEF Trimmed, Trims, Openings, Newest, Surplus
<1> HIDE DEF take, openings, ls2
<1>8. ASSUME NEW l \in DOMAIN ls
      PROVE  /\ ls2[l].rem = ls[l].rem - At(take, l)
             /\ ls2[l].orig = ls[l].orig - At(take, l)
             /\ ls2[l].recd = ls[l].recd /\ ls2[l].date = ls[l].date
             /\ ls2[l].prov = ls[l].prov
  <2>1. ls[l] \in Layer
    BY <1>1
  <2>2. CASE l \in DOMAIN openings /\ take[l] > 0
    <3> DEFINE c == IF recosted(l) THEN recost(l) ELSE ls[l].cost
    <3>1. ls2[l] = [ls[l] EXCEPT !.rem = ls[l].rem - take[l],
                                 !.orig = ls[l].orig - take[l], !.cost = c]
      BY <1>7, <2>2
    <3>2. At(take, l) = take[l]
      BY <1>5, <2>2 DEF At
    <3> HIDE DEF c
    <3> QED
      BY <2>1, <3>1, <3>2 DEF Layer
  <2>3. CASE ~(l \in DOMAIN openings /\ take[l] > 0)
    <3>1. ls2[l] = ls[l]
      BY <1>7, <2>3
    <3>2. At(take, l) = 0
      BY <1>5, <2>3 DEF At
    <3> QED
      BY <2>1, <3>1, <3>2 DEF Layer
  <2> QED
    BY <2>2, <2>3
<1>9. Trimming(ls2, ls, take)
  BY <1>3, <1>5, <1>6, <1>8 DEF openings, Trimming
<1> QED
  BY <1>9 DEF take, ls2

\* Trimming keeps the accounts: an opening layer is nobody's.
LEMMA TrimmedAccounts ==
  ASSUME NEW ls, NEW rows, NEW fills, NEW ms, Books(ls, rows, fills, DOMAIN ms),
         Accounts(ls, rows, fills, ms), NEW balance \in Int, NEW q \in Nat, NEW cost
  PROVE  Accounts(Trimmed(ls, rows, balance, q, cost), rows, fills, ms)
<1> DEFINE ls2 == Trimmed(ls, rows, balance, q, cost)
           take == Trims(ls, balance, q)
<1>1. /\ RowTable(rows, DOMAIN ms, ls) /\ RowTable(fills, DOMAIN ms, ls)
      /\ Ids(DOMAIN ms) /\ Ids(DOMAIN ls) /\ ls \in [DOMAIN ls -> Layer]
  BY DEF Books
<1>2. /\ DOMAIN ls2 = DOMAIN ls /\ DOMAIN take = DOMAIN Openings(ls)
      /\ \A l \in DOMAIN Openings(ls) :
           take[l] \in Nat /\ l \in DOMAIN ls /\ ls[l].date = OpeningDate
      /\ \A l \in DOMAIN ls :
           /\ ls2[l].rem = ls[l].rem - At(take, l) /\ ls2[l].orig = ls[l].orig - At(take, l)
           /\ ls2[l].recd = ls[l].recd /\ ls2[l].date = ls[l].date
           /\ ls2[l].prov = ls[l].prov
  <2>1. Trimming(ls2, ls, take)
    BY <1>1, TrimmedIs DEF Queue
  <2> HIDE DEF ls2, take
  <2> QED
    BY <2>1 DEF Trimming
<1> HIDE DEF ls2, take
<1>3. \A l : At(take, l) \in Nat
  BY <1>2 DEF At
<1>4. ASSUME NEW l \in DOMAIN ls2 PROVE Square(ls2[l], l, rows, fills)
  <2>1. Square(ls[l], l, rows, fills) /\ ls[l] \in Layer
    BY <1>1, <1>2 DEF Accounts
  <2>2. Consumed(rows, l) \in Nat /\ Spent(fills, l) \in Nat
    BY <1>1, RowsOnTable, SpentIs DEF Ids
  <2> QED
    BY <1>2, <1>3, <2>1, <2>2 DEF Square, Layer
<1>5. Kinds(ls2, rows, fills, ms)
  <2>1. Kinds(ls, rows, fills, ms)
    BY DEF Accounts
  <2>2. \A r \in DOMAIN rows : ~Inward(ms[r[1]])
    BY <2>1 DEF Kinds
  <2>3. ASSUME NEW r \in DOMAIN fills
        PROVE  Inward(ms[r[1]]) /\ r[1] \in DOMAIN ls2 /\ ls2[r[2]].prov /\ fills[r].qty > 0
    <3>1. r[2] \in DOMAIN ls
      BY <1>1 DEF RowTable
    <3> QED
      BY <1>2, <2>1, <3>1 DEF Kinds
  <2>4. ASSUME NEW l \in DOMAIN ls2
        PROVE  /\ ls2[l].prov <=> l \in DOMAIN ms /\ ~Inward(ms[l])
               /\ ls2[l].date = OpeningDate <=> l \notin DOMAIN ms
               /\ l \in DOMAIN ms /\ Inward(ms[l]) =>
                    /\ ls2[l].orig <= ms[l].qty
                    /\ ms[l].type # "RETURN_IN" => ls2[l].orig = ms[l].qty
    <3>1. ls2[l].prov = ls[l].prov /\ ls2[l].date = ls[l].date /\ l \in DOMAIN ls
      BY <1>2
    <3>2. l \in DOMAIN ms => ls2[l].orig = ls[l].orig
      <4>1. l \in DOMAIN ms => At(take, l) = 0
        BY <1>2, <2>1 DEF Kinds, At
      <4>2. ls[l].orig \in Nat
        BY <1>1, <3>1 DEF Layer
      <4> QED
        BY <1>2, <4>1, <4>2
    <3> QED
      BY <2>1, <3>1, <3>2 DEF Kinds
  <2>5. \A k \in DOMAIN ms :
          /\ Inward(ms[k]) /\ ms[k].type # "RETURN_IN" /\ k \notin DOMAIN ls2
               => OnlyReceiptsBefore(ms, k)
          /\ ~Inward(ms[k]) => Spent(rows, k) <= ms[k].qty
    BY <1>2, <2>1 DEF Kinds
  <2> QED
    BY <2>2, <2>3, <2>4, <2>5 DEF Kinds
<1> QED
  BY <1>4, <1>5 DEF Accounts, ls2

\* The nets of the layers go down by what is trimmed.
LEMMA NetTrimmed ==
  ASSUME NEW ls, NEW rows, NEW fills, NEW ids, Books(ls, rows, fills, ids),
         NEW balance \in Int, NEW q \in Nat, NEW cost \in Nat
  PROVE  /\ Queue(Trimmed(ls, rows, balance, q, cost))
         /\ Net(Trimmed(ls, rows, balance, q, cost))
              = Net(ls) - SumFunction(Trims(ls, balance, q))
         /\ Net(ls) \in Int /\ SumFunction(Trims(ls, balance, q)) \in Int
<1> DEFINE ls2 == Trimmed(ls, rows, balance, q, cost)
           take == Trims(ls, balance, q)
           h == [l \in DOMAIN take |-> -take[l]]
<1>1. Queue(ls) /\ \A l \in DOMAIN ls : ls[l].date = OpeningDate => ~ls[l].prov
  BY DEF Books, Fits, Queue
<1>2. /\ DOMAIN ls2 = DOMAIN ls /\ DOMAIN take = DOMAIN Openings(ls)
      /\ \A l \in DOMAIN Openings(ls) :
           take[l] \in Nat /\ l \in DOMAIN ls /\ ls[l].date = OpeningDate
      /\ \A l \in DOMAIN ls :
           /\ ls2[l].rem = ls[l].rem - At(take, l) /\ ls2[l].orig = ls[l].orig - At(take, l)
           /\ ls2[l].recd = ls[l].recd /\ ls2[l].date = ls[l].date
           /\ ls2[l].prov = ls[l].prov
  <2>1. Trimming(ls2, ls, take)
    BY <1>1, TrimmedIs
  <2> HIDE DEF ls2, take
  <2> QED
    BY <2>1 DEF Trimming
<1>3. Queue(ls2)
  BY TrimmedBooks DEF Books, Queue
<1> HIDE DEF ls2, take
<1>4. IsFiniteSet(DOMAIN take) /\ DOMAIN take \subseteq DOMAIN ls
  BY <1>1, <1>2, FS_Subset DEF Queue, Ids
<1>5. SumFunction(h) = -SumFunction(take) /\ SumFunction(take) \in Int
  BY <1>2, <1>4, SumNegated, SumInt DEF SumFunction
<1>6. \A l \in DOMAIN ls : NetOf(ls2[l]) = NetOf(ls[l]) + At(h, l)
  <2> SUFFICES ASSUME NEW l \in DOMAIN ls
               PROVE  NetOf(ls2[l]) = NetOf(ls[l]) + At(h, l)
    OBVIOUS
  <2>1. At(h, l) = -At(take, l) /\ At(take, l) \in Nat
    BY <1>2 DEF At
  <2>2. ls[l].prov => At(take, l) = 0
    BY <1>1, <1>2 DEF At
  <2>3. ls[l] \in Layer
    BY <1>1 DEF Queue
  <2> HIDE DEF h
  <2> QED
    BY <1>2, <2>1, <2>2, <2>3 DEF NetOf, Layer
<1>7. DOMAIN h \subseteq DOMAIN ls /\ \A l \in DOMAIN h : h[l] \in Int
  BY <1>2, <1>4
<1> HIDE DEF h
<1>8. Net(ls2) = Net(ls) + SumFunction(h) /\ Net(ls) \in Int
  BY <1>1, <1>2, <1>3, <1>6, <1>7, NetOfShift
<1>9. Net(ls2) = Net(ls) - SumFunction(take)
  BY <1>5, <1>8
<1> QED
  BY <1>3, <1>5, <1>8, <1>9 DEF ls2, take

-----------------------------------------------------------------------------
\* The layers once the reversal of m has undone what m did to those of others.
Undone(m) == IF Inward(moves[m]) THEN Unreconciled(m) ELSE Refill(layers, RowsOf(cons, m))

\* Each other layer gets back what m held of it, and its pending units.
LEMMA UndoneLayers ==
  ASSUME Books(layers, cons, recs, DOMAIN moves), Accounts(layers, cons, recs, moves),
         NEW m \in DOMAIN moves, NotConsumedElsewhere(m), ~DropsFill(m)
  PROVE  /\ Undone(m) \in [DOMAIN layers -> Layer]
         /\ \A l \in DOMAIN layers :
              /\ Undone(m)[l].rem = layers[l].rem + QtyAt(cons, <<m, l>>)
              /\ Undone(m)[l].recd = layers[l].recd - QtyAt(recs, <<m, l>>)
              /\ Undone(m)[l].orig = layers[l].orig
              /\ Undone(m)[l].date = layers[l].date
              /\ Undone(m)[l].prov = layers[l].prov
              /\ Undone(m)[l].cost = layers[l].cost
<1>1. /\ RowTable(cons, DOMAIN moves, layers) /\ Ids(DOMAIN layers)
      /\ layers \in [DOMAIN layers -> Layer]
  BY DEF Books
<1>2. /\ Inward(moves[m]) => \A r \in DOMAIN cons : r[1] # m
      /\ ~Inward(moves[m]) => \A r \in DOMAIN recs : r[1] # m
  BY NoForeignRows
<1>3. CASE Inward(moves[m])
  <2> DEFINE open == RowsOf(recs, m)
             u == Reopen(layers, open)
  <2>1. /\ Undone(m) = u
        /\ \A l \in DOMAIN open : open[l] \in Nat /\ open[l] <= layers[l].recd
        /\ \A l : At(open, l) = QtyAt(recs, <<m, l>>)
    BY <1>3, UnreconciledIs DEF Undone
  <2> HIDE DEF open
  <2>2. \A l \in DOMAIN layers :
          /\ u[l] \in Layer /\ u[l].recd = layers[l].recd - At(open, l)
          /\ u[l].rem = layers[l].rem /\ u[l].orig = layers[l].orig
          /\ u[l].date = layers[l].date /\ u[l].prov = layers[l].prov
          /\ u[l].cost = layers[l].cost
    BY <1>1, <2>1, ReopenLayer
  <2>3. u = [l \in DOMAIN layers |-> u[l]]
    BY DEF Reopen
  <2> HIDE DEF u
  <2>4. \A l : QtyAt(cons, <<m, l>>) = 0
    <3> SUFFICES ASSUME NEW l PROVE <<m, l>> \notin DOMAIN cons
      BY DEF QtyAt
    <3> QED
      BY <1>2, <1>3
  <2>5. \A l \in DOMAIN layers : layers[l].rem \in Nat
    BY <1>1 DEF Layer
  <2> QED
    BY <2>1, <2>2, <2>3, <2>4, <2>5
<1>4. CASE ~Inward(moves[m])
  <2> DEFINE give == RowsOf(cons, m)
             u == Refill(layers, give)
  <2>1. /\ DOMAIN give \subseteq DOMAIN layers
        /\ \A l \in DOMAIN layers : l \in DOMAIN give <=> <<m, l>> \in DOMAIN cons
        /\ \A l \in DOMAIN give : give[l] \in Nat
        /\ \A l \in DOMAIN give : give[l] = QtyAt(cons, <<m, l>>)
    BY <1>1, RowsOfTable
  <2> HIDE DEF give
  <2>2. \A l \in DOMAIN layers :
          /\ u[l] \in Layer /\ u[l].rem = layers[l].rem + At(give, l)
          /\ u[l].recd = layers[l].recd /\ u[l].orig = layers[l].orig
          /\ u[l].date = layers[l].date /\ u[l].prov = layers[l].prov
          /\ u[l].cost = layers[l].cost
    BY <1>1, <2>1, RefillLayer
  <2>3. u = [l \in DOMAIN layers |-> u[l]]
    BY DEF Refill
  <2>4. Undone(m) = u
    BY <1>4 DEF Undone, give
  <2> HIDE DEF u
  <2>5. \A l : QtyAt(recs, <<m, l>>) = 0
    <3> SUFFICES ASSUME NEW l PROVE <<m, l>> \notin DOMAIN recs
      BY DEF QtyAt
    <3> QED
      BY <1>2, <1>4
  <2>6. \A l \in DOMAIN layers : At(give, l) = QtyAt(cons, <<m, l>>)
    BY <2>1 DEF At, QtyAt
  <2>7. \A l \in DOMAIN layers : layers[l].recd \in Nat
    BY <1>1 DEF Layer
  <2> QED
    BY <2>2, <2>3, <2>4, <2>5, <2>6, <2>7
<1> QED
  BY <1>3, <1>4

\* Without m, its layer and its rows, books and accounts are kept.
LEMMA UndoneBooks ==
  ASSUME Books(layers, cons, recs, DOMAIN moves), Accounts(layers, cons, recs, moves),
         NEW m \in DOMAIN moves, NotConsumedElsewhere(m), ~DropsFill(m)
  PROVE  /\ Books(Dropped(Undone(m), m), Without(cons, m), Without(recs, m),
                  DOMAIN Dropped(moves, m))
         /\ Accounts(Dropped(Undone(m), m), Without(cons, m), Without(recs, m),
                     Dropped(moves, m))
<1> DEFINE u == Undone(m)
<1>1. /\ u \in [DOMAIN layers -> Layer]
      /\ \A l \in DOMAIN layers :
           /\ u[l].rem = layers[l].rem + QtyAt(cons, <<m, l>>)
           /\ u[l].recd = layers[l].recd - QtyAt(recs, <<m, l>>)
           /\ u[l].orig = layers[l].orig /\ u[l].date = layers[l].date
           /\ u[l].prov = layers[l].prov /\ u[l].cost = layers[l].cost
  BY UndoneLayers
<1> HIDE DEF u
<1>2. /\ \A r \in DOMAIN cons : r[2] = m => r[1] = m
      /\ \A r \in DOMAIN recs : r[2] # m
  BY NoForeignRows
<1>3. ASSUME NEW l \in DOMAIN layers, l # m PROVE Fits(u[l], Kept(cons, m, l))
  <2>1. layers[l] \in Layer /\ Fits(layers[l], Consumed(cons, l)) /\ u[l] \in Layer
    BY <1>1 DEF Books
  <2>2. /\ Consumed(cons, l) \in Nat /\ QtyAt(cons, <<m, l>>) \in Nat
        /\ QtyAt(recs, <<m, l>>) \in Nat
    <3>1. /\ RowTable(cons, DOMAIN moves, layers) /\ RowTable(recs, DOMAIN moves, layers)
          /\ Ids(DOMAIN moves)
      BY DEF Books
    <3> QED
      BY <3>1, RowsOnTable, QtyAtNat
  <2> QED
    BY <1>1, <2>1, <2>2 DEF Fits, Kept, Layer
<1>4. Books(Dropped(u, m), Without(cons, m), Without(recs, m), DOMAIN moves \ {m})
  BY <1>1, <1>3, DropBooks
<1>5. Accounts(Dropped(u, m), Without(cons, m), Without(recs, m), Dropped(moves, m))
  BY <1>1, <1>2, DroppedAccounts
<1>6. DOMAIN Dropped(moves, m) = DOMAIN moves \ {m}
  BY DEF Dropped
<1> QED
  BY <1>4, <1>5, <1>6 DEF u

\* The difference journals without m are those the other receipts call for.
LEMMA DiffsWithout ==
  ASSUME StockInv, Tallies, NEW m \in DOMAIN moves, NotConsumedElsewhere(m), ~DropsFill(m),
         moves' = Dropped(moves, m), recs' = Without(recs, m), diffs' = Dropped(diffs, m)
  PROVE  DiffLedger'
<1>1. /\ RowTable(recs, DOMAIN moves, layers) /\ Ids(DOMAIN moves) /\ Ids(DOMAIN layers)
      /\ \A r \in DOMAIN recs : r[2] # m
  BY NoForeignRows DEF StockInv, Tallies, Books
<1>2. /\ DOMAIN moves' = DOMAIN moves \ {m} /\ \A k \in DOMAIN moves' : moves'[k] = moves[k]
      /\ \A k : k # m => At(diffs', k) = At(diffs, k)
  BY DEF Dropped, At
<1>3. /\ \A r : r \in DOMAIN recs' <=> r \in DOMAIN recs /\ r[1] # m /\ r[2] # m
      /\ \A r \in DOMAIN recs' : recs'[r] = recs[r]
  BY DEF Without
<1>4. RowTable(recs', DOMAIN moves \ {m}, Dropped(layers, m))
  <2>1. DOMAIN Dropped(layers, m) = DOMAIN layers \ {m}
    BY DEF Dropped
  <2> QED
    BY <1>1, <2>1, RemovedRows
<1>5. ASSUME NEW k \in DOMAIN moves' PROVE DiffOf(recs', k, moves'[k].cost) = At(diffs', k)
  <2>1. k \in DOMAIN moves /\ k # m /\ moves'[k] = moves[k]
    BY <1>2
  <2>2. ASSUME NEW l
        PROVE  /\ <<k, l>> \in DOMAIN recs <=> <<k, l>> \in DOMAIN recs'
               /\ <<k, l>> \in DOMAIN recs => recs'[<<k, l>>] = recs[<<k, l>>]
    <3>1. /\ <<k, l>>[1] # m
          /\ <<k, l>> \in DOMAIN recs => <<k, l>>[2] # m
      BY <1>1, <2>1
    <3> QED
      BY <1>3, <3>1
  <2>3. DiffOf(recs', k, moves[k].cost) = DiffOf(recs, k, moves[k].cost)
    BY <1>1, <1>4, <2>2, DiffOfSame
  <2>4. DiffOf(recs, k, moves[k].cost) = At(diffs, k)
    BY <2>1, DiffLedgerIs DEF Tallies
  <2> QED
    BY <1>2, <2>1, <2>3, <2>4
<1> QED
  BY <1>5, DiffLedgerIsNext

\* A reversal keeps the ledgers of the rows, unless it drops a fill with the
\* provisional layer it filled.
LEMMA UnpostTallies ==
  ASSUME StockInv, Tallies, NEW m \in DOMAIN moves, UnpostDocument(m), ~DropsFill(m)
  PROVE  Tallies'
<1> DEFINE inbound == moves[m].type \in InboundTypes
           missing == moves[m].qty - SumFunction(RowsOf(cons, m))
           ls2 == Dropped(Undone(m), m)
           rows == Without(cons, m)
           fills == Without(recs, m)
           ms == Dropped(moves, m)
           balance == Balance(DOMAIN moves \ {m})
           unlayered == inbound /\ moves[m].type # "RETURN_IN" /\ m \notin DOMAIN layers
           ls3 == IF unlayered
                    THEN Trimmed(ls2, rows, balance, moves[m].qty, moves[m].cost)
                    ELSE ls2
           ls4 == IF inbound THEN Backfill(ls3, balance, avg)
                  ELSE Backfill(ls3, balance - missing, avg)
           ls5 == IF inbound \/ missing = 0 THEN ls4
                  ELSE Backfill(ls4, balance, moves[m].cost)
<1>0. /\ layers' = ls5 /\ cons' = rows /\ recs' = fills /\ moves' = ms
      /\ diffs' = Dropped(diffs, m) /\ NotConsumedElsewhere(m)
  BY DEF UnpostDocument, Undone, Inward, WithoutDiff
<1>1. /\ Ids(DOMAIN moves) /\ avg \in Nat /\ Journal(moves)
      /\ Books(layers, cons, recs, DOMAIN moves) /\ Accounts(layers, cons, recs, moves)
  BY DEF StockInv, Journal, Tallies
<1>2. moves[m].qty \in Nat /\ moves[m].cost \in Nat
  BY <1>1 DEF Journal, Move
<1>3. balance \in Int
  <2>1. /\ SumFunction(Gains(Dropped(moves, m))) \in Int
        /\ SumFunction(Gains(Dropped(moves, m)))
             = SumFunctionOnSet(Gains(moves), DOMAIN moves \ {m})
    BY <1>1, NetDrop
  <2>2. Balance(DOMAIN moves \ {m}) = SumFunctionOnSet(Gains(moves), DOMAIN moves \ {m})
    BY <1>1, BalanceIsNet
  <2> QED
    BY <2>1, <2>2
<1>4. balance - missing \in Int
  <2>1. SumFunction(RowsOf(cons, m)) \in Nat
    BY <1>1, RowsOfTable DEF Books
  <2> HIDE DEF balance
  <2> QED
    BY <1>2, <1>3, <2>1
<1>5. Books(ls2, rows, fills, DOMAIN ms) /\ Accounts(ls2, rows, fills, ms)
  BY <1>0, <1>1, UndoneBooks
<1>6. DOMAIN ms \subseteq DOMAIN moves
  BY DEF Dropped
<1> HIDE DEF ls2, rows, fills, ms, missing, balance, unlayered
<1>7. Books(ls3, rows, fills, DOMAIN ms) /\ Accounts(ls3, rows, fills, ms)
  BY <1>2, <1>3, <1>5, TrimmedBooks, TrimmedAccounts
<1> HIDE DEF ls3
<1>8. Books(ls4, rows, fills, DOMAIN ms) /\ Accounts(ls4, rows, fills, ms)
  <2>1. CASE inbound
    <3>1. /\ Books(Backfill(ls3, balance, avg), rows, fills, DOMAIN ms)
          /\ Accounts(Backfill(ls3, balance, avg), rows, fills, ms)
      BY <1>1, <1>3, <1>6, <1>7, BackfillBooks, BackfillAccounts
    <3> QED
      BY <2>1, <3>1
  <2>2. CASE ~inbound
    <3>1. /\ Books(Backfill(ls3, balance - missing, avg), rows, fills, DOMAIN ms)
          /\ Accounts(Backfill(ls3, balance - missing, avg), rows, fills, ms)
      BY <1>1, <1>4, <1>6, <1>7, BackfillBooks, BackfillAccounts
    <3> QED
      BY <2>2, <3>1
  <2> QED
    BY <2>1, <2>2
<1> HIDE DEF ls4
<1>9. Accounts(ls5, rows, fills, ms)
  <2>1. Accounts(Backfill(ls4, balance, moves[m].cost), rows, fills, ms)
    BY <1>1, <1>2, <1>3, <1>6, <1>8, BackfillAccounts
  <2> QED
    BY <1>8, <2>1
<1> HIDE DEF ls5
<1>10. Accounts(layers', cons', recs', moves')
  BY <1>0, <1>9
<1>11. DiffLedger'
  BY <1>0, DiffsWithout DEF ms, fills
<1> QED
  BY <1>10, <1>11 DEF Tallies

-----------------------------------------------------------------------------
\* What the layers without m cover: less all that entered the layer of a
\* receipt, and more by all an issue held.
LEMMA NetUndone ==
  ASSUME Books(layers, cons, recs, DOMAIN moves), Accounts(layers, cons, recs, moves),
         NEW m \in DOMAIN moves, NotConsumedElsewhere(m), ~DropsFill(m)
  PROVE  /\ Net(layers) \in Int /\ Spent(cons, m) \in Nat
         /\ Inward(moves[m]) /\ m \in DOMAIN layers =>
              Net(Dropped(Undone(m), m)) = Net(layers) - layers[m].orig
         /\ Inward(moves[m]) /\ m \notin DOMAIN layers =>
              Net(Dropped(Undone(m), m)) = Net(layers)
         /\ ~Inward(moves[m]) =>
              Net(Dropped(Undone(m), m)) = Net(layers) + Spent(cons, m)
<1> DEFINE u == Undone(m)
           net == At(Nets(u), m)
<1>1. /\ RowTable(cons, DOMAIN moves, layers) /\ RowTable(recs, DOMAIN moves, layers)
      /\ Ids(DOMAIN moves) /\ Queue(layers)
  BY DEF Books, Queue
<1>2. Net(layers) \in Int /\ Spent(cons, m) \in Nat /\ Spent(recs, m) \in Nat
  <2>1. IsFiniteSet(DOMAIN layers) /\ Ids(DOMAIN layers) /\ DOMAIN layers \subseteq DOMAIN layers
    BY <1>1 DEF Queue, Ids
  <2> QED
    BY <1>1, <2>1, NetsInt, SpentIs
<1>3. /\ DOMAIN u = DOMAIN layers /\ u \in [DOMAIN layers -> Layer]
      /\ \A l \in DOMAIN layers :
           /\ u[l].rem = layers[l].rem + QtyAt(cons, <<m, l>>)
           /\ u[l].recd = layers[l].recd - QtyAt(recs, <<m, l>>)
           /\ u[l].orig = layers[l].orig /\ u[l].prov = layers[l].prov
  <2>1. u \in [DOMAIN layers -> Layer]
    BY UndoneLayers
  <2>2. DOMAIN u = DOMAIN layers
    <3> HIDE DEF u
    <3> QED
      BY <2>1
  <2> QED
    BY <2>1, <2>2, UndoneLayers
<1>4. Queue(u)
  <2> HIDE DEF u
  <2> QED
    BY <1>1, <1>3 DEF Queue
<1>5. Net(Dropped(u, m)) = Net(u) - net /\ net \in Int /\ Net(u) \in Int
  BY <1>4, NetOfDrop
<1>6. net = IF m \in DOMAIN layers THEN NetOf(u[m]) ELSE 0
  <2> HIDE DEF u
  <2> QED
    BY <1>3 DEF At, Nets
<1>7. ASSUME Inward(moves[m])
      PROVE  /\ Net(u) = Net(layers) - Spent(recs, m)
             /\ \A r \in DOMAIN cons : r[1] # m /\ r[2] # m
  <2> DEFINE open == RowsOf(recs, m)
  <2>1. /\ u = Reopen(layers, open)
        /\ DOMAIN open \subseteq Provisional(layers)
        /\ \A l \in DOMAIN open : open[l] \in Nat /\ open[l] <= layers[l].recd
    BY <1>7, UnreconciledIs DEF Undone
  <2> HIDE DEF u, open
  <2>2. Net(u) = Net(layers) - SumFunction(open)
    BY <1>1, <2>1, NetReopened
  <2>3. \A r \in DOMAIN cons : r[1] # m /\ r[2] # m
    BY <1>7, NoForeignRows
  <2> QED
    BY <2>2, <2>3 DEF Spent, open
<1>8. ASSUME ~Inward(moves[m])
      PROVE  /\ Net(u) = Net(layers) + Spent(cons, m)
             /\ \A r \in DOMAIN recs : r[1] # m /\ r[2] # m
  <2> DEFINE give == RowsOf(cons, m)
  <2>1. /\ DOMAIN give \subseteq DOMAIN layers /\ \A l \in DOMAIN give : give[l] \in Nat
    BY <1>1, RowsOfTable DEF Queue
  <2>2. u = Refill(layers, give)
    BY <1>8 DEF Undone
  <2> HIDE DEF u, give
  <2>3. Net(u) = Net(layers) + SumFunction(give)
    BY <1>1, <2>1, <2>2, NetRefilled
  <2>4. \A r \in DOMAIN recs : r[1] # m /\ r[2] # m
    BY <1>8, NoForeignRows
  <2> QED
    BY <2>3, <2>4 DEF Spent, give
<1> HIDE DEF u, net
<1>9. ASSUME Inward(moves[m]), m \in DOMAIN layers
      PROVE  Net(Dropped(u, m)) = Net(layers) - layers[m].orig
  <2>1. layers[m].orig = layers[m].rem + Consumed(cons, m) + Spent(recs, m)
    BY <1>9 DEF Accounts, Square
  <2>2. Consumed(cons, m) = 0 /\ QtyAt(cons, <<m, m>>) = 0
    <3>1. \A r \in DOMAIN cons : r[1] # m /\ r[2] # m
      BY <1>7, <1>9
    <3>2. <<m, m>> \notin DOMAIN cons
      BY <3>1
    <3> QED
      BY <3>1, <3>2, NoneConsumed DEF QtyAt
  <2>3. layers[m].rem \in Nat /\ layers[m].orig \in Nat
    BY <1>1, <1>9 DEF Queue, Layer
  <2>4. ~layers[m].prov
    BY <1>9 DEF Accounts, Kinds
  <2>5. net = layers[m].rem
    BY <1>3, <1>6, <1>9, <2>2, <2>3, <2>4 DEF NetOf
  <2> QED
    BY <1>2, <1>5, <1>7, <1>9, <2>1, <2>2, <2>3, <2>5
<1>10. ASSUME Inward(moves[m]), m \notin DOMAIN layers
       PROVE  Net(Dropped(u, m)) = Net(layers)
  <2>1. \A r \in DOMAIN recs : r[1] # m
    BY <1>10 DEF Accounts, Kinds
  <2>2. Spent(recs, m) = 0
    BY <2>1, NoneSpent
  <2> QED
    BY <1>2, <1>5, <1>6, <1>7, <1>10, <2>2
<1>11. ASSUME ~Inward(moves[m])
       PROVE  Net(Dropped(u, m)) = Net(layers) + Spent(cons, m)
  <2>1. CASE m \in DOMAIN layers
    <3>1. /\ layers[m].orig = layers[m].rem + Consumed(cons, m) + Spent(recs, m)
          /\ layers[m].recd = Consumed(recs, m) /\ layers[m].prov
      BY <1>11, <2>1 DEF Accounts, Square, Kinds
    <3>2. /\ Spent(recs, m) = 0 /\ Consumed(recs, m) = 0
          /\ QtyAt(recs, <<m, m>>) = 0
      <4>1. \A r \in DOMAIN recs : r[1] # m /\ r[2] # m
        BY <1>8, <1>11
      <4>2. <<m, m>> \notin DOMAIN recs
        BY <4>1
      <4> QED
        BY <4>1, <4>2, NoneConsumed, NoneSpent DEF QtyAt
    <3>3. Consumed(cons, m) = QtyAt(cons, <<m, m>>) /\ Consumed(cons, m) \in Nat
      <4> DEFINE f == [k \in DOMAIN moves |-> QtyAt(cons, <<k, m>>)]
      <4>0. IsFiniteSet(DOMAIN moves) /\ DOMAIN moves \subseteq DOMAIN moves
        BY <1>1 DEF Ids
      <4>1. Consumed(cons, m) = SumFunctionOnSet(f, DOMAIN moves) /\ Consumed(cons, m) \in Nat
        BY <1>1, <4>0, ConsumedIs
      <4>2. \A k \in DOMAIN moves : QtyAt(cons, <<k, m>>) \in Nat
        BY <1>1, QtyAtNat
      <4>3. ASSUME NEW k \in DOMAIN moves \ {m} PROVE f[k] = 0
        <5>1. <<k, m>> \notin DOMAIN cons
          BY NoForeignRows
        <5> QED
          BY <5>1 DEF QtyAt
      <4>4. /\ f[m] = QtyAt(cons, <<m, m>>) /\ f[m] \in Int
            /\ \A k \in DOMAIN moves : f[k] \in Int
        BY <4>2
      <4> HIDE DEF f
      <4>5. SumFunctionOnSet(f, DOMAIN moves)
              = f[m] + SumFunctionOnSet(f, DOMAIN moves \ {m})
        BY <4>0, <4>4, SumRemove
      <4>6. SumFunctionOnSet(f, DOMAIN moves \ {m}) = 0
        <5>1. IsFiniteSet(DOMAIN moves \ {m})
          BY <4>0, FS_RemoveElement
        <5> QED
          BY <4>3, <5>1, SumZero
      <4> QED
        BY <4>1, <4>4, <4>5, <4>6
    <3>4. layers[m].rem \in Nat /\ layers[m].orig \in Nat /\ layers[m].recd \in Nat
      BY <1>1, <2>1 DEF Queue, Layer
    <3>5. net = 0
      <4>1. net = u[m].rem - (u[m].orig - u[m].recd)
        BY <1>3, <1>6, <2>1, <3>1 DEF NetOf
      <4> QED
        BY <1>3, <2>1, <3>1, <3>2, <3>3, <3>4, <4>1
    <3> QED
      BY <1>2, <1>5, <1>8, <1>11, <3>5
  <2>2. CASE m \notin DOMAIN layers
    BY <1>2, <1>5, <1>6, <1>8, <1>11, <2>2
  <2> QED
    BY <2>1, <2>2
<1> QED
  BY <1>2, <1>9, <1>10, <1>11 DEF u
-----------------------------------------------------------------------------
\* The newest-first order of the opening layers.
LEMMA NewestOrder ==
  ASSUME NEW ls, Queue(ls), NEW S, S \subseteq DOMAIN ls
  PROVE  StrictTotalOrder(Newest(ls), S)
BY DEF StrictTotalOrder, Newest, Queue, Ids

\* If every movement brings stock in, nothing is pending, and what is open
\* beyond the balance is in opening layers.
LEMMA OpeningsSuffice ==
  ASSUME NEW ls, NEW rows, NEW fills, NEW ms, Books(ls, rows, fills, DOMAIN ms),
         Accounts(ls, rows, fills, ms), Journal(ms), \A k \in DOMAIN ms : Inward(ms[k])
  PROVE  /\ PendingQty(ls) = 0 /\ SumFunction(Gains(ms)) \in Nat
         /\ SumFunction(Openings(ls)) \in Nat
         /\ OpenQty(ls) <= SumFunction(Openings(ls)) + SumFunction(Gains(ms))
<1> DEFINE D == DOMAIN ls
           O == {l \in D : ls[l].date = OpeningDate}
           T == DOMAIN Openings(ls)
           rem == Rem(ls)
           gains == Gains(ms)
<1>1. /\ Ids(D) /\ IsFiniteSet(D) /\ IsFiniteSet(DOMAIN ms)
      /\ RowTable(rows, DOMAIN ms, ls) /\ RowTable(fills, DOMAIN ms, ls)
      /\ \A l \in D : ls[l] \in Layer
      /\ \A k \in DOMAIN ms : ms[k] \in Move
  BY DEF Books, Ids, Journal
<1>2. /\ DOMAIN rem = D /\ \A l \in D : rem[l] = ls[l].rem /\ rem[l] \in Nat
  BY <1>1 DEF Rem, Layer
<1>3. /\ DOMAIN gains = DOMAIN ms
      /\ \A k \in DOMAIN ms : gains[k] = ms[k].qty /\ gains[k] \in Nat
  BY <1>1 DEF Gains, Gain, Inward, Move
<1>4. /\ T \in SUBSET O /\ O \in SUBSET D
      /\ \A l \in O \ T : rem[l] = 0
      /\ \A l \in T : Openings(ls)[l] = rem[l]
  BY <1>1, <1>2 DEF Openings
<1>5. ASSUME NEW l \in D \ O PROVE l \in DOMAIN ms /\ rem[l] <= gains[l]
  <2>1. l \in DOMAIN ms
    BY <1>5 DEF Accounts, Kinds
  <2>2. ls[l].orig <= ms[l].qty
    BY <1>5, <2>1 DEF Accounts, Kinds
  <2>3. ls[l].orig = ls[l].rem + Consumed(rows, l) + Spent(fills, l)
    BY <1>5 DEF Accounts, Square
  <2>4. Consumed(rows, l) \in Nat /\ Spent(fills, l) \in Nat
    BY <1>1, RowsOnTable, SpentIs DEF Books, Ids
  <2>5. ls[l].orig \in Nat /\ ls[l].rem \in Nat /\ ms[l].qty \in Nat
    BY <1>1, <1>5, <2>1 DEF Layer, Move
  <2> HIDE DEF D, O, rem, gains
  <2>6. rem[l] = ls[l].rem /\ gains[l] = ms[l].qty
    BY <1>2, <1>3, <1>5, <2>1
  <2> QED
    BY <2>1, <2>2, <2>3, <2>4, <2>5, <2>6
<1>6. PendingQty(ls) = 0
  <2>1. DOMAIN Pending(ls) = {}
    BY DEF Accounts, Kinds, Pending, Provisional
  <2> QED
    BY <2>1, SumEmpty DEF PendingQty, SumFunction
<1> DEFINE openings == Openings(ls)
<1> HIDE DEF rem, gains, openings, T, O, D
<1>7. /\ IsFiniteSet(O) /\ IsFiniteSet(D \ O) /\ IsFiniteSet(T)
      /\ O \cup (D \ O) = D /\ O \cap (D \ O) = {}
  BY <1>1, <1>4, FS_Subset
<1>8. SumFunctionOnSet(rem, D) = SumFunctionOnSet(rem, O) + SumFunctionOnSet(rem, D \ O)
  <2>1. \A l \in O \cup (D \ O) : rem[l] \in Int
    BY <1>2, <1>7
  <2>2. SumFunctionOnSet(rem, O \cup (D \ O))
          = SumFunctionOnSet(rem, O) + SumFunctionOnSet(rem, D \ O)
    BY <1>7, <2>1, SumUnion
  <2> QED
    BY <1>7, <2>2
<1>9. SumFunctionOnSet(rem, T) = SumFunctionOnSet(rem, O)
  <2>1. \A l \in O : rem[l] \in Int
    BY <1>2, <1>4
  <2> QED
    BY <1>4, <1>7, <2>1, SumNonzero
<1>10. SumFunctionOnSet(openings, T) = SumFunctionOnSet(rem, T)
       /\ SumFunctionOnSet(rem, T) \in Nat
  <2>1. \A l \in T : openings[l] = rem[l] /\ rem[l] \in Nat
    BY <1>2, <1>4 DEF openings
  <2>2. \A l \in T : openings[l] \in Int /\ openings[l] = rem[l]
    BY <2>1
  <2> QED
    BY <1>7, <2>1, <2>2, SumAgree, SumNat
<1>11. SumFunctionOnSet(rem, D \ O) <= SumFunctionOnSet(gains, D \ O)
  <2>1. \A l \in D \ O : rem[l] \in Int /\ gains[l] \in Int /\ rem[l] <= gains[l]
    BY <1>2, <1>3, <1>5
  <2> QED
    BY <1>7, <2>1, SumMonotone
<1>12. /\ SumFunctionOnSet(gains, D \ O) <= SumFunctionOnSet(gains, DOMAIN ms)
       /\ SumFunctionOnSet(gains, DOMAIN ms) \in Nat
       /\ SumFunctionOnSet(gains, D \ O) \in Nat
       /\ SumFunctionOnSet(rem, D \ O) \in Nat
  <2>1. D \ O \in SUBSET DOMAIN ms
    BY <1>5
  <2>2. \A l \in D \ O : gains[l] \in Nat /\ rem[l] \in Nat
    BY <1>2, <1>3, <2>1
  <2> QED
    BY <1>1, <1>3, <1>7, <2>1, <2>2, SumPart, SumNat
<1>13. OpenQty(ls) = SumFunctionOnSet(rem, D)
  BY <1>2 DEF OpenQty, SumFunction, rem
<1>14. SumFunctionOnSet(rem, D) <= SumFunctionOnSet(openings, T) + SumFunctionOnSet(gains, DOMAIN ms)
  BY <1>8, <1>9, <1>10, <1>11, <1>12
<1>15. SumFunction(openings) = SumFunctionOnSet(openings, T)
       /\ SumFunction(gains) = SumFunctionOnSet(gains, DOMAIN ms)
  BY <1>3 DEF SumFunction, T, openings
<1> QED
  BY <1>6, <1>10, <1>12, <1>13, <1>14, <1>15 DEF openings, gains

\* So the reversal of the receipt from before layers existed, on which no issue
\* relies, takes all of it out of the opening layers.
LEMMA TrimmedCovers ==
  ASSUME NEW ls, NEW rows, NEW fills, NEW ms, Books(ls, rows, fills, DOMAIN ms),
         Accounts(ls, rows, fills, ms), Journal(ms), \A k \in DOMAIN ms : Inward(ms[k]),
         NEW balance, balance = SumFunction(Gains(ms)), NEW q \in Nat, NEW cost \in Nat,
         DOMAIN ls = {} \/ Net(ls) = balance + q
  PROVE  Covered(Trimmed(ls, rows, balance, q, cost), balance)
<1> DEFINE ls2 == Trimmed(ls, rows, balance, q, cost)
           openings == Openings(ls)
           trims == Trims(ls, balance, q)
<1>1. /\ PendingQty(ls) = 0 /\ balance \in Nat /\ SumFunction(openings) \in Nat
      /\ OpenQty(ls) <= SumFunction(openings) + balance
  BY OpeningsSuffice
<1>2. Queue(ls) /\ Net(ls) = OpenQty(ls) - PendingQty(ls) /\ OpenQty(ls) \in Nat
  <2>1. Queue(ls)
    BY DEF Books, Queue
  <2> QED
    BY <2>1, NetIsOpen
<1>3. /\ DOMAIN ls2 = DOMAIN ls
  BY DEF Trimmed
<1>4. Net(ls2) = Net(ls) - SumFunction(trims)
  <2>1. balance \in Int
    BY <1>1
  <2> QED
    BY <2>1, NetTrimmed
<1>5. ASSUME Net(ls) = balance + q PROVE Net(ls2) = balance
  <2>1. OpenQty(ls) = balance + q /\ SumFunction(openings) >= q
    BY <1>1, <1>2, <1>5
  <2>2. Surplus(ls, balance, q) = q
    BY <1>1, <2>1 DEF Surplus, MinOf, MaxOf
  <2>3. /\ DOMAIN openings \subseteq DOMAIN ls /\ \A l \in DOMAIN openings : openings[l] \in Nat
    BY <1>2 DEF Openings, Queue, Layer
  <2>4. IsFiniteSet(DOMAIN openings) /\ StrictTotalOrder(Newest(ls), DOMAIN openings)
    BY <1>2, <2>3, FS_Subset, NewestOrder DEF Queue, Ids
  <2>5. trims = Draw(openings, Newest(ls), q)
    BY <2>2 DEF Trims
  <2> HIDE DEF openings, trims, ls2
  <2>6. SumFunction(trims) = MinOf(q, SumFunctionOnSet(openings, DOMAIN openings))
    BY <2>3, <2>4, <2>5, DrawTotal
  <2>7. SumFunction(trims) = q
    BY <1>1, <2>1, <2>6 DEF MinOf, SumFunction
  <2> QED
    BY <1>1, <1>4, <1>5, <2>7
<1> HIDE DEF ls2
<1> QED
  BY <1>1, <1>3, <1>5 DEF Covered, ls2
-----------------------------------------------------------------------------
\* A regular reversal leaves layers that cover the balance of what is left.
LEMMA UnpostCovers ==
  ASSUME StockInv, Tallies, NEW m \in DOMAIN moves, UnpostDocument(m), ~Irregular(m),
         Covered(layers, onHand)
  PROVE  Covered(layers', onHand')
<1> DEFINE inbound == Inward(moves[m])
           qty == moves[m].qty
           missing == qty - Spent(cons, m)
           ls2 == Dropped(Undone(m), m)
           rows == Without(cons, m)
           fills == Without(recs, m)
           ms == Dropped(moves, m)
           balance == Balance(DOMAIN moves \ {m})
           unlayered == inbound /\ moves[m].type # "RETURN_IN" /\ m \notin DOMAIN layers
           ls3 == IF unlayered THEN Trimmed(ls2, rows, balance, qty, moves[m].cost)
                  ELSE ls2
           ls4 == IF inbound THEN Backfill(ls3, balance, avg)
                  ELSE Backfill(ls3, balance - missing, avg)
           ls5 == IF inbound \/ missing = 0 THEN ls4
                  ELSE Backfill(ls4, balance, moves[m].cost)
<1>0. /\ layers' = ls5 /\ onHand' = balance
      /\ NotConsumedElsewhere(m) /\ NoDependents(m)
      /\ ~DropsFill(m) /\ ~UndoesRestore(m) /\ ~ReturnsWhilePending(m)
  BY DEF UnpostDocument, Undone, Inward, Spent, Irregular
<1>1. /\ Ids(DOMAIN moves) /\ avg \in Nat /\ Journal(moves) /\ onHand \in Int
      /\ Books(layers, cons, recs, DOMAIN moves) /\ Accounts(layers, cons, recs, moves)
      /\ onHand = SumFunction(Gains(moves))
  BY DEF StockInv, Journal, Tallies
<1>2. qty \in Nat /\ moves[m].cost \in Nat
  BY <1>1 DEF Journal, Move
<1>3. /\ balance \in Int /\ balance = SumFunction(Gains(ms)) /\ Journal(ms)
      /\ DOMAIN ms = DOMAIN moves \ {m}
  <2>1. /\ SumFunction(Gains(ms)) \in Int /\ Journal(ms) /\ DOMAIN ms = DOMAIN moves \ {m}
        /\ SumFunction(Gains(ms)) = SumFunctionOnSet(Gains(moves), DOMAIN moves \ {m})
    BY <1>1, NetDrop
  <2>2. balance = SumFunctionOnSet(Gains(moves), DOMAIN moves \ {m})
    BY <1>1, BalanceIsNet
  <2> QED
    BY <2>1, <2>2
<1>4. onHand = IF inbound THEN balance + qty ELSE balance - qty
  <2> DEFINE f == Gains(moves)
  <2>1. /\ DOMAIN f = DOMAIN moves /\ \A k \in DOMAIN moves : f[k] \in Int
        /\ f[m] = IF inbound THEN qty ELSE -qty
    BY <1>1 DEF Gains, Gain, Journal, Move, Inward
  <2>2. IsFiniteSet(DOMAIN moves)
    BY <1>1 DEF Ids
  <2>3. balance = SumFunctionOnSet(f, DOMAIN moves \ {m})
    BY <1>1, BalanceIsNet
  <2>4. onHand = SumFunctionOnSet(f, DOMAIN moves)
    BY <1>1, <2>1 DEF SumFunction
  <2> HIDE DEF f, balance, qty
  <2>5. SumFunctionOnSet(f, DOMAIN moves) = f[m] + SumFunctionOnSet(f, DOMAIN moves \ {m})
    BY <2>1, <2>2, SumRemove
  <2> QED
    BY <1>2, <1>3, <2>1, <2>3, <2>4, <2>5
<1>5. Books(ls2, rows, fills, DOMAIN ms) /\ Accounts(ls2, rows, fills, ms)
  BY <1>0, <1>1, UndoneBooks
<1>6. /\ Net(layers) \in Int /\ Spent(cons, m) \in Nat
      /\ inbound /\ m \in DOMAIN layers => Net(ls2) = Net(layers) - layers[m].orig
      /\ inbound /\ m \notin DOMAIN layers => Net(ls2) = Net(layers)
      /\ ~inbound => Net(ls2) = Net(layers) + Spent(cons, m)
  BY <1>0, <1>1, NetUndone
<1>7. DOMAIN ls2 = DOMAIN layers \ {m}
  <2> DEFINE u == Undone(m)
  <2>1. u \in [DOMAIN layers -> Layer]
    BY <1>0, <1>1, UndoneLayers
  <2> HIDE DEF u
  <2>2. DOMAIN u = DOMAIN layers
    BY <2>1
  <2> QED
    BY <2>2 DEF Dropped, u
<1>8. ~inbound => missing \in Nat
  <2>1. ~inbound => Spent(cons, m) <= qty
    BY <1>1 DEF Accounts, Kinds
  <2> HIDE DEF qty, inbound
  <2> QED
    BY <1>2, <1>6, <2>1
<1>9. (DOMAIN layers = {} /\ onHand >= 0) \/ onHand = Net(layers)
  BY DEF Covered
<1>10. /\ Kinds(layers, cons, recs, moves)
       /\ m \in DOMAIN layers => layers[m] \in Layer
  BY <1>1 DEF Accounts, Books
<1>11. DOMAIN ms \subseteq DOMAIN moves
  BY <1>3
<1> HIDE DEF ls2, rows, fills, ms, missing, balance
<1>12. ASSUME inbound PROVE Covered(ls3, balance)
  <2>1. CASE m \in DOMAIN layers
    <3>1. layers[m].orig = qty
      <4>1. layers[m].orig <= qty /\ layers[m].orig \in Nat
        BY <1>10, <1>12, <2>1 DEF Kinds, Layer
      <4>2. moves[m].type # "RETURN_IN" => layers[m].orig = qty
        BY <1>10, <1>12, <2>1 DEF Kinds
      <4>3. moves[m].type = "RETURN_IN" => ~(layers[m].orig < qty)
        BY <1>0, <2>1 DEF UndoesRestore
      <4> HIDE DEF qty
      <4> QED
        BY <1>2, <4>1, <4>2, <4>3
    <3>2. Net(layers) = onHand
      BY <1>9, <2>1
    <3>3. Net(ls2) = balance
      <4> HIDE DEF qty, inbound
      <4> QED
        BY <1>2, <1>3, <1>4, <1>6, <1>12, <2>1, <3>1, <3>2
    <3>4. ls3 = ls2
      BY <2>1
    <3> HIDE DEF ls3
    <3> QED
      BY <3>3, <3>4 DEF Covered
  <2>2. CASE m \notin DOMAIN layers
    <3>1. moves[m].type # "RETURN_IN"
      BY <1>0, <2>2 DEF UndoesRestore
    <3>2. ls3 = Trimmed(ls2, rows, balance, qty, moves[m].cost)
      BY <1>12, <2>2, <3>1
    <3>3. OnlyReceiptsBefore(moves, m)
      BY <1>10, <1>12, <2>2, <3>1 DEF Kinds
    <3>4. \A k \in DOMAIN ms : Inward(ms[k])
      <4>1. ASSUME NEW k \in DOMAIN moves, k # m PROVE Inward(moves[k])
        <5>1. k \in 1..MaxId /\ m \in 1..MaxId
          BY DEF StockInv
        <5>2. k < m \/ k > m
          BY <4>1, <5>1, ConstantsAssumption
        <5> QED
          BY <1>0, <1>12, <3>3, <4>1, <5>2 DEF NoDependents, Inward, OnlyReceiptsBefore
      <4> QED
        BY <4>1 DEF Dropped, ms
    <3>5. DOMAIN ls2 = {} \/ Net(ls2) = balance + qty
      <4>1. DOMAIN layers = {} => DOMAIN ls2 = {}
        BY <1>7
      <4> HIDE DEF qty, inbound
      <4> QED
        BY <1>4, <1>6, <1>9, <1>12, <2>2, <4>1
    <3> HIDE DEF qty, ls3
    <3>6. Covered(Trimmed(ls2, rows, balance, qty, moves[m].cost), balance)
      BY <1>2, <1>3, <1>5, <3>4, <3>5, TrimmedCovers
    <3> QED
      BY <3>2, <3>6
  <2> QED
    BY <2>1, <2>2
<1>13. ASSUME ~inbound PROVE ls3 = ls2 /\ Covered(ls3, balance - missing)
  <2>1. ls3 = ls2
    BY <1>13
  <2>2. balance - missing = onHand + Spent(cons, m)
    <3> HIDE DEF qty, inbound
    <3> QED
      BY <1>2, <1>3, <1>4, <1>6, <1>13 DEF missing
  <2>3. DOMAIN layers = {} => DOMAIN ls2 = {}
    BY <1>7
  <2>4. Covered(ls2, onHand + Spent(cons, m))
    <3> HIDE DEF inbound
    <3> QED
      BY <1>1, <1>6, <1>9, <1>13, <2>3 DEF Covered
  <2> HIDE DEF ls3
  <2> QED
    BY <2>1, <2>2, <2>4
<1>14. Books(ls3, rows, fills, DOMAIN ms) /\ Accounts(ls3, rows, fills, ms)
  <2>1. /\ Books(Trimmed(ls2, rows, balance, qty, moves[m].cost), rows, fills, DOMAIN ms)
        /\ Accounts(Trimmed(ls2, rows, balance, qty, moves[m].cost), rows, fills, ms)
    <3> HIDE DEF qty
    <3> QED
      BY <1>2, <1>3, <1>5, TrimmedBooks, TrimmedAccounts
  <2> QED
    BY <1>5, <2>1
<1> HIDE DEF ls3, qty
<1>15. CASE inbound
  <2>1. Net(Backfill(ls3, balance, avg)) = balance
    BY <1>1, <1>3, <1>11, <1>12, <1>14, <1>15, BackfillCovers
  <2>2. ls5 = Backfill(ls3, balance, avg)
    BY <1>15
  <2> HIDE DEF ls5
  <2> QED
    BY <1>0, <2>1, <2>2 DEF Covered
<1>16. CASE ~inbound
  <2>0. balance - missing \in Int /\ missing \in Nat
    BY <1>3, <1>8, <1>16
  <2>1. ls4 = Backfill(ls3, balance - missing, avg)
    BY <1>16
  <2>2. Net(ls4) = balance - missing
    <3>1. Covered(ls3, balance - missing)
      BY <1>13, <1>16
    <3>2. Net(Backfill(ls3, balance - missing, avg)) = balance - missing
      BY <1>1, <1>11, <1>14, <2>0, <3>1, BackfillCovers
    <3> QED
      BY <2>1, <3>2
  <2>3. /\ Books(ls4, rows, fills, DOMAIN ms) /\ Accounts(ls4, rows, fills, ms)
        /\ Queue(ls4) /\ PendingQty(ls4) = PendingQty(ls3)
    <3> DEFINE b == Backfill(ls3, balance - missing, avg)
    <3>1. /\ Books(b, rows, fills, DOMAIN ms) /\ Accounts(b, rows, fills, ms)
      BY <1>1, <1>11, <1>14, <2>0, BackfillBooks, BackfillAccounts
    <3>2. Queue(b) /\ PendingQty(b) = PendingQty(ls3)
      BY <1>1, <1>11, <1>14, <2>0, BackfillAccounts
    <3> QED
      BY <2>1, <3>1, <3>2
  <2>4. missing = 0 => ls5 = ls4
    BY <1>16
  <2>5. missing # 0 => ls5 = Backfill(ls4, balance, moves[m].cost)
    BY <1>16
  <2> HIDE DEF ls4, ls5, inbound
  <2>6. CASE missing = 0
    BY <1>0, <1>3, <2>2, <2>4, <2>6 DEF Covered
  <2>7. CASE missing # 0
    <3>1. PendingQty(ls4) = 0
      <4>1. PendingQty(ls3) = PendingQty(Dropped(layers, m))
        <5>1. ls3 = ls2
          BY <1>13, <1>16
        <5>2. Pending(ls2) = Pending(Dropped(layers, m))
          <6> DEFINE u == Undone(m)
                     d == Dropped(layers, m)
          <6>1. \A l \in DOMAIN layers :
                  /\ u[l].recd = layers[l].recd - QtyAt(recs, <<m, l>>)
                  /\ u[l].orig = layers[l].orig /\ u[l].prov = layers[l].prov
            BY <1>0, <1>1, UndoneLayers
          <6>2. \A r \in DOMAIN recs : r[1] # m
            BY <1>0, <1>1, <1>16, NoForeignRows DEF inbound
          <6>3. \A l \in DOMAIN layers : QtyAt(recs, <<m, l>>) = 0 /\ layers[l].recd \in Nat
            <7>1. \A l : <<m, l>> \notin DOMAIN recs
              BY <6>2
            <7>2. \A l \in DOMAIN layers : layers[l].recd \in Nat
              BY <1>1 DEF Books, Layer
            <7> QED
              BY <7>1, <7>2 DEF QtyAt
          <6> HIDE DEF u
          <6>4. ASSUME NEW l \in DOMAIN layers PROVE u[l].recd = layers[l].recd
            <7>1. u[l].recd = layers[l].recd - QtyAt(recs, <<m, l>>)
              BY <6>1
            <7>2. QtyAt(recs, <<m, l>>) = 0 /\ layers[l].recd \in Nat
              BY <6>3
            <7> QED
              BY <7>1, <7>2
          <6>5. \A l \in DOMAIN ls2 : l \in DOMAIN layers /\ ls2[l] = u[l] /\ d[l] = layers[l]
            BY <1>7 DEF Dropped, ls2, u
          <6>6. DOMAIN d = DOMAIN ls2
            BY <1>7 DEF Dropped
          <6> HIDE DEF d
          <6>7. Provisional(ls2) = Provisional(d)
            BY <6>1, <6>5, <6>6 DEF Provisional
          <6>8. \A l \in Provisional(d) : ls2[l].orig - ls2[l].recd = d[l].orig - d[l].recd
            <7>1. Provisional(d) \subseteq DOMAIN ls2
              BY <6>6 DEF Provisional
            <7> QED
              BY <6>1, <6>4, <6>5, <7>1
          <6>9. Pending(ls2) = Pending(d)
            BY <6>7, <6>8 DEF Pending
          <6> QED
            BY <6>9 DEF d
        <5> QED
          BY <5>1, <5>2 DEF PendingQty
      <4>2. ~(PendingQty(Dropped(layers, m)) > 0)
        <5>1. moves[m].type \in OutboundTypes
          BY <1>1, <1>16 DEF inbound, Inward, Journal, Move
        <5>2. Spent(cons, m) < moves[m].qty
          BY <1>2, <1>6, <2>0, <2>7 DEF missing, qty
        <5> QED
          BY <1>0, <5>1, <5>2 DEF ReturnsWhilePending, Spent
      <4>3. PendingQty(ls4) \in Nat
        <5>1. \A l \in DOMAIN ls4 : ls4[l].recd <= ls4[l].orig
          BY <2>3 DEF Books, Fits
        <5> QED
          BY <2>3, <5>1, PendingNat
      <4> QED
        BY <2>3, <4>1, <4>2, <4>3
    <3>2. OpenQty(ls4) = balance - missing
      <4>1. Net(ls4) = OpenQty(ls4) - PendingQty(ls4) /\ OpenQty(ls4) \in Nat
        BY <2>3, NetIsOpen
      <4> QED
        BY <2>2, <3>1, <4>1
    <3>3. /\ Queue(ls5) /\ PendingQty(ls5) = PendingQty(ls4)
          /\ OpenQty(ls5)
               = IF balance > 0 /\ balance > OpenQty(ls4) THEN balance ELSE OpenQty(ls4)
      <4> DEFINE b == Backfill(ls4, balance, moves[m].cost)
      <4>1. /\ Queue(b) /\ PendingQty(b) = PendingQty(ls4)
            /\ OpenQty(b)
                 = IF balance > 0 /\ balance > OpenQty(ls4) THEN balance ELSE OpenQty(ls4)
        BY <1>1, <1>2, <1>3, <1>11, <2>3, BackfillAccounts
      <4> QED
        BY <2>5, <2>7, <4>1
    <3>4. OpenQty(ls4) \in Nat
      BY <2>3, NetIsOpen
    <3>5. OpenQty(ls5) = balance
      BY <1>3, <2>0, <2>7, <3>2, <3>3, <3>4
    <3>6. Net(ls5) = balance
      <4>1. Net(ls5) = OpenQty(ls5) - PendingQty(ls5)
        BY <3>3, NetIsOpen
      <4> QED
        BY <1>3, <3>1, <3>3, <3>5, <4>1
    <3> QED
      BY <1>0, <3>6 DEF Covered
  <2> QED
    BY <2>6, <2>7
<1> QED
  BY <1>15, <1>16
-----------------------------------------------------------------------------
\* The receiving half of a transfer carries the date of its issue.
Dated == transfer # NoTransfer => transfer.date # OpeningDate
\* The inductive invariant of the runs whose reversals are regular.
LedgerInv == IInv /\ Tallies /\ Covered(layers, onHand) /\ Dated

\* A product as it was when layers were introduced has nothing to account for.
LEMMA InitLedgers ==
  ASSUME Init
  PROVE  LedgerInv
<1>1. IInv
  BY InitStock
<1>2. PICK first \in LegacyIn, second \in LegacyIn, out \in LegacyOut,
           cost1 \in Costs, cost2 \in Costs :
        /\ out <= first + second /\ onHand = first + second - out
        /\ moves = LegacyMoves(first, second, out, cost1, cost2)
  BY DEF Init
<1>3. /\ first \in Nat /\ second \in Nat /\ out \in Nat
      /\ cost1 \in Nat /\ cost2 \in Nat
  BY ConstantsAssumption
<1>4. /\ DOMAIN layers = {} /\ DOMAIN cons = {} /\ DOMAIN recs = {} /\ DOMAIN diffs = {}
      /\ transfer = NoTransfer
  BY DEF Init
<1>5. \A m : Spent(cons, m) = 0
  <2>1. \A m : DOMAIN RowsOf(cons, m) = {}
    BY <1>4 DEF RowsOf
  <2> QED
    BY <2>1, SumEmpty DEF Spent, SumFunction
<1>6. Kinds(layers, cons, recs, moves)
  <2>1. \A m \in DOMAIN moves : Inward(moves[m]) => OnlyReceiptsBefore(moves, m)
    <3>1. \A m \in DOMAIN moves :
            /\ m \in {1, 2, 3}
            /\ moves[m].type = IF m = 3 THEN "OUT" ELSE "IN"
      BY <1>2, <1>3, LegacyProduct
    <3> QED
      BY <3>1 DEF OnlyReceiptsBefore, Inward, InboundTypes
  <2>2. \A m \in DOMAIN moves : moves[m].qty \in Nat
    BY <1>1 DEF IInv, StockInv, Journal, Move
  <2> QED
    BY <1>4, <1>5, <2>1, <2>2 DEF Kinds
<1>7. DiffLedger
  <2>1. \A m \in DOMAIN moves : DiffOf(recs, m, moves[m].cost) = 0
    BY <1>4, DiffOfNone
  <2> QED
    BY <1>4, <2>1, DiffLedgerIs DEF At
<1>8. onHand >= 0
  BY <1>2, <1>3
<1> QED
  BY <1>1, <1>4, <1>6, <1>7, <1>8 DEF LedgerInv, Tallies, Accounts, Covered, Dated

\* Every posting keeps it.
LEMMA PostLedgers ==
  ASSUME LedgerInv, Post
  PROVE  Tallies' /\ Covered(layers', onHand') /\ Dated'
<1> DEFINE Balanced == Tallies' /\ Covered(layers', onHand')
<1>0. /\ StockInv /\ Tallies /\ Covered(layers, onHand) /\ Dated
      /\ transfer \in [qty : Nat, cost : Nat, date : Nat]
      /\ onHand \in Int /\ avg \in Nat
  BY DEF LedgerInv, IInv, StockInv
<1>1. ASSUME NEW type \in InboundTypes, NEW ref \in References, NEW q \in Nat,
             NEW cost \in Nat, NEW date \in Nat \ {0}, Inbound(type, ref, q, cost, date)
      PROVE  Balanced
  BY <1>0, <1>1, InboundTallies DEF Covered
<1>2. ASSUME NEW type \in OutboundTypes, NEW ref \in References, NEW q \in Nat \ {0},
             NEW date \in Nat \ {0}, Outbound(type, ref, q, date)
      PROVE  Balanced
  BY <1>0, <1>2, OutboundTallies DEF Covered
<1>3. ASSUME NEW q \in Qtys, NEW cost \in Costs, NEW date \in Dates,
             PostReceipt(q, cost, date)
      PROVE  Balanced /\ Dated'
  <2>1. /\ q \in Nat /\ cost \in Nat /\ date \in Nat \ {0}
        /\ "IN" \in InboundTypes /\ "DOCUMENT" \in References
    BY ConstantsAssumption DEF InboundTypes, References
  <2>2. Inbound("IN", "DOCUMENT", q, cost, date) /\ transfer' = transfer
    BY <1>3 DEF PostReceipt
  <2> QED
    BY <1>0, <1>1, <2>1, <2>2 DEF Dated
<1>4. ASSUME NEW type \in {"OUT", "RETURN_OUT"}, NEW q \in Qtys, NEW date \in Dates,
             PostIssue(type, q, date)
      PROVE  Balanced /\ Dated'
  <2>1. /\ q \in Nat \ {0} /\ date \in Nat \ {0}
        /\ type \in OutboundTypes /\ "DOCUMENT" \in References
    BY ConstantsAssumption DEF OutboundTypes, References
  <2>2. Outbound(type, "DOCUMENT", q, date) /\ transfer' = transfer
    BY <1>4 DEF PostIssue
  <2> QED
    BY <1>0, <1>2, <2>1, <2>2 DEF Dated
<1>5. ASSUME NEW q \in Qtys, NEW date \in Dates, PostReturnAtAverage(q, date)
      PROVE  Balanced /\ Dated'
  <2>1. /\ q \in Nat /\ date \in Nat \ {0}
        /\ "RETURN_IN" \in InboundTypes /\ "DOCUMENT" \in References
    BY ConstantsAssumption DEF InboundTypes, References
  <2>2. Inbound("RETURN_IN", "DOCUMENT", q, avg, date) /\ transfer' = transfer
    BY <1>5 DEF PostReturnAtAverage
  <2> QED
    BY <1>0, <1>1, <2>1, <2>2 DEF Dated
<1>6. ASSUME NEW o \in DOMAIN moves, NEW q \in Qtys, NEW date \in Dates,
             PostReturn(o, q, date)
      PROVE  Balanced /\ Dated'
  <2>1. q \in Nat \ {0} /\ date \in Nat \ {0}
    BY ConstantsAssumption
  <2>2. transfer' = transfer
    BY <1>6 DEF PostReturn
  <2>3. Balanced
    BY <1>0, <1>6, <2>1, ReturnTallies DEF Covered
  <2> QED
    BY <1>0, <2>2, <2>3 DEF Dated
<1>7. ASSUME NEW counted \in Counts, NEW date \in Dates, PostStocktake(counted, date)
      PROVE  Balanced /\ Dated'
  <2>1. /\ counted \in Nat /\ date \in Nat \ {0}
        /\ "ADJUST_IN" \in InboundTypes /\ "ADJUST_OUT" \in OutboundTypes
        /\ "STOCKTAKE" \in References
    BY ConstantsAssumption DEF InboundTypes, OutboundTypes, References
  <2>2. transfer' = transfer
    BY <1>7 DEF PostStocktake
  <2>3. CASE counted > onHand
    <3>1. Inbound("ADJUST_IN", "STOCKTAKE", counted - onHand, avg, date)
      BY <1>7, <2>3 DEF PostStocktake
    <3>2. counted - onHand \in Nat
      BY <1>0, <2>1, <2>3
    <3> QED
      BY <1>0, <1>1, <2>1, <2>2, <3>1, <3>2 DEF Dated
  <2>4. CASE ~(counted > onHand)
    <3>1. Outbound("ADJUST_OUT", "STOCKTAKE", onHand - counted, date) /\ counted # onHand
      BY <1>7, <2>4 DEF PostStocktake
    <3>2. onHand - counted \in Nat \ {0}
      BY <1>0, <2>1, <2>4, <3>1
    <3> QED
      BY <1>0, <1>2, <2>1, <2>2, <3>1, <3>2 DEF Dated
  <2> QED
    BY <2>3, <2>4
<1>8. ASSUME NEW q \in Qtys, NEW date \in Dates, TransferOut(q, date)
      PROVE  Balanced /\ Dated'
  <2>1. /\ q \in Nat \ {0} /\ date \in Nat \ {0}
        /\ "OUT" \in OutboundTypes /\ "TRANSFER" \in References
    BY ConstantsAssumption DEF OutboundTypes, References
  <2>2. /\ Outbound("OUT", "TRANSFER", q, date)
        /\ transfer' = [qty |-> q, cost |-> avg, date |-> date]
    BY <1>8 DEF TransferOut
  <2>3. Dated'
    BY <2>1, <2>2 DEF Dated, OpeningDate
  <2> QED
    BY <1>2, <2>1, <2>2, <2>3
<1>9. ASSUME TransferIn
      PROVE  Balanced /\ Dated'
  <2>1. Tallies' /\ (Covered(layers, onHand) => onHand' = Net(layers'))
    BY <1>0, <1>9, TransferInTallies DEF Dated
  <2>2. transfer' = NoTransfer
    BY <1>9 DEF TransferIn
  <2> QED
    BY <1>0, <2>1, <2>2 DEF Covered, Dated
<1> HIDE DEF Balanced
<1>10. Balanced /\ Dated'
  BY <1>3, <1>4, <1>5, <1>6, <1>7, <1>8, <1>9 DEF Post
<1> QED
  BY <1>10 DEF Balanced

\* Every regular reversal keeps it.
LEMMA UnpostLedgers ==
  ASSUME LedgerInv, NEW m \in DOMAIN moves, ~Irregular(m), UnpostDocument(m)
  PROVE  Tallies' /\ Covered(layers', onHand') /\ Dated'
<1>1. StockInv /\ Tallies /\ Covered(layers, onHand) /\ Dated /\ ~DropsFill(m)
  BY DEF LedgerInv, IInv, Irregular
<1>2. transfer' = transfer
  BY DEF UnpostDocument
<1> QED
  BY <1>1, <1>2, UnpostTallies, UnpostCovers DEF Dated

\* The inductive invariant holds in every state of every such run.
LEMMA LedgersInvariant == CycleSpec => []LedgerInv
<1>1. CycleInit => LedgerInv
  BY InitLedgers DEF CycleInit
<1>2. LedgerInv /\ [CycleNext]_<<vars, past>> => LedgerInv'
  <2> SUFFICES ASSUME LedgerInv, [CycleNext]_<<vars, past>>
               PROVE  LedgerInv'
    OBVIOUS
  <2>1. CASE Post
    <3>1. [Next]_vars
      BY <2>1 DEF Next
    <3> QED
      BY <2>1, <3>1, NextStock, PostLedgers DEF LedgerInv
  <2>2. ASSUME NEW m \in DOMAIN moves, ~Irregular(m), UnpostDocument(m) PROVE LedgerInv'
    <3>1. [Next]_vars
      BY <2>2 DEF Next
    <3> QED
      BY <2>2, <3>1, NextStock, UnpostLedgers DEF LedgerInv
  <2>3. CASE UNCHANGED <<vars, past>>
    <3>1. [Next]_vars
      BY <2>3
    <3>2. IInv'
      BY <3>1, NextStock DEF LedgerInv
    <3>3. Tallies' /\ Covered(layers', onHand') /\ Dated'
      BY <2>3 DEF vars, LedgerInv, Tallies, DiffLedger, Dated
    <3> QED
      BY <3>2, <3>3 DEF LedgerInv
  <2> QED
    BY <2>1, <2>2, <2>3 DEF CycleNext, PostDocument, PostOther, Post, UnpostLatest,
                            UnpostEarlier
<1> QED
  BY <1>1, <1>2, PTL DEF CycleSpec

\* Every unit that entered a layer is still open, held by a live issue, or was
\* spent on a provisional layer by the receipt that opened it: nothing is lost
\* or made in any sequence of postings and regular reversals.
THEOREM UnitsAreAccounted == CycleSpec => []LayerLedger
<1>1. LedgerInv => LayerLedger
  BY DEF LedgerInv, Tallies, Accounts, Square, Consumed, Spent, LayerLedger
<1> QED
  BY <1>1, LedgersInvariant, PTL

\* reconciled_qty of a provisional layer is what its fill records add up to.
THEOREM FillsAreRecorded == CycleSpec => []FillLedger
<1>1. LedgerInv => FillLedger
  BY DEF LedgerInv, Tallies, Accounts, Square, Consumed, FillLedger
<1> QED
  BY <1>1, LedgersInvariant, PTL

\* Each live receipt has the difference journal its fills call for, and no
\* other movement has one.
THEOREM DifferencesAreBooked == CycleSpec => []DiffLedger
<1>1. LedgerInv => DiffLedger
  BY DEF LedgerInv, Tallies
<1> QED
  BY <1>1, LedgersInvariant, PTL

\* Open units minus pending provisional units is the balance, or the product
\* has no layer yet.
THEOREM LayersCoverBalance == CycleSpec => []NetCoverage
<1>1. LedgerInv => NetCoverage
  <2> SUFFICES ASSUME LedgerInv PROVE NetCoverage
    OBVIOUS
  <2>1. Queue(layers) /\ Covered(layers, onHand)
    BY DEF LedgerInv, IInv, StockInv, Books, Queue
  <2> QED
    BY <2>1, NetIsOpen DEF Covered, NetCoverage
<1> QED
  BY <1>1, LedgersInvariant, PTL

-----------------------------------------------------------------------------
(***************************************************************************)
(* 5. Reversing the latest document                                        *)
(***************************************************************************)
\* The layers without m and without what m holds of them and filled on them.
WithoutHolds(ls, rows, fills, m) ==
  [l \in DOMAIN ls \ {m} |->
     [ls[l] EXCEPT !.rem = @ + QtyAt(rows, <<m, l>>), !.recd = @ - QtyAt(fills, <<m, l>>)]]
\* The stock st without the movement m.
Reverted(st, m) ==
  LET ls == WithoutHolds(st[4], st[5], st[6], m)
  IN  <<st[1] - Gain(st[3][m]), AvgCost(ls), Dropped(st[3], m), ls,
        Without(st[5], m), Without(st[6], m), Dropped(st[7], m)>>

\* Two layers with the same columns are one.
LEMMA SameLayer ==
  ASSUME NEW v \in Layer, NEW w \in Layer, v.date = w.date, v.orig = w.orig,
         v.rem = w.rem, v.cost = w.cost, v.prov = w.prov, v.recd = w.recd
  PROVE  v = w
BY DEF Layer

\* Rows that were added for m go with it.
LEMMA AddedRowsGo ==
  ASSUME NEW rows, NEW ids, NEW ls, RowTable(rows, ids, ls), NEW m, m \notin ids,
         m \notin DOMAIN ls, NEW rows2,
         \A r \in DOMAIN rows : r \in DOMAIN rows2 /\ rows2[r] = rows[r],
         \A r \in DOMAIN rows2 \ DOMAIN rows : r[1] = m
  PROVE  Without(rows2, m) = rows
<1>1. \A r \in DOMAIN rows : m \notin {r[1], r[2]}
  BY DEF RowTable
<1>2. {s \in DOMAIN rows2 : m \notin {s[1], s[2]}} = DOMAIN rows
  BY <1>1
<1>3. rows = [r \in DOMAIN rows |-> rows[r]]
  BY DEF RowTable
<1> QED
  BY <1>2, <1>3 DEF Without

\* So does what was added for m to any other table.
LEMMA AddedEntryGoes ==
  ASSUME NEW f, f = [k \in DOMAIN f |-> f[k]], NEW m, m \notin DOMAIN f, NEW v
  PROVE  Dropped(f, m) = f /\ Dropped(Put(f, m, v), m) = f
<1>1. Dropped(f, m) = f
  <2>1. DOMAIN f \ {m} = DOMAIN f
    OBVIOUS
  <2> QED
    BY <2>1 DEF Dropped
<1>2. Dropped(Put(f, m, v), m) = f
  <2>1. DOMAIN Put(f, m, v) \ {m} = DOMAIN f
    BY DEF Put
  <2>2. \A k \in DOMAIN f : Put(f, m, v)[k] = f[k]
    BY DEF Put
  <2>3. Dropped(Put(f, m, v), m) = [k \in DOMAIN f |-> f[k]]
    BY <2>1, <2>2 DEF Dropped
  <2> QED
    BY <2>3
<1> QED
  BY <1>1, <1>2

\* A posting that takes from the layers what its rows say, adds what its fills
\* say, and opens no layer but its own, is reverted by taking m away.
LEMMA PostReverted ==
  ASSUME StockInv, NEW m \in Nat, m \notin DOMAIN moves, m \notin DOMAIN layers,
         NEW w, Gain(w) \in Int, moves' = Put(moves, m, w), onHand' = onHand + Gain(w),
         \A r \in DOMAIN cons : r \in DOMAIN cons' /\ cons'[r] = cons[r],
         \A r \in DOMAIN cons' \ DOMAIN cons : r[1] = m,
         \A r \in DOMAIN recs : r \in DOMAIN recs' /\ recs'[r] = recs[r],
         \A r \in DOMAIN recs' \ DOMAIN recs : r[1] = m,
         diffs' = diffs \/ \E d : diffs' = Put(diffs, m, d),
         DOMAIN layers \subseteq DOMAIN layers', DOMAIN layers' \subseteq DOMAIN layers \cup {m},
         \A l \in DOMAIN layers :
           /\ layers'[l] \in Layer
           /\ layers[l].rem = layers'[l].rem + QtyAt(cons', <<m, l>>)
           /\ layers[l].recd = layers'[l].recd - QtyAt(recs', <<m, l>>)
           /\ layers[l].orig = layers'[l].orig /\ layers[l].date = layers'[l].date
           /\ layers[l].cost = layers'[l].cost /\ layers[l].prov = layers'[l].prov,
         avg = AvgCost(layers)
  PROVE  stock = Reverted(stock', m)
<1> DEFINE ls == WithoutHolds(layers', cons', recs', m)
<1>1. /\ Journal(moves) /\ onHand \in Int
      /\ RowTable(cons, DOMAIN moves, layers) /\ RowTable(recs, DOMAIN moves, layers)
      /\ layers \in [DOMAIN layers -> Layer]
      /\ diffs \in [DOMAIN diffs -> Int] /\ DOMAIN diffs \subseteq DOMAIN moves
  BY DEF StockInv, Books
<1>2. ls = layers
  <2>1. DOMAIN layers' \ {m} = DOMAIN layers
    OBVIOUS
  <2>2. DOMAIN ls = DOMAIN layers
    BY <2>1 DEF WithoutHolds
  <2>3. ASSUME NEW l \in DOMAIN layers PROVE ls[l] = layers[l]
    <3> DEFINE v == layers'[l]
               a == v.rem + QtyAt(cons', <<m, l>>)
               b == v.recd - QtyAt(recs', <<m, l>>)
    <3>1. ls[l] = [v EXCEPT !.rem = a, !.recd = b]
      BY <2>1 DEF WithoutHolds
    <3>2. layers[l] \in Layer /\ v \in Layer
      BY <1>1
    <3>3. a = layers[l].rem /\ b = layers[l].recd
      OBVIOUS
    <3>4. a \in Nat /\ b \in Nat
      BY <3>2, <3>3 DEF Layer
    <3>5. /\ v.orig = layers[l].orig /\ v.date = layers[l].date
          /\ v.cost = layers[l].cost /\ v.prov = layers[l].prov
      OBVIOUS
    <3> HIDE DEF a, b, v
    <3> DEFINE u == [v EXCEPT !.rem = a, !.recd = b]
    <3>6. /\ u \in Layer /\ u.rem = a /\ u.recd = b /\ u.orig = v.orig /\ u.date = v.date
          /\ u.cost = v.cost /\ u.prov = v.prov
      BY <3>2, <3>4 DEF Layer
    <3>7. u = layers[l]
      <4> HIDE DEF u
      <4> QED
        BY <3>2, <3>3, <3>5, <3>6, SameLayer
    <3> QED
      BY <3>1, <3>7
  <2>4. ls = [l \in DOMAIN layers |-> ls[l]]
    BY <2>1 DEF WithoutHolds
  <2>5. layers = [l \in DOMAIN layers |-> layers[l]]
    BY <1>1
  <2> HIDE DEF ls
  <2> QED
    BY <2>3, <2>4, <2>5
<1>3. Without(cons', m) = cons /\ Without(recs', m) = recs
  BY <1>1, AddedRowsGo
<1>4. Dropped(moves', m) = moves
  <2>1. moves = [k \in DOMAIN moves |-> moves[k]]
    BY <1>1 DEF Journal
  <2> QED
    BY <2>1, AddedEntryGoes
<1>5. Dropped(diffs', m) = diffs
  <2>1. diffs = [k \in DOMAIN diffs |-> diffs[k]] /\ m \notin DOMAIN diffs
    BY <1>1
  <2> QED
    BY <2>1, AddedEntryGoes
<1>6. onHand' - Gain(moves'[m]) = onHand
  <2>1. moves'[m] = w
    BY DEF Put
  <2> QED
    BY <1>1, <2>1
<1>7. Reverted(stock', m)
        = <<onHand' - Gain(moves'[m]), AvgCost(ls), Dropped(moves', m), ls,
            Without(cons', m), Without(recs', m), Dropped(diffs', m)>>
  BY DEF Reverted, stock
<1> HIDE DEF ls
<1> QED
  BY <1>2, <1>3, <1>4, <1>5, <1>6, <1>7 DEF stock
-----------------------------------------------------------------------------
\* Reversing m, the latest document of the stock now, leads back to the stock
\* was: either it is a return whose reversal is not regular, or the stock was is
\* what is left without m, and needs no opening layer.
Undoable(was, now, m) ==
  /\ m \in DOMAIN now[3]
  /\ \/ /\ now[3][m].type = "RETURN_IN"
        /\ m \in DOMAIN now[4] => now[4][m].orig < now[3][m].qty
     \/ /\ was = Reverted(now, m)
        /\ ~(was[1] > 0 /\ was[1] > OpenQty(was[4]))
        /\ Inward(now[3][m]) => m \in DOMAIN now[4]
        /\ ~Inward(now[3][m]) => Spent(now[5], m) = now[3][m].qty

\* The document posted is the movement the posting adds.
LEMMA PostedIs ==
  ASSUME NEW m, m \notin DOMAIN moves, NEW w, moves' = Put(moves, m, w)
  PROVE  Posted = [id |-> m, before |-> stock]
<1>1. DOMAIN moves' = DOMAIN moves \cup {m}
  BY DEF Put
<1>2. (CHOOSE k \in DOMAIN moves' : k \notin DOMAIN moves) = m
  BY <1>1
<1> QED
  BY <1>2 DEF Posted

\* A posting that keeps the layers it found found enough of them.
LEMMA NotBackfilled ==
  ASSUME StockInv, ~Backfilled,
         NEW ls0, ls0 = Backfill(layers, onHand, avg), DOMAIN ls0 \subseteq DOMAIN layers',
         \A l \in DOMAIN ls0 : layers'[l].date = ls0[l].date
  PROVE  /\ ls0 = layers /\ avg = AvgCost(layers)
         /\ ~(onHand > 0 /\ onHand > OpenQty(layers))
<1>1. Queue(layers) /\ Ids(DOMAIN moves) /\ onHand \in Int /\ avg \in Nat
  BY DEF StockInv, Books, Queue
<1>2. avg = AvgCost(layers)
  BY DEF Backfilled
<1>3. ASSUME NEW k, NEW v, ls0 = Put(layers, k, v), k \notin DOMAIN layers,
             v.date = OpeningDate
      PROVE  FALSE
  <2>1. k \in DOMAIN ls0 /\ ls0[k] = v
    BY <1>3 DEF Put
  <2>2. k \in DOMAIN layers' \ DOMAIN layers /\ layers'[k].date = OpeningDate
    BY <1>3, <2>1
  <2> QED
    BY <2>2 DEF Backfilled
<1>4. \/ /\ ls0 = layers
         /\ ~(onHand > 0 /\ onHand > OpenQty(layers))
      \/ \E k \in Nat, v \in Layer :
           /\ ls0 = Put(layers, k, v)
           /\ k \notin DOMAIN layers /\ k \notin DOMAIN moves
           /\ v.date = OpeningDate /\ v.orig = onHand - OpenQty(layers) /\ v.rem = v.orig
           /\ ~v.prov /\ v.recd = 0
           /\ onHand > 0 /\ onHand > OpenQty(layers)
  BY <1>1, BackfillIs
<1> QED
  BY <1>2, <1>3, <1>4

\* A receipt, or a return at average, can be undone.
LEMMA InboundUndoable ==
  ASSUME StockInv, NEW type \in InboundTypes, NEW ref \in References,
         NEW q \in Nat, NEW cost \in Nat, NEW date \in Nat \ {0},
         Inbound(type, ref, q, cost, date), ~Backfilled
  PROVE  Posted.before = stock /\ Undoable(stock, stock', Posted.id)
<1> DEFINE ls0 == Backfill(layers, onHand, avg)
           m == NextId(DOMAIN moves \cup DOMAIN ls0)
           fill == Draw(Pending(ls0), Fifo(ls0), q)
           filled == SumFunction(fill)
           diff == Cents(filled * cost - CostOf(fill, ls0))
           v == [date |-> date, orig |-> q, rem |-> q - filled,
                 cost |-> cost, prov |-> FALSE, recd |-> 0]
           lsr == Reconcile(ls0, fill)
           w == [type |-> type, ref |-> ref, qty |-> q, cost |-> cost,
                 total |-> Cents(q * cost)]
           ids == DOMAIN moves
<1>0. /\ layers' = Put(lsr, m, v) /\ recs' = WithRows(recs, m, fill, ls0)
      /\ diffs' = IF diff = 0 THEN diffs ELSE Put(diffs, m, diff)
      /\ moves' = Put(moves, m, w)
      /\ onHand' = onHand + q /\ cons' = cons
  BY DEF Inbound
<1>1. /\ Ids(ids) /\ onHand \in Int /\ avg \in Nat /\ StockInv'
      /\ Books(layers, cons, recs, ids)
  <2>1. StockInv'
    BY InboundStep
  <2> QED
    BY <2>1 DEF StockInv, Journal
<1>2. Books(ls0, cons, recs, ids)
  BY <1>1, BackfillBooks
<1> HIDE DEF ls0
<1>3. m \in Nat /\ m \notin ids /\ m \notin DOMAIN ls0
  BY <1>1, <1>2, NextIdFresh DEF Books
<1> HIDE DEF m
<1>4. /\ DOMAIN fill \subseteq DOMAIN ls0
      /\ \A l \in DOMAIN fill : fill[l] \in Nat
  <2>1. /\ DOMAIN Pending(ls0) \subseteq DOMAIN ls0
        /\ \A l \in DOMAIN Pending(ls0) : Pending(ls0)[l] = ls0[l].orig - ls0[l].recd
    BY DEF Pending, Provisional
  <2>2. \A l \in DOMAIN ls0 : ls0[l] \in Layer /\ ls0[l].recd <= ls0[l].orig
    BY <1>2 DEF Books, Fits
  <2>3. \A l \in DOMAIN Pending(ls0) : Pending(ls0)[l] \in Nat
    BY <2>1, <2>2 DEF Layer
  <2>4. IsFiniteSet(DOMAIN Pending(ls0))
    BY <1>2, <2>1, FS_Subset DEF Books, Ids
  <2> QED
    BY <2>1, <2>3, <2>4, DrawBounds
<1> HIDE DEF fill
<1>5. \A l \in DOMAIN ls0 :
        /\ lsr[l].recd = ls0[l].recd + At(fill, l) /\ lsr[l].rem = ls0[l].rem
        /\ lsr[l].orig = ls0[l].orig /\ lsr[l].date = ls0[l].date
        /\ lsr[l].prov = ls0[l].prov /\ lsr[l].cost = ls0[l].cost
        /\ ls0[l] \in Layer /\ ls0[l].cost \in Nat /\ At(fill, l) \in Nat
  <2>1. ls0 \in [DOMAIN ls0 -> Layer]
    BY <1>2 DEF Books
  <2>2. \A l \in DOMAIN ls0 : At(fill, l) \in Nat
    BY <1>4 DEF At
  <2> QED
    BY <1>4, <2>1, <2>2, ReconcileLayer DEF Layer
<1>6. DOMAIN lsr = DOMAIN ls0
  BY DEF Reconcile
<1> HIDE DEF lsr, v, w
<1>7. /\ DOMAIN layers' = DOMAIN ls0 \cup {m}
      /\ \A l \in DOMAIN ls0 : layers'[l] = lsr[l]
  BY <1>0, <1>3, <1>6 DEF Put
<1>8. /\ ls0 = layers /\ avg = AvgCost(layers)
      /\ ~(onHand > 0 /\ onHand > OpenQty(layers))
  <2>1. DOMAIN ls0 \subseteq DOMAIN layers' /\ \A l \in DOMAIN ls0 : layers'[l].date = ls0[l].date
    BY <1>5, <1>7
  <2> QED
    BY <2>1, NotBackfilled DEF ls0
<1>9. Adds(recs', recs, ids, ls0, m, fill)
  <2>1. RowTable(recs, ids, ls0) /\ Ids(ids) /\ Ids(DOMAIN ls0)
    BY <1>2 DEF Books
  <2>2. \A l \in DOMAIN fill : fill[l] \in Nat /\ ls0[l].cost \in Nat
    BY <1>4, <1>5
  <2> QED
    BY <1>0, <1>3, <1>4, <2>1, <2>2, AddedRows
<1>10. stock = Reverted(stock', m)
  <2>1. /\ \A r \in DOMAIN cons : r \in DOMAIN cons' /\ cons'[r] = cons[r]
        /\ \A r \in DOMAIN cons' \ DOMAIN cons : r[1] = m
    BY <1>0
  <2>2. /\ \A r \in DOMAIN recs : r \in DOMAIN recs' /\ recs'[r] = recs[r]
        /\ \A r \in DOMAIN recs' \ DOMAIN recs : r[1] = m
    BY <1>9 DEF Adds
  <2>3. diffs' = diffs \/ \E d : diffs' = Put(diffs, m, d)
    BY <1>0
  <2>4. Gain(w) = q
    BY DEF Gain, w
  <2>5. \A l : QtyAt(cons', <<m, l>>) = 0
    BY <1>0, <1>1, <1>3 DEF Books, RowTable, QtyAt
  <2>6. \A l : QtyAt(recs', <<m, l>>) = At(fill, l)
    BY <1>9 DEF Adds
  <2>7. ASSUME NEW l \in DOMAIN layers
        PROVE  /\ layers'[l] \in Layer
               /\ layers[l].rem = layers'[l].rem + QtyAt(cons', <<m, l>>)
               /\ layers[l].recd = layers'[l].recd - QtyAt(recs', <<m, l>>)
               /\ layers[l].orig = layers'[l].orig /\ layers[l].date = layers'[l].date
               /\ layers[l].cost = layers'[l].cost /\ layers[l].prov = layers'[l].prov
    <3>1. layers'[l] \in Layer
      <4>1. layers' \in [DOMAIN layers' -> Layer]
        BY <1>1 DEF StockInv, Books
      <4> QED
        BY <1>7, <1>8, <4>1
    <3>2. layers'[l] = lsr[l] /\ layers[l] = ls0[l]
      BY <1>7, <1>8
    <3>3. QtyAt(cons', <<m, l>>) = 0 /\ QtyAt(recs', <<m, l>>) = At(fill, l)
      BY <2>5, <2>6
    <3>4. ls0[l].rem \in Nat /\ ls0[l].recd \in Nat
      BY <1>5, <1>8 DEF Layer
    <3> QED
      BY <1>5, <1>8, <3>1, <3>2, <3>3, <3>4
  <2>8. DOMAIN layers \subseteq DOMAIN layers' /\ DOMAIN layers' \subseteq DOMAIN layers \cup {m}
    BY <1>7, <1>8
  <2>9. moves' = Put(moves, m, w) /\ onHand' = onHand + Gain(w) /\ Gain(w) \in Int
    BY <1>0, <2>4
  <2>10. m \notin DOMAIN layers
    BY <1>3, <1>8
  <2> QED
    BY <1>3, <1>8, <2>1, <2>2, <2>3, <2>7, <2>8, <2>9, <2>10, PostReverted
<1>11. m \in DOMAIN moves' /\ moves'[m] = w /\ m \in DOMAIN layers'
  BY <1>0, <1>7 DEF Put
<1>12. Inward(w)
  BY DEF Inward, w
<1>13. Posted = [id |-> m, before |-> stock]
  BY <1>0, <1>3, PostedIs
<1>14. /\ stock[1] = onHand /\ stock[4] = layers
       /\ stock'[3] = moves' /\ stock'[4] = layers'
  BY DEF stock
<1> QED
  BY <1>8, <1>10, <1>11, <1>12, <1>13, <1>14 DEF Undoable

\* An issue can be undone, whatever it left uncovered.
LEMMA OutboundUndoable ==
  ASSUME StockInv, NEW type \in OutboundTypes, NEW ref \in References,
         NEW q \in Nat \ {0}, NEW date \in Nat \ {0},
         Outbound(type, ref, q, date), ~Backfilled
  PROVE  Posted.before = stock /\ Undoable(stock, stock', Posted.id)
<1> DEFINE ls0 == Backfill(layers, onHand, avg)
           m == NextId(DOMAIN moves \cup DOMAIN ls0)
           take == Takes(ls0, q)
           uncovered == Uncovered(ls0, q)
           guess == IF avg > 0 THEN avg ELSE LastLayerCost(ls0)
           total == Cents(CostOf(take, ls0) + uncovered * guess)
           lsc == Consume(ls0, take)
           v == [date |-> date, orig |-> uncovered, rem |-> 0,
                 cost |-> guess, prov |-> TRUE, recd |-> 0]
           ls1 == IF uncovered = 0 THEN lsc ELSE Put(lsc, m, v)
           taken == TakesAll(ls0, m, q)
           w == [type |-> type, ref |-> ref, qty |-> q,
                 cost |-> Quantize(100 * total, q), total |-> total]
           ids == DOMAIN moves
<1>0. /\ layers' = ls1 /\ cons' = WithRows(cons, m, taken, ls1)
      /\ moves' = Put(moves, m, w)
      /\ onHand' = onHand - q /\ recs' = recs /\ diffs' = diffs
  BY DEF Outbound, Takes, Uncovered, TakesAll
<1>1. /\ Ids(ids) /\ onHand \in Int /\ avg \in Nat /\ StockInv'
      /\ Books(layers, cons, recs, ids)
  <2>1. StockInv'
    BY OutboundStep
  <2> QED
    BY <2>1 DEF StockInv, Journal
<1>2. Books(ls0, cons, recs, ids)
  BY <1>1, BackfillBooks
<1> HIDE DEF ls0
<1>3. Queue(ls0) /\ ls0 \in [DOMAIN ls0 -> Layer]
  BY <1>2 DEF Books, Queue
<1>4. m \in Nat /\ m \notin ids /\ m \notin DOMAIN ls0
  BY <1>1, <1>2, NextIdFresh DEF Books
<1> HIDE DEF m
<1>5. /\ DOMAIN take = DOMAIN ls0
      /\ \A l \in DOMAIN ls0 : take[l] \in Nat /\ take[l] <= ls0[l].rem
      /\ uncovered \in Nat /\ SumFunction(taken) = q
  BY <1>3, <1>4, TakenIs
<1>6. taken = IF uncovered = 0 THEN take ELSE Put(take, m, uncovered)
  BY DEF TakesAll
<1> HIDE DEF take, uncovered, taken, w
<1>7. /\ DOMAIN lsc = DOMAIN ls0
      /\ \A l \in DOMAIN ls0 :
           /\ lsc[l].rem = ls0[l].rem - take[l] /\ lsc[l].orig = ls0[l].orig
           /\ lsc[l].recd = ls0[l].recd /\ lsc[l].date = ls0[l].date
           /\ lsc[l].prov = ls0[l].prov /\ lsc[l].cost = ls0[l].cost
  BY <1>3, <1>5, ConsumeLayer DEF Consume
<1> HIDE DEF lsc, v
<1>8. /\ DOMAIN taken = DOMAIN layers' /\ DOMAIN ls0 \subseteq DOMAIN layers'
      /\ DOMAIN layers' \subseteq DOMAIN ls0 \cup {m}
      /\ \A l \in DOMAIN ls0 : layers'[l] = lsc[l] /\ taken[l] = take[l]
      /\ \A l \in DOMAIN taken : taken[l] \in Nat
  <2>1. CASE uncovered = 0
    <3>1. layers' = lsc /\ taken = take
      BY <1>0, <1>6, <2>1
    <3> QED
      BY <1>5, <1>7, <3>1
  <2>2. CASE uncovered # 0
    <3>1. layers' = Put(lsc, m, v) /\ taken = Put(take, m, uncovered)
      BY <1>0, <1>6, <2>2
    <3> QED
      BY <1>4, <1>5, <1>7, <3>1 DEF Put
  <2> QED
    BY <2>1, <2>2
<1>9. /\ ls0 = layers /\ avg = AvgCost(layers)
      /\ ~(onHand > 0 /\ onHand > OpenQty(layers))
  <2>1. DOMAIN ls0 \subseteq DOMAIN layers' /\ \A l \in DOMAIN ls0 : layers'[l].date = ls0[l].date
    BY <1>7, <1>8
  <2> QED
    BY <2>1, NotBackfilled DEF ls0
<1>10. Ids(DOMAIN layers') /\ layers' \in [DOMAIN layers' -> Layer]
  BY <1>1 DEF StockInv, Books
<1>11. Adds(cons', cons, ids, layers', m, taken)
  <2>1. RowTable(cons, ids, layers')
    BY <1>2, <1>8 DEF Books, RowTable
  <2>2. \A l \in DOMAIN taken : taken[l] \in Nat /\ layers'[l].cost \in Nat
    BY <1>8, <1>10 DEF Layer
  <2>3. cons' = WithRows(cons, m, taken, layers')
    BY <1>0
  <2>4. DOMAIN taken \subseteq DOMAIN layers' /\ m \in Nat \ ids
    BY <1>4, <1>8
  <2> QED
    BY <1>1, <1>10, <2>1, <2>2, <2>3, <2>4, AddedRows
<1> HIDE DEF ls1
<1>12. Gain(w) = -q
  <2>1. w.type = type /\ w.qty = q /\ type \notin InboundTypes
    BY DEF w, OutboundTypes, InboundTypes
  <2> QED
    BY <2>1 DEF Gain
<1>13. stock = Reverted(stock', m)
  <2>1. /\ \A r \in DOMAIN cons : r \in DOMAIN cons' /\ cons'[r] = cons[r]
        /\ \A r \in DOMAIN cons' \ DOMAIN cons : r[1] = m
    BY <1>11 DEF Adds
  <2>2. /\ \A r \in DOMAIN recs : r \in DOMAIN recs' /\ recs'[r] = recs[r]
        /\ \A r \in DOMAIN recs' \ DOMAIN recs : r[1] = m
    BY <1>0
  <2>3. diffs' = diffs \/ \E d : diffs' = Put(diffs, m, d)
    BY <1>0
  <2>5. \A l : QtyAt(recs', <<m, l>>) = 0
    BY <1>0, <1>1, <1>4 DEF Books, RowTable, QtyAt
  <2>6. \A l : QtyAt(cons', <<m, l>>) = At(taken, l)
    BY <1>11 DEF Adds
  <2>7. ASSUME NEW l \in DOMAIN layers
        PROVE  /\ layers'[l] \in Layer
               /\ layers[l].rem = layers'[l].rem + QtyAt(cons', <<m, l>>)
               /\ layers[l].recd = layers'[l].recd - QtyAt(recs', <<m, l>>)
               /\ layers[l].orig = layers'[l].orig /\ layers[l].date = layers'[l].date
               /\ layers[l].cost = layers'[l].cost /\ layers[l].prov = layers'[l].prov
    <3>1. layers'[l] \in Layer
      BY <1>8, <1>9, <1>10
    <3>2. layers'[l] = lsc[l] /\ layers[l] = ls0[l] /\ l \in DOMAIN ls0
      BY <1>8, <1>9
    <3>3. QtyAt(recs', <<m, l>>) = 0 /\ QtyAt(cons', <<m, l>>) = take[l]
      <4>1. At(taken, l) = take[l]
        BY <1>8, <3>2 DEF At
      <4> QED
        BY <2>5, <2>6, <4>1
    <3>4. ls0[l].rem \in Nat /\ ls0[l].recd \in Nat /\ take[l] \in Nat
      BY <1>3, <1>5, <3>2 DEF Layer
    <3>5. /\ lsc[l].rem = ls0[l].rem - take[l] /\ lsc[l].orig = ls0[l].orig
          /\ lsc[l].recd = ls0[l].recd /\ lsc[l].date = ls0[l].date
          /\ lsc[l].prov = ls0[l].prov /\ lsc[l].cost = ls0[l].cost
      BY <1>7, <3>2
    <3> QED
      BY <3>1, <3>2, <3>3, <3>4, <3>5
  <2>8. DOMAIN layers \subseteq DOMAIN layers' /\ DOMAIN layers' \subseteq DOMAIN layers \cup {m}
    BY <1>8, <1>9
  <2>9. moves' = Put(moves, m, w) /\ onHand' = onHand + Gain(w) /\ Gain(w) \in Int
    BY <1>0, <1>1, <1>12
  <2>10. m \notin DOMAIN layers
    BY <1>4, <1>9
  <2> QED
    BY <1>4, <1>9, <2>1, <2>2, <2>3, <2>7, <2>8, <2>9, <2>10, PostReverted
<1>14. m \in DOMAIN moves' /\ moves'[m] = w
  BY <1>0 DEF Put
<1>15. ~Inward(w) /\ w.qty = q
  BY DEF Inward, w, InboundTypes, OutboundTypes
<1>16. Spent(cons', m) = q
  BY <1>5, <1>11 DEF Adds
<1>17. Posted = [id |-> m, before |-> stock]
  BY <1>0, <1>4, PostedIs
<1>18. /\ stock[1] = onHand /\ stock[4] = layers
       /\ stock'[3] = moves' /\ stock'[4] = layers' /\ stock'[5] = cons'
  BY DEF stock
<1> QED
  BY <1>9, <1>13, <1>14, <1>15, <1>16, <1>17, <1>18 DEF Undoable

\* A return that gives units back to old layers is one whose reversal is not
\* regular.
LEMMA ReturnUndoable ==
  ASSUME StockInv, NEW o \in DOMAIN moves, NEW q \in Nat \ {0},
         NEW date \in Nat \ {0}, PostReturn(o, q, date)
  PROVE  Posted.before = stock /\ Undoable(stock, stock', Posted.id)
<1> DEFINE ls0 == Backfill(layers, onHand, avg)
           m == NextId(DOMAIN moves \cup DOMAIN ls0)
           held == RowsOf(cons, o)
           give == Draw(held, RestoreOrder(o, ls0), q)
           given == SumFunction(give)
           restored == SumFunction([l \in DOMAIN give |-> give[l] * cons[<<o, l>>].cost])
           surplus == q - given
           surplusCost == Quantize(restored, given)
           total == IF surplus = 0 THEN Cents(restored)
                    ELSE Cents(100 * Cents(restored) + surplus * surplusCost)
           lsr == Refill(ls0, give)
           v == [date |-> date, orig |-> surplus, rem |-> surplus,
                 cost |-> surplusCost, prov |-> FALSE, recd |-> 0]
           ls1 == IF surplus = 0 THEN lsr ELSE Put(lsr, m, v)
           w == [type |-> "RETURN_IN", ref |-> "DOCUMENT", qty |-> q,
                 cost |-> Quantize(100 * total, q), total |-> total]
           ids == DOMAIN moves
<1>0. layers' = ls1 /\ moves' = Put(moves, m, w) /\ given > 0
  BY DEF PostReturn
<1>1. Ids(ids) /\ onHand \in Int /\ avg \in Nat /\ Books(layers, cons, recs, ids)
  BY DEF StockInv, Journal
<1>2. Books(ls0, cons, recs, ids)
  BY <1>1, BackfillBooks
<1> HIDE DEF ls0
<1>3. m \in Nat /\ m \notin ids /\ m \notin DOMAIN ls0
  BY <1>1, <1>2, NextIdFresh DEF Books
<1> HIDE DEF m
<1>4. given \in Nat
  <2>1. RowTable(cons, ids, ls0) /\ Ids(DOMAIN ls0)
    BY <1>2 DEF Books
  <2>2. IsFiniteSet(DOMAIN held) /\ \A l \in DOMAIN held : held[l] \in Nat
    BY <2>1, RowsOfTable
  <2> HIDE DEF held
  <2>3. DOMAIN give = DOMAIN held /\ \A l \in DOMAIN give : give[l] \in Nat
    BY <2>2, DrawBounds
  <2> HIDE DEF give
  <2>4. given = SumFunctionOnSet(give, DOMAIN give)
    BY DEF SumFunction
  <2> QED
    BY <2>2, <2>3, <2>4, SumNat
<1>5. m \in DOMAIN layers' => layers'[m].orig = surplus
  <2>1. m \notin DOMAIN lsr
    BY <1>3 DEF Refill
  <2> HIDE DEF lsr, surplus, surplusCost
  <2>2. CASE surplus = 0
    BY <1>0, <2>1, <2>2
  <2>3. CASE surplus # 0
    BY <1>0, <2>3 DEF Put
  <2> QED
    BY <2>2, <2>3
<1> HIDE DEF ls1, given, total
<1>6. surplus < q
  BY <1>0, <1>4
<1>7. m \in DOMAIN moves' /\ moves'[m] = w
  BY <1>0 DEF Put
<1>8. w.type = "RETURN_IN" /\ w.qty = q
  OBVIOUS
<1> HIDE DEF w, surplus
<1>9. Posted = [id |-> m, before |-> stock]
  BY <1>0, <1>3, PostedIs
<1>10. stock'[3] = moves' /\ stock'[4] = layers'
  BY DEF stock
<1>11. Undoable(stock, stock', m)
  BY <1>5, <1>6, <1>7, <1>8, <1>10 DEF Undoable
<1> QED
  BY <1>9, <1>11

\* A regular reversal of a document that can be undone leads back to the stock
\* before it.
LEMMA UnpostReverts ==
  ASSUME StockInv, Tallies, NEW m \in DOMAIN moves, UnpostDocument(m), ~Irregular(m),
         NEW was, Undoable(was, stock, m)
  PROVE  stock' = was
<1> DEFINE inbound == Inward(moves[m])
           qty == moves[m].qty
           missing == qty - Spent(cons, m)
           ls2 == Dropped(Undone(m), m)
           ls == WithoutHolds(layers, cons, recs, m)
           rows == Without(cons, m)
           balance == Balance(DOMAIN moves \ {m})
           unlayered == inbound /\ moves[m].type # "RETURN_IN" /\ m \notin DOMAIN layers
           ls3 == IF unlayered THEN Trimmed(ls2, rows, balance, qty, moves[m].cost)
                  ELSE ls2
           ls4 == IF inbound THEN Backfill(ls3, balance, avg)
                  ELSE Backfill(ls3, balance - missing, avg)
           ls5 == IF inbound \/ missing = 0 THEN ls4
                  ELSE Backfill(ls4, balance, moves[m].cost)
<1>0. /\ layers' = ls5 /\ onHand' = balance /\ avg' = AvgCost(ls5)
      /\ moves' = Dropped(moves, m) /\ cons' = rows /\ recs' = Without(recs, m)
      /\ diffs' = Dropped(diffs, m)
      /\ NotConsumedElsewhere(m) /\ ~DropsFill(m) /\ ~UndoesRestore(m)
  BY DEF UnpostDocument, Undone, Inward, Spent, Irregular, WithoutDiff
<1>1. /\ avg \in Nat /\ Journal(moves) /\ onHand \in Int
      /\ Books(layers, cons, recs, DOMAIN moves) /\ Accounts(layers, cons, recs, moves)
      /\ onHand = SumFunction(Gains(moves))
  BY DEF StockInv, Tallies
<1>2. /\ was = Reverted(stock, m)
      /\ ~(was[1] > 0 /\ was[1] > OpenQty(was[4]))
      /\ inbound => m \in DOMAIN layers
      /\ ~inbound => Spent(cons, m) = qty
  BY <1>0 DEF Undoable, UndoesRestore, stock
<1>3. balance = onHand - Gain(moves[m]) /\ balance \in Int
  <2> DEFINE f == Gains(moves)
  <2>1. /\ DOMAIN f = DOMAIN moves /\ \A k \in DOMAIN moves : f[k] \in Int
        /\ f[m] = Gain(moves[m])
    BY <1>1 DEF Gains, Gain, Journal, Move
  <2>2. IsFiniteSet(DOMAIN moves)
    BY <1>1 DEF Journal, Ids
  <2>3. balance = SumFunctionOnSet(f, DOMAIN moves \ {m})
    BY <1>1, BalanceIsNet
  <2>4. onHand = SumFunctionOnSet(f, DOMAIN moves)
    BY <1>1, <2>1 DEF SumFunction
  <2>5. balance \in Int
    <3>1. /\ SumFunction(Gains(Dropped(moves, m))) \in Int
          /\ SumFunction(Gains(Dropped(moves, m))) = SumFunctionOnSet(f, DOMAIN moves \ {m})
      BY <1>1, NetDrop
    <3> QED
      BY <2>3, <3>1
  <2> HIDE DEF f, balance
  <2>6. SumFunctionOnSet(f, DOMAIN moves) = f[m] + SumFunctionOnSet(f, DOMAIN moves \ {m})
    BY <2>1, <2>2, SumRemove
  <2> QED
    BY <2>1, <2>3, <2>4, <2>5, <2>6
<1>4. ls2 = ls
  <2> DEFINE u == Undone(m)
  <2>1. /\ u \in [DOMAIN layers -> Layer]
        /\ \A l \in DOMAIN layers :
             /\ u[l].rem = layers[l].rem + QtyAt(cons, <<m, l>>)
             /\ u[l].recd = layers[l].recd - QtyAt(recs, <<m, l>>)
             /\ u[l].orig = layers[l].orig /\ u[l].date = layers[l].date
             /\ u[l].prov = layers[l].prov /\ u[l].cost = layers[l].cost
    BY <1>0, <1>1, UndoneLayers
  <2>2. ls2 = [l \in DOMAIN u \ {m} |-> u[l]]
    BY DEF Dropped
  <2> HIDE DEF u, ls2, ls
  <2>3. DOMAIN u = DOMAIN layers
    BY <2>1
  <2>4. ASSUME NEW l \in DOMAIN layers \ {m} PROVE u[l] = ls[l]
    <3> DEFINE v == layers[l]
               a == v.rem + QtyAt(cons, <<m, l>>)
               b == v.recd - QtyAt(recs, <<m, l>>)
               x == [v EXCEPT !.rem = a, !.recd = b]
    <3>1. ls[l] = x
      BY DEF ls, WithoutHolds
    <3>2. v \in Layer /\ u[l] \in Layer
      BY <1>1, <2>1 DEF Books
    <3>3. u[l].rem = a /\ u[l].recd = b
      BY <2>1
    <3>4. a \in Nat /\ b \in Nat
      BY <3>2, <3>3 DEF Layer
    <3>5. /\ u[l].orig = v.orig /\ u[l].date = v.date
          /\ u[l].prov = v.prov /\ u[l].cost = v.cost
      BY <2>1
    <3> HIDE DEF a, b, v
    <3>6. /\ x \in Layer /\ x.rem = a /\ x.recd = b /\ x.orig = v.orig /\ x.date = v.date
          /\ x.cost = v.cost /\ x.prov = v.prov
      BY <3>2, <3>4 DEF Layer
    <3> HIDE DEF x
    <3> QED
      BY <3>1, <3>2, <3>3, <3>5, <3>6, SameLayer
  <2>5. ls = [l \in DOMAIN layers \ {m} |-> ls[l]]
    BY DEF ls, WithoutHolds
  <2> QED
    BY <2>2, <2>3, <2>4, <2>5
<1>5. Queue(ls)
  <2>1. Books(ls2, rows, Without(recs, m), DOMAIN Dropped(moves, m))
    BY <1>0, <1>1, UndoneBooks
  <2> HIDE DEF ls2, ls, rows
  <2> QED
    BY <1>4, <2>1 DEF Books, Queue
<1>6. was = <<onHand - Gain(moves[m]), AvgCost(ls), Dropped(moves, m), ls,
              Without(cons, m), Without(recs, m), Dropped(diffs, m)>>
  BY <1>2 DEF Reverted, stock
<1> HIDE DEF ls2, ls, balance, missing
<1>7. ~(balance > 0 /\ balance > OpenQty(ls))
  <2>1. was[1] = balance /\ was[4] = ls
    BY <1>3, <1>6
  <2> QED
    BY <1>2, <2>1
<1>8. \A cost : Backfill(ls, balance, cost) = ls
  <2>1. OpenQty(ls) \in Int
    BY <1>5, OpenQtyNat DEF Queue
  <2> QED
    BY <1>3, <1>7, <2>1 DEF Backfill
<1>9. ls3 = ls
  BY <1>2, <1>4
<1> HIDE DEF ls3
<1>10. ls5 = ls
  <2>1. CASE inbound
    BY <1>8, <1>9, <2>1
  <2>2. CASE ~inbound
    <3>1. missing = 0
      <4>1. qty \in Nat
        BY <1>1 DEF Journal, Move
      <4> HIDE DEF qty
      <4> QED
        BY <1>2, <2>2, <4>1 DEF missing
    <3>2. balance - missing = balance
      BY <1>3, <3>1
    <3> QED
      BY <1>8, <1>9, <2>2, <3>1, <3>2
  <2> QED
    BY <2>1, <2>2
<1> HIDE DEF ls5
<1> QED
  BY <1>0, <1>3, <1>6, <1>10 DEF stock

-----------------------------------------------------------------------------
\* Each document remembered can be undone, once those posted after it have been.
Chain ==
  /\ \E S : past \in Seq(S)
  /\ \A i \in 1..Len(past) :
       Undoable(past[i].before, IF i = 1 THEN stock ELSE past[i - 1].before, past[i].id)

\* Every document posted on layers that cover the balance can be undone.
LEMMA PostUndoable ==
  ASSUME StockInv, PostDocument, ~Backfilled
  PROVE  Posted.before = stock /\ Undoable(stock, stock', Posted.id)
<1> DEFINE Chained == Posted.before = stock /\ Undoable(stock, stock', Posted.id)
<1>1. ASSUME NEW q \in Qtys, NEW cost \in Costs, NEW date \in Dates,
             PostReceipt(q, cost, date)
      PROVE  Chained
  <2>1. /\ q \in Nat /\ cost \in Nat /\ date \in Nat \ {0}
        /\ "IN" \in InboundTypes /\ "DOCUMENT" \in References
    BY ConstantsAssumption DEF InboundTypes, References
  <2>2. Inbound("IN", "DOCUMENT", q, cost, date)
    BY <1>1 DEF PostReceipt
  <2> QED
    BY <2>1, <2>2, InboundUndoable
<1>2. ASSUME NEW type \in {"OUT", "RETURN_OUT"}, NEW q \in Qtys, NEW date \in Dates,
             PostIssue(type, q, date)
      PROVE  Chained
  <2>1. /\ q \in Nat \ {0} /\ date \in Nat \ {0}
        /\ type \in OutboundTypes /\ "DOCUMENT" \in References
    BY ConstantsAssumption DEF OutboundTypes, References
  <2>2. Outbound(type, "DOCUMENT", q, date)
    BY <1>2 DEF PostIssue
  <2> QED
    BY <2>1, <2>2, OutboundUndoable
<1>3. ASSUME NEW q \in Qtys, NEW date \in Dates, PostReturnAtAverage(q, date)
      PROVE  Chained
  <2>1. /\ q \in Nat /\ date \in Nat \ {0} /\ avg \in Nat
        /\ "RETURN_IN" \in InboundTypes /\ "DOCUMENT" \in References
    BY ConstantsAssumption DEF InboundTypes, References, StockInv
  <2>2. Inbound("RETURN_IN", "DOCUMENT", q, avg, date)
    BY <1>3 DEF PostReturnAtAverage
  <2> QED
    BY <2>1, <2>2, InboundUndoable
<1>4. ASSUME NEW o \in DOMAIN moves, NEW q \in Qtys, NEW date \in Dates,
             PostReturn(o, q, date)
      PROVE  Chained
  <2>1. q \in Nat \ {0} /\ date \in Nat \ {0}
    BY ConstantsAssumption
  <2> QED
    BY <1>4, <2>1, ReturnUndoable
<1> HIDE DEF Chained
<1>5. Chained
  BY <1>1, <1>2, <1>3, <1>4 DEF PostDocument
<1> QED
  BY <1>5 DEF Chained

\* The document posted last is the first to be undone.
LEMMA ChainGrows ==
  ASSUME Chain, NEW p, p.before = stock, Undoable(stock, stock', p.id),
         past' = <<p>> \o past
  PROVE  Chain'
<1>1. PICK S : past \in Seq(S)
  BY DEF Chain
<1>2. /\ past' \in Seq(S \cup {p}) /\ Len(past') = Len(past) + 1 /\ past'[1] = p
      /\ \A i \in 2..Len(past') : past'[i] = past[i - 1]
  <2>1. <<p>> \in Seq(S \cup {p}) /\ past \in Seq(S \cup {p})
    BY <1>1
  <2> QED
    BY <2>1
<1>3. Len(past) \in Nat
  BY <1>1
<1>4. ASSUME NEW i \in 1..Len(past')
      PROVE  Undoable(past'[i].before,
                      IF i = 1 THEN stock' ELSE past'[i - 1].before, past'[i].id)
  <2>1. CASE i = 1
    BY <1>2, <2>1
  <2>2. CASE i = 2
    <3>1. Undoable(past[1].before, stock, past[1].id)
      <4>1. 1 \in 1..Len(past)
        BY <1>2, <1>3, <2>2
      <4> QED
        BY <4>1 DEF Chain
    <3>2. past'[2] = past[1]
      BY <1>2, <2>2
    <3> QED
      BY <1>2, <2>2, <3>1, <3>2
  <2>3. CASE i > 2
    <3>1. /\ i - 1 \in 1..Len(past) /\ i - 1 # 1 /\ i \in 2..Len(past')
          /\ i - 1 \in 2..Len(past') /\ i # 1
      BY <1>2, <1>3, <2>3
    <3>2. Undoable(past[i - 1].before, past[(i - 1) - 1].before, past[i - 1].id)
      BY <3>1 DEF Chain
    <3>3. past'[i] = past[i - 1] /\ past'[i - 1] = past[(i - 1) - 1]
      BY <1>2, <3>1
    <3> QED
      BY <3>1, <3>2, <3>3
  <2> QED
    BY <1>2, <1>3, <2>1, <2>2, <2>3
<1> QED
  BY <1>2, <1>4 DEF Chain

\* The first document of the chain is the latest; without it the next one is.
LEMMA ChainShrinks ==
  ASSUME Chain, past # <<>>, stock' = Head(past).before, past' = Tail(past)
  PROVE  Chain'
<1>1. PICK S : past \in Seq(S)
  BY DEF Chain
<1>2. /\ past' \in Seq(S) /\ Len(past') = Len(past) - 1 /\ Len(past) \in Nat
      /\ \A i \in 1..Len(past') : past'[i] = past[i + 1]
      /\ Head(past) = past[1]
  BY <1>1
<1>3. ASSUME NEW i \in 1..Len(past')
      PROVE  Undoable(past'[i].before,
                      IF i = 1 THEN stock' ELSE past'[i - 1].before, past'[i].id)
  <2>1. i + 1 \in 1..Len(past) /\ i + 1 # 1 /\ (i + 1) - 1 = i
    BY <1>2
  <2>2. Undoable(past[i + 1].before, past[i].before, past[i + 1].id)
    BY <2>1 DEF Chain
  <2>3. past'[i] = past[i + 1]
    BY <1>2
  <2>4. CASE i = 1
    BY <1>2, <2>2, <2>3, <2>4
  <2>5. CASE i # 1
    <3>1. i - 1 \in 1..Len(past') /\ (i - 1) + 1 = i
      BY <1>2, <2>5
    <3>2. past'[i - 1] = past[i]
      BY <1>2, <3>1
    <3> QED
      BY <2>2, <2>3, <2>5, <3>2
  <2> QED
    BY <2>4, <2>5
<1> QED
  BY <1>2, <1>3 DEF Chain

LEMMA NoChain ==
  ASSUME past' = <<>>
  PROVE  Chain'
<1>1. past' \in Seq({}) /\ Len(past') = 0
  OBVIOUS
<1> QED
  BY <1>1 DEF Chain

\* Reversing the latest document leads back to the stock before it.
LEMMA LatestReverts ==
  ASSUME StockInv, Tallies, Chain, past # <<>>, Head(past).id \in DOMAIN moves,
         ~Irregular(Head(past).id), UnpostDocument(Head(past).id)
  PROVE  stock' = Head(past).before
<1>1. Undoable(past[1].before, stock, past[1].id) /\ Head(past) = past[1]
  <2>1. PICK S : past \in Seq(S)
    BY DEF Chain
  <2>2. 1 \in 1..Len(past) /\ Head(past) = past[1]
    BY <2>1
  <2> QED
    BY <2>2 DEF Chain
<1> QED
  BY <1>1, UnpostReverts

\* The chain is kept by every step.
LEMMA ChainStep ==
  ASSUME LedgerInv, Chain, [CycleNext]_<<vars, past>>
  PROVE  Chain'
<1>1. StockInv /\ Tallies
  BY DEF LedgerInv, IInv
<1>2. CASE PostDocument /\ past' = IF Backfilled THEN <<>> ELSE <<Posted>> \o past
  <2>1. CASE Backfilled
    BY <1>2, <2>1, NoChain
  <2>2. CASE ~Backfilled
    <3>1. Posted.before = stock /\ Undoable(stock, stock', Posted.id)
      BY <1>1, <1>2, <2>2, PostUndoable
    <3>2. past' = <<Posted>> \o past
      BY <1>2, <2>2
    <3> QED
      BY <3>1, <3>2, ChainGrows
  <2> QED
    BY <2>1, <2>2
<1>3. CASE PostOther /\ past' = <<>>
  BY <1>3, NoChain
<1>4. ASSUME NEW m \in DOMAIN moves, ~Irregular(m), UnpostLatest(m) PROVE Chain'
  <2>1. past # <<>> /\ m = Head(past).id /\ UnpostDocument(m) /\ past' = Tail(past)
    BY <1>4 DEF UnpostLatest
  <2>2. stock' = Head(past).before
    BY <1>1, <1>4, <2>1, LatestReverts
  <2> QED
    BY <2>1, <2>2, ChainShrinks
<1>5. ASSUME NEW m \in DOMAIN moves, UnpostEarlier(m) PROVE Chain'
  BY <1>5, NoChain DEF UnpostEarlier
<1>6. CASE UNCHANGED <<vars, past>>
  <2>1. past' = past /\ stock' = stock
    BY <1>6 DEF vars, stock
  <2> QED
    BY <2>1 DEF Chain
<1> QED
  BY <1>2, <1>3, <1>4, <1>5, <1>6 DEF CycleNext

\* No posting removes a movement, and a reversal removes its own.
LEMMA MovesOfStep ==
  ASSUME CycleNext
  PROVE  \/ DOMAIN moves \subseteq DOMAIN moves'
         \/ \E m \in DOMAIN moves :
              /\ ~Irregular(m) /\ (UnpostLatest(m) \/ UnpostEarlier(m))
              /\ DOMAIN moves' = DOMAIN moves \ {m}
<1>1. \A f, k, v : DOMAIN f \subseteq DOMAIN Put(f, k, v)
  BY DEF Put
<1>2. \A type, ref, q, cost, date :
        Inbound(type, ref, q, cost, date) => DOMAIN moves \subseteq DOMAIN moves'
  BY <1>1 DEF Inbound
<1>3. \A type, ref, q, date :
        Outbound(type, ref, q, date) => DOMAIN moves \subseteq DOMAIN moves'
  BY <1>1 DEF Outbound
<1>4. \A o, q, date : PostReturn(o, q, date) => DOMAIN moves \subseteq DOMAIN moves'
  BY <1>1 DEF PostReturn
<1>5. TransferIn => DOMAIN moves \subseteq DOMAIN moves'
  BY <1>1 DEF TransferIn
<1>6. PostDocument \/ PostOther => DOMAIN moves \subseteq DOMAIN moves'
  BY <1>1, <1>2, <1>3, <1>4, <1>5 DEF PostDocument, PostOther, PostReceipt, PostIssue,
       PostReturnAtAverage, PostStocktake, TransferOut
<1>7. ASSUME NEW m \in DOMAIN moves, UnpostLatest(m) \/ UnpostEarlier(m)
      PROVE  DOMAIN moves' = DOMAIN moves \ {m}
  <2>1. moves' = Dropped(moves, m)
    BY <1>7 DEF UnpostLatest, UnpostEarlier, UnpostDocument
  <2> QED
    BY <2>1 DEF Dropped
<1> QED
  BY <1>6, <1>7 DEF CycleNext

\* Reversing the latest document puts back balance, average, layers, rows and
\* difference journals to what they were before it was posted, after any history
\* of postings and regular reversals.
THEOREM LastInFirstOut == CycleSpec => UnpostUndoesPost
<1> DEFINE Undo == \A m \in DOMAIN moves :
                     past # <<>> /\ m = Head(past).id /\ m \notin DOMAIN moves'
                       => stock' = Head(past).before
<1>1. CycleInit => Chain
  <2> SUFFICES ASSUME CycleInit PROVE Chain
    OBVIOUS
  <2>1. past \in Seq({}) /\ Len(past) = 0
    BY DEF CycleInit
  <2> QED
    BY <2>1 DEF Chain
<1>2. LedgerInv /\ Chain /\ [CycleNext]_<<vars, past>> => Chain'
  BY ChainStep
<1>3. LedgerInv /\ Chain /\ [CycleNext]_<<vars, past>> => [Undo]_<<vars, past>>
  <2> SUFFICES ASSUME LedgerInv, Chain, CycleNext,
                      NEW m \in DOMAIN moves, past # <<>>, m = Head(past).id,
                      m \notin DOMAIN moves'
               PROVE  stock' = Head(past).before
    OBVIOUS
  <2>1. PICK k \in DOMAIN moves :
          /\ ~Irregular(k) /\ (UnpostLatest(k) \/ UnpostEarlier(k))
          /\ DOMAIN moves' = DOMAIN moves \ {k}
    BY MovesOfStep
  <2>2. k = m
    BY <2>1
  <2>3. UnpostDocument(m) /\ ~Irregular(m)
    BY <2>1, <2>2 DEF UnpostLatest, UnpostEarlier
  <2> QED
    BY <2>3, LatestReverts DEF LedgerInv, IInv
<1> QED
  BY <1>1, <1>2, <1>3, LedgersInvariant, PTL DEF CycleSpec, UnpostUndoesPost
=============================================================================
