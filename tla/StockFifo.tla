------------------------------ MODULE StockFifo ------------------------------
(***************************************************************************)
(* The FIFO cost ledger of ONE product of ONE tenant: stock movements, the *)
(* cost layers they open, the consumption rows that tie an issue to the    *)
(* layers it ate, and the reconciliation rows that tie a receipt to the    *)
(* provisional layers it filled (inventory/fifo.py, inventory/services.py).*)
(*                                                                         *)
(* Every action is one database transaction of the code, taken as serial:  *)
(* each holds the lock of the product row while it writes; the transfer,   *)
(* which records two movements under that lock, is split in two steps.     *)
(* The guards of reverse_stock_movements and the balance a stocktake       *)
(* compares are read before that lock is taken; here they are fresh.       *)
(*                                                                         *)
(* Quantities are whole units.  Unit costs are integers in steps of 0.0001 *)
(* (the quantize(Q4) of the code), movement totals in cents.  Row ids keep *)
(* only their order: a new row gets an id above every live one.  A         *)
(* movement opens at most one layer, so that layer carries the movement's  *)
(* id (source_movement); an opening layer carries an id no movement has.   *)
(***************************************************************************)
EXTENDS Integers, FiniteSets, Functions

CONSTANTS
  Qtys,           \* quantities a document line may carry
  Costs,          \* unit costs a receipt may carry
  Dates,          \* movement dates
  Counts,         \* quantities a stocktake may count
  LegacyIn,       \* quantities a receipt before layers carried (0: none)
  LegacyOut,      \* quantities an issue before layers carried (0: none)
  AllowNegative,  \* SalesSettings.allow_negative_stock_default
  MaxId           \* bound: the highest row id

ASSUME ConstantsAssumption ==
  /\ Qtys \subseteq Nat \ {0}
  /\ Costs \subseteq Nat
  /\ Dates \subseteq Nat \ {0}
  /\ Counts \subseteq Nat
  /\ LegacyIn \subseteq Nat
  /\ LegacyOut \subseteq Nat
  /\ AllowNegative \in BOOLEAN
  /\ MaxId \in Nat /\ MaxId >= 3

OpeningDate == 0          \* OPENING_LAYER_DATE: before every real date
NoTransfer == [qty |-> 0, cost |-> 0, date |-> 0]

InboundTypes == {"IN", "ADJUST_IN", "RETURN_IN"}
OutboundTypes == {"OUT", "ADJUST_OUT", "RETURN_OUT"}
References == {"DOCUMENT", "TRANSFER", "STOCKTAKE"}

Move == [type : InboundTypes \cup OutboundTypes, ref : References,
         qty : Nat, cost : Nat, total : Nat]
Layer == [date : Nat, orig : Nat, rem : Nat, cost : Nat, prov : BOOLEAN,
          recd : Nat]
Row == [qty : Nat, cost : Nat]    \* a consumption or a reconciliation

VARIABLES
  onHand,    \* Product.quantity_on_hand
  avg,       \* Product.avg_cost
  moves,     \* StockMovement rows, by id
  layers,    \* StockLayer rows, by id
  cons,      \* StockLayerConsumption rows, by <<movement, layer>>
  recs,      \* StockLayerReconciliation rows, by <<movement, layer>>
  diffs,     \* STOCK_PROVISIONAL_RECONCILE journals, by movement, in cents
  transfer   \* the receiving half of a transfer in progress

stock == <<onHand, avg, moves, layers, cons, recs, diffs>>
vars == <<onHand, avg, moves, layers, cons, recs, diffs, transfer>>
-----------------------------------------------------------------------------
(***************************************************************************)
(* Helpers                                                                 *)
(***************************************************************************)
MinOf(a, b) == IF a <= b THEN a ELSE b
MaxOf(a, b) == IF a >= b THEN a ELSE b

\* The table f with row v stored under key k.
Put(f, k, v) == [x \in DOMAIN f \cup {k} |-> IF x = k THEN v ELSE f[x]]

\* Decimal.quantize: the nearest integer to n / d, ties to the even one.
RoundHalfEven(n, d) ==
  LET q == n \div d
      r == n % d
  IN  IF 2 * r > d \/ (2 * r = d /\ q % 2 = 1) THEN q + 1 ELSE q
Quantize(n, d) ==
  IF n >= 0 THEN RoundHalfEven(n, d) ELSE -RoundHalfEven(-n, d)
Cents(amount) == Quantize(amount, 100)

\* AutoField: an id above every id in use.
NextId(ids) ==
  IF ids = {} THEN 1 ELSE 1 + CHOOSE n \in ids : \A k \in ids : k <= n

(***************************************************************************)
(* What a greedy walk takes from each item: it goes through the items in   *)
(* the order <<earlier, later>> \in order and takes all it can of q.  The  *)
(* loops of consume, reconcile_provisional, restore_partial, unreconcile   *)
(* and trim_opening_layers are this walk over different items.             *)
(***************************************************************************)
DrawForgetful(avail, order, q) ==   \* mutant: remaining is never reduced
  [i \in DOMAIN avail |-> MinOf(avail[i], q)]
Draw(avail, order, q) ==
  [i \in DOMAIN avail |->
     LET before == SumFunctionOnSet(
                     avail, {k \in DOMAIN avail : <<k, i>> \in order})
     IN  IF before >= q THEN 0 ELSE MinOf(avail[i], q - before)]

(***************************************************************************)
(* The layer queue                                                         *)
(***************************************************************************)
Rem(ls) == [l \in DOMAIN ls |-> ls[l].rem]
OpenQty(ls) == SumFunction(Rem(ls))
OpenValue(ls) == SumFunction([l \in DOMAIN ls |-> ls[l].rem * ls[l].cost])

Provisional(ls) == {l \in DOMAIN ls : ls[l].prov}
Pending(ls) == [l \in Provisional(ls) |-> ls[l].orig - ls[l].recd]
PendingQty(ls) == SumFunction(Pending(ls))

Older(ls, k, l) ==
  \/ ls[k].date < ls[l].date
  \/ ls[k].date = ls[l].date /\ k < l
Fifo(ls) == {p \in (DOMAIN ls) \X (DOMAIN ls) : Older(ls, p[1], p[2])}
Lifo(ls) == {p \in (DOMAIN ls) \X (DOMAIN ls) : Older(ls, p[2], p[1])}

AvgCost(ls) ==
  IF OpenQty(ls) = 0 THEN 0 ELSE Quantize(OpenValue(ls), OpenQty(ls))

LastLayerCost(ls) ==
  IF DOMAIN ls = {} THEN 0
  ELSE ls[CHOOSE l \in DOMAIN ls :
            \A k \in DOMAIN ls : k = l \/ Older(ls, k, l)].cost

\* Cover a positive balance the open layers do not reach by an opening layer.
Backfill(ls, balance, cost) ==
  LET shortfall == balance - OpenQty(ls)
  IN  IF balance > 0 /\ shortfall > 0
        THEN Put(ls, NextId(DOMAIN ls \cup DOMAIN moves),
                 [date |-> OpeningDate, orig |-> shortfall, rem |-> shortfall,
                  cost |-> cost, prov |-> FALSE, recd |-> 0])
        ELSE ls

Consume(ls, take) ==
  [l \in DOMAIN ls |-> [ls[l] EXCEPT !.rem = @ - take[l]]]
RefillAtHead(ls, give) ==   \* mutant: the place in the queue is lost
  [l \in DOMAIN ls |->
     IF l \in DOMAIN give
       THEN [ls[l] EXCEPT !.rem = @ + give[l], !.date = OpeningDate] ELSE ls[l]]
Refill(ls, give) ==
  [l \in DOMAIN ls |->
     IF l \in DOMAIN give THEN [ls[l] EXCEPT !.rem = @ + give[l]] ELSE ls[l]]
Reconcile(ls, fill) ==
  [l \in DOMAIN ls |->
     IF l \in DOMAIN fill THEN [ls[l] EXCEPT !.recd = @ + fill[l]] ELSE ls[l]]
Reopen(ls, open) ==
  [l \in DOMAIN ls |->
     IF l \in DOMAIN open THEN [ls[l] EXCEPT !.recd = @ - open[l]] ELSE ls[l]]

WithRowsAtAverage(rows, m, taken, ls) ==   \* mutant: the row keeps avg_cost
  [r \in DOMAIN rows \cup {<<m, l>> : l \in {k \in DOMAIN taken : taken[k] > 0}}
     |-> IF r \in DOMAIN rows THEN rows[r]
         ELSE [qty |-> taken[r[2]], cost |-> avg]]
\* Rows <<m, l>> for what movement m took of each layer l, at l's cost.
WithRows(rows, m, taken, ls) ==
  [r \in DOMAIN rows \cup {<<m, l>> : l \in {k \in DOMAIN taken : taken[k] > 0}}
     |-> IF r \in DOMAIN rows THEN rows[r]
         ELSE [qty |-> taken[r[2]], cost |-> ls[r[2]].cost]]

\* What movement m has consumed (rows = cons) or filled (rows = recs).
RowsOf(rows, m) ==
  [l \in {r[2] : r \in {s \in DOMAIN rows : s[1] = m}} |-> rows[<<m, l>>].qty]
\* What has been consumed of layer l (rows = cons) or filled (rows = recs).
RowsOn(rows, l) ==
  [m \in {r[1] : r \in {s \in DOMAIN rows : s[2] = l}} |-> rows[<<m, l>>].qty]
\* What a draw costs at the layers' unit costs.
CostOf(taken, ls) ==
  SumFunction([l \in DOMAIN taken |-> taken[l] * ls[l].cost])

SignedReturnIn(m) ==   \* mutant: a purchase return replayed as a supply
  IF moves[m].type \in InboundTypes \cup {"RETURN_OUT"} THEN moves[m].qty
  ELSE -moves[m].qty
Signed(m) == IF moves[m].type \in InboundTypes THEN moves[m].qty
             ELSE -moves[m].qty

\* The quantity a replay of the movements ms arrives at.
Balance(ms) == SumFunctionOnSet([m \in DOMAIN moves |-> Signed(m)], ms)

\* The bound: no row above MaxId.
Bounded == DOMAIN moves' \cup DOMAIN layers' \subseteq 1..MaxId
-----------------------------------------------------------------------------
(***************************************************************************)
(* record_stock_movement, inbound: the quantity first fills the pending    *)
(* provisional layers, oldest first; what is left stays open in a layer of *)
(* the movement, and a journal books the cost difference on what it filled *)
(***************************************************************************)
Inbound(type, ref, q, cost, date) ==
  LET ls0 == Backfill(layers, onHand, avg)
      m == NextId(DOMAIN moves \cup DOMAIN ls0)
      fill == Draw(Pending(ls0), Fifo(ls0), q)
      filled == SumFunction(fill)
      diff == Cents(filled * cost - CostOf(fill, ls0))
      ls1 == Put(Reconcile(ls0, fill), m,
                 [date |-> date, orig |-> q, rem |-> q - filled,
                  cost |-> cost, prov |-> FALSE, recd |-> 0])
  IN  /\ layers' = ls1
      /\ recs' = WithRows(recs, m, fill, ls0)
      /\ diffs' = IF diff = 0 THEN diffs ELSE Put(diffs, m, diff)
      /\ moves' = Put(moves, m, [type |-> type, ref |-> ref, qty |-> q,
                                 cost |-> cost, total |-> Cents(q * cost)])
      /\ onHand' = onHand + q
      /\ avg' = AvgCost(ls1)
      /\ cons' = cons
      /\ Bounded

(***************************************************************************)
(* record_stock_movement, outbound: the quantity eats the open layers in   *)
(* FIFO order; what they do not cover opens a provisional layer at the     *)
(* last known cost, consumed at once.                                      *)
(***************************************************************************)
Outbound(type, ref, q, date) ==
  LET ls0 == Backfill(layers, onHand, avg)
      m == NextId(DOMAIN moves \cup DOMAIN ls0)
      take == Draw(Rem(ls0), Fifo(ls0), q)
      uncovered == q - SumFunction(take)
      guess == IF avg > 0 THEN avg ELSE LastLayerCost(ls0)
      total == Cents(CostOf(take, ls0) + uncovered * guess)
      ls1 == IF uncovered = 0 THEN Consume(ls0, take)
             ELSE Put(Consume(ls0, take), m,
                      [date |-> date, orig |-> uncovered, rem |-> 0,
                       cost |-> guess, prov |-> TRUE, recd |-> 0])
  IN  /\ q <= onHand \/ AllowNegative
      /\ layers' = ls1
      /\ cons' = WithRows(cons, m,
                          IF uncovered = 0 THEN take ELSE Put(take, m, uncovered),
                          ls1)
      /\ moves' = Put(moves, m, [type |-> type, ref |-> ref, qty |-> q,
                                 cost |-> Quantize(100 * total, q),
                                 total |-> total])
      /\ onHand' = onHand - q
      /\ avg' = AvgCost(ls1)
      /\ UNCHANGED <<recs, diffs>>
      /\ Bounded

\* A receipt of goods (GOODS_RECEIPT, PURCHASE_INVOICE, SHIPMENT, ...).
PostReceipt(q, cost, date) ==
  /\ transfer = NoTransfer
  /\ Inbound("IN", "DOCUMENT", q, cost, date)
  /\ UNCHANGED transfer

\* A sale (OUT) or a purchase return (RETURN_OUT).
PostIssue(type, q, date) ==
  /\ transfer = NoTransfer
  /\ Outbound(type, "DOCUMENT", q, date)
  /\ UNCHANGED transfer

(***************************************************************************)
(* A sales return that names no original invoice, or one whose consumption *)
(* has all been given back: an inbound movement at the running average.    *)
(***************************************************************************)
PostReturnAtAverage(q, date) ==
  /\ transfer = NoTransfer
  /\ Inbound("RETURN_IN", "DOCUMENT", q, avg, date)
  /\ UNCHANGED transfer

(***************************************************************************)
(* A sales return of the original issue o (restores_movement): what o      *)
(* consumed goes back to the very layers it came from, last row first; a   *)
(* quantity beyond what o still holds opens a layer of its own.            *)
(***************************************************************************)
RestoreOrder(o, ls) ==
  {p \in (DOMAIN ls) \X (DOMAIN ls) :
     p[1] # p[2] /\ (p[1] = o \/ (p[2] # o /\ Older(ls, p[2], p[1])))}

\* The consumption rows once give[l] units of o's row on l have gone back.
ReleasedWhole(give, o) ==   \* mutant: a partly returned row is deleted
  [r \in {s \in DOMAIN cons : s[1] = o => give[s[2]] = 0} |-> cons[r]]
ReleasedNever(give, o) == [r \in DOMAIN cons |-> cons[r]]   \* mutant: rows stay
Released(give, o) ==
  [r \in {s \in DOMAIN cons : s[1] = o => give[s[2]] < cons[s].qty} |->
     IF r[1] = o THEN [cons[r] EXCEPT !.qty = @ - give[r[2]]] ELSE cons[r]]

PostReturn(o, q, date) ==
  LET ls0 == Backfill(layers, onHand, avg)
      m == NextId(DOMAIN moves \cup DOMAIN ls0)
      held == RowsOf(cons, o)
      give == Draw(held, RestoreOrder(o, ls0), q)
      given == SumFunction(give)
      restored == SumFunction([l \in DOMAIN give |-> give[l] * cons[<<o, l>>].cost])
      surplus == q - given
      surplusCost == Quantize(restored, given)
      total == IF surplus = 0 THEN Cents(restored)
               ELSE Cents(100 * Cents(restored) + surplus * surplusCost)
      ls1 == IF surplus = 0 THEN Refill(ls0, give)
             ELSE Put(Refill(ls0, give), m,
                      [date |-> date, orig |-> surplus, rem |-> surplus,
                       cost |-> surplusCost, prov |-> FALSE, recd |-> 0])
  IN  /\ transfer = NoTransfer
      /\ moves[o].type = "OUT" /\ moves[o].ref = "DOCUMENT"
      /\ given > 0
      /\ layers' = ls1
      /\ cons' = Released(give, o)
      /\ moves' = Put(moves, m, [type |-> "RETURN_IN", ref |-> "DOCUMENT",
                                 qty |-> q, cost |-> Quantize(100 * total, q),
                                 total |-> total])
      /\ onHand' = onHand + q
      /\ avg' = AvgCost(ls1)
      /\ UNCHANGED <<recs, diffs, transfer>>
      /\ Bounded

\* post_stocktake: move the balance to the counted quantity.
PostStocktake(counted, date) ==
  /\ transfer = NoTransfer
  /\ counted # onHand
  /\ IF counted > onHand
       THEN Inbound("ADJUST_IN", "STOCKTAKE", counted - onHand, avg, date)
       ELSE Outbound("ADJUST_OUT", "STOCKTAKE", onHand - counted, date)
  /\ UNCHANGED transfer

(***************************************************************************)
(* post_warehouse_transfer and unpost_warehouse_transfer: issue, then      *)
(* receive the same quantity at the average read before the issue.  The    *)
(* receiving half opens a layer without filling provisional ones.          *)
(***************************************************************************)
TransferOut(q, date) ==
  /\ transfer = NoTransfer
  /\ Outbound("OUT", "TRANSFER", q, date)
  /\ NextId(DOMAIN moves' \cup DOMAIN layers') < MaxId   \* room for TransferIn
  /\ transfer' = [qty |-> q, cost |-> avg, date |-> date]

TransferIn ==
  LET ls0 == Backfill(layers, onHand, avg)
      m == NextId(DOMAIN moves \cup DOMAIN ls0)
      ls1 == Put(ls0, m,
                 [date |-> transfer.date, orig |-> transfer.qty,
                  rem |-> transfer.qty, cost |-> transfer.cost,
                  prov |-> FALSE, recd |-> 0])
  IN  /\ transfer # NoTransfer
      /\ layers' = ls1
      /\ moves' = Put(moves, m, [type |-> "IN", ref |-> "TRANSFER",
                                 qty |-> transfer.qty, cost |-> transfer.cost,
                                 total |-> Cents(transfer.qty * transfer.cost)])
      /\ onHand' = onHand + transfer.qty
      /\ avg' = AvgCost(ls1)
      /\ transfer' = NoTransfer
      /\ UNCHANGED <<cons, recs, diffs>>
      /\ Bounded
-----------------------------------------------------------------------------
(***************************************************************************)
(* unpost_document on the stock side: the two guards, then                 *)
(* reverse_stock_movements and _recompute_product_stock.                   *)
(***************************************************************************)

\* find_stock_dependents: a later issue of the product depends on a supply.
AnyDependents(m) == m \in DOMAIN moves   \* mutant: no guard
NoDependents(m) ==
  moves[m].type \in InboundTypes =>
    \A k \in DOMAIN moves : k > m => moves[k].type \in InboundTypes

\* _assert_layers_not_consumed_elsewhere
ConsumedAnywhere(m) == m \in DOMAIN moves   \* mutant: no guard
NotConsumedElsewhere(m) ==
  \A r \in DOMAIN cons : r[2] = m => r[1] = m

(***************************************************************************)
(* unreconcile: reopen the provisional layers that m filled by its rows;   *)
(* a fill its own layer shows but no row records is reopened on earlier    *)
(* filled layers, newest first.                                            *)
(***************************************************************************)
UnreconciledNewest(m) ==   \* mutant: the fill is guessed, not looked up
  LET filled == SumFunction(RowsOf(recs, m))
      earlier == [l \in {k \in Provisional(layers) : k < m /\ layers[k].recd > 0}
                    |-> layers[l].recd]
  IN  Reopen(layers, Draw(earlier, Lifo(layers), filled))
Unreconciled(m) ==
  LET rows == RowsOf(recs, m)
      back == [l \in DOMAIN rows |-> MinOf(rows[l], layers[l].recd)]
      ls1 == Reopen(layers, back)
      unrecorded == layers[m].orig - layers[m].rem
                      - SumFunction(RowsOn(cons, m)) - SumFunction(rows)
      earlier == [l \in {k \in Provisional(ls1) : k < m /\ ls1[k].recd > 0}
                    |-> ls1[l].recd]
  IN  IF m \notin DOMAIN layers \/ unrecorded <= 0 THEN ls1
      ELSE Reopen(ls1, Draw(earlier, Lifo(ls1), unrecorded))

\* Deleting movement m cascades to its layer and to the rows of either.
Without(rows, m) == [r \in {s \in DOMAIN rows : m \notin {s[1], s[2]}} |-> rows[r]]
Dropped(table, m) == [k \in DOMAIN table \ {m} |-> table[k]]
WithoutDiff(m) == Dropped(diffs, m)

(***************************************************************************)
(* trim_opening_layers: a deleted receipt that had no layer leaves the     *)
(* opening layers, newest first, at the receipt's own cost while nothing   *)
(* has been consumed of the layer.                                         *)
(***************************************************************************)
Untrimmed(ls, rows, balance, q, cost) == ls   \* mutant: the surplus stays
Trimmed(ls, rows, balance, q, cost) ==
  LET surplus == MinOf(OpenQty(ls) - MaxOf(balance, 0), q)
      openings == [l \in {k \in DOMAIN ls : ls[k].date = OpeningDate /\ ls[k].rem > 0}
                     |-> ls[l].rem]
      newest == {p \in (DOMAIN ls) \X (DOMAIN ls) : p[1] > p[2]}
      take == Draw(openings, newest, surplus)
      left(l) == ls[l].rem - take[l]
      recost(l) == Quantize(ls[l].rem * ls[l].cost - take[l] * cost, left(l))
      recosted(l) == /\ take[l] > 0 /\ cost > 0 /\ left(l) > 0
                     /\ \A r \in DOMAIN rows : r[2] # l
                     /\ recost(l) >= 0
  IN  [l \in DOMAIN ls |->
         IF l \in DOMAIN openings /\ take[l] > 0
           THEN [ls[l] EXCEPT !.rem = @ - take[l], !.orig = @ - take[l],
                              !.cost = IF recosted(l) THEN recost(l) ELSE @]
           ELSE ls[l]]

UnpostDocument(m) ==
  LET inbound == moves[m].type \in InboundTypes
      held == RowsOf(cons, m)
      missing == moves[m].qty - SumFunction(held)
      ls1 == IF inbound THEN Unreconciled(m) ELSE Refill(layers, held)
      ls2 == Dropped(ls1, m)
      rows == Without(cons, m)
      balance == Balance(DOMAIN moves \ {m})
      unlayered == inbound /\ moves[m].type # "RETURN_IN" /\ m \notin DOMAIN layers
      ls3 == IF unlayered
               THEN Trimmed(ls2, rows, balance, moves[m].qty, moves[m].cost)
               ELSE ls2
      ls4 == IF inbound THEN Backfill(ls3, balance, avg)
             ELSE Backfill(ls3, balance - missing, avg)
      ls5 == IF inbound \/ missing = 0 THEN ls4
             ELSE Backfill(ls4, balance, moves[m].cost)
  IN  /\ transfer = NoTransfer
      /\ moves[m].ref = "DOCUMENT"
      /\ NoDependents(m)
      /\ NotConsumedElsewhere(m)
      /\ layers' = ls5
      /\ cons' = rows
      /\ recs' = Without(recs, m)
      /\ diffs' = WithoutDiff(m)
      /\ moves' = Dropped(moves, m)
      /\ onHand' = balance
      /\ avg' = AvgCost(ls5)
      /\ UNCHANGED transfer
      /\ Bounded
-----------------------------------------------------------------------------
(***************************************************************************)
(* A product as it was when layers were introduced: at most two receipts   *)
(* and an issue that opened no layer, the balance they left and their      *)
(* average cost on the product row.                                        *)
(***************************************************************************)
LegacyAvg(first, second, cost1, cost2) ==
  IF first + second = 0 THEN 0
  ELSE Quantize(first * cost1 + second * cost2, first + second)

LegacyMove(type, q, cost) ==
  [type |-> type, ref |-> "DOCUMENT", qty |-> q, cost |-> cost,
   total |-> Cents(q * cost)]

LegacyMoves(first, second, out, cost1, cost2) ==
  LET qty(m) == IF m = 1 THEN first ELSE IF m = 2 THEN second ELSE out
      mean == LegacyAvg(first, second, cost1, cost2)
  IN  [m \in {k \in 1..3 : qty(k) > 0} |->
         IF m = 1 THEN LegacyMove("IN", first, cost1)
         ELSE IF m = 2 THEN LegacyMove("IN", second, cost2)
         ELSE LegacyMove("OUT", out, mean)]

Init ==
  /\ \E first, second \in LegacyIn, out \in LegacyOut, cost1, cost2 \in Costs :
       /\ out <= first + second
       /\ onHand = first + second - out
       /\ avg = LegacyAvg(first, second, cost1, cost2)
       /\ moves = LegacyMoves(first, second, out, cost1, cost2)
  /\ layers = <<>> /\ cons = <<>> /\ recs = <<>> /\ diffs = <<>>
  /\ transfer = NoTransfer

Post ==
  \/ \E q \in Qtys, cost \in Costs, date \in Dates : PostReceipt(q, cost, date)
  \/ \E type \in {"OUT", "RETURN_OUT"}, q \in Qtys, date \in Dates :
       PostIssue(type, q, date)
  \/ \E q \in Qtys, date \in Dates : PostReturnAtAverage(q, date)
  \/ \E o \in DOMAIN moves, q \in Qtys, date \in Dates : PostReturn(o, q, date)
  \/ \E counted \in Counts, date \in Dates : PostStocktake(counted, date)
  \/ \E q \in Qtys, date \in Dates : TransferOut(q, date)
  \/ TransferIn

Next == Post \/ \E m \in DOMAIN moves : UnpostDocument(m)

Spec == Init /\ [][Next]_vars
-----------------------------------------------------------------------------
(***************************************************************************)
(* What holds of every run of the code                                     *)
(***************************************************************************)

\* Every column has its type and every foreign key resolves: a row of
\* consumption or of reconciliation joins a live movement and a live layer, a
\* difference journal a live movement (the on_delete=CASCADE of the models).
TypeOK ==
  /\ onHand \in Int /\ avg \in Nat
  /\ DOMAIN moves \cup DOMAIN layers \subseteq 1..MaxId
  /\ moves \in [DOMAIN moves -> Move]
  /\ layers \in [DOMAIN layers -> Layer]
  /\ cons \in [DOMAIN cons -> Row] /\ recs \in [DOMAIN recs -> Row]
  /\ DOMAIN cons \cup DOMAIN recs \subseteq (DOMAIN moves) \X (DOMAIN layers)
  /\ diffs \in [DOMAIN diffs -> Int] /\ DOMAIN diffs \subseteq DOMAIN moves
  /\ transfer \in [qty : Nat, cost : Nat, date : Nat]

\* Product.quantity_on_hand, which every posting moves by its own quantity and
\* every reversal replaces by a replay of what is left, is at all times the
\* balance of the live movements.
LedgerBalance == onHand = Balance(DOMAIN moves)

\* No sequence of issues, returns and reversals hands out a unit of a layer
\* twice or fills a provisional unit twice: what is left and what live
\* movements hold of a layer never exceeds what entered it.  An opening layer is
\* stock that exists: it is never provisional and no receipt fills it.
NoOverdraw ==
  \A l \in DOMAIN layers :
    /\ layers[l].rem + SumFunction(RowsOn(cons, l)) <= layers[l].orig
    /\ layers[l].recd <= layers[l].orig
    /\ layers[l].date = OpeningDate => layers[l].recd = 0 /\ ~layers[l].prov

\* A row of consumption carries the unit cost its layer has, whatever was
\* trimmed or recosted since: giving the units back returns the value they took.
SnapshotCost ==
  \A r \in DOMAIN cons : cons[r].cost = layers[r[2]].cost

\* A reversal touches no cost record of another document: the rows and the
\* layer of every movement that survives it survive as they were.
ForeignRowsSurvive ==
  [][DOMAIN moves' \subseteq DOMAIN moves =>
       \A r \in DOMAIN cons :
         r[1] \in DOMAIN moves' => r \in DOMAIN cons' /\ cons'[r] = cons[r]]_vars

\* With the layers left out, the product is the stock card its users know:
\* every posting enters one line at the end and moves the balance by it, every
\* reversal strikes one line out, and only a line no later issue relies on.
Card == INSTANCE StockCard
          WITH card <- [m \in DOMAIN moves |-> Signed(m)], balance <- onHand
ImplementsCard == Card!Spec
-----------------------------------------------------------------------------
(***************************************************************************)
(* The layers cover the balance.  They do under every posting, and under   *)
(* every reversal but three, the first of which a run shows:               *)
(*   - an issue whose provisional layer a receipt has filled: the layer    *)
(*     goes away with the record of the fill;                              *)
(*   - a sales return that gave units back to old layers: nothing takes    *)
(*     them out again;                                                     *)
(*   - an issue with fewer rows than units (partly returned, or older than *)
(*     the layers) while provisional units are pending.                    *)
(***************************************************************************)
DropsFill(m) == m \in Provisional(layers) /\ layers[m].recd > 0
UndoesRestore(m) ==
  /\ moves[m].type = "RETURN_IN"
  /\ m \in DOMAIN layers => layers[m].orig < moves[m].qty
ReturnsWhilePending(m) ==
  /\ moves[m].type \in OutboundTypes
  /\ SumFunction(RowsOf(cons, m)) < moves[m].qty
  /\ PendingQty(Dropped(layers, m)) > 0

Irregular(m) == DropsFill(m) \/ UndoesRestore(m) \/ ReturnsWhilePending(m)

RegularUnpost == \E m \in DOMAIN moves : ~Irregular(m) /\ UnpostDocument(m)
\* Documents are reversed as above, and so is an issue whose provisional layer
\* was filled.
FilledIssueSpec ==
  Init /\ [][\/ Post \/ RegularUnpost
             \/ \E m \in DOMAIN moves : DropsFill(m) /\ UnpostDocument(m)]_vars

\* The invariant the tests name: open units minus pending provisional units is
\* the balance (a product without layers keeps the balance it had).
NetCoverage ==
  \/ DOMAIN layers = {} /\ onHand >= 0
  \/ onHand = OpenQty(layers) - PendingQty(layers)

\* Every unit that entered a layer is still open, held by a live issue, or was
\* spent on a pending provisional layer when its receipt arrived.
LayerLedger ==
  \A l \in DOMAIN layers :
    layers[l].orig = layers[l].rem + SumFunction(RowsOn(cons, l))
                       + SumFunction(RowsOf(recs, l))

\* reconciled_qty of a provisional layer is the sum of its fill records, so a
\* receipt reversed out of order reopens the layers it filled and no other.
FillLedger ==
  \A l \in DOMAIN layers : layers[l].recd = SumFunction(RowsOn(recs, l))

\* The difference journals are the ones the live receipts call for: none is
\* orphaned, doubled or lost, and each books its own receipt's difference.
DiffLedger ==
  \A m \in DOMAIN moves :
    LET rows == RowsOf(recs, m)
        diff == Cents(SumFunction([l \in DOMAIN rows |->
                  recs[<<m, l>>].qty * (moves[m].cost - recs[<<m, l>>].cost)]))
    IN  diff = IF m \in DOMAIN diffs THEN diffs[m] ELSE 0

=============================================================================
