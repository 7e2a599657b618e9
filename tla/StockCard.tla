------------------------------ MODULE StockCard ------------------------------
(***************************************************************************)
(* What the stock side of a product promises, with the cost layers left    *)
(* out: a stock card.  Entries are added at its end, an entry may be struck *)
(* out only while no issue relies on it, the balance is carried along by   *)
(* one quantity per step.  StockFifo implements this (StockFifo!Card).     *)
(***************************************************************************)
EXTENDS Integers, FiniteSets, Functions

CONSTANT AllowNegative  \* whether an issue may take the balance below zero

VARIABLES
  card,      \* the entries: signed quantity, by id in the order of entry
  balance    \* the balance carried

\* The balance the card showed once entry n was made.
After(n) == SumFunctionOnSet(card, {k \in DOMAIN card : k <= n})

\* A card brought forward: it adds up and never showed a negative balance.
Init ==
  /\ DOMAIN card \subseteq Nat /\ IsFiniteSet(DOMAIN card)
  /\ \A k \in DOMAIN card : card[k] \in Int
  /\ balance = SumFunction(card) /\ balance >= 0
  /\ \A n \in DOMAIN card : After(n) >= 0

Enters(id, q) ==
  /\ id \in Nat /\ q \in Int
  /\ \A k \in DOMAIN card : k < id
  /\ q < 0 => balance + q >= 0 \/ AllowNegative
  /\ card' = [k \in DOMAIN card \cup {id} |-> IF k = id THEN q ELSE card[k]]
  /\ balance' = balance + q

StrikesOut(id) ==
  /\ card[id] > 0 => \A k \in DOMAIN card : k > id => card[k] >= 0
  /\ card' = [k \in DOMAIN card \ {id} |-> card[k]]
  /\ balance' = balance - card[id]

\* Which entry is made, or struck out, is read off the step itself.
Next ==
  \/ \E id \in DOMAIN card' \ DOMAIN card : Enters(id, card'[id])
  \/ \E id \in DOMAIN card : StrikesOut(id)

Spec == Init /\ [][Next]_<<card, balance>>

\* Where negative stock is refused no sequence of postings and reversals, in
\* whatever order, ever takes the balance below zero: the guard of a posting
\* looks at the balance and the guard of a reversal only at later issues
\* (record_stock_movement, find_stock_dependents); together they suffice.
NeverBelowZero == ~AllowNegative => balance >= 0
=============================================================================
