---------------------------- MODULE StockFifoCycle ----------------------------
(***************************************************************************)
(* Posting and reversing in cycles.  The ledger of StockFifo with a memory *)
(* of what the stock was before each of the latest documents: a posting    *)
(* adds to it, the reversal of the latest document takes from it, anything *)
(* else clears it: a transfer, a stocktake, a reversal out of order, and a *)
(* posting that first backfills an opening layer, which stays for good, or *)
(* that replaces an average no layer supports.                             *)
(***************************************************************************)
EXTENDS StockFifo, Sequences

VARIABLE past   \* the latest documents still posted, the last one first

CycleInit == Init /\ past = <<>>

\* The document just posted, with the stock as it was before.
Posted == [id |-> CHOOSE m \in DOMAIN moves' : m \notin DOMAIN moves,
           before |-> stock]

PostDocument ==
  \/ \E q \in Qtys, cost \in Costs, date \in Dates : PostReceipt(q, cost, date)
  \/ \E type \in {"OUT", "RETURN_OUT"}, q \in Qtys, date \in Dates :
       PostIssue(type, q, date)
  \/ \E q \in Qtys, date \in Dates : PostReturnAtAverage(q, date)
  \/ \E o \in DOMAIN moves, q \in Qtys, date \in Dates : PostReturn(o, q, date)

\* What the posting takes from before layers existed stays taken for good.
Backfilled ==
  \/ \E l \in DOMAIN layers' \ DOMAIN layers : layers'[l].date = OpeningDate
  \/ avg # AvgCost(layers)

PostOther ==
  \/ \E counted \in Counts, date \in Dates : PostStocktake(counted, date)
  \/ \E q \in Qtys, date \in Dates : TransferOut(q, date)
  \/ TransferIn

UnpostLatest(m) ==
  /\ past # <<>> /\ m = Head(past).id
  /\ UnpostDocument(m)
  /\ past' = Tail(past)

UnpostEarlier(m) ==
  /\ past # <<>> => m # Head(past).id
  /\ UnpostDocument(m)
  /\ past' = <<>>

CycleNext ==
  \/ PostDocument /\ past' = IF Backfilled THEN <<>> ELSE <<Posted>> \o past
  \/ PostOther /\ past' = <<>>
  \/ \E m \in DOMAIN moves :
       ~Irregular(m) /\ (UnpostLatest(m) \/ UnpostEarlier(m))

CycleSpec == CycleInit /\ [][CycleNext]_<<vars, past>>

\* Reversing the latest document puts back, to the row, what its posting
\* changed: balance, average, layers, consumption, fills and difference
\* journals.  So any number of documents posted and reversed last-in first-out
\* ends where it began (the promise of fifo.restore and unpost_document).
UnpostUndoesPost ==
  [][\A m \in DOMAIN moves :
       past # <<>> /\ m = Head(past).id /\ m \notin DOMAIN moves'
         => stock' = Head(past).before]_<<vars, past>>
=============================================================================
