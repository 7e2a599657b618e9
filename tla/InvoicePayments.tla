--------------------------- MODULE InvoicePayments ---------------------------
(***************************************************************************)
(* Sales invoices, the payments (receipt vouchers) posted against them and *)
(* the allocation rows that say how much of a payment settles which        *)
(* invoice (sales/services/flow.py, sales/views.py), for one customer in   *)
(* one currency, with several clients at work.                             *)
(*                                                                         *)
(* The database runs READ COMMITTED with row locks, and most handlers      *)
(* check a status before they take the lock or never take one.  A handler  *)
(* is one action where it reads under its locks, and a chain of actions    *)
(* (Begin, ..., Commit) where what it read may be stale when it writes; in *)
(* between, the request of client c is in req[c].  A refusal, an exception *)
(* or a lost server process rolls the open transaction back: Abort.        *)
(*                                                                         *)
(* Amounts are in cents.  Row ids keep their order only: a new row gets an *)
(* id above every one still known, a deleted payment that has journals or  *)
(* is named by a request included.                                         *)
(***************************************************************************)
EXTENDS Integers, FiniteSets, Functions

CONSTANTS
  Clients,       \* the users of the tenant, one request each at a time
  Invoices,      \* invoice ids
  CashInvoices,  \* the ones of type INVOICE_CASH: settled when posted
  Total,         \* SalesInvoice.grand_total
  Amounts,       \* amounts a payment or an allocation may carry
  DEC,           \* the tolerance of the checks, one cent in the code
  MaxPays,       \* bound: the highest payment id
  MaxAllocs      \* bound: the highest allocation id

ASSUME PaymentConstants ==
  /\ Invoices \subseteq Nat \ {0} /\ IsFiniteSet(Invoices)
  /\ CashInvoices \subseteq Invoices
  /\ Total \in Nat \ {0}
  /\ Amounts \subseteq Nat \ {0}
  /\ DEC \in Nat \ {0}
  /\ MaxPays \in Nat /\ MaxAllocs \in Nat

NoInvoice == 0
Idle == [op |-> "idle"]

Payment == [amount : Nat, posted : BOOLEAN, auto : Invoices \cup {NoInvoice}]
Allocation == [pay : 1..MaxPays, inv : Invoices, amt : Nat]

Requests ==
  [op : {"post_invoice", "collect", "settle"}, inv : Invoices, remaining : Int]
    \cup [op : {"unpost_invoice", "unpost_journals", "unpost_commit"},
          inv : Invoices, held : SUBSET (1..MaxPays), found : BOOLEAN]
    \cup [op : {"post_total", "post_rows"}, pay : 1..MaxPays, allocated : Nat,
          rows : SUBSET (1..MaxAllocs)]
    \cup [op : {"delete"}, pay : 1..MaxPays, unpost : BOOLEAN]
    \cup [op : {"edit"}, pay : 1..MaxPays, row : Payment]

VARIABLES
  status,    \* SalesInvoice.status, by invoice
  paid,      \* SalesInvoice.amount_paid, by invoice
  journals,  \* how many SALES_INVOICE journals each invoice has
  pays,      \* CustomerPayment rows, by id
  allocs,    \* PaymentAllocation rows, by id
  credits,   \* what the CUSTOMER_PAYMENT journals credit to AR, by payment id
  req        \* the request each client has under way

rows == <<status, paid, journals, pays, allocs, credits>>
vars == <<status, paid, journals, pays, allocs, credits, req>>
-----------------------------------------------------------------------------
(***************************************************************************)
(* Helpers                                                                 *)
(***************************************************************************)
MinOf(a, b) == IF a <= b THEN a ELSE b
MaxOf(a, b) == IF a >= b THEN a ELSE b
Put(f, k, v) == [x \in DOMAIN f \cup {k} |-> IF x = k THEN v ELSE f[x]]
Dropped(f, ks) == [x \in DOMAIN f \ ks |-> f[x]]
Highest(ids) ==
  IF ids = {} THEN 0 ELSE CHOOSE n \in ids : \A k \in ids : k <= n

InProgress(op) == {c \in Clients : req[c].op = op}

NextPay ==
  LET named == {req[c].pay : c \in InProgress("post_total")
                  \cup InProgress("post_rows") \cup InProgress("delete")
                  \cup InProgress("edit")}
  IN  1 + Highest(DOMAIN pays \cup DOMAIN credits \cup named)
NextAlloc ==
  1 + Highest(DOMAIN allocs \cup UNION {req[c].rows : c \in InProgress("post_rows")})
Bounded == DOMAIN pays' \subseteq 1..MaxPays /\ DOMAIN allocs' \subseteq 1..MaxAllocs

AllocsOf(p) == {a \in DOMAIN allocs : allocs[a].pay = p}
PostedOn(i) == {a \in DOMAIN allocs : allocs[a].inv = i /\ pays[allocs[a].pay].posted}
Sum(as) == SumFunctionOnSet([a \in DOMAIN allocs |-> allocs[a].amt], as)
SumFor(as, i) == Sum({a \in as : allocs[a].inv = i})

\* Deleting the payments ps takes their allocation rows with them.
Uncascaded(ps) == Dropped(allocs, {})   \* mutant: the rows stay
Cascaded(ps) == Dropped(allocs, UNION {AllocsOf(p) : p \in ps})

posted_allocations_total(i) == Sum(PostedOn(i))
Remaining(i) == Total - paid[i]

\* release_auto_cash_settlement: the payments the posting of i made itself.
AutosOrPayers(i) ==   \* mutant: every payment that settles the invoice
  {p \in DOMAIN pays : pays[p].auto = i \/ \E a \in AllocsOf(p) : allocs[a].inv = i}
Autos(i) == {p \in DOMAIN pays : pays[p].auto = i}

\* An unposting that is past its guard has deleted its payments, and later the
\* journals it found, in a transaction not yet committed: others wait for them.
Holds(r) == r.op \in {"unpost_journals", "unpost_commit"}
Releasing == {c \in Clients : Holds(req[c])}
Locked(p) == \E c \in Releasing : p \in req[c].held
JournalLocked(i) ==
  \E c \in InProgress("unpost_commit") : req[c].inv = i /\ req[c].found

Start(c, request) == req[c] = Idle /\ req' = [req EXCEPT ![c] = request]
Finish(c) == req' = [req EXCEPT ![c] = Idle]

\* guard_invoice_allocation_total and the check on the remainder before it.
Unguarded(i, incoming) == i \in Invoices   \* mutant: checked before the lock only
Fits(i, incoming) ==
  /\ incoming <= Remaining(i) + DEC
  /\ posted_allocations_total(i) + incoming <= Total + DEC

\* One journal per settled invoice and one for what is left "on account".
Credited(amount, allocated, settled) ==
  settled + (IF amount - allocated >= DEC THEN amount - allocated ELSE 0)
-----------------------------------------------------------------------------
(***************************************************************************)
(* Posting an invoice and collecting on it                                 *)
(***************************************************************************)

\* A payment of `amount' with `allocated' of it on invoice i, posted at birth.
NewReceipt(i, amount, allocated, auto) ==
  LET p == NextPay
  IN  /\ allocated > 0 => Fits(i, allocated)
      /\ pays' = Put(pays, p, [amount |-> amount, posted |-> TRUE, auto |-> auto])
      /\ allocs' = IF allocated = 0 THEN allocs
                   ELSE Put(allocs, NextAlloc,
                            [pay |-> p, inv |-> i, amt |-> allocated])
      /\ credits' = Put(credits, p, Credited(amount, allocated, allocated))
      /\ paid' = [paid EXCEPT ![i] = @ + allocated]
      /\ Bounded

\* post_sales_invoice up to its transaction: the status is read without a lock.
PostInvoiceBegin(c, i) ==
  /\ status[i] = "draft"
  /\ Start(c, [op |-> "post_invoice", inv |-> i, remaining |-> Remaining(i)])
  /\ UNCHANGED rows

\* post_journal is idempotent on the invoice and waits for the row it finds; the
\* product rows are locked, so two postings never look for the journal at once.
AnotherJournal(i) == journals[i] + 1   \* mutant: idempotent=False
JournalOnce(i) == IF journals[i] = 0 THEN 1 ELSE journals[i]

MarkPosted(i) ==
  /\ ~JournalLocked(i)
  /\ status' = [status EXCEPT ![i] = "posted"]
  /\ journals' = [journals EXCEPT ![i] = JournalOnce(i)]

\* The transaction of post_sales_invoice, with _auto_settle_cash_sale.
PostInvoiceCommit(c) ==
  LET i == req[c].inv
      remaining == req[c].remaining
  IN  /\ req[c].op = "post_invoice"
      /\ MarkPosted(i)
      /\ IF i \in CashInvoices /\ posted_allocations_total(i) = 0 /\ remaining > DEC
           THEN NewReceipt(i, remaining, remaining, i)
           ELSE UNCHANGED <<paid, pays, allocs, credits>>
      /\ Finish(c)

\* collect_invoice_payment on a draft: the posting and the receipt of `cash'
\* in one transaction, without the automatic settlement.
PostAndCollect(c, cash) ==
  LET i == req[c].inv
  IN  /\ req[c].op = "post_invoice"
      /\ MarkPosted(i)
      /\ NewReceipt(i, cash, MinOf(cash, MaxOf(Remaining(i), 0)), i)
      /\ i \in CashInvoices => Total - paid'[i] <= DEC
      /\ Finish(c)

\* collect_invoice_payment on a posted invoice: status and remainder are read
\* without a lock; the receipt belongs to the user, not to the posting.
CollectBegin(c, i) ==
  /\ status[i] = "posted"
  /\ Start(c, [op |-> "collect", inv |-> i, remaining |-> Remaining(i)])
  /\ UNCHANGED rows

\* A receipt that allocates something reads the status again, still unlocked.
CollectStatus(c) ==
  /\ req[c].op = "collect"
  /\ status[req[c].inv] = "posted"
  /\ req' = [req EXCEPT ![c].op = "settle"]
  /\ UNCHANGED rows

CollectCommit(c, cash) ==
  LET i == req[c].inv
      allocated == MinOf(cash, MaxOf(req[c].remaining, 0))
  IN  /\ req[c].op \in {"collect", "settle"}
      /\ allocated > 0 <=> req[c].op = "settle"
      /\ NewReceipt(i, cash, allocated, NoInvoice)
      /\ i \in CashInvoices => Total - paid'[i] <= DEC
      /\ UNCHANGED <<status, journals>>
      /\ Finish(c)
-----------------------------------------------------------------------------
(***************************************************************************)
(* Unposting an invoice (SalesInvoiceViewSet.unpost_invoice)               *)
(***************************************************************************)
UnpostInvoiceBegin(c, i) ==
  /\ status[i] = "posted"
  /\ Start(c, [op |-> "unpost_invoice", inv |-> i, held |-> {}, found |-> FALSE])
  /\ UNCHANGED rows

\* release_auto_cash_settlement and guard_invoice_payments_before_unpost.
NoGuard(i) == i \in Invoices   \* mutant: unposted whatever was collected
NoUserPayment(i) == \A a \in PostedOn(i) : allocs[a].pay \in Autos(i)

UnpostInvoiceGuard(c) ==
  LET i == req[c].inv
  IN  /\ req[c].op = "unpost_invoice"
      /\ \A p \in Autos(i) : ~Locked(p)
      /\ NoUserPayment(i)
      /\ req' = [req EXCEPT ![c].op = "unpost_journals", ![c].held = Autos(i)]
      /\ UNCHANGED rows

\* unpost_document: the journals it finds are locked and deleted.
UnpostInvoiceJournals(c) ==
  LET i == req[c].inv
  IN  /\ req[c].op = "unpost_journals"
      /\ ~JournalLocked(i)
      /\ req' = [req EXCEPT ![c].op = "unpost_commit", ![c].found = journals[i] > 0]
      /\ UNCHANGED rows

\* The draft status and amount_paid = 0, on an invoice nobody has locked since
\* the first check of its status; with them the deletions become visible.
UnpostInvoiceCommit(c) ==
  LET i == req[c].inv
      held == req[c].held
  IN  /\ req[c].op = "unpost_commit"
      /\ status' = [status EXCEPT ![i] = "draft"]
      /\ journals' = [journals EXCEPT ![i] = IF req[c].found THEN 0 ELSE @]
      /\ paid' = [paid EXCEPT ![i] = 0]
      /\ pays' = Dropped(pays, held)
      /\ allocs' = Cascaded(held)
      /\ credits' = Dropped(credits, {p \in held : pays[p].posted})
      /\ Finish(c)
-----------------------------------------------------------------------------
(***************************************************************************)
(* Payments                                                                *)
(***************************************************************************)

\* CustomerPaymentViewSet.create: at most the amount is allocated, the status
\* of the invoices is not looked at before the posting.
CreatePayment(c, amount, split) ==
  LET chosen == {i \in Invoices : split[i] > 0}
      p == NextPay
      first == NextAlloc
      rank(i) == Cardinality({j \in chosen : j < i})
      ids == {first + rank(i) : i \in chosen}
  IN  /\ req[c] = Idle
      /\ SumFunction(split) <= amount
      /\ pays' = Put(pays, p, [amount |-> amount, posted |-> FALSE,
                               auto |-> NoInvoice])
      /\ allocs' = [a \in DOMAIN allocs \cup ids |->
                      IF a \in DOMAIN allocs THEN allocs[a]
                      ELSE LET i == CHOOSE j \in chosen : first + rank(j) = a
                           IN  [pay |-> p, inv |-> i, amt |-> split[i]]]
      /\ Bounded
      /\ UNCHANGED <<status, paid, journals, credits, req>>

\* post_customer_payment before its transaction, first query: the sum.
PostPaymentTotal(c, p) ==
  LET allocated == Sum(AllocsOf(p))
  IN  /\ ~pays[p].posted
      /\ allocated <= pays[p].amount + DEC
      /\ Start(c, [op |-> "post_total", pay |-> p, allocated |-> allocated,
                   rows |-> {}])
      /\ UNCHANGED rows

\* Second query: the rows, whose invoices must be posted.
PostPaymentRows(c) ==
  LET read == AllocsOf(req[c].pay)
  IN  /\ req[c].op = "post_total"
      /\ \A a \in read : status[allocs[a].inv] = "posted"
      /\ req' = [req EXCEPT ![c].op = "post_rows", ![c].rows = read]
      /\ UNCHANGED rows

\* The transaction: under the locks of the payment and of its invoices, is it
\* still unposted and do the rows still fit?  A row deleted since makes the
\* closing save fail.
NotDeleted(p) == p \in DOMAIN pays   \* mutant: is_posted is not read again
StillUnposted(p) == p \in DOMAIN pays /\ ~pays[p].posted

PostPaymentCommit(c) ==
  LET p == req[c].pay
      read == req[c].rows
      settled == {allocs[a].inv : a \in read}
      before == IF p \in DOMAIN credits THEN credits[p] ELSE 0
  IN  /\ req[c].op = "post_rows"
      /\ StillUnposted(p) /\ ~Locked(p)
      /\ read \subseteq DOMAIN allocs
      /\ \A i \in settled : Fits(i, SumFor(read, i))
      /\ pays' = [pays EXCEPT ![p].posted = TRUE]
      /\ credits' = Put(credits, p, before +
                          Credited(pays[p].amount, req[c].allocated, Sum(read)))
      /\ paid' = [i \in Invoices |-> paid[i] + SumFor(read, i)]
      /\ UNCHANGED <<status, journals, allocs>>
      /\ Finish(c)

\* _reverse_allocations_amount_paid
NotReversed(as) == [i \in Invoices |-> paid[i]]   \* mutant: no reversal
Reversed(as) == [i \in Invoices |-> MaxOf(paid[i] - SumFor(as, i), 0)]

\* unpost_customer_payment: every check is repeated under the lock.
Unpost(p) ==
  /\ p \in DOMAIN pays /\ pays[p].posted /\ ~Locked(p)
  /\ credits' = Dropped(credits, {p})
  /\ paid' = Reversed(AllocsOf(p))
  /\ pays' = [pays EXCEPT ![p].posted = FALSE]
  /\ UNCHANGED <<status, journals, allocs>>

UnpostPayment(c, p) == req[c] = Idle /\ Unpost(p) /\ UNCHANGED req

(***************************************************************************)
(* CustomerPaymentViewSet.destroy: is_posted is read first; a posted       *)
(* payment is unposted in one transaction and its row deleted in another.  *)
(***************************************************************************)
DeleteBegin(c, p) ==
  /\ Start(c, [op |-> "delete", pay |-> p, unpost |-> pays[p].posted])
  /\ UNCHANGED rows

DeleteUnpost(c) ==
  /\ req[c].op = "delete" /\ req[c].unpost
  /\ Unpost(req[c].pay)
  /\ req' = [req EXCEPT ![c].unpost = FALSE]

DeleteRow(c) ==
  LET p == req[c].pay
  IN  /\ req[c].op = "delete" /\ ~req[c].unpost
      /\ p \in DOMAIN pays /\ ~Locked(p)
      /\ pays' = Dropped(pays, {p})
      /\ allocs' = Cascaded({p})
      /\ UNCHANGED <<status, paid, journals, credits>>
      /\ Finish(c)

(***************************************************************************)
(* CustomerPaymentViewSet.perform_update, posted or not: the row is read,  *)
(* and later written back whole (an INSERT when it is gone).               *)
(***************************************************************************)
EditBegin(c, p) ==
  /\ Start(c, [op |-> "edit", pay |-> p, row |-> pays[p]])
  /\ UNCHANGED rows

EditCommit(c, amount) ==
  LET p == req[c].pay
  IN  /\ req[c].op = "edit"
      /\ ~Locked(p)
      /\ pays' = Put(pays, p, [req[c].row EXCEPT !.amount = amount])
      /\ UNCHANGED <<status, paid, journals, allocs, credits>>
      /\ Finish(c)
-----------------------------------------------------------------------------
(***************************************************************************)
(* Allocations                                                             *)
(***************************************************************************)

\* allocate_customer_payment: under the locks of the payment and the invoice.
AnyAmount(p, amt) == amt <= pays[p].amount + DEC   \* mutant: earlier rows forgotten
WithinAmount(p, amt) == Sum(AllocsOf(p)) + amt <= pays[p].amount + DEC

Allocate(c, p, i, amt) ==
  /\ req[c] = Idle /\ ~Locked(p)
  /\ \A a \in AllocsOf(p) : allocs[a].inv # i   \* uniq_payment_invoice_allocation
  /\ WithinAmount(p, amt)
  /\ status[i] = "posted"
  /\ IF pays[p].posted THEN Fits(i, amt) ELSE amt <= Remaining(i) + DEC
  /\ allocs' = Put(allocs, NextAlloc, [pay |-> p, inv |-> i, amt |-> amt])
  /\ paid' = IF pays[p].posted THEN [paid EXCEPT ![i] = @ + amt] ELSE paid
  /\ UNCHANGED <<status, journals, pays, credits, req>>
  /\ Bounded

\* deallocate_customer_payment: not the settlement a posting made for itself.
Deallocate(c, a) ==
  LET p == allocs[a].pay
  IN  /\ req[c] = Idle /\ ~Locked(p)
      /\ pays[p].posted => pays[p].auto # allocs[a].inv
      /\ paid' = IF pays[p].posted THEN Reversed({a}) ELSE paid
      /\ allocs' = Dropped(allocs, {a})
      /\ UNCHANGED <<status, journals, pays, credits, req>>

Abort(c) ==
  /\ req[c] # Idle
  /\ Finish(c)
  /\ UNCHANGED rows
-----------------------------------------------------------------------------
Init ==
  /\ status = [i \in Invoices |-> "draft"]
  /\ paid = [i \in Invoices |-> 0]
  /\ journals = [i \in Invoices |-> 0]
  /\ pays = <<>> /\ allocs = <<>> /\ credits = <<>>
  /\ req = [c \in Clients |-> Idle]

PostOrCollect(c) ==
  \/ \E i \in Invoices : PostInvoiceBegin(c, i) \/ CollectBegin(c, i)
  \/ PostInvoiceCommit(c) \/ CollectStatus(c)
  \/ \E cash \in Amounts : PostAndCollect(c, cash) \/ CollectCommit(c, cash)

UnpostInvoice(c) ==
  \/ \E i \in Invoices : UnpostInvoiceBegin(c, i)
  \/ UnpostInvoiceGuard(c)
  \/ UnpostInvoiceJournals(c)
  \/ UnpostInvoiceCommit(c)

Pay(c) ==
  \/ \E amount \in Amounts, split \in [Invoices -> Amounts \cup {0}] :
       CreatePayment(c, amount, split)
  \/ \E p \in DOMAIN pays : PostPaymentTotal(c, p) \/ UnpostPayment(c, p)
  \/ PostPaymentRows(c)
  \/ PostPaymentCommit(c)

DeletePayment(c) ==
  \/ \E p \in DOMAIN pays : DeleteBegin(c, p)
  \/ DeleteUnpost(c)
  \/ DeleteRow(c)

\* What a posting collected beyond its invoice settles another one.
SpendsExcess(p, i) == pays[p].auto \notin {NoInvoice, i}

AllocateOwn(c, p) ==
  \E i \in Invoices, amt \in Amounts : ~SpendsExcess(p, i) /\ Allocate(c, p, i, amt)
AllocateExcess(c, p) ==
  \E i \in Invoices, amt \in Amounts : SpendsExcess(p, i) /\ Allocate(c, p, i, amt)
DeallocateRow(c, p) == \E a \in AllocsOf(p) : Deallocate(c, a)

EditAmount(c) ==
  \/ \E p \in DOMAIN pays : EditBegin(c, p)
  \/ \E amount \in Amounts : EditCommit(c, amount)
Core(c) ==
  \/ PostOrCollect(c) \/ UnpostInvoice(c) \/ Pay(c) \/ DeletePayment(c)
  \/ Abort(c)

Next ==
  \E c \in Clients :
    \/ Core(c) \/ EditAmount(c)
    \/ \E p \in DOMAIN pays :
         AllocateOwn(c, p) \/ AllocateExcess(c, p) \/ DeallocateRow(c, p)
Spec == Init /\ [][Next]_vars

(***************************************************************************)
(* Where the code keeps what its comments promise: nobody edits a payment, *)
(* spends the excess of a posting on another invoice or changes the rows   *)
(* of a payment while a posting of it is under way.                        *)
(***************************************************************************)
Quiet(p) ==
  \A c \in InProgress("post_total") \cup InProgress("post_rows") : req[c].pay # p
OrderlyNext ==
  \E c \in Clients :
    \/ Core(c)
    \/ \E p \in DOMAIN pays : Quiet(p) /\ (AllocateOwn(c, p) \/ DeallocateRow(c, p))
OrderlySpec == Init /\ [][OrderlyNext]_vars

-----------------------------------------------------------------------------
(***************************************************************************)
(* Properties                                                              *)
(***************************************************************************)

\* Every column has its type and every allocation row joins a live payment and
\* an invoice (on_delete=CASCADE): a request never leaves a row of a payment
\* that is gone, whoever deleted it meanwhile.
TypeOK ==
  /\ status \in [Invoices -> {"draft", "posted"}]
  /\ paid \in [Invoices -> Nat] /\ journals \in [Invoices -> Nat]
  /\ DOMAIN pays \cup DOMAIN credits \subseteq 1..MaxPays
  /\ pays \in [DOMAIN pays -> Payment] /\ credits \in [DOMAIN credits -> Nat]
  /\ DOMAIN allocs \subseteq 1..MaxAllocs
  /\ allocs \in [DOMAIN allocs -> Allocation]
  /\ \A a \in DOMAIN allocs : allocs[a].pay \in DOMAIN pays
  /\ req \in [Clients -> {Idle} \cup Requests]

\* The contract audit_ar_integrity checks (section 2): amount_paid, which every
\* handler moves by its own amounts and unposting resets from outside, is the
\* sum of the allocations of posted payments.
PaidIsAllocated ==
  \A i \in Invoices : paid[i] = posted_allocations_total(i)

\* Section 3 of the audit: a draft invoice carries no posted payment; whoever
\* unposted it was stopped by the guard, or its own settlements went with it.
DraftUnpaid ==
  \A i \in Invoices : status[i] = "draft" => PostedOn(i) = {}

\* Section 1 of the audit: however payments, allocations and automatic
\* settlements race, an invoice is never settled beyond its total and a cent.
NoOverAllocation ==
  \A i \in Invoices : posted_allocations_total(i) <= Total + DEC

\* No payment settles more than it brought in (and a cent).
WithinPayment ==
  \A p \in DOMAIN pays : Sum(AllocsOf(p)) <= pays[p].amount + DEC

\* The journals of a payment follow its state: a posted one has credited its
\* amount to the customer (to the cent) exactly once, an unposted one nothing.
CreditsMatch ==
  \A p \in DOMAIN pays :
    IF pays[p].posted
      THEN /\ p \in DOMAIN credits
           /\ pays[p].amount - DEC <= credits[p]
           /\ credits[p] <= pays[p].amount + DEC
      ELSE p \notin DOMAIN credits

\* However many clients post and unpost an invoice at once, it never has a
\* second sales journal, and while it is posted it has one: no unposting deletes
\* the journal of a posting that came between its own steps.
PostedHasJournal ==
  \A i \in Invoices :
    journals[i] <= 1 /\ (status[i] = "posted" => journals[i] = 1)

\* Unposting an invoice takes away the settlements its own posting made and no
\* other payment, nor its journals, even one collected on the same invoice.
UserMoneyStays ==
  [][\A i \in Invoices : status[i] = "posted" /\ status'[i] = "draft" =>
       \A p \in DOMAIN pays : pays[p].auto # i =>
         /\ p \in DOMAIN pays' /\ pays'[p] = pays[p]
         /\ p \in DOMAIN credits => p \in DOMAIN credits' /\ credits'[p] = credits[p]]_vars
=============================================================================
