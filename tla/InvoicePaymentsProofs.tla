------------------------ MODULE InvoicePaymentsProofs ------------------------
(***************************************************************************)
(* For any number of clients, invoices and payments: the types and foreign *)
(* keys, that a posted invoice has its one sales journal and no invoice    *)
(* has two, and that unposting an invoice takes its own settlements and no *)
(* other payment, whatever else is under way (Spec, edits of payments      *)
(* included); where nobody edits a payment, spends the excess of a posting *)
(* or changes the rows of a payment during its posting (OrderlySpec), that *)
(* no invoice is settled above its total, no payment settles more than it  *)
(* brought in, and the journals of a payment follow its state; and, when   *)
(* requests also run one at a time (OneAtATime), that what an invoice is   *)
(* paid is what posted payments settle on it, and nothing for a draft.     *)
(***************************************************************************)
EXTENDS InvoicePayments, SumLemmas

USE DEF Holds

\* What an unposting has deleted and not committed: settlements of its own
\* invoice, still there for everybody else, and in no other client's hands.
HeldAlone ==
  \A c \in Releasing : \A p \in req[c].held :
    /\ p \in DOMAIN pays /\ pays[p].auto = req[c].inv
    /\ \A d \in Releasing \ {c} : p \notin req[d].held

IInv == TypeOK /\ PostedHasJournal /\ HeldAlone

-----------------------------------------------------------------------------
(* Types and keys *)

Rows ==
  /\ status \in [Invoices -> {"draft", "posted"}]
  /\ paid \in [Invoices -> Nat] /\ journals \in [Invoices -> Nat]
  /\ DOMAIN pays \cup DOMAIN credits \subseteq 1..MaxPays
  /\ pays \in [DOMAIN pays -> Payment] /\ credits \in [DOMAIN credits -> Nat]
  /\ DOMAIN allocs \subseteq 1..MaxAllocs
  /\ allocs \in [DOMAIN allocs -> Allocation]
  /\ \A a \in DOMAIN allocs : allocs[a].pay \in DOMAIN pays

ReqOK == req \in [Clients -> {Idle} \cup Requests]

LEMMA TypeParts == TypeOK <=> Rows /\ ReqOK
  BY DEF TypeOK, Rows, ReqOK

LEMMA TypePartsNext == TypeOK' <=> Rows' /\ ReqOK'
  BY DEF TypeOK, Rows, ReqOK

\* What a request under way carries.
LEMMA RequestParts ==
  ASSUME ReqOK, NEW c \in Clients
  PROVE  /\ req[c].op \in {"post_invoice", "collect", "settle"} =>
              req[c].inv \in Invoices /\ req[c].remaining \in Int
         /\ req[c].op \in {"unpost_invoice", "unpost_journals", "unpost_commit"} =>
              /\ req[c].inv \in Invoices /\ req[c].held \in SUBSET (1..MaxPays)
              /\ req[c].found \in BOOLEAN
         /\ req[c].op \in {"post_total", "post_rows"} =>
              /\ req[c].pay \in 1..MaxPays /\ req[c].allocated \in Nat
              /\ req[c].rows \in SUBSET (1..MaxAllocs)
         /\ req[c].op = "delete" => req[c].pay \in 1..MaxPays /\ req[c].unpost \in BOOLEAN
         /\ req[c].op = "edit" => req[c].pay \in 1..MaxPays /\ req[c].row \in Payment
<1>1. req[c] \in {Idle} \cup Requests
  BY DEF ReqOK
<1> QED
  BY <1>1 DEF Requests, Idle

LEMMA StartOK ==
  ASSUME ReqOK, NEW c \in Clients, NEW r \in Requests, Start(c, r)
  PROVE  ReqOK'
  BY DEF ReqOK, Start

LEMMA FinishOK ==
  ASSUME ReqOK, NEW c \in Clients, Finish(c)
  PROVE  ReqOK'
  BY DEF ReqOK, Finish

\* The allocation rows are finite in number, and so are sums over them.
LEMMA SumOK ==
  ASSUME Rows, NEW as \in SUBSET DOMAIN allocs
  PROVE  /\ IsFiniteSet(as) /\ Sum(as) \in Nat
         /\ \A i : SumFor(as, i) \in Nat
<1> DEFINE f == [a \in DOMAIN allocs |-> allocs[a].amt]
<1>1. IsFiniteSet(1..MaxAllocs)
  BY FS_Interval, PaymentConstants
<1>2. \A bs \in SUBSET DOMAIN allocs : IsFiniteSet(bs)
  BY <1>1, FS_Subset DEF Rows
<1>3. \A a \in DOMAIN allocs : f[a] \in Nat
  BY DEF Rows, Allocation
<1>4. \A bs \in SUBSET DOMAIN allocs : Sum(bs) \in Nat
  <2> SUFFICES ASSUME NEW bs \in SUBSET DOMAIN allocs PROVE SumFunctionOnSet(f, bs) \in Nat
    BY DEF Sum
  <2> HIDE DEF f
  <2> QED
    BY <1>2, <1>3, SumNat
<1> QED
  BY <1>2, <1>4 DEF SumFor

LEMMA UpTo ==
  ASSUME NEW ids, ids \subseteq 1..MaxPays \/ ids \subseteq 1..MaxAllocs
  PROVE  IsFiniteSet(ids) /\ ids \in SUBSET Nat
<1>1. MaxPays \in Nat /\ MaxAllocs \in Nat
  BY PaymentConstants
<1>2. IsFiniteSet(1..MaxPays) /\ IsFiniteSet(1..MaxAllocs)
  BY <1>1, FS_Interval
<1> QED
  BY <1>1, <1>2, FS_Subset

\* A new row is given an id above every one known.
LEMMA AboveAll ==
  ASSUME NEW ids \in SUBSET Nat, IsFiniteSet(ids)
  PROVE  /\ 1 + Highest(ids) \in Nat \ {0}
         /\ \A k \in ids : k < 1 + Highest(ids)
<1>1. CASE ids = {}
  BY <1>1 DEF Highest
<1>2. CASE ids # {}
  <2> DEFINE n == CHOOSE n \in ids : \A k \in ids : k <= n
  <2>1. n \in ids /\ \A k \in ids : k <= n
    BY <1>2, GreatestElement
  <2>2. Highest(ids) = n
    BY <1>2 DEF Highest
  <2> HIDE DEF n
  <2>3. n \in Nat /\ \A k \in ids : k \in Nat
    BY <2>1
  <2> QED
    BY <2>1, <2>2, <2>3
<1> QED
  BY <1>1, <1>2

LEMMA NextPayNew ==
  ASSUME Rows, ReqOK
  PROVE  /\ NextPay \in Nat \ {0} /\ NextPay \notin DOMAIN pays \cup DOMAIN credits
         /\ \A c \in Clients : req[c].op \in {"post_total", "post_rows", "delete", "edit"} =>
              req[c].pay # NextPay
<1> DEFINE named == {req[c].pay : c \in InProgress("post_total")
                       \cup InProgress("post_rows") \cup InProgress("delete")
                       \cup InProgress("edit")}
           ids == DOMAIN pays \cup DOMAIN credits \cup named
<1>1. named \subseteq 1..MaxPays
  BY RequestParts DEF InProgress
<1>2. ids \subseteq 1..MaxPays
  BY <1>1 DEF Rows
<1>3. IsFiniteSet(ids) /\ ids \in SUBSET Nat
  <2> HIDE DEF ids
  <2> QED
    BY <1>2, UpTo
<1>4. NextPay = 1 + Highest(ids)
  BY DEF NextPay
<1>5. \A c \in Clients : req[c].op \in {"post_total", "post_rows", "delete", "edit"} =>
        req[c].pay \in ids
  BY DEF InProgress
<1>6. DOMAIN pays \cup DOMAIN credits \subseteq ids
  OBVIOUS
<1> HIDE DEF ids
<1>7. NextPay \in Nat \ {0} /\ \A k \in ids : k < NextPay
  BY <1>3, <1>4, AboveAll
<1>8. NextPay \notin ids
  BY <1>3, <1>7
<1> QED
  BY <1>5, <1>6, <1>7, <1>8

LEMMA NextAllocNew ==
  ASSUME Rows, ReqOK
  PROVE  /\ NextAlloc \in Nat \ {0}
         /\ \A a \in DOMAIN allocs : a < NextAlloc
         /\ \A c \in Clients : req[c].op = "post_rows" => NextAlloc \notin req[c].rows
<1> DEFINE ids == DOMAIN allocs \cup UNION {req[c].rows : c \in InProgress("post_rows")}
<1>1. ids \subseteq 1..MaxAllocs
  BY RequestParts DEF InProgress, Rows
<1>2. IsFiniteSet(ids) /\ ids \in SUBSET Nat
  <2> HIDE DEF ids
  <2> QED
    BY <1>1, UpTo
<1>3. NextAlloc = 1 + Highest(ids)
  BY DEF NextAlloc
<1>4. \A c \in Clients : req[c].op = "post_rows" => req[c].rows \subseteq ids
  BY DEF InProgress
<1>5. DOMAIN allocs \subseteq ids
  OBVIOUS
<1> HIDE DEF ids
<1>6. NextAlloc \in Nat \ {0} /\ \A k \in ids : k < NextAlloc
  BY <1>2, <1>3, AboveAll
<1>7. NextAlloc \notin ids
  BY <1>2, <1>6
<1> QED
  BY <1>4, <1>5, <1>6, <1>7

-----------------------------------------------------------------------------
(* What a step does to the payments that were there *)

\* They stay as they are, with their journals.
SamePays ==
  \A p \in DOMAIN pays :
    /\ p \in DOMAIN pays' /\ pays'[p] = pays[p]
    /\ p \in DOMAIN credits => p \in DOMAIN credits' /\ credits'[p] = credits[p]

\* A receipt of a posting or a collection is a new payment, with at most one
\* row; nothing else changes but the amount paid of its invoice.
LEMMA ReceiptKeeps ==
  ASSUME Rows, ReqOK, NEW i \in Invoices, NEW amount \in Nat, NEW allocated \in Nat,
         NEW auto \in Invoices \cup {NoInvoice}, NewReceipt(i, amount, allocated, auto),
         status' \in [Invoices -> {"draft", "posted"}], journals' \in [Invoices -> Nat]
  PROVE  Rows' /\ SamePays
<1>1. /\ NextPay \notin DOMAIN pays \cup DOMAIN credits
      /\ DOMAIN pays' = DOMAIN pays \cup {NextPay}
      /\ DOMAIN credits' = DOMAIN credits \cup {NextPay}
  BY NextPayNew DEF NewReceipt, Put
<1>2. /\ NextPay \in 1..MaxPays /\ DOMAIN allocs' \subseteq 1..MaxAllocs
      /\ DOMAIN pays' \cup DOMAIN credits' \subseteq 1..MaxPays
  BY <1>1 DEF NewReceipt, Bounded, Rows
<1>3. pays' \in [DOMAIN pays' -> Payment]
  BY <1>1 DEF NewReceipt, Put, Rows, Payment
<1>4. credits' \in [DOMAIN credits' -> Nat]
  <2>1. Credited(amount, allocated, allocated) \in Nat
    BY PaymentConstants DEF Credited
  <2> QED
    BY <1>1, <2>1 DEF NewReceipt, Put, Rows
<1>5. allocs' \in [DOMAIN allocs' -> Allocation]
  BY <1>2 DEF NewReceipt, Put, Rows, Allocation
<1>6. \A a \in DOMAIN allocs' : allocs'[a].pay \in DOMAIN pays'
  BY <1>1 DEF NewReceipt, Put, Rows
<1>7. paid' \in [Invoices -> Nat]
  BY DEF NewReceipt, Rows
<1>8. SamePays
  BY <1>1 DEF NewReceipt, Put, SamePays
<1> QED
  BY <1>2, <1>3, <1>4, <1>5, <1>6, <1>7, <1>8 DEF Rows

\* Deleting payments with their rows leaves types and keys right.
LEMMA DropKeeps ==
  ASSUME Rows, NEW ps, pays' = Dropped(pays, ps), allocs' = Cascaded(ps)
  PROVE  /\ pays' \in [DOMAIN pays' -> Payment] /\ DOMAIN pays' = DOMAIN pays \ ps
         /\ \A p \in DOMAIN pays \ ps : pays'[p] = pays[p]
         /\ DOMAIN allocs' \subseteq DOMAIN allocs
         /\ allocs' \in [DOMAIN allocs' -> Allocation]
         /\ \A a \in DOMAIN allocs' : allocs'[a] = allocs[a]
         /\ \A a \in DOMAIN allocs' : allocs'[a].pay \in DOMAIN pays'
         /\ \A a \in DOMAIN allocs : allocs[a].pay \notin ps => a \in DOMAIN allocs'
<1>1. DOMAIN pays' = DOMAIN pays \ ps /\ \A p \in DOMAIN pays \ ps : pays'[p] = pays[p]
  BY DEF Dropped
<1>2. /\ DOMAIN allocs' = DOMAIN allocs \ UNION {AllocsOf(p) : p \in ps}
      /\ \A a \in DOMAIN allocs' : allocs'[a] = allocs[a]
  BY DEF Cascaded, Dropped
<1>3. \A a \in DOMAIN allocs : a \in UNION {AllocsOf(p) : p \in ps} <=> allocs[a].pay \in ps
  BY DEF AllocsOf
<1>4. pays' = [p \in DOMAIN pays \ ps |-> pays[p]]
  BY DEF Dropped
<1>5. allocs' = [a \in DOMAIN allocs \ UNION {AllocsOf(p) : p \in ps} |-> allocs[a]]
  BY DEF Cascaded, Dropped
<1>6. pays' \in [DOMAIN pays' -> Payment]
  BY <1>1, <1>4 DEF Rows
<1>7. allocs' \in [DOMAIN allocs' -> Allocation]
  BY <1>2, <1>5 DEF Rows
<1> QED
  BY <1>1, <1>2, <1>3, <1>6, <1>7 DEF Rows

LEMMA ReversedOK ==
  ASSUME Rows, NEW as \in SUBSET DOMAIN allocs
  PROVE  Reversed(as) \in [Invoices -> Nat]
<1>1. ASSUME NEW i \in Invoices PROVE MaxOf(paid[i] - SumFor(as, i), 0) \in Nat
  <2>1. SumFor(as, i) \in Nat
    BY SumOK
  <2>2. paid[i] \in Nat
    BY DEF Rows
  <2>3. \A m, n \in Nat : MaxOf(m - n, 0) \in Nat
    BY DEF MaxOf
  <2> QED
    BY <2>1, <2>2, <2>3
<1> QED
  BY <1>1 DEF Reversed

\* Unposting a payment: its journals go, its row stays.
LEMMA UnpostKeeps ==
  ASSUME Rows, NEW p, Unpost(p)
  PROVE  /\ Rows' /\ DOMAIN pays' = DOMAIN pays /\ ~Locked(p)
         /\ \A q \in DOMAIN pays : pays'[q].auto = pays[q].auto
         /\ UNCHANGED <<status, journals>>
<1>1. AllocsOf(p) \in SUBSET DOMAIN allocs
  BY DEF AllocsOf
<1>2. paid' \in [Invoices -> Nat]
  BY <1>1, ReversedOK DEF Unpost
<1>3. /\ DOMAIN pays' = DOMAIN pays /\ pays' \in [DOMAIN pays' -> Payment]
      /\ \A q \in DOMAIN pays : pays'[q].auto = pays[q].auto
  BY DEF Unpost, Rows, Payment
<1>4. credits' \in [DOMAIN credits' -> Nat] /\ DOMAIN credits' \subseteq DOMAIN credits
  BY DEF Unpost, Dropped, Rows
<1> QED
  BY <1>2, <1>3, <1>4 DEF Unpost, Rows

\* A payment a user entered is new, with its rows; nothing else changes.
LEMMA CreateKeeps ==
  ASSUME Rows, ReqOK, NEW c \in Clients, NEW amount \in Amounts,
         NEW split \in [Invoices -> Amounts \cup {0}], CreatePayment(c, amount, split)
  PROVE  /\ Rows' /\ SamePays /\ UNCHANGED <<status, paid, journals, credits, req>>
         /\ DOMAIN pays' = DOMAIN pays \cup {NextPay} /\ ~pays'[NextPay].posted
         /\ DOMAIN allocs \subseteq DOMAIN allocs'
         /\ \A a \in DOMAIN allocs : allocs'[a] = allocs[a]
         /\ \A a \in DOMAIN allocs' \ DOMAIN allocs : allocs'[a].pay = NextPay
<1>0. \A j \in Invoices : split[j] \in Nat
  <2>1. \A x \in Amounts \cup {0} : x \in Nat
    BY PaymentConstants
  <2> QED
    BY <2>1
<1> DEFINE chosen == {i \in Invoices : split[i] > 0}
           rank(i) == Cardinality({j \in chosen : j < i})
           ids == {NextAlloc + rank(i) : i \in chosen}
           row(a) == LET i == CHOOSE j \in chosen : NextAlloc + rank(j) = a
                     IN  [pay |-> NextPay, inv |-> i, amt |-> split[i]]
<1>1. /\ pays' = Put(pays, NextPay, [amount |-> amount, posted |-> FALSE, auto |-> NoInvoice])
      /\ allocs' = [a \in DOMAIN allocs \cup ids |-> IF a \in DOMAIN allocs THEN allocs[a] ELSE row(a)]
      /\ Bounded /\ UNCHANGED <<status, paid, journals, credits, req>>
  BY DEF CreatePayment
<1>2. NextPay \notin DOMAIN pays
  BY NextPayNew
<1>3. ASSUME NEW a \in ids
      PROVE  /\ row(a).pay = NextPay /\ row(a).inv \in Invoices /\ row(a).amt \in Nat
             /\ row(a) = [pay |-> row(a).pay, inv |-> row(a).inv, amt |-> row(a).amt]
  <2> DEFINE i == CHOOSE j \in chosen : NextAlloc + rank(j) = a
  <2>1. i \in chosen
    BY <1>3
  <2>2. row(a) = [pay |-> NextPay, inv |-> i, amt |-> split[i]]
    OBVIOUS
  <2> HIDE DEF i, row
  <2>3. i \in Invoices /\ split[i] \in Nat
    <3>1. i \in Invoices
      BY <2>1
    <3> QED
      BY <1>0, <3>1
  <2> QED
    BY <2>1, <2>2, <2>3
<1> HIDE DEF ids, row
<1>4. DOMAIN pays' = DOMAIN pays \cup {NextPay} /\ DOMAIN allocs' = DOMAIN allocs \cup ids
  BY <1>1 DEF Put
<1>5. DOMAIN pays' \subseteq 1..MaxPays /\ DOMAIN allocs' \subseteq 1..MaxAllocs
  BY <1>1 DEF Bounded
<1>6. pays' \in [DOMAIN pays' -> Payment] /\ ~pays'[NextPay].posted
  BY <1>1, <1>4, PaymentConstants DEF Put, Rows, Payment
<1>7. /\ \A a \in DOMAIN allocs : allocs'[a] = allocs[a]
      /\ \A a \in DOMAIN allocs' \ DOMAIN allocs : a \in ids /\ allocs'[a] = row(a)
  BY <1>1, <1>4
<1>8. allocs' \in [DOMAIN allocs' -> Allocation]
  <2>1. \A a \in DOMAIN allocs' : allocs'[a] \in Allocation
    BY <1>3, <1>4, <1>5, <1>7 DEF Allocation, Rows
  <2>2. allocs' = [a \in DOMAIN allocs' |-> allocs'[a]]
    BY <1>1
  <2> QED
    BY <2>1, <2>2
<1>9. \A a \in DOMAIN allocs' : allocs'[a].pay \in DOMAIN pays'
  BY <1>3, <1>4, <1>7 DEF Rows
<1>10. SamePays
  BY <1>1, <1>2, <1>4 DEF Put, SamePays
<1> QED
  BY <1>1, <1>3, <1>4, <1>5, <1>6, <1>7, <1>8, <1>9, <1>10 DEF Rows

-----------------------------------------------------------------------------
(* The three parts of the invariant, step by step *)

\* Whoever has deleted payments goes on to hold them, and nobody changes them.
LEMMA HeldKeeps ==
  ASSUME HeldAlone,
         \A d \in Clients : Holds(req'[d]) =>
            /\ req'[d] = req[d]
            /\ \A p \in req[d].held : p \in DOMAIN pays' /\ pays'[p].auto = pays[p].auto
  PROVE  HeldAlone'
  BY DEF HeldAlone, Releasing

LEMMA JournalsKeep ==
  ASSUME PostedHasJournal, UNCHANGED <<status, journals>>
  PROVE  PostedHasJournal'
  BY DEF PostedHasJournal

LEMMA MarkKeeps ==
  ASSUME Rows, PostedHasJournal, NEW i \in Invoices, MarkPosted(i)
  PROVE  /\ status' \in [Invoices -> {"draft", "posted"}] /\ journals' \in [Invoices -> Nat]
         /\ PostedHasJournal'
  BY DEF Rows, PostedHasJournal, MarkPosted, JournalOnce

LEMMA RowsSame ==
  ASSUME Rows, UNCHANGED rows
  PROVE  Rows'
  BY DEF Rows, rows

\* A request that has only read, or is given up.
LEMMA ReadKeeps ==
  ASSUME IInv, UNCHANGED rows, NEW c \in Clients,
         Finish(c) \/ \E r \in Requests : ~Holds(r) /\ Start(c, r)
  PROVE  IInv'
<1>1. Rows /\ ReqOK /\ PostedHasJournal /\ HeldAlone
  BY TypeParts DEF IInv
<1>2. Rows' /\ PostedHasJournal'
  BY <1>1, RowsSame, JournalsKeep DEF rows
<1>3. ReqOK'
  BY <1>1, StartOK, FinishOK
<1>4. \A d \in Clients : Holds(req'[d]) => req'[d] = req[d]
  BY <1>1 DEF Finish, Start, Idle, ReqOK
<1>5. \A p : pays'[p].auto = pays[p].auto /\ DOMAIN pays' = DOMAIN pays
  BY DEF rows
<1>6. HeldAlone'
  <2>1. \A d \in Clients : Holds(req'[d]) =>
          /\ req'[d] = req[d]
          /\ \A p \in req[d].held : p \in DOMAIN pays' /\ pays'[p].auto = pays[p].auto
    BY <1>1, <1>4, <1>5 DEF HeldAlone, Releasing
  <2> QED
    BY <1>1, <2>1, HeldKeeps
<1> QED
  BY <1>2, <1>3, <1>6, TypePartsNext DEF IInv

\* A request that commits and ends, with the payments in others' hands kept.
LEMMA EndKeeps ==
  ASSUME ReqOK, HeldAlone, NEW c \in Clients, Finish(c) \/ UNCHANGED req,
         \A d \in Releasing : d # c \/ UNCHANGED req =>
            \A p \in req[d].held : p \in DOMAIN pays' /\ pays'[p].auto = pays[p].auto
  PROVE  ReqOK' /\ HeldAlone'
<1>1. ReqOK'
  BY FinishOK DEF ReqOK
<1>2. \A d \in Clients : Holds(req'[d]) => req'[d] = req[d] /\ (d # c \/ UNCHANGED req)
  BY DEF Finish, Idle, ReqOK
<1>3. \A d \in Clients : Holds(req'[d]) =>
          /\ req'[d] = req[d]
          /\ \A p \in req[d].held : p \in DOMAIN pays' /\ pays'[p].auto = pays[p].auto
  BY <1>2 DEF Releasing
<1> QED
  BY <1>1, <1>3, HeldKeeps

\* With all payments kept, so are those in anybody's hands.
LEMMA SameEndKeeps ==
  ASSUME ReqOK, HeldAlone, NEW c \in Clients, Finish(c) \/ UNCHANGED req, SamePays
  PROVE  ReqOK' /\ HeldAlone'
<1>1. \A d \in Releasing :
        \A p \in req[d].held : p \in DOMAIN pays' /\ pays'[p].auto = pays[p].auto
  BY DEF HeldAlone, SamePays
<1> QED
  BY <1>1, EndKeeps

\* Not locked is not in anybody's hands.
LEMMA UnlockedEndKeeps ==
  ASSUME ReqOK, HeldAlone, NEW c \in Clients, Finish(c) \/ UNCHANGED req,
         NEW p, ~Locked(p),
         \A q \in DOMAIN pays \ {p} : q \in DOMAIN pays' /\ pays'[q].auto = pays[q].auto
  PROVE  ReqOK' /\ HeldAlone'
<1>1. \A d \in Releasing : \A q \in req[d].held :
        q # p /\ q \in DOMAIN pays
  BY DEF HeldAlone, Locked
<1>2. \A d \in Releasing :
        \A q \in req[d].held : q \in DOMAIN pays' /\ pays'[q].auto = pays[q].auto
  BY <1>1
<1> QED
  BY <1>2, EndKeeps

-----------------------------------------------------------------------------
\* Posting and collecting, and who is spared by it
LEMMA PostInvoiceKeeps ==
  ASSUME IInv, NEW c \in Clients,
         \/ PostInvoiceCommit(c)
         \/ \E cash \in Amounts : PostAndCollect(c, cash) \/ CollectCommit(c, cash)
  PROVE  IInv' /\ SamePays
<1> DEFINE i == req[c].inv
<1>0. Rows /\ ReqOK /\ PostedHasJournal /\ HeldAlone
  BY TypeParts DEF IInv
<1>1. i \in Invoices /\ req[c].remaining \in Int /\ Finish(c)
  BY <1>0, RequestParts DEF PostInvoiceCommit, PostAndCollect, CollectCommit
<1>2. \A m \in Nat : \A n \in Int : MinOf(m, MaxOf(n, 0)) \in Nat
  BY DEF MinOf, MaxOf
<1>3. Total - paid[i] \in Int /\ \A cash \in Amounts : cash \in Nat
  BY <1>0, <1>1, PaymentConstants DEF Rows
<1> HIDE DEF i
<1>4. CASE PostInvoiceCommit(c)
  <2>1. MarkPosted(i)
    BY <1>4 DEF PostInvoiceCommit, i
  <2>2. CASE NewReceipt(i, req[c].remaining, req[c].remaining, i) /\ req[c].remaining > DEC
    <3>1. req[c].remaining \in Nat
      BY <1>1, <2>2, PaymentConstants
    <3>2. Rows' /\ SamePays
      BY <1>0, <1>1, <2>1, <2>2, <3>1, MarkKeeps, ReceiptKeeps
    <3> QED
      BY <1>0, <1>1, <2>1, <3>2, MarkKeeps, SameEndKeeps, TypePartsNext DEF IInv
  <2>3. CASE UNCHANGED <<paid, pays, allocs, credits>>
    <3>1. Rows' /\ SamePays
      BY <1>0, <1>1, <2>1, <2>3, MarkKeeps DEF Rows, SamePays
    <3> QED
      BY <1>0, <1>1, <2>1, <3>1, MarkKeeps, SameEndKeeps, TypePartsNext DEF IInv
  <2> QED
    BY <1>4, <2>2, <2>3 DEF PostInvoiceCommit, i
<1>5. ASSUME NEW cash \in Amounts, PostAndCollect(c, cash) PROVE IInv' /\ SamePays
  <2>1. MarkPosted(i) /\ NewReceipt(i, cash, MinOf(cash, MaxOf(Total - paid[i], 0)), i)
    BY <1>5 DEF PostAndCollect, i, Remaining
  <2>2. cash \in Nat /\ MinOf(cash, MaxOf(Total - paid[i], 0)) \in Nat
    BY <1>2, <1>3
  <2>3. Rows' /\ SamePays
    BY <1>0, <1>1, <2>1, <2>2, MarkKeeps, ReceiptKeeps
  <2> QED
    BY <1>0, <1>1, <2>1, <2>3, MarkKeeps, SameEndKeeps, TypePartsNext DEF IInv
<1>6. ASSUME NEW cash \in Amounts, CollectCommit(c, cash) PROVE IInv' /\ SamePays
  <2>1. /\ NewReceipt(i, cash, MinOf(cash, MaxOf(req[c].remaining, 0)), NoInvoice)
        /\ UNCHANGED <<status, journals>>
    BY <1>6 DEF CollectCommit, i
  <2>2. cash \in Nat /\ MinOf(cash, MaxOf(req[c].remaining, 0)) \in Nat
    BY <1>1, <1>2, <1>3
  <2>3. status' \in [Invoices -> {"draft", "posted"}] /\ journals' \in [Invoices -> Nat]
    BY <1>0, <2>1 DEF Rows
  <2>4. Rows' /\ SamePays
    BY <1>0, <1>1, <2>1, <2>2, <2>3, ReceiptKeeps
  <2> QED
    BY <1>0, <1>1, <2>1, <2>4, JournalsKeep, SameEndKeeps, TypePartsNext DEF IInv
<1> QED
  BY <1>4, <1>5, <1>6

-----------------------------------------------------------------------------
\* The guard of an unposting takes the settlements of its own invoice, none of
\* which anybody else holds.
LEMMA GuardKeeps ==
  ASSUME IInv, NEW c \in Clients, UnpostInvoiceGuard(c)
  PROVE  IInv'
<1> DEFINE i == req[c].inv
<1>0. Rows /\ ReqOK /\ PostedHasJournal /\ HeldAlone
  BY TypeParts DEF IInv
<1>1. /\ req[c].op = "unpost_invoice" /\ i \in Invoices /\ UNCHANGED rows
      /\ req' = [req EXCEPT ![c].op = "unpost_journals", ![c].held = Autos(i)]
      /\ \A p \in Autos(i) : ~Locked(p)
  BY <1>0, RequestParts DEF UnpostInvoiceGuard
<1>2. Autos(i) \in SUBSET (1..MaxPays) /\ \A p \in Autos(i) : p \in DOMAIN pays /\ pays[p].auto = i
  BY <1>0 DEF Autos, Rows
<1>3. Rows' /\ PostedHasJournal'
  BY <1>0, <1>1, RowsSame, JournalsKeep DEF rows
<1>4. req[c] \in [op : {"unpost_invoice", "unpost_journals", "unpost_commit"},
                  inv : Invoices, held : SUBSET (1..MaxPays), found : BOOLEAN]
  <2>1. req[c] \in {Idle} \cup Requests
    BY <1>0 DEF ReqOK
  <2> QED
    BY <1>1, <2>1 DEF Requests, Idle
<1>5. /\ req'[c] = [op |-> "unpost_journals", inv |-> i, held |-> Autos(i),
                    found |-> req[c].found]
      /\ \A d \in Clients \ {c} : req'[d] = req[d]
  BY <1>0, <1>1, <1>4 DEF ReqOK
<1> HIDE DEF i
<1>6. req'[c] \in Requests
  <2>1. \A h \in SUBSET (1..MaxPays), b \in BOOLEAN :
          [op |-> "unpost_journals", inv |-> i, held |-> h, found |-> b] \in Requests
    BY <1>1 DEF Requests
  <2> QED
    BY <1>2, <1>4, <1>5, <2>1
<1>7. ReqOK'
  BY <1>0, <1>1, <1>5, <1>6 DEF ReqOK
<1>8. HeldAlone'
  <2>1. DOMAIN pays' = DOMAIN pays /\ pays' = pays
    BY <1>1 DEF rows
  <2>2. \A d \in Clients \ {c} :
          req'[d] = req[d] /\ (d \in Releasing => \A p \in Autos(i) : p \notin req[d].held)
    BY <1>1, <1>5 DEF Locked
  <2>3. Releasing' = Releasing \cup {c} /\ c \notin Releasing
    <3> HIDE DEF Holds
    <3>1. Holds(req'[c]) /\ ~Holds(req[c])
      BY <1>1, <1>5 DEF Holds
    <3> QED
      BY <1>5, <3>1 DEF Releasing
  <2>4. ASSUME NEW d \in Releasing', NEW p \in req'[d].held
        PROVE  /\ p \in DOMAIN pays /\ pays[p].auto = req'[d].inv
               /\ \A e \in Releasing' \ {d} : p \notin req'[e].held
    <3>1. CASE d = c
      BY <1>2, <1>5, <2>2, <2>3, <2>4, <3>1 DEF Releasing
    <3>2. CASE d # c
      <4>1. d \in Releasing /\ d \in Clients \ {c} /\ req'[d] = req[d]
        BY <2>2, <2>3, <2>4, <3>2 DEF Releasing
      <4>2. p \notin Autos(i)
        BY <2>2, <2>4, <4>1
      <4>3. \A e \in Releasing \ {d} : e \in Clients \ {c} /\ req'[e] = req[e]
        BY <2>2, <2>3 DEF Releasing
      <4> QED
        BY <1>0, <1>5, <2>3, <2>4, <4>1, <4>2, <4>3 DEF HeldAlone
    <3> QED
      BY <3>1, <3>2
  <2> QED
    BY <2>1, <2>4 DEF HeldAlone
<1> QED
  BY <1>3, <1>7, <1>8, TypePartsNext DEF IInv

\* It finds its journals, with the settlements already in its hands.
LEMMA JournalsReadKeeps ==
  ASSUME IInv, NEW c \in Clients, UnpostInvoiceJournals(c)
  PROVE  IInv'
<1> DEFINE found == journals[req[c].inv] > 0
<1>0. Rows /\ ReqOK /\ PostedHasJournal /\ HeldAlone
  BY TypeParts DEF IInv
<1>1. /\ req[c].op = "unpost_journals" /\ UNCHANGED rows
      /\ req' = [req EXCEPT ![c].op = "unpost_commit", ![c].found = found]
  BY DEF UnpostInvoiceJournals
<1>2. req[c] \in [op : {"unpost_invoice", "unpost_journals", "unpost_commit"},
                  inv : Invoices, held : SUBSET (1..MaxPays), found : BOOLEAN]
  <2>1. req[c] \in {Idle} \cup Requests
    BY <1>0 DEF ReqOK
  <2> QED
    BY <1>1, <2>1 DEF Requests, Idle
<1>3. found \in BOOLEAN
  OBVIOUS
<1> HIDE DEF found
<1>4. /\ req'[c] = [op |-> "unpost_commit", inv |-> req[c].inv, held |-> req[c].held,
                    found |-> found]
      /\ \A d \in Clients \ {c} : req'[d] = req[d]
  BY <1>0, <1>1, <1>2 DEF ReqOK
<1>5. req'[c] \in Requests
  <2>1. req'[c] \in [op : {"unpost_invoice", "unpost_journals", "unpost_commit"},
                     inv : Invoices, held : SUBSET (1..MaxPays), found : BOOLEAN]
    BY <1>2, <1>3, <1>4
  <2> QED
    BY <2>1 DEF Requests
<1>6. ReqOK'
  BY <1>0, <1>1, <1>4, <1>5 DEF ReqOK
<1>7. HeldAlone'
  <2>1. /\ req'[c].held = req[c].held /\ req'[c].inv = req[c].inv
        /\ Holds(req'[c]) /\ Holds(req[c])
    BY <1>1, <1>4
  <2> HIDE DEF Holds
  <2>2. \A d \in Clients : /\ req'[d].held = req[d].held /\ req'[d].inv = req[d].inv
                           /\ Holds(req'[d]) <=> Holds(req[d])
    <3> SUFFICES ASSUME NEW d \in Clients
                 PROVE  /\ req'[d].held = req[d].held /\ req'[d].inv = req[d].inv
                        /\ Holds(req'[d]) <=> Holds(req[d])
      OBVIOUS
    <3>1. CASE d = c
      BY <2>1, <3>1
    <3>2. CASE d # c
      BY <1>4, <3>2
    <3> QED
      BY <3>1, <3>2
  <2>3. Releasing' = Releasing /\ pays' = pays
    BY <1>1, <2>2 DEF Releasing, rows
  <2>4. ASSUME NEW d \in Releasing, NEW p \in req'[d].held
        PROVE  /\ p \in DOMAIN pays /\ pays[p].auto = req'[d].inv
               /\ \A e \in Releasing \ {d} : p \notin req'[e].held
    <3>1. \A e \in Releasing : req'[e].held = req[e].held /\ req'[e].inv = req[e].inv
      BY <2>2 DEF Releasing
    <3> QED
      BY <1>0, <2>4, <3>1 DEF HeldAlone
  <2> QED
    BY <2>3, <2>4 DEF HeldAlone
<1>8. Rows' /\ PostedHasJournal'
  BY <1>0, <1>1, RowsSame, JournalsKeep DEF rows
<1> QED
  BY <1>6, <1>7, <1>8, TypePartsNext DEF IInv

\* Reading the status once more changes what the request may do, not the rows.
LEMMA StatusReadKeeps ==
  ASSUME IInv, NEW c \in Clients, CollectStatus(c)
  PROVE  IInv'
<1>0. Rows /\ ReqOK /\ PostedHasJournal /\ HeldAlone
  BY TypeParts DEF IInv
<1>1. /\ req[c].op = "collect" /\ UNCHANGED rows
      /\ req' = [req EXCEPT ![c].op = "settle"]
  BY DEF CollectStatus
<1>2. req[c] \in [op : {"post_invoice", "collect", "settle"}, inv : Invoices,
                  remaining : Int]
  <2>1. req[c] \in {Idle} \cup Requests
    BY <1>0 DEF ReqOK
  <2> QED
    BY <1>1, <2>1 DEF Requests, Idle
<1>3. /\ req'[c] = [op |-> "settle", inv |-> req[c].inv, remaining |-> req[c].remaining]
      /\ \A d \in Clients \ {c} : req'[d] = req[d]
  BY <1>0, <1>1, <1>2 DEF ReqOK
<1>4. req'[c] \in Requests
  BY <1>2, <1>3 DEF Requests
<1>5. ReqOK'
  BY <1>0, <1>1, <1>3, <1>4 DEF ReqOK
<1>6. HeldAlone'
  <2>1. \A d \in Clients : Holds(req'[d]) => req'[d] = req[d] /\ d \in Releasing
    BY <1>3 DEF Releasing
  <2>2. pays' = pays
    BY <1>1 DEF rows
  <2>3. \A d \in Clients : Holds(req'[d]) =>
          /\ req'[d] = req[d]
          /\ \A p \in req[d].held : p \in DOMAIN pays' /\ pays'[p].auto = pays[p].auto
    BY <1>0, <2>1, <2>2 DEF HeldAlone
  <2> QED
    BY <1>0, <2>3, HeldKeeps
<1>7. Rows' /\ PostedHasJournal'
  BY <1>0, <1>1, RowsSame, JournalsKeep DEF rows
<1> QED
  BY <1>5, <1>6, <1>7, TypePartsNext DEF IInv

\* The commit deletes them with their rows and their journals.
LEMMA UnpostInvoiceKeeps ==
  ASSUME IInv, NEW c \in Clients, UnpostInvoiceCommit(c)
  PROVE  IInv'
<1> DEFINE i == req[c].inv
           held == req[c].held
<1>0. Rows /\ ReqOK /\ PostedHasJournal /\ HeldAlone
  BY TypeParts DEF IInv
<1>1. /\ req[c].op = "unpost_commit" /\ i \in Invoices /\ Finish(c)
      /\ status' = [status EXCEPT ![i] = "draft"]
      /\ journals' = [journals EXCEPT ![i] = 0] \/ journals' = journals
      /\ paid' = [paid EXCEPT ![i] = 0]
      /\ pays' = Dropped(pays, held) /\ allocs' = Cascaded(held)
      /\ credits' = Dropped(credits, {p \in held : pays[p].posted})
  <2>1. journals' = [journals EXCEPT ![i] = IF req[c].found THEN 0 ELSE @]
    BY DEF UnpostInvoiceCommit
  <2>2. journals' = [journals EXCEPT ![i] = 0] \/ journals' = journals
    BY <1>0, <2>1 DEF Rows
  <2> QED
    BY <1>0, <2>2, RequestParts DEF UnpostInvoiceCommit
<1>2. \A d \in Releasing : d # c =>
        \A p \in req[d].held : p \in DOMAIN pays \ held
  BY <1>0, <1>1 DEF HeldAlone, Releasing
<1> HIDE DEF i, held
<1>3. /\ pays' \in [DOMAIN pays' -> Payment] /\ DOMAIN pays' = DOMAIN pays \ held
      /\ \A p \in DOMAIN pays \ held : pays'[p] = pays[p]
      /\ DOMAIN allocs' \subseteq DOMAIN allocs
      /\ allocs' \in [DOMAIN allocs' -> Allocation]
      /\ \A a \in DOMAIN allocs' : allocs'[a].pay \in DOMAIN pays'
  BY <1>0, <1>1, DropKeeps
<1>4. credits' \in [DOMAIN credits' -> Nat] /\ DOMAIN credits' \subseteq DOMAIN credits
  BY <1>0, <1>1 DEF Dropped, Rows
<1>5. Rows'
  BY <1>0, <1>1, <1>3, <1>4 DEF Rows
<1>6. PostedHasJournal'
  BY <1>0, <1>1 DEF PostedHasJournal, Rows
<1>7. ~UNCHANGED req
  BY <1>0, <1>1 DEF Finish, Idle, ReqOK
<1>8. ReqOK' /\ HeldAlone'
  BY <1>0, <1>1, <1>2, <1>3, <1>7, EndKeeps
<1> QED
  BY <1>5, <1>6, <1>8, TypePartsNext DEF IInv

LEMMA RowsReadKeeps ==
  ASSUME IInv, NEW c \in Clients, PostPaymentRows(c)
  PROVE  IInv'
<1> DEFINE read == AllocsOf(req[c].pay)
<1>0. Rows /\ ReqOK /\ PostedHasJournal /\ HeldAlone
  BY TypeParts DEF IInv
<1>1. /\ req[c].op = "post_total" /\ UNCHANGED rows
      /\ req' = [req EXCEPT ![c].op = "post_rows", ![c].rows = read]
  BY DEF PostPaymentRows
<1>2. read \in SUBSET (1..MaxAllocs)
  BY <1>0 DEF AllocsOf, Rows
<1>3. req[c] \in [op : {"post_total", "post_rows"}, pay : 1..MaxPays, allocated : Nat,
                  rows : SUBSET (1..MaxAllocs)]
  <2>1. req[c] \in {Idle} \cup Requests
    BY <1>0 DEF ReqOK
  <2> QED
    BY <1>1, <2>1 DEF Requests, Idle
<1> HIDE DEF read
<1>4. /\ req'[c] = [op |-> "post_rows", pay |-> req[c].pay,
                    allocated |-> req[c].allocated, rows |-> read]
      /\ \A d \in Clients \ {c} : req'[d] = req[d]
  BY <1>0, <1>1, <1>3 DEF ReqOK
<1>5. req'[c] \in Requests
  <2>1. req'[c] \in [op : {"post_total", "post_rows"}, pay : 1..MaxPays, allocated : Nat,
                     rows : SUBSET (1..MaxAllocs)]
    BY <1>2, <1>3, <1>4
  <2> QED
    BY <2>1 DEF Requests
<1>6. ReqOK'
  BY <1>0, <1>1, <1>4, <1>5 DEF ReqOK
<1>7. HeldAlone'
  <2>1. \A d \in Clients : Holds(req'[d]) =>
          /\ req'[d] = req[d] /\ d \in Releasing
    BY <1>4 DEF Releasing
  <2>2. pays' = pays
    BY <1>1 DEF rows
  <2>3. \A d \in Clients : Holds(req'[d]) =>
          /\ req'[d] = req[d]
          /\ \A p \in req[d].held : p \in DOMAIN pays' /\ pays'[p].auto = pays[p].auto
    BY <1>0, <2>1, <2>2 DEF HeldAlone
  <2> QED
    BY <1>0, <2>3, HeldKeeps
<1>8. Rows' /\ PostedHasJournal'
  BY <1>0, <1>1, RowsSame, JournalsKeep DEF rows
<1> QED
  BY <1>6, <1>7, <1>8, TypePartsNext DEF IInv

\* The transaction that posts a payment: its row, its journals, what it pays.
LEMMA PaymentPosted ==
  ASSUME Rows, ReqOK, NEW c \in Clients, PostPaymentCommit(c)
  PROVE  /\ Rows' /\ UNCHANGED <<status, journals, allocs>> /\ Finish(c)
         /\ req[c].pay \in DOMAIN pays /\ ~pays[req[c].pay].posted /\ ~Locked(req[c].pay)
         /\ DOMAIN pays' = DOMAIN pays
         /\ \A q \in DOMAIN pays : /\ pays'[q].auto = pays[q].auto
                                   /\ pays'[q].amount = pays[q].amount
                                   /\ q # req[c].pay => pays'[q] = pays[q]
         /\ pays'[req[c].pay].posted
<1> DEFINE p == req[c].pay
           read == req[c].rows
           before == IF p \in DOMAIN credits THEN credits[p] ELSE 0
<1>1. /\ p \in DOMAIN pays /\ ~pays[p].posted /\ ~Locked(p) /\ read \subseteq DOMAIN allocs
      /\ pays' = [pays EXCEPT ![p].posted = TRUE]
      /\ credits' = Put(credits, p, before +
                          Credited(pays[p].amount, req[c].allocated, Sum(read)))
      /\ paid' = [i \in Invoices |-> paid[i] + SumFor(read, i)]
      /\ UNCHANGED <<status, journals, allocs>> /\ Finish(c)
  BY DEF PostPaymentCommit, StillUnposted
<1>2. Sum(read) \in Nat /\ \A i : SumFor(read, i) \in Nat
  BY <1>1, SumOK
<1>3. before \in Nat /\ req[c].allocated \in Nat /\ pays[p].amount \in Nat
  BY <1>1, RequestParts DEF Rows, Payment, PostPaymentCommit
<1> HIDE DEF p, read, before
<1>4. before + Credited(pays[p].amount, req[c].allocated, Sum(read)) \in Nat
  <2>1. \A b, m, n, s \in Nat : b + Credited(m, n, s) \in Nat
    BY PaymentConstants DEF Credited
  <2> QED
    BY <1>2, <1>3, <2>1
<1>5. credits' \in [DOMAIN credits' -> Nat] /\ DOMAIN credits' = DOMAIN credits \cup {p}
  BY <1>1, <1>4 DEF Put, Rows
<1>6. paid' \in [Invoices -> Nat]
  <2>1. \A i \in Invoices : paid[i] \in Nat /\ SumFor(read, i) \in Nat
    BY <1>2 DEF Rows
  <2>2. \A i \in Invoices : paid[i] + SumFor(read, i) \in Nat
    BY <2>1
  <2> QED
    BY <1>1, <2>2
<1>7. /\ DOMAIN pays' = DOMAIN pays /\ pays' \in [DOMAIN pays' -> Payment]
      /\ \A q \in DOMAIN pays : /\ pays'[q].auto = pays[q].auto
                                /\ pays'[q].amount = pays[q].amount
                                /\ q # p => pays'[q] = pays[q]
      /\ pays'[p].posted
  BY <1>1 DEF Rows, Payment
<1>8. Rows'
  BY <1>1, <1>5, <1>6, <1>7 DEF Rows
<1> QED
  BY <1>1, <1>7, <1>8 DEF p

-----------------------------------------------------------------------------
\* The steps of a payment and of its rows
LEMMA PayKeeps ==
  ASSUME IInv, NEW c \in Clients, Pay(c)
  PROVE  IInv'
<1>0. Rows /\ ReqOK /\ PostedHasJournal /\ HeldAlone
  BY TypeParts DEF IInv
<1>1. ASSUME NEW amount \in Amounts, NEW split \in [Invoices -> Amounts \cup {0}],
             CreatePayment(c, amount, split)
      PROVE  IInv'
  BY <1>0, <1>1, CreateKeeps, JournalsKeep, SameEndKeeps, TypePartsNext DEF IInv
<1>2. ASSUME NEW p \in DOMAIN pays, PostPaymentTotal(c, p) PROVE IInv'
  <2>1. AllocsOf(p) \in SUBSET DOMAIN allocs
    BY DEF AllocsOf
  <2>2. Sum(AllocsOf(p)) \in Nat /\ p \in 1..MaxPays
    BY <1>0, <2>1, SumOK DEF Rows
  <2> DEFINE r == [op |-> "post_total", pay |-> p, allocated |-> Sum(AllocsOf(p)), rows |-> {}]
  <2>3. r \in Requests /\ ~Holds(r)
    <3>1. \A s \in Nat : [op |-> "post_total", pay |-> p, allocated |-> s, rows |-> {}] \in Requests
      BY <2>2 DEF Requests
    <3> QED
      BY <2>2, <3>1
  <2>4. Start(c, r) /\ UNCHANGED rows
    BY <1>2 DEF PostPaymentTotal
  <2> HIDE DEF r
  <2> QED
    BY <2>3, <2>4, ReadKeeps
<1>3. ASSUME NEW p \in DOMAIN pays, UnpostPayment(c, p) PROVE IInv'
  <2>1. Unpost(p) /\ UNCHANGED req
    BY <1>3 DEF UnpostPayment
  <2> QED
    BY <1>0, <2>1, UnpostKeeps, JournalsKeep, UnlockedEndKeeps, TypePartsNext DEF IInv
<1>4. CASE PostPaymentRows(c)
  BY <1>4, RowsReadKeeps
<1>5. CASE PostPaymentCommit(c)
  BY <1>0, <1>5, PaymentPosted, JournalsKeep, UnlockedEndKeeps, TypePartsNext DEF IInv
<1> QED
  BY <1>1, <1>2, <1>3, <1>4, <1>5 DEF Pay

\* A row goes in a transaction of its own, with its allocations.
LEMMA DeleteKeeps ==
  ASSUME IInv, NEW c \in Clients, DeletePayment(c)
  PROVE  IInv'
<1>0. Rows /\ ReqOK /\ PostedHasJournal /\ HeldAlone
  BY TypeParts DEF IInv
<1>1. ASSUME NEW p \in DOMAIN pays, DeleteBegin(c, p) PROVE IInv'
  <2> DEFINE r == [op |-> "delete", pay |-> p, unpost |-> pays[p].posted]
  <2>1. r \in Requests /\ ~Holds(r)
    <3>1. pays[p].posted \in BOOLEAN /\ p \in 1..MaxPays
      BY <1>0 DEF Rows, Payment
    <3>2. \A b \in BOOLEAN : [op |-> "delete", pay |-> p, unpost |-> b] \in Requests
      BY <3>1 DEF Requests
    <3> QED
      BY <3>1, <3>2
  <2>2. Start(c, r) /\ UNCHANGED rows
    BY <1>1 DEF DeleteBegin
  <2> HIDE DEF r
  <2> QED
    BY <2>1, <2>2, ReadKeeps
<1>2. CASE DeleteUnpost(c)
  <2>1. Unpost(req[c].pay) /\ req[c].op = "delete" /\ req' = [req EXCEPT ![c].unpost = FALSE]
    BY <1>2 DEF DeleteUnpost
  <2>2. Rows' /\ UNCHANGED <<status, journals>> /\ ~Locked(req[c].pay)
        /\ DOMAIN pays' = DOMAIN pays /\ \A q \in DOMAIN pays : pays'[q].auto = pays[q].auto
    BY <1>0, <2>1, UnpostKeeps
  <2>3. req[c] \in [op : {"delete"}, pay : 1..MaxPays, unpost : BOOLEAN]
    <3>1. req[c] \in {Idle} \cup Requests
      BY <1>0 DEF ReqOK
    <3> QED
      BY <2>1, <3>1 DEF Requests, Idle
  <2>4. /\ req'[c] = [op |-> "delete", pay |-> req[c].pay, unpost |-> FALSE]
        /\ \A d \in Clients \ {c} : req'[d] = req[d]
    BY <1>0, <2>1, <2>3 DEF ReqOK
  <2>5. ReqOK'
    <3>1. req'[c] \in Requests
      BY <2>3, <2>4 DEF Requests
    <3> QED
      BY <1>0, <2>1, <2>4, <3>1 DEF ReqOK
  <2>6. HeldAlone'
    <3>1. \A d \in Clients : Holds(req'[d]) =>
            /\ req'[d] = req[d]
            /\ \A p \in req[d].held : p \in DOMAIN pays' /\ pays'[p].auto = pays[p].auto
      BY <1>0, <2>2, <2>4 DEF HeldAlone, Releasing
    <3> QED
      BY <1>0, <3>1, HeldKeeps
  <2> QED
    BY <1>0, <2>2, <2>5, <2>6, JournalsKeep, TypePartsNext DEF IInv
<1>3. CASE DeleteRow(c)
  <2> DEFINE p == req[c].pay
  <2>1. /\ ~Locked(p) /\ Finish(c) /\ UNCHANGED <<status, paid, journals, credits>>
        /\ pays' = Dropped(pays, {p}) /\ allocs' = Cascaded({p})
    BY <1>3 DEF DeleteRow
  <2> HIDE DEF p
  <2>2. /\ pays' \in [DOMAIN pays' -> Payment] /\ DOMAIN pays' = DOMAIN pays \ {p}
        /\ \A q \in DOMAIN pays \ {p} : pays'[q] = pays[q]
        /\ DOMAIN allocs' \subseteq DOMAIN allocs
        /\ allocs' \in [DOMAIN allocs' -> Allocation]
        /\ \A a \in DOMAIN allocs' : allocs'[a].pay \in DOMAIN pays'
    BY <1>0, <2>1, DropKeeps
  <2>3. Rows'
    BY <1>0, <2>1, <2>2 DEF Rows
  <2>4. ReqOK' /\ HeldAlone'
    BY <1>0, <2>1, <2>2, UnlockedEndKeeps
  <2> QED
    BY <1>0, <2>1, <2>3, <2>4, JournalsKeep, TypePartsNext DEF IInv
<1> QED
  BY <1>1, <1>2, <1>3 DEF DeletePayment

\* An edit writes the row back as it was read, with another amount.
LEMMA EditKeeps ==
  ASSUME IInv, NEW c \in Clients, EditAmount(c)
  PROVE  IInv'
<1>0. Rows /\ ReqOK /\ PostedHasJournal /\ HeldAlone
  BY TypeParts DEF IInv
<1>1. ASSUME NEW p \in DOMAIN pays, EditBegin(c, p) PROVE IInv'
  <2> DEFINE r == [op |-> "edit", pay |-> p, row |-> pays[p]]
  <2>1. r \in Requests /\ ~Holds(r)
    <3>1. pays[p] \in Payment /\ p \in 1..MaxPays
      BY <1>0 DEF Rows
    <3>2. \A v \in Payment : [op |-> "edit", pay |-> p, row |-> v] \in Requests
      BY <3>1 DEF Requests
    <3> QED
      BY <3>1, <3>2
  <2>2. Start(c, r) /\ UNCHANGED rows
    BY <1>1 DEF EditBegin
  <2> HIDE DEF r
  <2> QED
    BY <2>1, <2>2, ReadKeeps
<1>2. ASSUME NEW amount \in Amounts, EditCommit(c, amount) PROVE IInv'
  <2> DEFINE p == req[c].pay
             v == [req[c].row EXCEPT !.amount = amount]
  <2>1. /\ ~Locked(p) /\ pays' = Put(pays, p, v) /\ Finish(c)
        /\ UNCHANGED <<status, paid, journals, allocs, credits>>
    BY <1>2 DEF EditCommit
  <2>2. p \in 1..MaxPays /\ req[c].row \in Payment
    BY <1>0, <1>2, RequestParts DEF EditCommit
  <2>3. v \in Payment
    <3>1. amount \in Nat
      BY PaymentConstants
    <3> QED
      BY <2>2, <3>1 DEF Payment
  <2> HIDE DEF p, v
  <2>4. /\ DOMAIN pays' = DOMAIN pays \cup {p} /\ pays' \in [DOMAIN pays' -> Payment]
        /\ \A q \in DOMAIN pays \ {p} : pays'[q] = pays[q]
    BY <1>0, <2>1, <2>3 DEF Put, Rows
  <2>5. Rows'
    BY <1>0, <2>1, <2>2, <2>4 DEF Rows
  <2>6. ReqOK' /\ HeldAlone'
    BY <1>0, <2>1, <2>4, UnlockedEndKeeps
  <2> QED
    BY <1>0, <2>1, <2>5, <2>6, JournalsKeep, TypePartsNext DEF IInv
<1> QED
  BY <1>1, <1>2 DEF EditAmount

\* Rows are added and dropped; the payments stay.
LEMMA AllocateKeeps ==
  ASSUME IInv, NEW c \in Clients, NEW p \in DOMAIN pays, NEW i \in Invoices,
         NEW amt \in Amounts, Allocate(c, p, i, amt)
  PROVE  IInv'
<1>0. Rows /\ ReqOK /\ PostedHasJournal /\ HeldAlone
  BY TypeParts DEF IInv
<1>1. /\ allocs' = Put(allocs, NextAlloc, [pay |-> p, inv |-> i, amt |-> amt])
      /\ paid' = IF pays[p].posted THEN [paid EXCEPT ![i] = @ + amt] ELSE paid
      /\ UNCHANGED <<status, journals, pays, credits, req>> /\ Bounded
  BY DEF Allocate
<1>2. amt \in Nat /\ p \in 1..MaxPays
  BY <1>0, PaymentConstants DEF Rows
<1>3. /\ DOMAIN allocs' = DOMAIN allocs \cup {NextAlloc} /\ DOMAIN allocs' \subseteq 1..MaxAllocs
      /\ allocs' \in [DOMAIN allocs' -> Allocation]
      /\ \A a \in DOMAIN allocs' : allocs'[a].pay \in DOMAIN pays'
  BY <1>0, <1>1, <1>2 DEF Put, Bounded, Rows, Allocation
<1>4. paid' \in [Invoices -> Nat]
  BY <1>0, <1>1, <1>2 DEF Rows
<1>5. Rows' /\ SamePays
  BY <1>0, <1>1, <1>3, <1>4 DEF Rows, SamePays
<1> QED
  BY <1>0, <1>1, <1>5, SameEndKeeps, JournalsKeep, TypePartsNext DEF IInv

LEMMA DeallocateKeeps ==
  ASSUME IInv, NEW c \in Clients, NEW a \in DOMAIN allocs, Deallocate(c, a)
  PROVE  IInv'
<1>0. Rows /\ ReqOK /\ PostedHasJournal /\ HeldAlone
  BY TypeParts DEF IInv
<1>1. /\ allocs' = Dropped(allocs, {a})
      /\ paid' = Reversed({a}) \/ paid' = paid
      /\ UNCHANGED <<status, journals, pays, credits, req>>
  BY DEF Deallocate
<1>2. paid' \in [Invoices -> Nat]
  <2>1. {a} \in SUBSET DOMAIN allocs
    OBVIOUS
  <2> QED
    BY <1>0, <1>1, <2>1, ReversedOK DEF Rows
<1>3. /\ DOMAIN allocs' \subseteq DOMAIN allocs /\ allocs' \in [DOMAIN allocs' -> Allocation]
      /\ \A b \in DOMAIN allocs' : allocs'[b] = allocs[b]
  BY <1>0, <1>1 DEF Dropped, Rows
<1>4. Rows' /\ SamePays
  BY <1>0, <1>1, <1>2, <1>3 DEF Rows, SamePays
<1> QED
  BY <1>0, <1>1, <1>4, SameEndKeeps, JournalsKeep, TypePartsNext DEF IInv

-----------------------------------------------------------------------------
\* Nothing has happened yet.
LEMMA InitInvariant == Init => IInv
<1> SUFFICES ASSUME Init PROVE IInv
  OBVIOUS
<1>1. DOMAIN pays = {} /\ DOMAIN allocs = {} /\ DOMAIN credits = {}
  BY DEF Init
<1>2. Rows
  BY <1>1 DEF Init, Rows
<1>3. ReqOK /\ PostedHasJournal /\ HeldAlone
  BY DEF Init, ReqOK, PostedHasJournal, HeldAlone, Releasing, Idle
<1> QED
  BY <1>2, <1>3, TypeParts DEF IInv

LEMMA StartsKeep ==
  ASSUME IInv, NEW c \in Clients, NEW i \in Invoices,
         PostInvoiceBegin(c, i) \/ CollectBegin(c, i) \/ UnpostInvoiceBegin(c, i)
  PROVE  IInv'
<1>0. paid[i] \in Nat
  BY DEF IInv, TypeOK
<1>1. Remaining(i) \in Int
  BY <1>0, PaymentConstants DEF Remaining
<1>2. \A n \in Int : /\ [op |-> "post_invoice", inv |-> i, remaining |-> n] \in Requests
                     /\ [op |-> "collect", inv |-> i, remaining |-> n] \in Requests
  BY DEF Requests
<1>3. [op |-> "unpost_invoice", inv |-> i, held |-> {}, found |-> FALSE] \in Requests
  BY DEF Requests
<1>4. UNCHANGED rows /\ \E r \in Requests : ~Holds(r) /\ Start(c, r)
  BY <1>1, <1>2, <1>3 DEF PostInvoiceBegin, CollectBegin, UnpostInvoiceBegin
<1> QED
  BY <1>4, ReadKeeps

LEMMA StepInvariant == IInv /\ [Next]_vars => IInv'
<1> SUFFICES ASSUME IInv, [Next]_vars PROVE IInv'
  OBVIOUS
<1>1. ASSUME NEW c \in Clients, PostOrCollect(c) PROVE IInv'
  BY <1>1, StartsKeep, StatusReadKeeps, PostInvoiceKeeps DEF PostOrCollect
<1>2. ASSUME NEW c \in Clients, UnpostInvoice(c) PROVE IInv'
  BY <1>2, StartsKeep, GuardKeeps, JournalsReadKeeps, UnpostInvoiceKeeps DEF UnpostInvoice
<1>3. ASSUME NEW c \in Clients, Abort(c) PROVE IInv'
  BY <1>3, ReadKeeps DEF Abort
<1>4. ASSUME NEW c \in Clients, NEW p \in DOMAIN pays,
             AllocateOwn(c, p) \/ AllocateExcess(c, p) \/ DeallocateRow(c, p)
      PROVE  IInv'
  BY <1>4, AllocateKeeps, DeallocateKeeps
     DEF AllocateOwn, AllocateExcess, DeallocateRow, AllocsOf
<1>5. CASE Next
  BY <1>1, <1>2, <1>3, <1>4, <1>5, PayKeeps, DeleteKeeps, EditKeeps DEF Next, Core
<1>6. CASE UNCHANGED vars
  BY <1>6 DEF vars, IInv, TypeOK, PostedHasJournal, HeldAlone, Releasing
<1> QED
  BY <1>5, <1>6

LEMMA Invariant == Spec => []IInv
  BY InitInvariant, StepInvariant, PTL DEF Spec

\* Every column has its type and every row joins a live payment, whoever
\* deletes and edits payments while others post them.
THEOREM PaymentTypes == Spec => []TypeOK
<1>1. IInv => TypeOK
  BY DEF IInv
<1> QED
  BY <1>1, Invariant, PTL

\* However many clients post and unpost an invoice at once, it never has a
\* second sales journal, and has one while it is posted.
THEOREM OneJournal == Spec => []PostedHasJournal
<1>1. IInv => PostedHasJournal
  BY DEF IInv
<1> QED
  BY <1>1, Invariant, PTL

\* Only the commit of an unposting makes a draft of a posted invoice.
LEMMA WhoUnposts ==
  ASSUME IInv, Next, NEW i \in Invoices, status[i] = "posted", status'[i] = "draft"
  PROVE  \E c \in Clients : UnpostInvoiceCommit(c) /\ req[c].inv = i
<1>0. Rows /\ ReqOK
  BY TypeParts DEF IInv
<1>1. status' # status
  OBVIOUS
<1>2. ASSUME NEW j, MarkPosted(j) PROVE FALSE
  BY <1>0, <1>2 DEF MarkPosted, Rows
<1>3. ASSUME NEW c \in Clients, PostOrCollect(c) PROVE FALSE
  BY <1>1, <1>2, <1>3
     DEF PostOrCollect, PostInvoiceBegin, CollectBegin, CollectStatus, PostInvoiceCommit,
         PostAndCollect, CollectCommit, rows
<1>4. ASSUME NEW c \in Clients, UnpostInvoiceCommit(c) PROVE req[c].inv = i
  BY <1>0, <1>1, <1>4 DEF UnpostInvoiceCommit, Rows
<1>5. ASSUME NEW c \in Clients,
             Pay(c) \/ DeletePayment(c) \/ Abort(c) \/ EditAmount(c)
      PROVE  FALSE
  BY <1>1, <1>5
     DEF Pay, CreatePayment, PostPaymentTotal, PostPaymentRows, PostPaymentCommit,
         UnpostPayment, Unpost, DeletePayment, DeleteBegin, DeleteUnpost, DeleteRow, Abort,
         EditAmount, EditBegin, EditCommit, rows
<1>6. ASSUME NEW c \in Clients, NEW p \in DOMAIN pays,
             AllocateOwn(c, p) \/ AllocateExcess(c, p) \/ DeallocateRow(c, p)
      PROVE  FALSE
  BY <1>1, <1>6
     DEF AllocateOwn, AllocateExcess, DeallocateRow, Allocate, Deallocate
<1>7. PICK c \in Clients : UnpostInvoice(c)
  BY <1>3, <1>5, <1>6 DEF Next, Core
<1>8. UnpostInvoiceCommit(c)
  BY <1>1, <1>7
     DEF UnpostInvoice, UnpostInvoiceBegin, UnpostInvoiceGuard, UnpostInvoiceJournals, rows
<1> QED
  BY <1>4, <1>8

\* Unposting an invoice takes the settlements of its own posting and no other
\* payment, though the list of them is older than the commit.
THEOREM OwnSettlementsOnly == Spec => UserMoneyStays
<1> DEFINE Spared ==
      \A i \in Invoices : status[i] = "posted" /\ status'[i] = "draft" =>
        \A p \in DOMAIN pays : pays[p].auto # i =>
          /\ p \in DOMAIN pays' /\ pays'[p] = pays[p]
          /\ p \in DOMAIN credits => p \in DOMAIN credits' /\ credits'[p] = credits[p]
<1>1. IInv /\ [Next]_vars => Spared
  <2>1. ASSUME IInv, Next, NEW i \in Invoices, status[i] = "posted", status'[i] = "draft",
               NEW p \in DOMAIN pays, pays[p].auto # i
        PROVE  /\ p \in DOMAIN pays' /\ pays'[p] = pays[p]
               /\ p \in DOMAIN credits => p \in DOMAIN credits' /\ credits'[p] = credits[p]
    <3>1. PICK c \in Clients : UnpostInvoiceCommit(c) /\ req[c].inv = i
      BY <2>1, WhoUnposts
    <3>2. p \notin req[c].held
      BY <2>1, <3>1 DEF IInv, HeldAlone, Releasing, UnpostInvoiceCommit
    <3> QED
      BY <3>1, <3>2 DEF UnpostInvoiceCommit, Dropped
  <2>2. ASSUME UNCHANGED vars PROVE Spared
    BY <2>2 DEF vars
  <2> QED
    BY <2>1, <2>2
<1> HIDE DEF Spared
<1>2. Spec => [][Spared]_vars
  BY <1>1, Invariant, PTL DEF Spec
<1> QED
  BY <1>2 DEF Spared, UserMoneyStays

-----------------------------------------------------------------------------
(* Amounts, where the rows of a payment rest during its posting *)

\* What a posting has read of a payment that still exists is what there is.
ReadCurrent ==
  \A c \in InProgress("post_total") \cup InProgress("post_rows") :
    req[c].pay \in DOMAIN pays =>
      /\ req[c].allocated = Sum(AllocsOf(req[c].pay))
      /\ req[c].allocated <= pays[req[c].pay].amount + DEC
      /\ req[c].op = "post_rows" => req[c].rows = AllocsOf(req[c].pay)

OInv == IInv /\ NoOverAllocation /\ CreditsMatch /\ ReadCurrent

\* Sums over the rows, before and after a step, are sums of naturals.
LEMMA AmountTables ==
  ASSUME Rows, Rows'
  PROVE  /\ \A a \in DOMAIN allocs : allocs[a].amt \in Nat
         /\ \A a \in DOMAIN allocs' : allocs'[a].amt \in Nat
         /\ \A as \in SUBSET DOMAIN allocs : IsFiniteSet(as)
         /\ \A as \in SUBSET DOMAIN allocs' : IsFiniteSet(as)
<1>1. \A ids : ids \subseteq 1..MaxAllocs => IsFiniteSet(ids)
  BY UpTo
<1> QED
  BY <1>1 DEF Rows, Allocation

\* Before and after a step a sum over rows is a natural.
LEMMA SumsNat ==
  ASSUME Rows, Rows'
  PROVE  /\ \A as \in SUBSET DOMAIN allocs : Sum(as) \in Nat
         /\ \A as \in SUBSET DOMAIN allocs' : Sum(as)' \in Nat
<1> DEFINE f == [a \in DOMAIN allocs |-> allocs[a].amt]
           g == [a \in DOMAIN allocs' |-> allocs'[a].amt]
<1>1. /\ \A a \in DOMAIN allocs : f[a] \in Nat
      /\ \A a \in DOMAIN allocs' : g[a] \in Nat
  BY AmountTables
<1>2. ASSUME NEW as \in SUBSET DOMAIN allocs PROVE Sum(as) \in Nat
  <2>1. Sum(as) = SumFunctionOnSet(f, as) /\ IsFiniteSet(as)
    BY AmountTables DEF Sum
  <2> HIDE DEF f
  <2> QED
    BY <1>1, <2>1, SumNat
<1>3. ASSUME NEW as \in SUBSET DOMAIN allocs' PROVE Sum(as)' \in Nat
  <2>1. Sum(as)' = SumFunctionOnSet(g, as) /\ IsFiniteSet(as)
    BY AmountTables DEF Sum
  <2> HIDE DEF g
  <2> QED
    BY <1>1, <2>1, SumNat
<1> QED
  BY <1>2, <1>3

\* What is settled on an invoice grows by no more than the rows that come.
LEMMA TotalGrows ==
  ASSUME Rows, Rows', NEW i \in Invoices, NEW S \in SUBSET DOMAIN allocs',
         \A a \in PostedOn(i)' \ S : a \in PostedOn(i) /\ allocs'[a].amt = allocs[a].amt
  PROVE  /\ posted_allocations_total(i) \in Nat /\ Sum(S)' \in Nat
         /\ posted_allocations_total(i)' <= posted_allocations_total(i) + Sum(S)'
<1> DEFINE f == [a \in DOMAIN allocs |-> allocs[a].amt]
           g == [a \in DOMAIN allocs' |-> allocs'[a].amt]
           P == PostedOn(i)
           Q == PostedOn(i)' \ S
           R == PostedOn(i)' \cap S
<1>1. P \in SUBSET DOMAIN allocs /\ PostedOn(i)' \in SUBSET DOMAIN allocs'
  BY DEF PostedOn
<1>2. /\ \A a \in DOMAIN allocs : f[a] \in Nat
      /\ \A a \in DOMAIN allocs' : g[a] \in Nat
      /\ IsFiniteSet(P) /\ IsFiniteSet(Q) /\ IsFiniteSet(R) /\ IsFiniteSet(S)
  BY <1>1, AmountTables
<1>3. Q \in SUBSET P /\ \A a \in Q : a \in DOMAIN allocs /\ a \in DOMAIN allocs' /\ g[a] = f[a]
  BY <1>1
<1>4. /\ posted_allocations_total(i) = SumFunctionOnSet(f, P)
      /\ posted_allocations_total(i)' = SumFunctionOnSet(g, PostedOn(i)')
      /\ Sum(S)' = SumFunctionOnSet(g, S)
  BY DEF posted_allocations_total, Sum
<1>5. PostedOn(i)' = Q \cup R /\ Q \cap R = {} /\ R \in SUBSET S
  OBVIOUS
<1>6. Q \in SUBSET DOMAIN allocs' /\ R \in SUBSET DOMAIN allocs'
  BY <1>1
<1> HIDE DEF f, g, P, Q, R
<1>7. SumFunctionOnSet(g, Q \cup R) = SumFunctionOnSet(g, Q) + SumFunctionOnSet(g, R)
  <2>1. \A a \in Q \cup R : g[a] \in Int
    BY <1>2, <1>6
  <2> QED
    BY <1>2, <1>5, <2>1, SumUnion
<1>8. SumFunctionOnSet(g, Q) = SumFunctionOnSet(f, Q)
  <2>1. \A a \in Q : g[a] \in Int /\ g[a] = f[a]
    BY <1>2, <1>3
  <2> QED
    BY <1>2, <2>1, SumAgree
<1>9. SumFunctionOnSet(f, Q) <= SumFunctionOnSet(f, P)
  BY <1>1, <1>2, <1>3, SumPart
<1>10. SumFunctionOnSet(g, R) <= SumFunctionOnSet(g, S)
  BY <1>2, <1>5, SumPart
<1>11. /\ SumFunctionOnSet(f, P) \in Nat /\ SumFunctionOnSet(f, Q) \in Nat
       /\ SumFunctionOnSet(g, R) \in Nat /\ SumFunctionOnSet(g, S) \in Nat
  <2>1. /\ \A a \in P : f[a] \in Nat
        /\ \A a \in Q : f[a] \in Nat
        /\ \A a \in R : g[a] \in Nat
        /\ \A a \in S : g[a] \in Nat
    BY <1>1, <1>2, <1>3, <1>6
  <2> QED
    BY <1>2, <2>1, SumNat
<1> QED
  BY <1>4, <1>5, <1>7, <1>8, <1>9, <1>10, <1>11

\* One row that comes settles its amount.
LEMMA SumOne ==
  ASSUME NEW f, NEW a, f[a] \in Int
  PROVE  SumFunctionOnSet(f, {a}) = f[a]
<1>1. IsFiniteSet({a}) /\ {a} \ {a} = {}
  BY FS_Singleton
<1>2. SumFunctionOnSet(f, {a}) = f[a] + SumFunctionOnSet(f, {})
  <2>1. a \in {a} /\ \A x \in {a} : f[x] \in Int
    OBVIOUS
  <2> QED
    BY <1>1, <2>1, SumRemove
<1>3. SumFunctionOnSet(f, {}) = 0
  BY SumEmpty
<1> QED
  BY <1>2, <1>3

\* Without new posted rows nothing is settled above a total.
LEMMA FewerSettled ==
  ASSUME Rows, Rows', NoOverAllocation,
         \A i \in Invoices : \A a \in PostedOn(i)' :
            a \in PostedOn(i) /\ allocs'[a].amt = allocs[a].amt
  PROVE  NoOverAllocation'
<1> SUFFICES ASSUME NEW i \in Invoices PROVE posted_allocations_total(i)' <= Total + DEC
  BY DEF NoOverAllocation
<1>1. /\ posted_allocations_total(i) \in Nat /\ Sum({})' \in Nat
      /\ posted_allocations_total(i)' <= posted_allocations_total(i) + Sum({})'
  BY TotalGrows
<1>2. Sum({})' = 0
  BY SumEmpty DEF Sum
<1>3. posted_allocations_total(i) <= Total + DEC
  BY DEF NoOverAllocation
<1>4. posted_allocations_total(i)' \in Int /\ Total + DEC \in Nat
  <2>1. PostedOn(i)' \in SUBSET DOMAIN allocs'
    BY DEF PostedOn
  <2>2. posted_allocations_total(i)' \in Nat
    <3> DEFINE g == [a \in DOMAIN allocs' |-> allocs'[a].amt]
    <3>1. \A a \in DOMAIN allocs' : g[a] \in Nat
      BY AmountTables
    <3>2. posted_allocations_total(i)' = SumFunctionOnSet(g, PostedOn(i)')
      BY DEF posted_allocations_total, Sum
    <3>3. IsFiniteSet(PostedOn(i)')
      BY <2>1, AmountTables
    <3> HIDE DEF g
    <3> QED
      BY <2>1, <3>1, <3>2, <3>3, SumNat
  <2> QED
    BY <2>2, PaymentConstants
<1> QED
  BY <1>1, <1>2, <1>3, <1>4

\* A payment whose journals and amount rest is credited as before.
CreditRight(p) ==
  IF pays[p].posted
    THEN /\ p \in DOMAIN credits
         /\ pays[p].amount - DEC <= credits[p]
         /\ credits[p] <= pays[p].amount + DEC
    ELSE p \notin DOMAIN credits

LEMMA CreditsKeep ==
  ASSUME CreditsMatch,
         \A p \in DOMAIN pays' :
            \/ /\ p \in DOMAIN pays /\ pays'[p].posted = pays[p].posted
               /\ pays'[p].amount = pays[p].amount
               /\ p \in DOMAIN credits' <=> p \in DOMAIN credits
               /\ p \in DOMAIN credits => credits'[p] = credits[p]
            \/ CreditRight(p)'
  PROVE  CreditsMatch'
  BY DEF CreditsMatch, CreditRight

\* What postings have read stays current while the rows they read rest.
LEMMA CurrentKeeps ==
  ASSUME Rows, Rows', ReadCurrent,
         \A c \in Clients : req'[c].op \in {"post_total", "post_rows"} =>
            /\ req'[c] = req[c]
            /\ \A q \in DOMAIN pays' : q = req[c].pay =>
                 /\ q \in DOMAIN pays /\ pays'[q].amount = pays[q].amount
                 /\ AllocsOf(q)' = AllocsOf(q)
                 /\ \A a \in AllocsOf(q) : allocs'[a].amt = allocs[a].amt
  PROVE  ReadCurrent'
<1>1. ASSUME NEW c \in Clients, req'[c].op \in {"post_total", "post_rows"},
             NEW q \in DOMAIN pays', q = req'[c].pay
      PROVE  /\ req'[c].allocated = Sum(AllocsOf(q))'
             /\ req'[c].allocated <= pays'[q].amount + DEC
             /\ req'[c].op = "post_rows" => req'[c].rows = AllocsOf(q)'
  <2>1. /\ req'[c] = req[c] /\ q \in DOMAIN pays /\ pays'[q].amount = pays[q].amount
        /\ AllocsOf(q)' = AllocsOf(q)
        /\ \A a \in AllocsOf(q) : allocs'[a].amt = allocs[a].amt
    BY <1>1
  <2>2. /\ req[c].allocated = Sum(AllocsOf(q)) /\ req[c].allocated <= pays[q].amount + DEC
        /\ req[c].op = "post_rows" => req[c].rows = AllocsOf(q)
    BY <1>1, <2>1 DEF ReadCurrent, InProgress
  <2>3. Sum(AllocsOf(q))' = Sum(AllocsOf(q))
    <3> DEFINE f == [a \in DOMAIN allocs |-> allocs[a].amt]
               g == [a \in DOMAIN allocs' |-> allocs'[a].amt]
               A == AllocsOf(q)
    <3>1. A \in SUBSET DOMAIN allocs /\ A \in SUBSET DOMAIN allocs'
      <4>1. AllocsOf(q) \in SUBSET DOMAIN allocs /\ AllocsOf(q)' \in SUBSET DOMAIN allocs'
        BY DEF AllocsOf
      <4> QED
        BY <2>1, <4>1
    <3>2. IsFiniteSet(A) /\ \A a \in A : f[a] \in Int /\ f[a] = g[a]
      BY <2>1, <3>1, AmountTables
    <3>3. Sum(AllocsOf(q)) = SumFunctionOnSet(f, A) /\ Sum(AllocsOf(q))' = SumFunctionOnSet(g, A)
      BY <2>1 DEF Sum
    <3> HIDE DEF f, g, A
    <3> QED
      BY <3>2, <3>3, SumAgree
  <2> QED
    BY <2>1, <2>2, <2>3
<1> QED
  BY <1>1 DEF ReadCurrent, InProgress

-----------------------------------------------------------------------------
(* The three amounts, step by step *)

AmountsOK == NoOverAllocation /\ CreditsMatch /\ ReadCurrent

\* A step that moves no money, and reads nothing of it.
LEMMA StillKeeps ==
  ASSUME OInv, IInv', UNCHANGED <<pays, allocs, credits>>,
         \A c \in Clients : req'[c].op \in {"post_total", "post_rows"} => req'[c] = req[c]
  PROVE  AmountsOK'
<1>1. Rows /\ Rows' /\ NoOverAllocation /\ CreditsMatch /\ ReadCurrent
  BY TypeParts, TypePartsNext DEF OInv, IInv
<1>2. NoOverAllocation'
  BY <1>1 DEF NoOverAllocation, posted_allocations_total, PostedOn, Sum
<1>3. CreditsMatch'
  BY <1>1 DEF CreditsMatch
<1>4. \A q : AllocsOf(q)' = AllocsOf(q)
  BY DEF AllocsOf
<1>5. ReadCurrent'
  BY <1>1, <1>4, CurrentKeeps
<1> QED
  BY <1>2, <1>3, <1>5 DEF AmountsOK

\* A receipt settles what fits, credits its amount, and no posting reads it.
LEMMA ReceiptSettles ==
  ASSUME OInv, IInv', NEW c \in Clients, NEW i \in Invoices,
         NEW amount \in Nat, NEW allocated \in Nat, allocated <= amount,
         NEW auto, NewReceipt(i, amount, allocated, auto), Finish(c)
  PROVE  AmountsOK'
<1>1. /\ Rows /\ Rows' /\ ReqOK /\ NoOverAllocation /\ CreditsMatch /\ ReadCurrent
  BY TypeParts, TypePartsNext DEF OInv, IInv
<1>2. /\ NextPay \notin DOMAIN pays /\ NextPay \notin DOMAIN credits
      /\ NextAlloc \notin DOMAIN allocs
      /\ \A d \in Clients : req[d].op \in {"post_total", "post_rows"} => req[d].pay # NextPay
  <2>1. \A a \in DOMAIN allocs : a \in Nat /\ a < NextAlloc
    BY <1>1, NextAllocNew DEF Rows
  <2> QED
    BY <1>1, <2>1, NextPayNew
<1>3. /\ pays' = Put(pays, NextPay, [amount |-> amount, posted |-> TRUE, auto |-> auto])
      /\ credits' = Put(credits, NextPay, Credited(amount, allocated, allocated))
      /\ allocs' = IF allocated = 0 THEN allocs
                   ELSE Put(allocs, NextAlloc, [pay |-> NextPay, inv |-> i, amt |-> allocated])
      /\ allocated > 0 => Fits(i, allocated)
  BY DEF NewReceipt
<1>4. /\ \A p \in DOMAIN pays : pays'[p] = pays[p] /\ p \in DOMAIN pays' /\ p # NextPay
      /\ DOMAIN pays' = DOMAIN pays \cup {NextPay}
      /\ pays'[NextPay] = [amount |-> amount, posted |-> TRUE, auto |-> auto]
  BY <1>2, <1>3 DEF Put
<1>5. /\ DOMAIN credits' = DOMAIN credits \cup {NextPay}
      /\ \A p \in DOMAIN credits : credits'[p] = credits[p]
      /\ credits'[NextPay] = Credited(amount, allocated, allocated)
  BY <1>2, <1>3 DEF Put
<1>6. /\ \A a \in DOMAIN allocs : a \in DOMAIN allocs' /\ allocs'[a] = allocs[a] /\ a # NextAlloc
      /\ \A a \in DOMAIN allocs' \ DOMAIN allocs :
           /\ a = NextAlloc /\ allocated > 0
           /\ allocs'[a] = [pay |-> NextPay, inv |-> i, amt |-> allocated]
  BY <1>2, <1>3 DEF Put
<1>7. \A j \in Invoices : \A a \in PostedOn(j)' :
        \/ a \in PostedOn(j) /\ allocs'[a].amt = allocs[a].amt
        \/ a = NextAlloc /\ allocated > 0 /\ j = i /\ a \notin DOMAIN allocs
  BY <1>1, <1>4, <1>6 DEF PostedOn, Rows
<1>8. NoOverAllocation'
  <2>1. CASE allocated = 0
    BY <1>1, <1>7, <2>1, FewerSettled
  <2>2. CASE allocated > 0
    <3>1. DOMAIN allocs' = DOMAIN allocs \cup {NextAlloc} /\ allocs'[NextAlloc].amt = allocated
      BY <1>3, <1>6, <2>2 DEF Put
    <3>2. Fits(i, allocated)
      BY <1>3, <2>2
    <3>3. ASSUME NEW n, n = NextAlloc
          PROVE  /\ posted_allocations_total(i) \in Nat
                 /\ posted_allocations_total(i)' <= posted_allocations_total(i) + allocated
      <4>1. {n} \in SUBSET DOMAIN allocs'
        BY <3>1, <3>3
      <4>2. \A a \in PostedOn(i)' \ {n} : a \in PostedOn(i) /\ allocs'[a].amt = allocs[a].amt
        BY <1>7, <3>3
      <4>3. /\ posted_allocations_total(i) \in Nat
            /\ posted_allocations_total(i)' <= posted_allocations_total(i) + Sum({n})'
        BY <1>1, <4>1, <4>2, TotalGrows
      <4>4. Sum({n})' = allocated
        <5> DEFINE g == [a \in DOMAIN allocs' |-> allocs'[a].amt]
        <5>1. g[n] = allocated /\ Sum({n})' = SumFunctionOnSet(g, {n})
          BY <3>1, <3>3 DEF Sum
        <5> HIDE DEF g
        <5> QED
          BY <5>1, SumOne
      <4> QED
        BY <4>3, <4>4
    <3>4. ASSUME NEW j \in Invoices, j # i
          PROVE  posted_allocations_total(j)' <= posted_allocations_total(j) + Sum({})'
      <4>1. \A a \in PostedOn(j)' \ {} : a \in PostedOn(j) /\ allocs'[a].amt = allocs[a].amt
        BY <1>7, <3>4
      <4> QED
        BY <1>1, <4>1, TotalGrows
    <3>5. Sum({})' = 0
      BY SumEmpty DEF Sum
    <3>6. \A j \in Invoices : posted_allocations_total(j) \in Nat /\ posted_allocations_total(j)' \in Nat
      <4>1. \A j \in Invoices : PostedOn(j) \in SUBSET DOMAIN allocs
        BY DEF PostedOn
      <4>2. \A j \in Invoices : PostedOn(j)' \in SUBSET DOMAIN allocs'
        BY DEF PostedOn
      <4> QED
        BY <1>1, <4>1, <4>2, SumsNat DEF posted_allocations_total
    <3>7. posted_allocations_total(i)' <= Total + DEC
      <4>1. posted_allocations_total(i) + allocated <= Total + DEC
        BY <3>2 DEF Fits
      <4>2. posted_allocations_total(i)' <= posted_allocations_total(i) + allocated
        BY <3>3
      <4> QED
        BY <3>6, <4>1, <4>2, PaymentConstants
    <3>8. \A j \in Invoices : j # i => posted_allocations_total(j)' <= Total + DEC
      <4>1. \A j \in Invoices : posted_allocations_total(j) <= Total + DEC
        BY <1>1 DEF NoOverAllocation
      <4> QED
        BY <3>4, <3>5, <3>6, <4>1, PaymentConstants
    <3> QED
      BY <3>7, <3>8 DEF NoOverAllocation
  <2> QED
    BY <2>1, <2>2
<1>9. CreditsMatch'
  <2>1. /\ amount - DEC <= Credited(amount, allocated, allocated)
        /\ Credited(amount, allocated, allocated) <= amount + DEC
    BY PaymentConstants DEF Credited
  <2>2. \A p \in DOMAIN pays' : p = NextPay => CreditRight(p)'
    BY <1>4, <1>5, <2>1 DEF CreditRight
  <2>3. \A p \in DOMAIN pays' : p # NextPay =>
          /\ p \in DOMAIN pays /\ pays'[p] = pays[p]
          /\ p \in DOMAIN credits' <=> p \in DOMAIN credits
          /\ p \in DOMAIN credits => credits'[p] = credits[p]
    BY <1>4, <1>5
  <2> QED
    BY <1>1, <2>2, <2>3, CreditsKeep
<1>10. ReadCurrent'
  <2>1. \A d \in Clients : req'[d].op \in {"post_total", "post_rows"} => req'[d] = req[d]
    BY <1>1 DEF Finish, Idle, ReqOK
  <2>2. ASSUME NEW q, q # NextPay PROVE AllocsOf(q)' = AllocsOf(q)
    BY <1>6, <2>2 DEF AllocsOf
  <2>3. \A q \in DOMAIN pays : \A a \in AllocsOf(q) : allocs'[a].amt = allocs[a].amt
    BY <1>6 DEF AllocsOf
  <2> QED
    BY <1>1, <1>2, <1>4, <2>1, <2>2, <2>3, CurrentKeeps
<1> QED
  BY <1>8, <1>9, <1>10 DEF AmountsOK

\* Posting an invoice and collecting on it.
LEMMA PostInvoiceSettles ==
  ASSUME OInv, IInv', NEW c \in Clients, PostOrCollect(c)
  PROVE  AmountsOK'
<1> DEFINE i == req[c].inv
<1>0. Rows /\ ReqOK
  BY TypeParts DEF OInv, IInv
<1>1. \A m, n \in Int : m >= 0 => MinOf(m, MaxOf(n, 0)) \in Nat /\ MinOf(m, MaxOf(n, 0)) <= m
  BY DEF MinOf, MaxOf
<1>2. \A cash \in Amounts : cash \in Nat /\ cash \in Int /\ cash >= 0
  BY PaymentConstants
<1>3. ASSUME NEW j \in Invoices, PostInvoiceBegin(c, j) \/ CollectBegin(c, j) PROVE AmountsOK'
  <2>1. \A d \in Clients : req'[d].op \in {"post_total", "post_rows"} => req'[d] = req[d]
    BY <1>0, <1>3 DEF PostInvoiceBegin, CollectBegin, Start, ReqOK
  <2> QED
    BY <1>3, <2>1, StillKeeps DEF PostInvoiceBegin, CollectBegin, rows
<1>4. ASSUME PostInvoiceCommit(c) \/ \E cash \in Amounts : PostAndCollect(c, cash) \/ CollectCommit(c, cash)
      PROVE  i \in Invoices /\ req[c].remaining \in Int /\ Finish(c) /\ Total - paid[i] \in Int
  <2>1. i \in Invoices /\ req[c].remaining \in Int /\ Finish(c)
    BY <1>0, <1>4, RequestParts DEF PostInvoiceCommit, PostAndCollect, CollectCommit
  <2> QED
    BY <1>0, <2>1, PaymentConstants DEF Rows
<1> HIDE DEF i
<1>5. CASE PostInvoiceCommit(c)
  <2>1. CASE NewReceipt(i, req[c].remaining, req[c].remaining, i) /\ req[c].remaining > DEC
    <3>1. req[c].remaining \in Nat /\ req[c].remaining <= req[c].remaining
      BY <1>4, <1>5, <2>1, PaymentConstants
    <3> QED
      BY <1>4, <1>5, <2>1, <3>1, ReceiptSettles
  <2>2. CASE UNCHANGED <<paid, pays, allocs, credits>>
    <3>1. \A d \in Clients : req'[d].op \in {"post_total", "post_rows"} => req'[d] = req[d]
      BY <1>0, <1>4, <1>5 DEF Finish, Idle, ReqOK
    <3> QED
      BY <2>2, <3>1, StillKeeps
  <2> QED
    BY <1>5, <2>1, <2>2 DEF PostInvoiceCommit, i
<1>6. ASSUME NEW cash \in Amounts, PostAndCollect(c, cash) PROVE AmountsOK'
  <2>1. NewReceipt(i, cash, MinOf(cash, MaxOf(Total - paid[i], 0)), i)
    BY <1>6 DEF PostAndCollect, i, Remaining
  <2>2. /\ cash \in Nat /\ MinOf(cash, MaxOf(Total - paid[i], 0)) \in Nat
        /\ MinOf(cash, MaxOf(Total - paid[i], 0)) <= cash
    BY <1>1, <1>2, <1>4, <1>6
  <2> QED
    BY <1>4, <1>6, <2>1, <2>2, ReceiptSettles
<1>7. ASSUME NEW cash \in Amounts, CollectCommit(c, cash) PROVE AmountsOK'
  <2>1. NewReceipt(i, cash, MinOf(cash, MaxOf(req[c].remaining, 0)), NoInvoice)
    BY <1>7 DEF CollectCommit, i
  <2>2. /\ cash \in Nat /\ MinOf(cash, MaxOf(req[c].remaining, 0)) \in Nat
        /\ MinOf(cash, MaxOf(req[c].remaining, 0)) <= cash
    BY <1>1, <1>2, <1>4, <1>7
  <2> QED
    BY <1>4, <1>7, <2>1, <2>2, ReceiptSettles
<1>8. CASE CollectStatus(c)
  <2>1. UNCHANGED rows /\ req' = [req EXCEPT ![c].op = "settle"] /\ req[c].op = "collect"
    BY <1>8 DEF CollectStatus
  <2>2. req[c] \in [op : {"post_invoice", "collect", "settle"}, inv : Invoices,
                    remaining : Int]
    <3>1. req[c] \in {Idle} \cup Requests
      BY <1>0 DEF ReqOK
    <3> QED
      BY <2>1, <3>1 DEF Requests, Idle
  <2>3. \A d \in Clients : req'[d].op \in {"post_total", "post_rows"} => req'[d] = req[d]
    BY <1>0, <2>1, <2>2 DEF ReqOK
  <2> QED
    BY <2>1, <2>3, StillKeeps DEF rows
<1> QED
  BY <1>3, <1>5, <1>6, <1>7, <1>8 DEF PostOrCollect

\* Payments ps are deleted with their rows, their journals if they have any.
LEMMA DeletedSettles ==
  ASSUME OInv, IInv', NEW c \in Clients, Finish(c), NEW ps,
         pays' = Dropped(pays, ps), allocs' = Cascaded(ps),
         \A p \in DOMAIN pays \ ps : /\ p \in DOMAIN credits' <=> p \in DOMAIN credits
                                     /\ p \in DOMAIN credits => credits'[p] = credits[p]
  PROVE  AmountsOK'
<1>1. Rows /\ Rows' /\ ReqOK /\ NoOverAllocation /\ CreditsMatch /\ ReadCurrent
  BY TypeParts, TypePartsNext DEF OInv, IInv
<1>2. /\ DOMAIN pays' = DOMAIN pays \ ps
      /\ \A p \in DOMAIN pays \ ps : pays'[p] = pays[p]
      /\ DOMAIN allocs' \subseteq DOMAIN allocs
      /\ \A a \in DOMAIN allocs' : allocs'[a] = allocs[a]
      /\ \A a \in DOMAIN allocs' : allocs'[a].pay \in DOMAIN pays'
      /\ \A a \in DOMAIN allocs : allocs[a].pay \notin ps => a \in DOMAIN allocs'
  BY <1>1, DropKeeps
<1>3. NoOverAllocation'
  <2>1. \A i \in Invoices : \A a \in PostedOn(i)' :
          a \in PostedOn(i) /\ allocs'[a].amt = allocs[a].amt
    BY <1>2 DEF PostedOn
  <2> QED
    BY <1>1, <2>1, FewerSettled
<1>4. CreditsMatch'
  BY <1>1, <1>2, CreditsKeep
<1>5. ReadCurrent'
  <2>1. \A d \in Clients : req'[d].op \in {"post_total", "post_rows"} => req'[d] = req[d]
    BY <1>1 DEF Finish, Idle, ReqOK
  <2>2. \A q \in DOMAIN pays' : AllocsOf(q)' = AllocsOf(q)
    BY <1>2 DEF AllocsOf
  <2>3. \A q \in DOMAIN pays' : \A a \in AllocsOf(q) : allocs'[a].amt = allocs[a].amt
    BY <1>2 DEF AllocsOf
  <2> QED
    BY <1>1, <1>2, <2>1, <2>2, <2>3, CurrentKeeps
<1> QED
  BY <1>3, <1>4, <1>5 DEF AmountsOK

LEMMA UnpostInvoiceSettles ==
  ASSUME OInv, IInv', NEW c \in Clients, UnpostInvoice(c)
  PROVE  AmountsOK'
<1>0. ReqOK
  BY TypeParts DEF OInv, IInv
<1>1. ASSUME NEW i \in Invoices, UnpostInvoiceBegin(c, i) PROVE AmountsOK'
  <2>1. \A d \in Clients : req'[d].op \in {"post_total", "post_rows"} => req'[d] = req[d]
    BY <1>0, <1>1 DEF UnpostInvoiceBegin, Start, ReqOK
  <2> QED
    BY <1>1, <2>1, StillKeeps DEF UnpostInvoiceBegin, rows
<1>2. CASE UnpostInvoiceGuard(c) \/ UnpostInvoiceJournals(c)
  <2>1. \A d \in Clients \ {c} : req'[d] = req[d]
    BY <1>0, <1>2 DEF UnpostInvoiceGuard, UnpostInvoiceJournals, ReqOK
  <2>2. req'[c].op \in {"unpost_journals", "unpost_commit"}
    <3>1. req[c] \in [op : {"unpost_invoice", "unpost_journals", "unpost_commit"},
                      inv : Invoices, held : SUBSET (1..MaxPays), found : BOOLEAN]
      <4>1. /\ req[c] \in {Idle} \cup Requests
            /\ req[c].op \in {"unpost_invoice", "unpost_journals"}
        BY <1>0, <1>2 DEF ReqOK, UnpostInvoiceGuard, UnpostInvoiceJournals
      <4> QED
        BY <4>1 DEF Requests, Idle
    <3> QED
      BY <1>0, <1>2, <3>1 DEF UnpostInvoiceGuard, UnpostInvoiceJournals, ReqOK
  <2> QED
    BY <1>2, <2>1, <2>2, StillKeeps DEF UnpostInvoiceGuard, UnpostInvoiceJournals, rows
<1>3. CASE UnpostInvoiceCommit(c)
  <2>1. \A p \in DOMAIN pays \ req[c].held :
          /\ p \in DOMAIN credits' <=> p \in DOMAIN credits
          /\ p \in DOMAIN credits => credits'[p] = credits[p]
    BY <1>3 DEF UnpostInvoiceCommit, Dropped
  <2> QED
    BY <1>3, <2>1, DeletedSettles DEF UnpostInvoiceCommit
<1> QED
  BY <1>1, <1>2, <1>3 DEF UnpostInvoice

\* Taking a payment back: its journals go, its rows settle nothing.
LEMMA UnpostSettles ==
  ASSUME OInv, IInv', NEW p, Unpost(p),
         \A c \in Clients : req'[c].op \in {"post_total", "post_rows"} => req'[c] = req[c]
  PROVE  AmountsOK'
<1>1. Rows /\ Rows' /\ NoOverAllocation /\ CreditsMatch /\ ReadCurrent
  BY TypeParts, TypePartsNext DEF OInv, IInv
<1>2. /\ p \in DOMAIN pays /\ DOMAIN pays' = DOMAIN pays /\ allocs' = allocs
      /\ \A q \in DOMAIN pays : q # p => pays'[q] = pays[q]
      /\ \A q \in DOMAIN pays : pays'[q].amount = pays[q].amount
      /\ ~pays'[p].posted
  BY <1>1 DEF Unpost, Rows, Payment
<1>3. /\ p \notin DOMAIN credits'
      /\ \A q : q # p => /\ q \in DOMAIN credits' <=> q \in DOMAIN credits
                         /\ q \in DOMAIN credits => credits'[q] = credits[q]
  BY DEF Unpost, Dropped
<1>4. NoOverAllocation'
  <2>1. \A i \in Invoices : \A a \in PostedOn(i)' :
          a \in PostedOn(i) /\ allocs'[a].amt = allocs[a].amt
    BY <1>1, <1>2 DEF PostedOn, Rows
  <2> QED
    BY <1>1, <2>1, FewerSettled
<1>5. CreditsMatch'
  <2>1. \A q \in DOMAIN pays' : q = p => CreditRight(q)'
    BY <1>2, <1>3 DEF CreditRight
  <2> QED
    BY <1>1, <1>2, <1>3, <2>1, CreditsKeep
<1>6. ReadCurrent'
  <2>1. \A q : AllocsOf(q)' = AllocsOf(q)
    BY <1>2 DEF AllocsOf
  <2> QED
    BY <1>1, <1>2, <2>1, CurrentKeeps
<1> QED
  BY <1>4, <1>5, <1>6 DEF AmountsOK

-----------------------------------------------------------------------------
\* A posting that reads: what the others have read stays current.
LEMMA ReadSettles ==
  ASSUME OInv, IInv', UNCHANGED rows, NEW c \in Clients,
         \A d \in Clients \ {c} : req'[d] = req[d],
         NEW q, q = req'[c].pay,
         q \in DOMAIN pays =>
           /\ req'[c].allocated = Sum(AllocsOf(q))
           /\ req'[c].allocated <= pays[q].amount + DEC
           /\ req'[c].op = "post_rows" => req'[c].rows = AllocsOf(q)
  PROVE  AmountsOK'
<1>1. NoOverAllocation /\ CreditsMatch /\ ReadCurrent
  BY DEF OInv
<1>2. UNCHANGED <<pays, allocs, credits>>
  BY DEF rows
<1>3. NoOverAllocation'
  BY <1>1, <1>2 DEF NoOverAllocation, posted_allocations_total, PostedOn, Sum
<1>4. CreditsMatch'
  BY <1>1, <1>2 DEF CreditsMatch
<1>5. \A p : AllocsOf(p)' = AllocsOf(p) /\ Sum(AllocsOf(p))' = Sum(AllocsOf(p))
  BY <1>2 DEF AllocsOf, Sum
<1>6. ASSUME NEW d \in Clients, req'[d].op \in {"post_total", "post_rows"},
             NEW p \in DOMAIN pays, p = req'[d].pay
      PROVE  /\ req'[d].allocated = Sum(AllocsOf(p))
             /\ req'[d].allocated <= pays[p].amount + DEC
             /\ req'[d].op = "post_rows" => req'[d].rows = AllocsOf(p)
  <2>1. CASE d = c
    BY <1>6, <2>1
  <2>2. CASE d # c
    BY <1>1, <1>6, <2>2 DEF ReadCurrent, InProgress
  <2> QED
    BY <2>1, <2>2
<1>7. ReadCurrent'
  <2>1. ASSUME NEW d \in Clients, req'[d].op \in {"post_total", "post_rows"},
               NEW p \in DOMAIN pays', p = req'[d].pay
        PROVE  /\ req'[d].allocated = Sum(AllocsOf(p))'
               /\ req'[d].allocated <= pays'[p].amount + DEC
               /\ req'[d].op = "post_rows" => req'[d].rows = AllocsOf(p)'
    BY <1>2, <1>5, <1>6, <2>1
  <2> QED
    BY <2>1 DEF ReadCurrent, InProgress
<1> QED
  BY <1>3, <1>4, <1>7 DEF AmountsOK

\* A payment entered by hand settles nothing yet, whatever rows it brings.
LEMMA CreateSettles ==
  ASSUME OInv, IInv', NEW c \in Clients, NEW amount \in Amounts,
         NEW split \in [Invoices -> Amounts \cup {0}], CreatePayment(c, amount, split)
  PROVE  AmountsOK'
<1>1. Rows /\ Rows' /\ ReqOK /\ NoOverAllocation /\ CreditsMatch /\ ReadCurrent
  BY TypeParts, TypePartsNext DEF OInv, IInv
<1>2. /\ SamePays /\ UNCHANGED <<credits, req>>
      /\ DOMAIN pays' = DOMAIN pays \cup {NextPay} /\ ~pays'[NextPay].posted
      /\ DOMAIN allocs \subseteq DOMAIN allocs'
      /\ \A a \in DOMAIN allocs : allocs'[a] = allocs[a]
      /\ \A a \in DOMAIN allocs' \ DOMAIN allocs : allocs'[a].pay = NextPay
  BY <1>1, CreateKeeps
<1>3. /\ NextPay \notin DOMAIN pays /\ NextPay \notin DOMAIN credits
      /\ \A d \in Clients : req[d].op \in {"post_total", "post_rows"} => req[d].pay # NextPay
  BY <1>1, NextPayNew
<1>4. \A p \in DOMAIN pays : p \in DOMAIN pays' /\ pays'[p] = pays[p] /\ p # NextPay
  BY <1>2, <1>3 DEF SamePays
<1>5. NoOverAllocation'
  <2>1. \A i \in Invoices : \A a \in PostedOn(i)' :
          a \in PostedOn(i) /\ allocs'[a].amt = allocs[a].amt
    BY <1>1, <1>2, <1>4 DEF PostedOn, Rows
  <2> QED
    BY <1>1, <2>1, FewerSettled
<1>6. CreditsMatch'
  <2>1. \A p \in DOMAIN pays' : p = NextPay => CreditRight(p)'
    BY <1>2, <1>3 DEF CreditRight
  <2> QED
    BY <1>1, <1>2, <1>4, <2>1, CreditsKeep
<1>7. ReadCurrent'
  <2>1. ASSUME NEW q, q # NextPay PROVE AllocsOf(q)' = AllocsOf(q)
    BY <1>2, <2>1 DEF AllocsOf
  <2>2. \A q : \A a \in AllocsOf(q) : allocs'[a].amt = allocs[a].amt
    BY <1>2 DEF AllocsOf
  <2>3. \A d \in Clients : req'[d].op \in {"post_total", "post_rows"} =>
          /\ req'[d] = req[d]
          /\ \A q \in DOMAIN pays' : q = req[d].pay =>
               /\ q \in DOMAIN pays /\ pays'[q].amount = pays[q].amount
               /\ AllocsOf(q)' = AllocsOf(q)
               /\ \A a \in AllocsOf(q) : allocs'[a].amt = allocs[a].amt
    BY <1>2, <1>3, <1>4, <2>1, <2>2
  <2> QED
    BY <1>1, <2>3, CurrentKeeps
<1> QED
  BY <1>5, <1>6, <1>7 DEF AmountsOK

\* Posting a payment settles what fits under the locks, and credits its
\* amount, because what the request has read is what there is.
LEMMA CommitSettles ==
  ASSUME OInv, IInv', NEW c \in Clients, PostPaymentCommit(c)
  PROVE  AmountsOK'
<1> DEFINE p == req[c].pay
           read == req[c].rows
           before == IF p \in DOMAIN credits THEN credits[p] ELSE 0
<1>1. Rows /\ Rows' /\ ReqOK /\ NoOverAllocation /\ CreditsMatch /\ ReadCurrent
  BY TypeParts, TypePartsNext DEF OInv, IInv
<1>2. /\ UNCHANGED allocs /\ Finish(c) /\ p \in DOMAIN pays /\ ~pays[p].posted
      /\ DOMAIN pays' = DOMAIN pays /\ pays'[p].posted
      /\ \A q \in DOMAIN pays : pays'[q].amount = pays[q].amount /\ (q # p => pays'[q] = pays[q])
  BY <1>1, PaymentPosted
<1>3. /\ read \subseteq DOMAIN allocs
      /\ \A i \in {allocs[a].inv : a \in read} : Fits(i, SumFor(read, i))
      /\ credits' = Put(credits, p, before +
                          Credited(pays[p].amount, req[c].allocated, Sum(read)))
  BY DEF PostPaymentCommit
<1>4. /\ read = AllocsOf(p) /\ req[c].allocated = Sum(read)
      /\ Sum(read) <= pays[p].amount + DEC
  BY <1>1, <1>2 DEF ReadCurrent, InProgress, PostPaymentCommit
<1>5. Sum(read) \in Nat /\ pays[p].amount \in Nat /\ p \notin DOMAIN credits /\ before = 0
  BY <1>1, <1>2, <1>3, SumOK DEF Rows, Payment, CreditsMatch
<1> HIDE DEF p, read, before
<1>6. NoOverAllocation'
  <2>1. ASSUME NEW i \in Invoices, NEW S, S = {a \in read : allocs[a].inv = i}
        PROVE  posted_allocations_total(i)' <= Total + DEC
    <3>1. S \in SUBSET DOMAIN allocs'
      BY <1>2, <1>3, <2>1
    <3>2. \A a \in PostedOn(i)' \ S : a \in PostedOn(i) /\ allocs'[a].amt = allocs[a].amt
      BY <1>1, <1>2, <1>4, <2>1 DEF PostedOn, AllocsOf, Rows
    <3>3. Sum(S) = SumFor(read, i) /\ Sum(S)' = Sum(S)
      BY <1>2, <2>1 DEF SumFor, Sum
    <3>4. S = {} \/ Fits(i, SumFor(read, i))
      BY <1>3, <2>1
    <3>5. /\ posted_allocations_total(i) \in Nat /\ Sum(S)' \in Nat
          /\ posted_allocations_total(i)' <= posted_allocations_total(i) + Sum(S)'
      BY <1>1, <3>1, <3>2, TotalGrows
    <3>6. posted_allocations_total(i) + Sum(S)' <= Total + DEC
      <4>1. CASE S = {}
        <5>1. Sum({})' = 0
          BY SumEmpty DEF Sum
        <5> QED
          BY <1>1, <3>5, <4>1, <5>1, PaymentConstants DEF NoOverAllocation
      <4>2. CASE Fits(i, SumFor(read, i))
        BY <3>3, <4>2 DEF Fits
      <4> QED
        BY <3>4, <4>1, <4>2
    <3>7. posted_allocations_total(i)' \in Nat
      <4>1. PostedOn(i)' \in SUBSET DOMAIN allocs'
        BY DEF PostedOn
      <4> QED
        BY <1>1, <4>1, SumsNat DEF posted_allocations_total
    <3> QED
      BY <3>5, <3>6, <3>7, PaymentConstants
  <2> QED
    BY <2>1 DEF NoOverAllocation
<1>7. CreditsMatch'
  <2>1. \A m, s \in Nat : s <= m + DEC =>
          m - DEC <= 0 + Credited(m, s, s) /\ 0 + Credited(m, s, s) <= m + DEC
    BY PaymentConstants DEF Credited
  <2>2. /\ credits'[p] = 0 + Credited(pays[p].amount, Sum(read), Sum(read))
        /\ DOMAIN credits' = DOMAIN credits \cup {p}
        /\ \A q \in DOMAIN credits : q # p => credits'[q] = credits[q]
    BY <1>3, <1>4, <1>5 DEF Put
  <2>3. pays[p].amount - DEC <= credits'[p] /\ credits'[p] <= pays[p].amount + DEC
    BY <1>4, <1>5, <2>1, <2>2
  <2>4. \A q \in DOMAIN pays' : q = p => CreditRight(q)'
    BY <1>2, <2>2, <2>3 DEF CreditRight
  <2> QED
    BY <1>1, <1>2, <2>2, <2>4, CreditsKeep
<1>8. ReadCurrent'
  <2>1. \A d \in Clients : req'[d].op \in {"post_total", "post_rows"} => req'[d] = req[d]
    BY <1>1, <1>2 DEF Finish, Idle, ReqOK
  <2>2. \A q : AllocsOf(q)' = AllocsOf(q)
    BY <1>2 DEF AllocsOf
  <2> QED
    BY <1>1, <1>2, <2>1, <2>2, CurrentKeeps
<1> QED
  BY <1>6, <1>7, <1>8 DEF AmountsOK

LEMMA PaySettles ==
  ASSUME OInv, IInv', NEW c \in Clients, Pay(c)
  PROVE  AmountsOK'
<1>0. Rows /\ ReqOK /\ ReadCurrent
  BY TypeParts DEF OInv, IInv
<1>1. ASSUME NEW p \in DOMAIN pays, PostPaymentTotal(c, p) PROVE AmountsOK'
  <2>1. /\ Sum(AllocsOf(p)) <= pays[p].amount + DEC /\ UNCHANGED rows
        /\ req'[c] = [op |-> "post_total", pay |-> p, allocated |-> Sum(AllocsOf(p)),
                      rows |-> {}]
        /\ \A d \in Clients \ {c} : req'[d] = req[d]
    BY <1>0, <1>1 DEF PostPaymentTotal, Start, ReqOK
  <2>2. /\ req'[c].pay = p /\ req'[c].op = "post_total"
        /\ req'[c].allocated = Sum(AllocsOf(p))
    BY <2>1
  <2> QED
    BY <2>1, <2>2, ReadSettles
<1>2. CASE PostPaymentRows(c)
  <2> DEFINE q == req[c].pay
             read == AllocsOf(q)
  <2>1. /\ req[c].op = "post_total" /\ UNCHANGED rows
        /\ req' = [req EXCEPT ![c].op = "post_rows", ![c].rows = read]
    BY <1>2 DEF PostPaymentRows
  <2>2. req[c] \in [op : {"post_total", "post_rows"}, pay : 1..MaxPays, allocated : Nat,
                    rows : SUBSET (1..MaxAllocs)]
    <3>1. req[c] \in {Idle} \cup Requests
      BY <1>0 DEF ReqOK
    <3> QED
      BY <2>1, <3>1 DEF Requests, Idle
  <2> HIDE DEF read
  <2>3. /\ req'[c].op = "post_rows" /\ req'[c].pay = q /\ req'[c].rows = read
        /\ req'[c].allocated = req[c].allocated
        /\ \A d \in Clients \ {c} : req'[d] = req[d]
    BY <1>0, <2>1, <2>2 DEF ReqOK
  <2> HIDE DEF q
  <2>4. q \in DOMAIN pays =>
          /\ req'[c].allocated = Sum(AllocsOf(q)) /\ req'[c].allocated <= pays[q].amount + DEC
    BY <1>0, <2>1, <2>3 DEF ReadCurrent, InProgress, q
  <2> QED
    BY <2>1, <2>3, <2>4, ReadSettles DEF read
<1>3. ASSUME NEW p \in DOMAIN pays, UnpostPayment(c, p) PROVE AmountsOK'
  BY <1>3, UnpostSettles DEF UnpostPayment
<1> QED
  BY <1>1, <1>2, <1>3, CreateSettles, CommitSettles DEF Pay
-----------------------------------------------------------------------------
\* The two transactions of a deletion: taken back, then dropped with its rows.
LEMMA DeleteSettles ==
  ASSUME OInv, IInv', NEW c \in Clients, DeletePayment(c)
  PROVE  AmountsOK'
<1>0. ReqOK
  BY TypeParts DEF OInv, IInv
<1>1. ASSUME NEW p \in DOMAIN pays, DeleteBegin(c, p) PROVE AmountsOK'
  <2>1. \A d \in Clients : req'[d].op \in {"post_total", "post_rows"} => req'[d] = req[d]
    BY <1>0, <1>1 DEF DeleteBegin, Start, ReqOK
  <2> QED
    BY <1>1, <2>1, StillKeeps DEF DeleteBegin, rows
<1>2. CASE DeleteUnpost(c)
  <2>1. Unpost(req[c].pay) /\ req[c].op = "delete" /\ req' = [req EXCEPT ![c].unpost = FALSE]
    BY <1>2 DEF DeleteUnpost
  <2>2. req[c] \in [op : {"delete"}, pay : 1..MaxPays, unpost : BOOLEAN]
    <3>1. req[c] \in {Idle} \cup Requests
      BY <1>0 DEF ReqOK
    <3> QED
      BY <2>1, <3>1 DEF Requests, Idle
  <2>3. req'[c].op = "delete" /\ \A d \in Clients \ {c} : req'[d] = req[d]
    BY <1>0, <2>1, <2>2 DEF ReqOK
  <2> QED
    BY <2>1, <2>3, UnpostSettles
<1>3. ASSUME NEW p, p = req[c].pay, DeleteRow(c) PROVE AmountsOK'
  <2>1. /\ pays' = Dropped(pays, {p}) /\ allocs' = Cascaded({p})
        /\ credits' = credits /\ Finish(c)
    BY <1>3 DEF DeleteRow
  <2> QED
    BY <2>1, DeletedSettles
<1> QED
  BY <1>1, <1>2, <1>3 DEF DeletePayment

\* A row added to a payment nobody is posting: it fits, if it settles at once.
LEMMA AllocateSettles ==
  ASSUME OInv, IInv', NEW c \in Clients, NEW p \in DOMAIN pays, Quiet(p),
         NEW i \in Invoices, NEW amt \in Amounts, Allocate(c, p, i, amt)
  PROVE  AmountsOK'
<1>1. Rows /\ Rows' /\ ReqOK /\ NoOverAllocation /\ CreditsMatch /\ ReadCurrent
  BY TypeParts, TypePartsNext DEF OInv, IInv
<1>2. /\ allocs' = Put(allocs, NextAlloc, [pay |-> p, inv |-> i, amt |-> amt])
      /\ UNCHANGED <<pays, credits, req>>
      /\ pays[p].posted => Fits(i, amt)
  BY DEF Allocate
<1>3. amt \in Nat
  BY PaymentConstants
<1>4. PICK n : n = NextAlloc
  OBVIOUS
<1>5. n \notin DOMAIN allocs
  BY <1>1, <1>4, NextAllocNew DEF Rows
<1>6. /\ DOMAIN allocs' = DOMAIN allocs \cup {n}
      /\ \A a \in DOMAIN allocs : allocs'[a] = allocs[a]
      /\ allocs'[n] = [pay |-> p, inv |-> i, amt |-> amt]
  BY <1>2, <1>4, <1>5 DEF Put
<1>7. NoOverAllocation'
  <2>1. CASE ~pays[p].posted
    <3>1. \A j \in Invoices : \A a \in PostedOn(j)' :
            a \in PostedOn(j) /\ allocs'[a].amt = allocs[a].amt
      BY <1>2, <1>6, <2>1 DEF PostedOn
    <3> QED
      BY <1>1, <3>1, FewerSettled
  <2>2. CASE pays[p].posted
    <3>1. ASSUME NEW j \in Invoices, NEW S, S = IF j = i THEN {n} ELSE {}
          PROVE  posted_allocations_total(j)' <= Total + DEC
      <4>1. S \in SUBSET DOMAIN allocs'
        BY <1>6, <3>1
      <4>2. \A a \in PostedOn(j)' \ S : a \in PostedOn(j) /\ allocs'[a].amt = allocs[a].amt
        BY <1>2, <1>5, <1>6, <3>1 DEF PostedOn
      <4>3. /\ posted_allocations_total(j) \in Nat /\ Sum(S)' \in Nat
            /\ posted_allocations_total(j)' <= posted_allocations_total(j) + Sum(S)'
        BY <1>1, <4>1, <4>2, TotalGrows
      <4>4. posted_allocations_total(j) + Sum(S)' <= Total + DEC
        <5>1. CASE j = i
          <6> DEFINE g == [a \in DOMAIN allocs' |-> allocs'[a].amt]
          <6>1. g[n] = amt /\ Sum({n})' = SumFunctionOnSet(g, {n})
            BY <1>6 DEF Sum
          <6> HIDE DEF g
          <6>2. Sum({n})' = amt
            BY <1>3, <6>1, SumOne
          <6>3. S = {n}
            BY <3>1, <5>1
          <6> QED
            BY <1>2, <2>2, <5>1, <6>2, <6>3 DEF Fits
        <5>2. CASE j # i
          <6>1. S = {} /\ Sum({})' = 0
            BY <3>1, <5>2, SumEmpty DEF Sum
          <6> QED
            BY <1>1, <4>3, <6>1, PaymentConstants DEF NoOverAllocation
        <5> QED
          BY <5>1, <5>2
      <4>5. posted_allocations_total(j)' \in Nat
        <5>1. PostedOn(j)' \in SUBSET DOMAIN allocs'
          BY DEF PostedOn
        <5> QED
          BY <1>1, <5>1, SumsNat DEF posted_allocations_total
      <4> QED
        BY <4>3, <4>4, <4>5, PaymentConstants
    <3> QED
      BY <3>1 DEF NoOverAllocation
  <2> QED
    BY <2>1, <2>2
<1>8. CreditsMatch'
  BY <1>1, <1>2 DEF CreditsMatch
<1>9. ReadCurrent'
  <2>1. \A d \in Clients : req[d].op \in {"post_total", "post_rows"} => req[d].pay # p
    BY DEF Quiet, InProgress
  <2>2. ASSUME NEW q, q # p PROVE AllocsOf(q)' = AllocsOf(q)
    BY <1>5, <1>6, <2>2 DEF AllocsOf
  <2>3. \A q : \A a \in AllocsOf(q) : allocs'[a].amt = allocs[a].amt
    BY <1>6 DEF AllocsOf
  <2>4. \A d \in Clients : req'[d].op \in {"post_total", "post_rows"} =>
          /\ req'[d] = req[d]
          /\ \A q \in DOMAIN pays' : q = req[d].pay =>
               /\ q \in DOMAIN pays /\ pays'[q].amount = pays[q].amount
               /\ AllocsOf(q)' = AllocsOf(q)
               /\ \A a \in AllocsOf(q) : allocs'[a].amt = allocs[a].amt
    BY <1>2, <2>1, <2>2, <2>3
  <2> QED
    BY <1>1, <2>4, CurrentKeeps
<1> QED
  BY <1>7, <1>8, <1>9 DEF AmountsOK

\* A row dropped from a payment nobody is posting settles nothing any more.
LEMMA DeallocateSettles ==
  ASSUME OInv, IInv', NEW c \in Clients, NEW p \in DOMAIN pays, Quiet(p),
         NEW a \in AllocsOf(p), Deallocate(c, a)
  PROVE  AmountsOK'
<1>1. Rows /\ Rows' /\ NoOverAllocation /\ CreditsMatch /\ ReadCurrent
  BY TypeParts, TypePartsNext DEF OInv, IInv
<1>2. allocs' = Dropped(allocs, {a}) /\ UNCHANGED <<pays, credits, req>>
  BY DEF Deallocate
<1>3. /\ DOMAIN allocs' = DOMAIN allocs \ {a}
      /\ \A b \in DOMAIN allocs' : allocs'[b] = allocs[b]
  BY <1>2 DEF Dropped
<1>4. NoOverAllocation'
  <2>1. \A i \in Invoices : \A b \in PostedOn(i)' :
          b \in PostedOn(i) /\ allocs'[b].amt = allocs[b].amt
    BY <1>2, <1>3 DEF PostedOn
  <2> QED
    BY <1>1, <2>1, FewerSettled
<1>5. CreditsMatch'
  BY <1>1, <1>2 DEF CreditsMatch
<1>6. ReadCurrent'
  <2>1. \A d \in Clients : req[d].op \in {"post_total", "post_rows"} => req[d].pay # p
    BY DEF Quiet, InProgress
  <2>2. ASSUME NEW q, q # p
        PROVE  AllocsOf(q)' = AllocsOf(q) /\ \A b \in AllocsOf(q) : allocs'[b].amt = allocs[b].amt
    BY <1>3, <2>2 DEF AllocsOf
  <2>3. \A d \in Clients : req'[d].op \in {"post_total", "post_rows"} =>
          /\ req'[d] = req[d]
          /\ \A q \in DOMAIN pays' : q = req[d].pay =>
               /\ q \in DOMAIN pays /\ pays'[q].amount = pays[q].amount
               /\ AllocsOf(q)' = AllocsOf(q)
               /\ \A b \in AllocsOf(q) : allocs'[b].amt = allocs[b].amt
    BY <1>2, <2>1, <2>2
  <2> QED
    BY <1>1, <2>3, CurrentKeeps
<1> QED
  BY <1>4, <1>5, <1>6 DEF AmountsOK

-----------------------------------------------------------------------------
(* No payment settles more than it brought in *)

Within(p) == Sum(AllocsOf(p)) <= pays[p].amount + DEC

LEMMA RanksDiffer ==
  ASSUME NEW S \in SUBSET Nat, IsFiniteSet(S), NEW i \in S, NEW j \in S,
         Cardinality({k \in S : k < i}) = Cardinality({k \in S : k < j})
  PROVE  i = j
<1>1. ASSUME NEW m \in S, NEW n \in S, m < n
      PROVE  Cardinality({k \in S : k < m}) # Cardinality({k \in S : k < n})
  <2> DEFINE A == {k \in S : k < m}
             B == {k \in S : k < n}
  <2>1. m \in B /\ m \notin A /\ A \in SUBSET B
    <3>1. m \in Nat /\ n \in Nat /\ \A k \in S : k \in Nat
      OBVIOUS
    <3>2. ~ (m < m) /\ \A k \in S : k < m => k < n
      BY <1>1, <3>1
    <3> QED
      BY <1>1, <3>2
  <2>2. IsFiniteSet(B)
    BY FS_Subset
  <2> HIDE DEF A, B
  <2>3. Cardinality(B) = Cardinality(A) => B = A
    BY <2>1, <2>2, FS_Subset
  <2>4. Cardinality(A) # Cardinality(B)
    BY <2>1, <2>3
  <2> QED
    BY <2>4 DEF A, B
<1>2. i < j \/ j < i \/ i = j
  OBVIOUS
<1> QED
  BY <1>1, <1>2

\* The rows a payment is created with carry the amounts of its split.
LEMMA CreatedWithin ==
  ASSUME Rows, Rows', ReqOK, NEW c \in Clients, NEW amount \in Amounts,
         NEW split \in [Invoices -> Amounts \cup {0}], CreatePayment(c, amount, split),
         NEW p, p = NextPay
  PROVE  Within(p)'
<1> DEFINE chosen == {i \in Invoices : split[i] > 0}
           rank(i) == Cardinality({j \in chosen : j < i})
           ids == {NextAlloc + rank(i) : i \in chosen}
           row(a) == LET i == CHOOSE j \in chosen : NextAlloc + rank(j) = a
                     IN  [pay |-> NextPay, inv |-> i, amt |-> split[i]]
           h == [i \in chosen |-> NextAlloc + rank(i)]
           g == [a \in DOMAIN allocs' |-> allocs'[a].amt]
<1>1. /\ SumFunction(split) <= amount
      /\ pays' = Put(pays, NextPay, [amount |-> amount, posted |-> FALSE, auto |-> NoInvoice])
      /\ allocs' = [a \in DOMAIN allocs \cup ids |-> IF a \in DOMAIN allocs THEN allocs[a] ELSE row(a)]
  BY DEF CreatePayment
<1>2. /\ \A i \in Invoices : split[i] \in Nat /\ i \in Nat
      /\ IsFiniteSet(Invoices) /\ DOMAIN split = Invoices
  <2>1. \A x \in Amounts \cup {0} : x \in Nat
    BY PaymentConstants
  <2> QED
    BY <2>1, PaymentConstants
<1>3. chosen \in SUBSET Invoices /\ chosen \in SUBSET Nat /\ IsFiniteSet(chosen)
  <2>1. chosen \in SUBSET Invoices /\ chosen \in SUBSET Nat
    BY <1>2
  <2> QED
    BY <1>2, <2>1, FS_Subset
<1>4. \A i \in chosen : rank(i) \in Nat
  <2>1. \A i : {j \in chosen : j < i} \in SUBSET chosen
    OBVIOUS
  <2> HIDE DEF chosen
  <2> QED
    BY <1>3, <2>1, FS_Subset, FS_CardinalityType
<1>5. \A i, j \in chosen : rank(i) = rank(j) => i = j
  <2> HIDE DEF chosen
  <2> QED
    BY <1>3, RanksDiffer
<1>6. /\ NextAlloc \in Nat /\ NextPay \notin DOMAIN pays
      /\ \A a \in DOMAIN allocs : a \in Nat /\ a < NextAlloc
  BY NextPayNew, NextAllocNew DEF Rows
<1> HIDE DEF rank
<1>7. \A i, j \in chosen : h[i] = h[j] => i = j
  BY <1>4, <1>5, <1>6
<1>8. ids \cap DOMAIN allocs = {} /\ ids = {h[i] : i \in chosen}
  <2>1. ids = {h[i] : i \in chosen}
    OBVIOUS
  <2>2. \A i \in chosen : NextAlloc + rank(i) \notin DOMAIN allocs
    <3>1. \A m, n, k \in Nat : k < m => k # m + n
      OBVIOUS
    <3> QED
      BY <1>4, <1>6, <3>1
  <2> QED
    BY <2>1, <2>2
<1>9. ASSUME NEW i \in chosen PROVE g[h[i]] = split[i] /\ allocs'[h[i]].pay = p
  <2>1. h[i] = NextAlloc + rank(i) /\ h[i] \in ids
    OBVIOUS
  <2>2. (CHOOSE j \in chosen : NextAlloc + rank(j) = h[i]) = i
    <3>1. \A j \in chosen : NextAlloc + rank(j) = h[i] <=> j = i
      BY <1>7
    <3> QED
      BY <3>1
  <2>3. row(h[i]) = [pay |-> NextPay, inv |-> i, amt |-> split[i]]
    BY <2>2
  <2>4. allocs'[h[i]] = row(h[i]) /\ h[i] \in DOMAIN allocs'
    BY <1>1, <1>8, <2>1
  <2> QED
    BY <2>3, <2>4
<1>10. AllocsOf(p)' = ids
  <2>1. DOMAIN allocs' = DOMAIN allocs \cup ids
    BY <1>1
  <2>2. \A a \in DOMAIN allocs : allocs'[a] = allocs[a] /\ allocs[a].pay # p
    BY <1>1, <1>6 DEF Rows
  <2>3. \A a \in ids : allocs'[a].pay = p
    BY <1>8, <1>9
  <2> HIDE DEF ids
  <2> QED
    BY <1>8, <2>1, <2>2, <2>3 DEF AllocsOf
<1>11. Sum(AllocsOf(p))' = SumFunctionOnSet(g, {h[i] : i \in chosen})
  <2>1. Sum(AllocsOf(p))' = SumFunctionOnSet(g, AllocsOf(p)')
    BY DEF Sum
  <2> HIDE DEF g
  <2> QED
    BY <1>8, <1>10, <2>1
<1>12. pays'[p].amount = amount /\ amount \in Nat
  BY <1>1, PaymentConstants DEF Put
<1> HIDE DEF g, h, ids, row
<1>13. \A i \in chosen : split[i] \in Int /\ g[h[i]] = split[i]
  BY <1>2, <1>9
<1>14. \A i \in Invoices : split[i] \in Nat
  BY <1>2
<1>15. SumFunction(split) = SumFunctionOnSet(split, Invoices)
  BY <1>2 DEF SumFunction
<1> HIDE DEF chosen
<1>16. SumFunctionOnSet(g, {h[i] : i \in chosen}) = SumFunctionOnSet(split, chosen)
  BY <1>3, <1>7, <1>13, SumMoved
<1>17. SumFunctionOnSet(split, chosen) <= SumFunctionOnSet(split, Invoices)
  BY <1>2, <1>3, <1>14, SumPart
<1>18. SumFunctionOnSet(split, chosen) \in Nat /\ SumFunctionOnSet(split, Invoices) \in Nat
  <2>1. \A i \in chosen : split[i] \in Nat
    BY <1>3, <1>14
  <2> QED
    BY <1>2, <1>3, <1>14, <2>1, SumNat
<1> QED
  BY <1>1, <1>11, <1>12, <1>15, <1>16, <1>17, <1>18, PaymentConstants DEF Within
-----------------------------------------------------------------------------
\* With no new rows, of the same amounts, a payment settles no more.
LEMMA FewerRows ==
  ASSUME Rows, Rows', NEW q,
         \A a \in AllocsOf(q)' : a \in AllocsOf(q) /\ allocs'[a].amt = allocs[a].amt
  PROVE  /\ Sum(AllocsOf(q)) \in Nat /\ Sum(AllocsOf(q))' \in Nat
         /\ Sum(AllocsOf(q))' <= Sum(AllocsOf(q))
<1> DEFINE f == [a \in DOMAIN allocs |-> allocs[a].amt]
           g == [a \in DOMAIN allocs' |-> allocs'[a].amt]
           A == AllocsOf(q)
           B == AllocsOf(q)'
<1>1. A \in SUBSET DOMAIN allocs /\ B \in SUBSET DOMAIN allocs' /\ B \in SUBSET A
  BY DEF AllocsOf
<1>2. /\ IsFiniteSet(A) /\ IsFiniteSet(B)
      /\ \A a \in A : f[a] \in Nat
      /\ \A a \in B : g[a] \in Nat /\ g[a] \in Int /\ g[a] = f[a]
  <2>1. /\ \A a \in DOMAIN allocs : f[a] \in Nat
        /\ \A a \in DOMAIN allocs' : g[a] \in Nat
    BY AmountTables
  <2>2. \A a \in B : g[a] = f[a]
    BY <1>1
  <2> HIDE DEF f, g, A, B
  <2> QED
    BY <1>1, <2>1, <2>2, AmountTables
<1>3. Sum(AllocsOf(q)) = SumFunctionOnSet(f, A) /\ Sum(AllocsOf(q))' = SumFunctionOnSet(g, B)
  BY DEF Sum
<1> HIDE DEF f, g, A, B
<1>4. SumFunctionOnSet(g, B) = SumFunctionOnSet(f, B)
  BY <1>2, SumAgree
<1>5. SumFunctionOnSet(f, B) <= SumFunctionOnSet(f, A)
  BY <1>1, <1>2, SumPart
<1>6. SumFunctionOnSet(f, A) \in Nat /\ SumFunctionOnSet(g, B) \in Nat
  BY <1>2, SumNat
<1> QED
  BY <1>3, <1>4, <1>5, <1>6

LEMMA WithinKeeps ==
  ASSUME Rows, Rows', WithinPayment,
         \A q \in DOMAIN pays' :
            \/ /\ q \in DOMAIN pays /\ pays'[q].amount = pays[q].amount
               /\ \A a \in AllocsOf(q)' : a \in AllocsOf(q) /\ allocs'[a].amt = allocs[a].amt
            \/ Within(q)'
  PROVE  WithinPayment'
<1> SUFFICES ASSUME NEW q \in DOMAIN pays',
                    q \in DOMAIN pays, pays'[q].amount = pays[q].amount,
                    \A a \in AllocsOf(q)' : a \in AllocsOf(q) /\ allocs'[a].amt = allocs[a].amt
             PROVE  Sum(AllocsOf(q))' <= pays'[q].amount + DEC
  BY DEF WithinPayment, Within
<1>1. /\ Sum(AllocsOf(q)) \in Nat /\ Sum(AllocsOf(q))' \in Nat
      /\ Sum(AllocsOf(q))' <= Sum(AllocsOf(q))
  BY FewerRows
<1>2. Sum(AllocsOf(q)) <= pays[q].amount + DEC
  BY DEF WithinPayment
<1>3. pays[q].amount + DEC \in Nat
  BY PaymentConstants DEF Rows, Payment
<1> QED
  BY <1>1, <1>2, <1>3

\* Payments and their rows rest, or a payment changes only its state.
LEMMA SameWithin ==
  ASSUME Rows, Rows', WithinPayment, allocs' = allocs, DOMAIN pays' = DOMAIN pays,
         \A q \in DOMAIN pays : pays'[q].amount = pays[q].amount
  PROVE  WithinPayment'
<1>1. \A q : AllocsOf(q)' = AllocsOf(q)
  BY DEF AllocsOf
<1> QED
  BY <1>1, WithinKeeps

\* One row more or none: a receipt settles at most its amount.
LEMMA ReceiptWithin ==
  ASSUME Rows, Rows', ReqOK, WithinPayment, NEW i \in Invoices, NEW amount \in Nat,
         NEW allocated \in Nat, allocated <= amount, NEW auto,
         NewReceipt(i, amount, allocated, auto)
  PROVE  WithinPayment'
<1>0. PICK p, n : p = NextPay /\ n = NextAlloc
  OBVIOUS
<1>1. p \notin DOMAIN pays /\ n \notin DOMAIN allocs
  <2>1. \A a \in DOMAIN allocs : a \in Nat /\ a < n
    BY <1>0, NextAllocNew DEF Rows
  <2> QED
    BY <1>0, <2>1, NextPayNew
<1>2. /\ DOMAIN pays' = DOMAIN pays \cup {p} /\ pays'[p].amount = amount
      /\ \A q \in DOMAIN pays : pays'[q] = pays[q]
      /\ \A a \in DOMAIN allocs : a \in DOMAIN allocs' /\ allocs'[a] = allocs[a]
      /\ \A a \in DOMAIN allocs' \ DOMAIN allocs :
           a = n /\ allocs'[a] = [pay |-> p, inv |-> i, amt |-> allocated]
  BY <1>0, <1>1 DEF NewReceipt, Put
<1>3. \A q \in DOMAIN pays : \A a \in AllocsOf(q)' : a \in AllocsOf(q) /\ allocs'[a].amt = allocs[a].amt
  BY <1>1, <1>2 DEF AllocsOf
<1>4. \A a \in AllocsOf(p)' : a = n /\ allocs'[a].amt = allocated
  BY <1>1, <1>2 DEF AllocsOf, Rows
<1>5. Within(p)'
  <2>1. CASE AllocsOf(p)' = {}
    <3>1. Sum(AllocsOf(p))' = 0
      BY <2>1, SumEmpty DEF Sum
    <3> QED
      BY <1>2, <3>1, PaymentConstants DEF Within
  <2>2. CASE AllocsOf(p)' # {}
    <3> DEFINE g == [a \in DOMAIN allocs' |-> allocs'[a].amt]
    <3>1. AllocsOf(p)' = {n} /\ n \in DOMAIN allocs'
      BY <1>4, <2>2 DEF AllocsOf
    <3>2. Sum(AllocsOf(p))' = SumFunctionOnSet(g, AllocsOf(p)') /\ g[n] = allocated
      BY <1>4, <3>1 DEF Sum
    <3> HIDE DEF g
    <3>3. Sum(AllocsOf(p))' = allocated
      BY <3>1, <3>2, SumOne
    <3> QED
      BY <1>2, <3>3, PaymentConstants DEF Within
  <2> QED
    BY <2>1, <2>2
<1> QED
  BY <1>2, <1>3, <1>5, WithinKeeps

LEMMA CollectWithin ==
  ASSUME IInv, IInv', WithinPayment, NEW c \in Clients, PostOrCollect(c)
  PROVE  WithinPayment'
<1> DEFINE i == req[c].inv
<1>0. Rows /\ Rows' /\ ReqOK
  BY TypeParts, TypePartsNext DEF IInv
<1>1. \A m, n \in Int : m >= 0 => MinOf(m, MaxOf(n, 0)) \in Nat /\ MinOf(m, MaxOf(n, 0)) <= m
  BY DEF MinOf, MaxOf
<1>2. \A cash \in Amounts : cash \in Nat /\ cash \in Int /\ cash >= 0
  BY PaymentConstants
<1>3. CASE UNCHANGED <<pays, allocs>>
  BY <1>0, <1>3, SameWithin
<1>4. ASSUME PostInvoiceCommit(c) \/ \E cash \in Amounts : PostAndCollect(c, cash) \/ CollectCommit(c, cash)
      PROVE  i \in Invoices /\ req[c].remaining \in Int /\ Total - paid[i] \in Int
  <2>1. i \in Invoices /\ req[c].remaining \in Int
    BY <1>0, <1>4, RequestParts DEF PostInvoiceCommit, PostAndCollect, CollectCommit
  <2> QED
    BY <1>0, <2>1, PaymentConstants DEF Rows
<1> HIDE DEF i
<1>5. CASE PostInvoiceCommit(c)
  <2>1. ASSUME NewReceipt(i, req[c].remaining, req[c].remaining, i), req[c].remaining > DEC
        PROVE  WithinPayment'
    <3>1. req[c].remaining \in Nat /\ req[c].remaining <= req[c].remaining
      BY <1>4, <1>5, <2>1, PaymentConstants
    <3> QED
      BY <1>0, <1>4, <1>5, <2>1, <3>1, ReceiptWithin
  <2> QED
    BY <1>3, <1>5, <2>1 DEF PostInvoiceCommit, i
<1>6. ASSUME NEW cash \in Amounts, PostAndCollect(c, cash) PROVE WithinPayment'
  <2>1. NewReceipt(i, cash, MinOf(cash, MaxOf(Total - paid[i], 0)), i)
    BY <1>6 DEF PostAndCollect, i, Remaining
  <2>2. /\ cash \in Nat /\ MinOf(cash, MaxOf(Total - paid[i], 0)) \in Nat
        /\ MinOf(cash, MaxOf(Total - paid[i], 0)) <= cash
    BY <1>1, <1>2, <1>4, <1>6
  <2> QED
    BY <1>0, <1>4, <1>6, <2>1, <2>2, ReceiptWithin
<1>7. ASSUME NEW cash \in Amounts, CollectCommit(c, cash) PROVE WithinPayment'
  <2>1. NewReceipt(i, cash, MinOf(cash, MaxOf(req[c].remaining, 0)), NoInvoice)
    BY <1>7 DEF CollectCommit, i
  <2>2. /\ cash \in Nat /\ MinOf(cash, MaxOf(req[c].remaining, 0)) \in Nat
        /\ MinOf(cash, MaxOf(req[c].remaining, 0)) <= cash
    BY <1>1, <1>2, <1>4, <1>7
  <2> QED
    BY <1>0, <1>4, <1>7, <2>1, <2>2, ReceiptWithin
<1> QED
  BY <1>3, <1>5, <1>6, <1>7
     DEF PostOrCollect, PostInvoiceBegin, CollectBegin, CollectStatus, rows

\* Payments go with their rows.
LEMMA DroppedWithin ==
  ASSUME Rows, Rows', WithinPayment, NEW ps, pays' = Dropped(pays, ps),
         allocs' = Cascaded(ps)
  PROVE  WithinPayment'
<1>1. /\ DOMAIN pays' = DOMAIN pays \ ps
      /\ \A q \in DOMAIN pays \ ps : pays'[q] = pays[q]
      /\ DOMAIN allocs' \subseteq DOMAIN allocs
      /\ \A a \in DOMAIN allocs' : allocs'[a] = allocs[a]
  BY DropKeeps
<1>2. \A q : \A a \in AllocsOf(q)' : a \in AllocsOf(q) /\ allocs'[a].amt = allocs[a].amt
  BY <1>1 DEF AllocsOf
<1> QED
  BY <1>1, <1>2, WithinKeeps

LEMMA UnpostWithin ==
  ASSUME Rows, Rows', WithinPayment, NEW p, Unpost(p)
  PROVE  WithinPayment'
<1>1. /\ DOMAIN pays' = DOMAIN pays /\ allocs' = allocs
      /\ \A q \in DOMAIN pays : pays'[q].amount = pays[q].amount
  BY DEF Unpost, Rows, Payment
<1> QED
  BY <1>1, SameWithin

\* A row is added only to what the payment has left.
LEMMA AllocateWithin ==
  ASSUME IInv, IInv', WithinPayment, NEW c \in Clients, NEW p \in DOMAIN pays,
         NEW i \in Invoices, NEW amt \in Amounts, Allocate(c, p, i, amt)
  PROVE  WithinPayment'
<1>0. Rows /\ Rows' /\ ReqOK
  BY TypeParts, TypePartsNext DEF IInv
<1>1. /\ allocs' = Put(allocs, NextAlloc, [pay |-> p, inv |-> i, amt |-> amt])
      /\ pays' = pays /\ Sum(AllocsOf(p)) + amt <= pays[p].amount + DEC
  BY DEF Allocate, WithinAmount
<1>2. PICK n : n = NextAlloc
  OBVIOUS
<1>3. n \notin DOMAIN allocs
  BY <1>0, <1>2, NextAllocNew DEF Rows
<1>4. /\ DOMAIN allocs' = DOMAIN allocs \cup {n}
      /\ \A a \in DOMAIN allocs : allocs'[a] = allocs[a]
      /\ allocs'[n] = [pay |-> p, inv |-> i, amt |-> amt]
  BY <1>1, <1>2, <1>3 DEF Put
<1>5. Within(p)'
  <2> DEFINE f == [a \in DOMAIN allocs |-> allocs[a].amt]
             g == [a \in DOMAIN allocs' |-> allocs'[a].amt]
             A == AllocsOf(p)
  <2>1. AllocsOf(p)' = A \cup {n} /\ n \notin A /\ A \in SUBSET DOMAIN allocs
    BY <1>3, <1>4 DEF AllocsOf
  <2>2. /\ Sum(AllocsOf(p)) = SumFunctionOnSet(f, A)
        /\ Sum(AllocsOf(p))' = SumFunctionOnSet(g, AllocsOf(p)')
    BY DEF Sum
  <2>3. /\ IsFiniteSet(A) /\ g[n] = amt /\ g[n] \in Int
        /\ \A a \in A : f[a] \in Nat /\ g[a] \in Int /\ f[a] \in Int /\ f[a] = g[a]
    <3>1. \A a \in DOMAIN allocs : f[a] \in Nat /\ f[a] = g[a]
      BY <1>0, <1>4, AmountTables
    <3>2. g[n] = amt /\ g[n] \in Int
      BY <1>4, PaymentConstants
    <3> HIDE DEF f, g, A
    <3> QED
      BY <1>0, <2>1, <3>1, <3>2, AmountTables
  <2> HIDE DEF f, g, A
  <2>4. SumFunctionOnSet(g, A \cup {n}) = SumFunctionOnSet(g, A) + SumFunctionOnSet(g, {n})
    <3>1. IsFiniteSet({n}) /\ A \cap {n} = {} /\ \A x \in A \cup {n} : g[x] \in Int
      BY <2>1, <2>3, FS_Singleton
    <3> QED
      BY <2>3, <3>1, SumUnion
  <2>5. SumFunctionOnSet(g, {n}) = amt
    BY <2>3, SumOne
  <2>6. SumFunctionOnSet(f, A) = SumFunctionOnSet(g, A)
    BY <2>3, SumAgree
  <2> QED
    BY <1>1, <2>1, <2>2, <2>4, <2>5, <2>6 DEF Within
<1>6. \A q : q # p => \A a \in AllocsOf(q)' : a \in AllocsOf(q) /\ allocs'[a].amt = allocs[a].amt
  BY <1>3, <1>4 DEF AllocsOf
<1> QED
  BY <1>0, <1>1, <1>5, <1>6, WithinKeeps

LEMMA WithinStep ==
  ASSUME IInv, IInv', WithinPayment, [OrderlyNext]_vars
  PROVE  WithinPayment'
<1>0. Rows /\ Rows' /\ ReqOK
  BY TypeParts, TypePartsNext DEF IInv
<1>1. CASE UNCHANGED <<pays, allocs>>
  BY <1>0, <1>1, SameWithin
<1>2. ASSUME NEW c \in Clients, UnpostInvoice(c) PROVE WithinPayment'
  BY <1>0, <1>1, <1>2, DroppedWithin
     DEF UnpostInvoice, UnpostInvoiceBegin, UnpostInvoiceGuard, UnpostInvoiceJournals,
         UnpostInvoiceCommit, rows
<1>3. ASSUME NEW c \in Clients, NEW amount \in Amounts,
             NEW split \in [Invoices -> Amounts \cup {0}], CreatePayment(c, amount, split),
             NEW p, p = NextPay
      PROVE  WithinPayment'
  <2>1. Within(p)'
    BY <1>0, <1>3, CreatedWithin
  <2>2. /\ SamePays /\ DOMAIN pays' = DOMAIN pays \cup {p}
        /\ \A a \in DOMAIN allocs : allocs'[a] = allocs[a]
        /\ \A a \in DOMAIN allocs' \ DOMAIN allocs : allocs'[a].pay = p
    BY <1>0, <1>3, CreateKeeps
  <2>3. p \notin DOMAIN pays
    BY <1>0, <1>3, NextPayNew
  <2>4. \A q \in DOMAIN pays : \A a \in AllocsOf(q)' :
          a \in AllocsOf(q) /\ allocs'[a].amt = allocs[a].amt
    BY <2>2, <2>3 DEF AllocsOf
  <2> QED
    BY <1>0, <2>1, <2>2, <2>4, WithinKeeps DEF SamePays
<1>4. ASSUME NEW c \in Clients, Pay(c) PROVE WithinPayment'
  <2>1. CASE PostPaymentCommit(c)
    BY <1>0, <2>1, PaymentPosted, SameWithin
  <2>2. ASSUME NEW p \in DOMAIN pays, UnpostPayment(c, p) PROVE WithinPayment'
    BY <1>0, <2>2, UnpostWithin DEF UnpostPayment
  <2> QED
    BY <1>1, <1>3, <1>4, <2>1, <2>2 DEF Pay, PostPaymentTotal, PostPaymentRows, rows
<1>5. ASSUME NEW c \in Clients, DeletePayment(c) PROVE WithinPayment'
  BY <1>0, <1>1, <1>5, UnpostWithin, DroppedWithin
     DEF DeletePayment, DeleteBegin, DeleteUnpost, DeleteRow, rows
<1>6. ASSUME NEW a \in DOMAIN allocs, NEW c, Deallocate(c, a) PROVE WithinPayment'
  <2>1. /\ pays' = pays /\ DOMAIN allocs' = DOMAIN allocs \ {a}
        /\ \A b \in DOMAIN allocs' : allocs'[b] = allocs[b]
    BY <1>6 DEF Deallocate, Dropped
  <2>2. \A q : \A b \in AllocsOf(q)' : b \in AllocsOf(q) /\ allocs'[b].amt = allocs[b].amt
    BY <2>1 DEF AllocsOf
  <2> QED
    BY <1>0, <2>1, <2>2, WithinKeeps
<1>7. ASSUME NEW c \in Clients, NEW p \in DOMAIN pays, AllocateOwn(c, p) \/ DeallocateRow(c, p)
      PROVE  WithinPayment'
  BY <1>6, <1>7, AllocateWithin DEF AllocateOwn, DeallocateRow, AllocsOf
<1>8. ASSUME NEW c \in Clients, Abort(c) PROVE WithinPayment'
  BY <1>1, <1>8 DEF Abort, rows
<1>9. CASE OrderlyNext
  BY <1>2, <1>4, <1>5, <1>7, <1>8, <1>9, CollectWithin DEF OrderlyNext, Core
<1>10. CASE UNCHANGED vars
  BY <1>1, <1>10 DEF vars
<1> QED
  BY <1>9, <1>10

-----------------------------------------------------------------------------
LEMMA OrderlyInit == Init => OInv
<1> SUFFICES ASSUME Init PROVE OInv
  OBVIOUS
<1>1. IInv
  BY InitInvariant
<1>2. DOMAIN pays = {} /\ DOMAIN allocs = {}
  BY DEF Init
<1>3. NoOverAllocation
  <2>1. ASSUME NEW i \in Invoices PROVE posted_allocations_total(i) = 0
    <3>1. PostedOn(i) = {}
      BY <1>2 DEF PostedOn
    <3> QED
      BY <3>1, SumEmpty DEF posted_allocations_total, Sum
  <2> QED
    BY <2>1, PaymentConstants DEF NoOverAllocation
<1>4. CreditsMatch /\ ReadCurrent
  BY <1>2 DEF CreditsMatch, ReadCurrent, InProgress, Init, Idle
<1> QED
  BY <1>1, <1>3, <1>4 DEF OInv

LEMMA OrderlyStep == OInv /\ [OrderlyNext]_vars => OInv'
<1> SUFFICES ASSUME OInv, [OrderlyNext]_vars PROVE OInv'
  OBVIOUS
<1>1. OrderlyNext => Next
  BY DEF OrderlyNext, Next
<1>2. IInv'
  BY <1>1, StepInvariant DEF OInv
<1>3. ASSUME NEW c \in Clients, Abort(c) PROVE AmountsOK'
  <2>1. ReqOK
    BY TypeParts DEF OInv, IInv
  <2>2. \A d \in Clients : req'[d].op \in {"post_total", "post_rows"} => req'[d] = req[d]
    BY <1>3, <2>1 DEF Abort, Finish, Idle, ReqOK
  <2> QED
    BY <1>2, <1>3, <2>2, StillKeeps DEF Abort, rows
<1>4. ASSUME NEW c \in Clients, NEW p \in DOMAIN pays, Quiet(p),
             AllocateOwn(c, p) \/ DeallocateRow(c, p)
      PROVE  AmountsOK'
  BY <1>2, <1>4, AllocateSettles, DeallocateSettles DEF AllocateOwn, DeallocateRow
<1>5. CASE OrderlyNext
  <2>1. AmountsOK'
    BY <1>2, <1>3, <1>4, <1>5, PostInvoiceSettles, UnpostInvoiceSettles, PaySettles,
       DeleteSettles DEF OrderlyNext, Core
  <2> QED
    BY <1>2, <2>1 DEF OInv, AmountsOK
<1>6. CASE UNCHANGED vars
  <2>1. AmountsOK'
    BY <1>2, <1>6, StillKeeps DEF vars
  <2> QED
    BY <1>2, <2>1 DEF OInv, AmountsOK
<1> QED
  BY <1>5, <1>6

LEMMA OrderlyInvariant == OrderlySpec => []OInv
  BY OrderlyInit, OrderlyStep, PTL DEF OrderlySpec

\* However payments, allocations and automatic settlements race, an invoice is
\* never settled beyond its total and a cent, as long as nobody edits a payment,
\* spends the excess of a posting or changes the rows of a payment while it is
\* being posted.
THEOREM NeverOverSettled == OrderlySpec => []NoOverAllocation
<1>1. OInv => NoOverAllocation
  BY DEF OInv
<1> QED
  BY <1>1, OrderlyInvariant, PTL

\* Under the same discipline a posted payment has credited its amount to the
\* customer exactly once, and an unposted one nothing, whoever posts, takes
\* back, collects and deletes at the same time.
THEOREM CreditsFollow == OrderlySpec => []CreditsMatch
<1>1. OInv => CreditsMatch
  BY DEF OInv
<1> QED
  BY <1>1, OrderlyInvariant, PTL

\* And no payment settles more than it brought in, and a cent, though its rows
\* come from its creation, from collections and from allocations at once.
THEOREM NeverOverspent == OrderlySpec => []WithinPayment
<1>1. Init => WithinPayment
  BY DEF Init, WithinPayment
<1>2. OInv /\ OInv' /\ WithinPayment /\ [OrderlyNext]_vars => WithinPayment'
  BY WithinStep DEF OInv
<1> QED
  BY <1>1, <1>2, OrderlyInvariant, PTL DEF OrderlySpec
-----------------------------------------------------------------------------
(* One request at a time: what is paid is what is allocated *)

\* What a posting settled lies on its own invoice.
OwnRows ==
  \A a \in DOMAIN allocs : pays[allocs[a].pay].auto \in {NoInvoice, allocs[a].inv}

\* While no other request runs, what a request has read still holds: an unposting
\* has all that settles its invoice in hand, the invoice a receipt settles is
\* posted and so are those a payment is being posted on, and a payment being
\* deleted is not posted again.
InTurn ==
  \A c \in Clients :
    /\ Holds(req[c]) => \A a \in PostedOn(req[c].inv) : allocs[a].pay \in req[c].held
    /\ req[c].op = "settle" => status[req[c].inv] = "posted"
    /\ req[c].op = "post_rows" =>
         \A a \in req[c].rows \cap DOMAIN allocs : status[allocs[a].inv] = "posted"
    /\ req[c].op = "delete" /\ ~req[c].unpost /\ req[c].pay \in DOMAIN pays =>
         ~pays[req[c].pay].posted

Agreed == OwnRows /\ DraftUnpaid /\ PaidIsAllocated
OneAtATime == \A c, d \in Clients : c = d

\* The rows that come, or that go, change what is settled by what they carry.
LEMMA TotalGains ==
  ASSUME Rows, Rows', NEW i \in Invoices, NEW N \in SUBSET DOMAIN allocs',
         PostedOn(i)' = PostedOn(i) \cup N, PostedOn(i) \cap N = {},
         \A a \in PostedOn(i) : allocs'[a].amt = allocs[a].amt
  PROVE  /\ posted_allocations_total(i) \in Nat /\ Sum(N)' \in Nat
         /\ posted_allocations_total(i)' = posted_allocations_total(i) + Sum(N)'
<1> DEFINE f == [a \in DOMAIN allocs |-> allocs[a].amt]
           g == [a \in DOMAIN allocs' |-> allocs'[a].amt]
           P == PostedOn(i)
<1>1. P \in SUBSET DOMAIN allocs /\ PostedOn(i)' \in SUBSET DOMAIN allocs'
  BY DEF PostedOn
<1>2. P \in SUBSET DOMAIN allocs'
  BY <1>1
<1>3. /\ \A a \in P : f[a] \in Nat /\ g[a] \in Nat /\ f[a] = g[a]
      /\ \A a \in N : g[a] \in Nat
      /\ IsFiniteSet(P) /\ IsFiniteSet(N)
  BY <1>1, <1>2, AmountTables
<1>4. /\ posted_allocations_total(i) = SumFunctionOnSet(f, P)
      /\ posted_allocations_total(i)' = SumFunctionOnSet(g, PostedOn(i)')
      /\ PostedOn(i)' = P \cup N /\ P \cap N = {}
      /\ Sum(N)' = SumFunctionOnSet(g, N)
  BY DEF posted_allocations_total, Sum
<1> HIDE DEF f, g, P
<1>5. SumFunctionOnSet(g, P \cup N) = SumFunctionOnSet(g, P) + SumFunctionOnSet(g, N)
  <2>1. \A a \in P \cup N : g[a] \in Int
    BY <1>3
  <2> QED
    BY <1>3, <1>4, <2>1, SumUnion
<1>6. SumFunctionOnSet(f, P) = SumFunctionOnSet(g, P)
  <2>1. \A a \in P : f[a] \in Int /\ f[a] = g[a]
    BY <1>3
  <2> QED
    BY <1>3, <2>1, SumAgree
<1>7. SumFunctionOnSet(f, P) \in Nat /\ SumFunctionOnSet(g, N) \in Nat
  BY <1>3, SumNat
<1> QED
  BY <1>4, <1>5, <1>6, <1>7

LEMMA TotalLoses ==
  ASSUME Rows, Rows', NEW i \in Invoices, NEW R \in SUBSET PostedOn(i),
         PostedOn(i)' = PostedOn(i) \ R,
         \A a \in PostedOn(i) \ R : allocs'[a].amt = allocs[a].amt
  PROVE  /\ posted_allocations_total(i)' \in Nat /\ Sum(R) \in Nat
         /\ posted_allocations_total(i) = posted_allocations_total(i)' + Sum(R)
<1> DEFINE f == [a \in DOMAIN allocs |-> allocs[a].amt]
           g == [a \in DOMAIN allocs' |-> allocs'[a].amt]
           P == PostedOn(i)
           Q == P \ R
<1>1. P \in SUBSET DOMAIN allocs /\ PostedOn(i)' \in SUBSET DOMAIN allocs'
  BY DEF PostedOn
<1>2. Q \in SUBSET DOMAIN allocs' /\ R \in SUBSET DOMAIN allocs /\ Q \in SUBSET DOMAIN allocs
  BY <1>1
<1>3. /\ \A a \in Q : f[a] \in Nat /\ g[a] \in Nat /\ f[a] = g[a]
      /\ \A a \in R : f[a] \in Nat
      /\ IsFiniteSet(Q) /\ IsFiniteSet(R)
  BY <1>1, <1>2, AmountTables
<1>4. /\ posted_allocations_total(i) = SumFunctionOnSet(f, P)
      /\ posted_allocations_total(i)' = SumFunctionOnSet(g, Q)
      /\ P = Q \cup R /\ Q \cap R = {}
      /\ Sum(R) = SumFunctionOnSet(f, R)
  BY DEF posted_allocations_total, Sum
<1> HIDE DEF f, g, P, Q
<1>5. SumFunctionOnSet(f, Q \cup R) = SumFunctionOnSet(f, Q) + SumFunctionOnSet(f, R)
  <2>1. \A a \in Q \cup R : f[a] \in Int
    BY <1>3
  <2> QED
    BY <1>3, <1>4, <2>1, SumUnion
<1>6. SumFunctionOnSet(f, Q) = SumFunctionOnSet(g, Q)
  <2>1. \A a \in Q : f[a] \in Int /\ f[a] = g[a]
    BY <1>3
  <2> QED
    BY <1>3, <2>1, SumAgree
<1>7. SumFunctionOnSet(g, Q) \in Nat /\ SumFunctionOnSet(f, R) \in Nat
  BY <1>3, SumNat
<1> QED
  BY <1>4, <1>5, <1>6, <1>7

\* One row's sum.
LEMMA SumOfRow ==
  ASSUME Rows, Rows'
  PROVE  /\ \A a \in DOMAIN allocs : Sum({a}) = allocs[a].amt
         /\ \A a \in DOMAIN allocs' : Sum({a})' = allocs'[a].amt
<1>1. ASSUME NEW a \in DOMAIN allocs PROVE Sum({a}) = allocs[a].amt
  <2> DEFINE f == [b \in DOMAIN allocs |-> allocs[b].amt]
  <2>1. f[a] = allocs[a].amt /\ f[a] \in Int /\ Sum({a}) = SumFunctionOnSet(f, {a})
    BY AmountTables DEF Sum
  <2> HIDE DEF f
  <2> QED
    BY <2>1, SumOne
<1>2. ASSUME NEW a \in DOMAIN allocs' PROVE Sum({a})' = allocs'[a].amt
  <2> DEFINE f == [b \in DOMAIN allocs' |-> allocs'[b].amt]
  <2>1. f[a] = allocs'[a].amt /\ f[a] \in Int /\ Sum({a})' = SumFunctionOnSet(f, {a})
    BY AmountTables DEF Sum
  <2> HIDE DEF f
  <2> QED
    BY <2>1, SumOne
<1> QED
  BY <1>1, <1>2

\* A step that settles nothing new and takes nothing back.
LEMMA SettledSame ==
  ASSUME Rows, Rows', DraftUnpaid, PaidIsAllocated, paid' = paid,
         \A i \in Invoices : PostedOn(i)' = PostedOn(i),
         \A i \in Invoices : \A a \in PostedOn(i) : allocs'[a].amt = allocs[a].amt,
         \A i \in Invoices : status'[i] = "draft" => status[i] = "draft"
  PROVE  DraftUnpaid' /\ PaidIsAllocated'
<1>1. DraftUnpaid'
  BY DEF DraftUnpaid
<1>2. ASSUME NEW i \in Invoices PROVE paid'[i] = posted_allocations_total(i)'
  <2>1. /\ {} \in SUBSET DOMAIN allocs' /\ PostedOn(i)' = PostedOn(i) \cup {}
        /\ PostedOn(i) \cap {} = {}
    OBVIOUS
  <2>2. /\ posted_allocations_total(i) \in Nat
        /\ posted_allocations_total(i)' = posted_allocations_total(i) + Sum({})'
    BY <2>1, TotalGains
  <2>3. Sum({})' = 0
    BY SumEmpty DEF Sum
  <2> QED
    BY <2>2, <2>3 DEF PaidIsAllocated
<1> QED
  BY <1>1, <1>2 DEF PaidIsAllocated

\* A step that touches no row but those of payments that are not posted.
LEMMA UnpostedRows ==
  ASSUME Rows, Rows', Agreed, paid' = paid,
         \A a \in DOMAIN allocs : pays[allocs[a].pay].posted =>
            /\ a \in DOMAIN allocs' /\ allocs'[a] = allocs[a]
            /\ pays'[allocs[a].pay] = pays[allocs[a].pay],
         \A a \in DOMAIN allocs' : pays'[allocs'[a].pay].posted =>
            /\ a \in DOMAIN allocs /\ allocs'[a] = allocs[a]
            /\ pays'[allocs[a].pay] = pays[allocs[a].pay],
         \A i \in Invoices : status'[i] = "draft" => status[i] = "draft"
  PROVE  DraftUnpaid' /\ PaidIsAllocated'
<1>1. \A i \in Invoices : PostedOn(i)' = PostedOn(i)
  BY DEF PostedOn
<1>2. \A i \in Invoices : \A a \in PostedOn(i) : allocs'[a].amt = allocs[a].amt
  BY DEF PostedOn
<1> QED
  BY <1>1, <1>2, SettledSame DEF Agreed

\* A new receipt settles what it says on an invoice that is posted.
LEMMA ReceiptAgrees ==
  ASSUME Rows, ReqOK, Rows', Agreed, NEW i \in Invoices,
         NEW amount \in Nat, NEW allocated \in Nat, NEW auto \in {NoInvoice, i},
         NewReceipt(i, amount, allocated, auto),
         allocated > 0 => status'[i] = "posted",
         \A j \in Invoices : status'[j] = "draft" => status[j] = "draft"
  PROVE  Agreed'
<1>1. PICK n, p : n = NextAlloc /\ p = NextPay
  OBVIOUS
<1>2. p \notin DOMAIN pays /\ n \notin DOMAIN allocs
  <2>1. \A a \in DOMAIN allocs : a \in Nat /\ a < n
    BY <1>1, NextAllocNew DEF Rows
  <2> QED
    BY <1>1, <2>1, NextPayNew
<1>3. /\ pays' = Put(pays, p, [amount |-> amount, posted |-> TRUE, auto |-> auto])
      /\ allocs' = IF allocated = 0 THEN allocs
                   ELSE Put(allocs, n, [pay |-> p, inv |-> i, amt |-> allocated])
      /\ paid' = [paid EXCEPT ![i] = @ + allocated]
  BY <1>1 DEF NewReceipt
<1>4. /\ \A q \in DOMAIN pays : pays'[q] = pays[q]
      /\ pays'[p].auto = auto /\ pays'[p].posted
  BY <1>2, <1>3 DEF Put
<1>5. \A a \in DOMAIN allocs : allocs[a].pay \in DOMAIN pays
  BY DEF Rows
<1>6. CASE allocated = 0
  <2>1. allocs' = allocs /\ paid' = paid
    BY <1>3, <1>6 DEF Rows
  <2>2. OwnRows'
    BY <1>4, <1>5, <2>1 DEF OwnRows, Agreed
  <2>3. DraftUnpaid' /\ PaidIsAllocated'
    BY <1>4, <1>5, <2>1, UnpostedRows
  <2> QED
    BY <2>2, <2>3 DEF Agreed
<1>7. CASE allocated # 0
  <2>1. /\ DOMAIN allocs' = DOMAIN allocs \cup {n}
        /\ \A a \in DOMAIN allocs : allocs'[a] = allocs[a]
        /\ allocs'[n] = [pay |-> p, inv |-> i, amt |-> allocated]
        /\ status'[i] = "posted"
    BY <1>2, <1>3, <1>7 DEF Put
  <2>2. OwnRows'
    BY <1>4, <1>5, <2>1 DEF OwnRows, Agreed
  <2>3. \A j \in Invoices : PostedOn(j)' = PostedOn(j) \cup (IF j = i THEN {n} ELSE {})
    BY <1>4, <1>5, <2>1 DEF PostedOn
  <2>4. DraftUnpaid'
    BY <2>1, <2>3 DEF DraftUnpaid, Agreed
  <2>5. ASSUME NEW j \in Invoices PROVE paid'[j] = posted_allocations_total(j)'
    <3> DEFINE N == IF j = i THEN {n} ELSE {}
    <3>1. N \in SUBSET DOMAIN allocs' /\ PostedOn(j)' = PostedOn(j) \cup N
      BY <2>1, <2>3
    <3>2. PostedOn(j) \cap N = {} /\ \A a \in PostedOn(j) : allocs'[a].amt = allocs[a].amt
      BY <1>2, <2>1 DEF PostedOn
    <3>3. Sum(N)' = IF j = i THEN allocated ELSE 0
      <4>1. Sum({})' = 0
        BY SumEmpty DEF Sum
      <4>2. Sum({n})' = allocated
        BY <2>1, SumOfRow
      <4> QED
        BY <4>1, <4>2
    <3> HIDE DEF N
    <3>4. /\ posted_allocations_total(j) \in Nat
          /\ posted_allocations_total(j)' = posted_allocations_total(j) + Sum(N)'
      BY <3>1, <3>2, TotalGains
    <3>5. paid[j] = posted_allocations_total(j) /\ paid \in [Invoices -> Nat]
      BY DEF Agreed, PaidIsAllocated, Rows
    <3> QED
      BY <1>3, <3>3, <3>4, <3>5
  <2> QED
    BY <2>2, <2>4, <2>5 DEF Agreed, PaidIsAllocated
<1> QED
  BY <1>6, <1>7

\* Unposting a payment takes back exactly what it settled: no remainder is cut off.
LEMMA UnpostAgrees ==
  ASSUME Rows, Rows', Agreed, NEW p, Unpost(p)
  PROVE  Agreed'
<1>1. /\ p \in DOMAIN pays /\ pays[p].posted /\ pays' = [pays EXCEPT ![p].posted = FALSE]
      /\ allocs' = allocs /\ status' = status /\ paid' = Reversed(AllocsOf(p))
  BY DEF Unpost
<1>2. /\ DOMAIN pays' = DOMAIN pays /\ ~pays'[p].posted
      /\ \A q \in DOMAIN pays : pays'[q].auto = pays[q].auto /\ (q # p => pays'[q] = pays[q])
  BY <1>1 DEF Rows, Payment
<1>3. \A a \in DOMAIN allocs : allocs[a].pay \in DOMAIN pays
  BY DEF Rows
<1>4. OwnRows'
  BY <1>1, <1>2, <1>3 DEF OwnRows, Agreed
<1>5. ASSUME NEW i \in Invoices, NEW R, R = {a \in AllocsOf(p) : allocs[a].inv = i}
      PROVE  PostedOn(i)' = PostedOn(i) \ R /\ paid'[i] = posted_allocations_total(i)'
  <2>1. R \in SUBSET PostedOn(i) /\ PostedOn(i)' = PostedOn(i) \ R
    BY <1>1, <1>2, <1>3, <1>5 DEF PostedOn, AllocsOf
  <2>2. /\ posted_allocations_total(i)' \in Nat /\ Sum(R) \in Nat
        /\ posted_allocations_total(i) = posted_allocations_total(i)' + Sum(R)
    BY <1>1, <2>1, TotalLoses
  <2>3. paid'[i] = MaxOf(paid[i] - Sum(R), 0)
    BY <1>1, <1>5 DEF Reversed, SumFor
  <2>4. paid[i] = posted_allocations_total(i)
    BY DEF Agreed, PaidIsAllocated
  <2> QED
    BY <2>1, <2>2, <2>3, <2>4 DEF MaxOf
<1>6. DraftUnpaid'
  BY <1>1, <1>5 DEF DraftUnpaid, Agreed
<1> QED
  BY <1>4, <1>5, <1>6 DEF Agreed, PaidIsAllocated

\* Posting a payment settles its rows, whose invoices are posted.
LEMMA CommitAgrees ==
  ASSUME OInv, Rows', Agreed, NEW c \in Clients, PostPaymentCommit(c),
         \A a \in req[c].rows \cap DOMAIN allocs : status[allocs[a].inv] = "posted"
  PROVE  Agreed'
<1> DEFINE p == req[c].pay
           read == req[c].rows
<1>1. Rows /\ ReqOK /\ ReadCurrent
  BY TypeParts DEF OInv, IInv
<1>2. /\ UNCHANGED allocs /\ Finish(c) /\ p \in DOMAIN pays /\ ~pays[p].posted
      /\ DOMAIN pays' = DOMAIN pays /\ pays'[p].posted
      /\ \A q \in DOMAIN pays : pays'[q].amount = pays[q].amount /\ (q # p => pays'[q] = pays[q])
  BY <1>1, PaymentPosted
<1>3. /\ read \subseteq DOMAIN allocs /\ status' = status
      /\ paid' = [i \in Invoices |-> paid[i] + SumFor(read, i)]
      /\ pays' = [pays EXCEPT ![p].posted = TRUE]
  BY DEF PostPaymentCommit
<1>4. read = AllocsOf(p)
  BY <1>1, <1>2 DEF ReadCurrent, InProgress, PostPaymentCommit
<1>5. \A q \in DOMAIN pays : pays'[q].auto = pays[q].auto
  BY <1>1, <1>3 DEF Rows, Payment
<1> HIDE DEF p, read
<1>6. \A a \in DOMAIN allocs : allocs[a].pay \in DOMAIN pays
  BY <1>1 DEF Rows
<1>7. OwnRows'
  BY <1>2, <1>5, <1>6 DEF OwnRows, Agreed
<1>8. ASSUME NEW i \in Invoices, NEW N, N = {a \in read : allocs[a].inv = i}
      PROVE  PostedOn(i)' = PostedOn(i) \cup N /\ paid'[i] = posted_allocations_total(i)'
  <2>1. /\ N \in SUBSET DOMAIN allocs' /\ PostedOn(i) \cap N = {}
        /\ PostedOn(i)' = PostedOn(i) \cup N
    BY <1>2, <1>3, <1>4, <1>6, <1>8 DEF PostedOn, AllocsOf
  <2>2. posted_allocations_total(i)' = posted_allocations_total(i) + Sum(N)'
    BY <1>1, <1>2, <2>1, TotalGains
  <2>3. Sum(N)' = Sum(N) /\ SumFor(read, i) = Sum(N)
    BY <1>2, <1>8 DEF Sum, SumFor
  <2>4. paid[i] = posted_allocations_total(i)
    BY DEF Agreed, PaidIsAllocated
  <2> QED
    BY <1>3, <2>1, <2>2, <2>3, <2>4
<1>9. DraftUnpaid'
  <2>1. \A i \in Invoices : \A a \in read : allocs[a].inv = i => status[i] = "posted"
    BY <1>3 DEF read
  <2> QED
    BY <1>3, <1>8, <2>1 DEF DraftUnpaid, Agreed
<1> QED
  BY <1>7, <1>8, <1>9 DEF Agreed, PaidIsAllocated

\* An unposting that holds all that settles its invoice leaves nothing of it.
LEMMA UnpostInvoiceAgrees ==
  ASSUME OInv, Rows', Agreed, NEW c \in Clients, UnpostInvoiceCommit(c),
         \A a \in PostedOn(req[c].inv) : allocs[a].pay \in req[c].held
  PROVE  Agreed'
<1>0. PICK i, held : i = req[c].inv /\ held = req[c].held
  OBVIOUS
<1>1. Rows /\ ReqOK /\ HeldAlone
  BY TypeParts DEF OInv, IInv
<1>2. /\ req[c].op = "unpost_commit" /\ i \in Invoices
      /\ status' = [status EXCEPT ![i] = "draft"] /\ paid' = [paid EXCEPT ![i] = 0]
      /\ pays' = Dropped(pays, held) /\ allocs' = Cascaded(held)
  BY <1>0, <1>1, RequestParts DEF UnpostInvoiceCommit
<1>3. \A p \in held : p \in DOMAIN pays /\ pays[p].auto = i
  BY <1>0, <1>1, <1>2 DEF HeldAlone, Releasing
<1>4. \A a \in PostedOn(i) : allocs[a].pay \in held
  BY <1>0
<1>5. /\ DOMAIN pays' = DOMAIN pays \ held
      /\ \A p \in DOMAIN pays \ held : pays'[p] = pays[p]
      /\ DOMAIN allocs' \subseteq DOMAIN allocs
      /\ \A a \in DOMAIN allocs' : allocs'[a] = allocs[a] /\ allocs'[a].pay \in DOMAIN pays'
      /\ \A a \in DOMAIN allocs : allocs[a].pay \notin held => a \in DOMAIN allocs'
  BY <1>1, <1>2, DropKeeps
<1>6. OwnRows'
  BY <1>5 DEF OwnRows, Agreed
<1>7. PostedOn(i)' = {}
  BY <1>4, <1>5 DEF PostedOn
<1>8. i # NoInvoice
  BY <1>2, PaymentConstants DEF NoInvoice
<1>9. \A j \in Invoices : j # i =>
        /\ PostedOn(j)' = PostedOn(j)
        /\ \A a \in PostedOn(j) : allocs'[a].amt = allocs[a].amt
  <2> SUFFICES ASSUME NEW j \in Invoices, j # i
               PROVE  /\ PostedOn(j)' = PostedOn(j)
                      /\ \A a \in PostedOn(j) : allocs'[a].amt = allocs[a].amt
    OBVIOUS
  <2>1. \A a \in DOMAIN allocs : allocs[a].inv = j => allocs[a].pay \notin held
    BY <1>3, <1>8 DEF OwnRows, Agreed
  <2>2. \A a \in DOMAIN allocs : allocs[a].pay \in DOMAIN pays
    BY <1>1 DEF Rows
  <2>3. \A a \in PostedOn(j) : a \in DOMAIN allocs' /\ allocs'[a] = allocs[a]
                               /\ pays'[allocs[a].pay] = pays[allocs[a].pay]
    BY <1>5, <2>1, <2>2 DEF PostedOn
  <2>4. PostedOn(j) \subseteq PostedOn(j)'
    BY <2>3 DEF PostedOn
  <2>5. PostedOn(j)' \subseteq PostedOn(j)
    BY <1>5 DEF PostedOn
  <2> QED
    BY <2>3, <2>4, <2>5
<1>10. Sum({})' = 0
  BY SumEmpty DEF Sum
<1>11. ASSUME NEW j \in Invoices PROVE paid'[j] = posted_allocations_total(j)'
  <2>1. CASE j = i
    <3>1. paid'[j] = 0
      BY <1>1, <1>2, <2>1 DEF Rows
    <3> QED
      BY <1>7, <1>10, <2>1, <3>1 DEF posted_allocations_total
  <2>2. CASE j # i
    <3>1. {} \in SUBSET DOMAIN allocs' /\ PostedOn(j)' = PostedOn(j) \cup {}
          /\ PostedOn(j) \cap {} = {} /\ \A a \in PostedOn(j) : allocs'[a].amt = allocs[a].amt
      BY <1>9, <2>2
    <3>2. /\ posted_allocations_total(j) \in Nat
          /\ posted_allocations_total(j)' = posted_allocations_total(j) + Sum({})'
      BY <1>1, <3>1, TotalGains
    <3>3. paid'[j] = paid[j] /\ paid[j] = posted_allocations_total(j)
      BY <1>1, <1>2, <2>2 DEF Rows, Agreed, PaidIsAllocated
    <3> QED
      BY <1>10, <3>2, <3>3
  <2> QED
    BY <2>1, <2>2
<1>12. DraftUnpaid'
  <2>1. \A j \in Invoices : j # i /\ status'[j] = "draft" => status[j] = "draft"
    BY <1>1, <1>2 DEF Rows
  <2> QED
    BY <1>7, <1>9, <2>1 DEF DraftUnpaid, Agreed
<1> QED
  BY <1>6, <1>11, <1>12 DEF Agreed, PaidIsAllocated

\* An allocation settles its amount if its payment is posted.
LEMMA AllocateAgrees ==
  ASSUME Rows, ReqOK, Rows', Agreed, NEW c \in Clients, NEW p \in DOMAIN pays,
         NEW i \in Invoices, NEW amt \in Amounts, ~SpendsExcess(p, i), Allocate(c, p, i, amt)
  PROVE  Agreed'
<1>1. PICK n : n = NextAlloc
  OBVIOUS
<1>2. n \notin DOMAIN allocs
  BY <1>1, NextAllocNew DEF Rows
<1>3. /\ allocs' = Put(allocs, n, [pay |-> p, inv |-> i, amt |-> amt])
      /\ pays' = pays /\ status' = status /\ status[i] = "posted"
      /\ paid' = IF pays[p].posted THEN [paid EXCEPT ![i] = @ + amt] ELSE paid
  BY <1>1 DEF Allocate
<1>4. /\ DOMAIN allocs' = DOMAIN allocs \cup {n}
      /\ \A a \in DOMAIN allocs : allocs'[a] = allocs[a]
      /\ allocs'[n] = [pay |-> p, inv |-> i, amt |-> amt]
  BY <1>2, <1>3 DEF Put
<1>5. \A a \in DOMAIN allocs : allocs[a].pay \in DOMAIN pays
  BY DEF Rows
<1>6. OwnRows'
  BY <1>3, <1>4 DEF OwnRows, Agreed, SpendsExcess
<1>7. CASE ~pays[p].posted
  <2>1. DraftUnpaid' /\ PaidIsAllocated'
    BY <1>3, <1>4, <1>7, UnpostedRows
  <2> QED
    BY <1>6, <2>1 DEF Agreed
<1>8. CASE pays[p].posted
  <2>1. \A j \in Invoices : PostedOn(j)' = PostedOn(j) \cup (IF j = i THEN {n} ELSE {})
    BY <1>3, <1>4, <1>8 DEF PostedOn
  <2>2. DraftUnpaid'
    BY <1>3, <2>1 DEF DraftUnpaid, Agreed
  <2>3. ASSUME NEW j \in Invoices PROVE paid'[j] = posted_allocations_total(j)'
    <3> DEFINE N == IF j = i THEN {n} ELSE {}
    <3>1. N \in SUBSET DOMAIN allocs' /\ PostedOn(j)' = PostedOn(j) \cup N
      BY <1>4, <2>1
    <3>2. PostedOn(j) \cap N = {} /\ \A a \in PostedOn(j) : allocs'[a].amt = allocs[a].amt
      BY <1>2, <1>4 DEF PostedOn
    <3>3. Sum(N)' = IF j = i THEN amt ELSE 0
      <4>1. Sum({})' = 0
        BY SumEmpty DEF Sum
      <4>2. Sum({n})' = amt
        BY <1>4, SumOfRow
      <4> QED
        BY <4>1, <4>2
    <3> HIDE DEF N
    <3>4. /\ posted_allocations_total(j) \in Nat
          /\ posted_allocations_total(j)' = posted_allocations_total(j) + Sum(N)'
      BY <3>1, <3>2, TotalGains
    <3>5. paid[j] = posted_allocations_total(j) /\ paid \in [Invoices -> Nat]
      BY DEF Agreed, PaidIsAllocated, Rows
    <3> QED
      BY <1>3, <1>8, <3>3, <3>4, <3>5
  <2> QED
    BY <1>6, <2>2, <2>3 DEF Agreed, PaidIsAllocated
<1> QED
  BY <1>7, <1>8

\* A row dropped takes back what it settled.
LEMMA DeallocateAgrees ==
  ASSUME Rows, Rows', Agreed, NEW c \in Clients, NEW a \in DOMAIN allocs, Deallocate(c, a)
  PROVE  Agreed'
<1>1. /\ allocs' = Dropped(allocs, {a}) /\ pays' = pays /\ status' = status
      /\ paid' = IF pays[allocs[a].pay].posted THEN Reversed({a}) ELSE paid
  BY DEF Deallocate
<1>2. /\ DOMAIN allocs' = DOMAIN allocs \ {a}
      /\ \A b \in DOMAIN allocs' : allocs'[b] = allocs[b]
  BY <1>1 DEF Dropped
<1>3. OwnRows'
  BY <1>1, <1>2 DEF OwnRows, Agreed
<1>4. CASE ~pays[allocs[a].pay].posted
  <2>1. paid' = paid
    BY <1>1, <1>4
  <2>2. \A b \in DOMAIN allocs : pays[allocs[b].pay].posted =>
          b \in DOMAIN allocs' /\ allocs'[b] = allocs[b]
    BY <1>2, <1>4
  <2>3. DraftUnpaid' /\ PaidIsAllocated'
    BY <1>1, <1>2, <2>1, <2>2, UnpostedRows
  <2> QED
    BY <1>3, <2>3 DEF Agreed
<1>5. CASE pays[allocs[a].pay].posted
  <2>1. ASSUME NEW i \in Invoices, NEW R, R = {b \in {a} : allocs[b].inv = i}
        PROVE  PostedOn(i)' = PostedOn(i) \ R /\ paid'[i] = posted_allocations_total(i)'
    <3>1. /\ R \in SUBSET PostedOn(i) /\ PostedOn(i)' = PostedOn(i) \ R
          /\ \A b \in PostedOn(i) \ R : allocs'[b].amt = allocs[b].amt
      BY <1>1, <1>2, <1>5, <2>1 DEF PostedOn
    <3>2. /\ posted_allocations_total(i)' \in Nat /\ Sum(R) \in Nat
          /\ posted_allocations_total(i) = posted_allocations_total(i)' + Sum(R)
      BY <3>1, TotalLoses
    <3>3. paid'[i] = MaxOf(paid[i] - Sum(R), 0)
      BY <1>1, <1>5, <2>1 DEF Reversed, SumFor
    <3>4. paid[i] = posted_allocations_total(i)
      BY DEF Agreed, PaidIsAllocated
    <3> QED
      BY <3>1, <3>2, <3>3, <3>4 DEF MaxOf
  <2>2. DraftUnpaid'
    BY <1>1, <2>1 DEF DraftUnpaid, Agreed
  <2> QED
    BY <1>3, <2>1, <2>2 DEF Agreed, PaidIsAllocated
<1> QED
  BY <1>4, <1>5

\* A payment entered, or deleted before it is posted, settles nothing.
LEMMA CreateAgrees ==
  ASSUME Rows, ReqOK, Agreed, NEW c \in Clients, NEW amount \in Amounts,
         NEW split \in [Invoices -> Amounts \cup {0}], CreatePayment(c, amount, split)
  PROVE  Agreed'
<1>1. PICK p : p = NextPay
  OBVIOUS
<1>2. /\ Rows' /\ SamePays /\ paid' = paid /\ status' = status
      /\ DOMAIN pays' = DOMAIN pays \cup {p} /\ ~pays'[p].posted
      /\ DOMAIN allocs \subseteq DOMAIN allocs'
      /\ \A a \in DOMAIN allocs : allocs'[a] = allocs[a]
      /\ \A a \in DOMAIN allocs' \ DOMAIN allocs : allocs'[a].pay = p
  BY <1>1, CreateKeeps
<1>3. pays'[p].auto = NoInvoice
  BY <1>1 DEF CreatePayment, Put
<1>4. \A a \in DOMAIN allocs : allocs[a].pay \in DOMAIN pays
                               /\ pays'[allocs[a].pay] = pays[allocs[a].pay]
  BY <1>2 DEF Rows, SamePays
<1>5. OwnRows'
  BY <1>2, <1>3, <1>4 DEF OwnRows, Agreed
<1>6. DraftUnpaid' /\ PaidIsAllocated'
  BY <1>2, <1>4, UnpostedRows
<1> QED
  BY <1>5, <1>6 DEF Agreed

LEMMA DeleteRowAgrees ==
  ASSUME Rows, Rows', Agreed, NEW c \in Clients, DeleteRow(c), ~pays[req[c].pay].posted
  PROVE  Agreed'
<1>1. PICK p : p = req[c].pay
  OBVIOUS
<1>2. /\ p \in DOMAIN pays /\ ~pays[p].posted
      /\ pays' = Dropped(pays, {p}) /\ allocs' = Cascaded({p})
      /\ paid' = paid /\ status' = status
  BY <1>1 DEF DeleteRow
<1>3. /\ DOMAIN pays' = DOMAIN pays \ {p}
      /\ \A q \in DOMAIN pays \ {p} : pays'[q] = pays[q]
      /\ DOMAIN allocs' \subseteq DOMAIN allocs
      /\ \A a \in DOMAIN allocs' : allocs'[a] = allocs[a] /\ allocs'[a].pay \in DOMAIN pays'
      /\ \A a \in DOMAIN allocs : allocs[a].pay \notin {p} => a \in DOMAIN allocs'
  BY <1>2, DropKeeps
<1>4. OwnRows'
  BY <1>3 DEF OwnRows, Agreed
<1>5. \A a \in DOMAIN allocs : allocs[a].pay \in DOMAIN pays
  BY DEF Rows
<1>6. DraftUnpaid' /\ PaidIsAllocated'
  <2>1. \A a \in DOMAIN allocs : pays[allocs[a].pay].posted =>
            /\ a \in DOMAIN allocs' /\ allocs'[a] = allocs[a]
            /\ pays'[allocs[a].pay] = pays[allocs[a].pay]
    BY <1>2, <1>3, <1>5
  <2>2. \A a \in DOMAIN allocs' : pays'[allocs'[a].pay].posted =>
            /\ a \in DOMAIN allocs /\ allocs'[a] = allocs[a]
            /\ pays'[allocs[a].pay] = pays[allocs[a].pay]
    BY <1>3
  <2> QED
    BY <1>2, <2>1, <2>2, UnpostedRows
<1> QED
  BY <1>4, <1>6 DEF Agreed

\* Tables that stay leave what is paid and allocated as it is.
LEMMA RowsAgree ==
  ASSUME Agreed, UNCHANGED <<status, paid, pays, allocs>>
  PROVE  Agreed'
  BY DEF Agreed, OwnRows, DraftUnpaid, PaidIsAllocated, PostedOn, posted_allocations_total, Sum

LEMMA CollectAgrees ==
  ASSUME OInv, Rows', Agreed, InTurn, NEW c \in Clients, PostOrCollect(c)
  PROVE  Agreed'
<1>0. Rows /\ ReqOK
  BY TypeParts DEF OInv, IInv
<1>1. \A m, n \in Int : m >= 0 => MinOf(m, MaxOf(n, 0)) \in Nat
  BY DEF MinOf, MaxOf
<1>2. \A cash \in Amounts : cash \in Nat /\ cash \in Int /\ cash >= 0
  BY PaymentConstants
<1>3. CASE CollectStatus(c) \/ \E i \in Invoices : PostInvoiceBegin(c, i) \/ CollectBegin(c, i)
  BY <1>3, RowsAgree DEF PostInvoiceBegin, CollectBegin, CollectStatus, rows
<1>4. PICK i : i = req[c].inv
  OBVIOUS
<1>5. CASE PostInvoiceCommit(c)
  <2>1. /\ i \in Invoices /\ req[c].remaining \in Int
        /\ status' = [status EXCEPT ![i] = "posted"]
    BY <1>0, <1>4, <1>5, RequestParts DEF PostInvoiceCommit, MarkPosted
  <2>2. status'[i] = "posted" /\ \A j \in Invoices : status'[j] = "draft" => status[j] = "draft"
    BY <1>0, <2>1 DEF Rows
  <2>3. CASE NewReceipt(i, req[c].remaining, req[c].remaining, i) /\ req[c].remaining > DEC
    <3>1. req[c].remaining \in Nat /\ i \in {NoInvoice, i}
      BY <2>1, <2>3, PaymentConstants
    <3> QED
      BY <1>0, <2>1, <2>2, <2>3, <3>1, ReceiptAgrees
  <2>4. CASE UNCHANGED <<paid, pays, allocs, credits>>
    <3>1. \A a \in DOMAIN allocs : allocs'[a] = allocs[a]
      BY <2>4
    <3>2. DraftUnpaid' /\ PaidIsAllocated'
      BY <1>0, <2>2, <2>4, <3>1, UnpostedRows
    <3>3. OwnRows'
      BY <2>4 DEF OwnRows, Agreed
    <3> QED
      BY <3>2, <3>3 DEF Agreed
  <2> QED
    BY <1>4, <1>5, <2>3, <2>4 DEF PostInvoiceCommit
<1>6. ASSUME NEW cash \in Amounts, PostAndCollect(c, cash) PROVE Agreed'
  <2>1. /\ i \in Invoices /\ status' = [status EXCEPT ![i] = "posted"]
        /\ NewReceipt(i, cash, MinOf(cash, MaxOf(Total - paid[i], 0)), i)
    BY <1>0, <1>4, <1>6, RequestParts DEF PostAndCollect, MarkPosted, Remaining
  <2>2. status'[i] = "posted" /\ \A j \in Invoices : status'[j] = "draft" => status[j] = "draft"
    BY <1>0, <2>1 DEF Rows
  <2>3. Total - paid[i] \in Int
    BY <1>0, <2>1, PaymentConstants DEF Rows
  <2>4. cash \in Nat /\ MinOf(cash, MaxOf(Total - paid[i], 0)) \in Nat /\ i \in {NoInvoice, i}
    BY <1>1, <1>2, <2>3
  <2> QED
    BY <1>0, <2>1, <2>2, <2>4, ReceiptAgrees
<1>7. ASSUME NEW cash \in Amounts, CollectCommit(c, cash) PROVE Agreed'
  <2> DEFINE allocated == MinOf(cash, MaxOf(req[c].remaining, 0))
  <2>1. /\ i \in Invoices /\ status' = status /\ req[c].remaining \in Int
        /\ NewReceipt(i, cash, allocated, NoInvoice)
        /\ allocated > 0 => status[i] = "posted"
    BY <1>0, <1>4, <1>7, RequestParts DEF CollectCommit, InTurn
  <2>2. cash \in Nat /\ allocated \in Nat /\ NoInvoice \in {NoInvoice, i}
    BY <1>1, <1>2, <2>1
  <2> HIDE DEF allocated
  <2>3. allocated > 0 => status'[i] = "posted"
    BY <2>1
  <2>4. \A j \in Invoices : status'[j] = "draft" => status[j] = "draft"
    BY <2>1
  <2> QED
    BY <1>0, <2>1, <2>2, <2>3, <2>4, ReceiptAgrees
<1> QED
  BY <1>3, <1>5, <1>6, <1>7 DEF PostOrCollect

\* Whatever request runs alone, the rows agree after each of its steps.
LEMMA AgreedStep ==
  ASSUME OInv, OInv', Agreed, InTurn, [OrderlyNext]_vars
  PROVE  Agreed'
<1>0. Rows /\ ReqOK /\ Rows'
  BY TypeParts, TypePartsNext DEF OInv, IInv
<1>1. CASE UNCHANGED vars
  BY <1>1, RowsAgree DEF vars
<1>2. ASSUME NEW c \in Clients, Core(c) PROVE Agreed'
  <2>1. CASE PostOrCollect(c)
    BY <1>0, <2>1, CollectAgrees
  <2>2. CASE UnpostInvoice(c)
    <3>1. CASE UnpostInvoiceCommit(c)
      <4>1. \A a \in PostedOn(req[c].inv) : allocs[a].pay \in req[c].held
        BY <3>1 DEF UnpostInvoiceCommit, InTurn
      <4> QED
        BY <1>0, <3>1, <4>1, UnpostInvoiceAgrees
    <3>2. CASE UNCHANGED rows
      BY <3>2, RowsAgree DEF rows
    <3> QED
      BY <2>2, <3>1, <3>2 DEF UnpostInvoice, UnpostInvoiceBegin, UnpostInvoiceGuard,
                              UnpostInvoiceJournals
  <2>3. CASE Pay(c)
    <3>1. CASE PostPaymentCommit(c)
      <4>1. \A a \in req[c].rows \cap DOMAIN allocs : status[allocs[a].inv] = "posted"
        BY <3>1 DEF PostPaymentCommit, InTurn
      <4> QED
        BY <1>0, <3>1, <4>1, CommitAgrees
    <3>2. CASE UNCHANGED rows
      BY <3>2, RowsAgree DEF rows
    <3>3. ASSUME NEW p \in DOMAIN pays, UnpostPayment(c, p) PROVE Agreed'
      BY <1>0, <3>3, UnpostAgrees DEF UnpostPayment
    <3>4. ASSUME NEW amount \in Amounts, NEW split \in [Invoices -> Amounts \cup {0}],
                 CreatePayment(c, amount, split)
          PROVE  Agreed'
      BY <1>0, <3>4, CreateAgrees
    <3> QED
      BY <2>3, <3>1, <3>2, <3>3, <3>4 DEF Pay, PostPaymentTotal, PostPaymentRows
  <2>4. CASE DeletePayment(c)
    <3>1. CASE DeleteUnpost(c)
      BY <1>0, <3>1, UnpostAgrees DEF DeleteUnpost
    <3>2. CASE DeleteRow(c)
      <4>1. ~pays[req[c].pay].posted
        BY <3>2 DEF DeleteRow, InTurn
      <4> QED
        BY <1>0, <3>2, <4>1, DeleteRowAgrees
    <3>3. CASE UNCHANGED rows
      BY <3>3, RowsAgree DEF rows
    <3> QED
      BY <2>4, <3>1, <3>2, <3>3 DEF DeletePayment, DeleteBegin
  <2>5. CASE Abort(c)
    BY <2>5, RowsAgree DEF Abort, rows
  <2> QED
    BY <1>2, <2>1, <2>2, <2>3, <2>4, <2>5 DEF Core
<1>3. ASSUME NEW c \in Clients, NEW p \in DOMAIN pays, AllocateOwn(c, p) \/ DeallocateRow(c, p)
      PROVE  Agreed'
  <2>1. \A a \in AllocsOf(p) : a \in DOMAIN allocs
    BY DEF AllocsOf
  <2> QED
    BY <1>0, <1>3, <2>1, AllocateAgrees, DeallocateAgrees DEF AllocateOwn, DeallocateRow
<1> QED
  BY <1>1, <1>2, <1>3 DEF OrderlyNext

\* A request that runs alone is overtaken by nobody.
LEMMA InTurnStep ==
  ASSUME OneAtATime, OInv, InTurn, [OrderlyNext]_vars
  PROVE  InTurn'
<1>0. Rows /\ ReqOK
  BY TypeParts DEF OInv, IInv
<1> DEFINE Kept(c) == req'[c].op \notin {"unpost_journals", "unpost_commit", "settle",
                                         "post_rows", "delete"}
<1>1. CASE UNCHANGED vars
  BY <1>1 DEF vars, InTurn, PostedOn
<1>2. ASSUME NEW c \in Clients, Kept(c) PROVE InTurn'
  <2>1. \A d \in Clients : d = c
    BY DEF OneAtATime
  <2> QED
    BY <1>2, <2>1 DEF InTurn
<1>3. ASSUME NEW c \in Clients, Finish(c) PROVE InTurn'
  <2>1. req'[c] = Idle
    BY <1>0, <1>3 DEF Finish, ReqOK
  <2> QED
    BY <1>2, <2>1 DEF Idle
<1>4. ASSUME NEW c \in Clients, req[c] = Idle, UNCHANGED req PROVE InTurn'
  BY <1>2, <1>4 DEF Idle
<1>5. ASSUME NEW c \in Clients, NEW r, Start(c, r),
             r.op \notin {"unpost_journals", "unpost_commit", "settle", "post_rows", "delete"}
      PROVE  InTurn'
  <2>1. req'[c] = r
    BY <1>0, <1>5 DEF Start, ReqOK
  <2> QED
    BY <1>2, <1>5, <2>1
<1>6. ASSUME NEW c \in Clients, Core(c) PROVE InTurn'
  <2>1. \A d \in Clients : d = c
    BY DEF OneAtATime
  <2>2. CASE PostOrCollect(c)
    <3>1. CASE CollectStatus(c)
      <4>1. PICK i : i = req[c].inv
        OBVIOUS
      <4>2. req'[c].op = "settle" /\ req'[c].inv = i
        BY <1>0, <3>1, <4>1 DEF CollectStatus, ReqOK, Requests, Idle
      <4>3. status'[i] = "posted"
        BY <3>1, <4>1 DEF CollectStatus, rows
      <4> QED
        BY <2>1, <4>2, <4>3 DEF InTurn
    <3> QED
      BY <1>3, <1>5, <2>2, <3>1
         DEF PostOrCollect, PostInvoiceBegin, CollectBegin, PostInvoiceCommit,
             PostAndCollect, CollectCommit
  <2>3. CASE UnpostInvoiceGuard(c)
    <3>1. PICK i : i = req[c].inv
      OBVIOUS
    <3>2. /\ req'[c].op = "unpost_journals" /\ req'[c].inv = i /\ req'[c].held = Autos(i)
      BY <1>0, <2>3, <3>1, RequestParts DEF UnpostInvoiceGuard, ReqOK, Requests, Idle
    <3>3. \A a \in PostedOn(i) : allocs[a].pay \in Autos(i)
      BY <2>3, <3>1 DEF UnpostInvoiceGuard, NoUserPayment
    <3>4. PostedOn(i)' = PostedOn(i) /\ allocs' = allocs
      BY <2>3 DEF UnpostInvoiceGuard, rows, PostedOn
    <3> QED
      BY <2>1, <3>2, <3>3, <3>4 DEF InTurn
  <2>4. CASE UnpostInvoice(c)
    <3>1. CASE UnpostInvoiceJournals(c)
      <4>1. PICK i, held : i = req[c].inv /\ held = req[c].held
        OBVIOUS
      <4>2. req'[c].op = "unpost_commit" /\ req'[c].inv = i /\ req'[c].held = held
        BY <1>0, <3>1, <4>1, RequestParts DEF UnpostInvoiceJournals, ReqOK, Requests, Idle
      <4>3. \A a \in PostedOn(i) : allocs[a].pay \in held
        BY <3>1, <4>1 DEF UnpostInvoiceJournals, InTurn
      <4>4. PostedOn(i)' = PostedOn(i) /\ allocs' = allocs
        BY <3>1 DEF UnpostInvoiceJournals, rows, PostedOn
      <4> QED
        BY <2>1, <4>2, <4>3, <4>4 DEF InTurn
    <3> QED
      BY <1>3, <1>5, <2>3, <2>4, <3>1
         DEF UnpostInvoice, UnpostInvoiceBegin, UnpostInvoiceCommit
  <2>5. CASE PostPaymentRows(c)
    <3>1. PICK read : read = AllocsOf(req[c].pay)
      OBVIOUS
    <3>2. req'[c].op = "post_rows" /\ req'[c].rows = read
      BY <1>0, <2>5, <3>1 DEF PostPaymentRows, ReqOK, Requests, Idle
    <3>3. \A a \in read : status'[allocs'[a].inv] = "posted"
      BY <2>5, <3>1 DEF PostPaymentRows, rows
    <3> QED
      BY <2>1, <3>2, <3>3 DEF InTurn
  <2>6. CASE Pay(c)
    BY <1>3, <1>4, <1>5, <2>5, <2>6
       DEF Pay, CreatePayment, PostPaymentTotal, UnpostPayment, PostPaymentCommit
  <2>7. ASSUME NEW p \in DOMAIN pays, DeleteBegin(c, p) PROVE InTurn'
    <3>1. req'[c] = [op |-> "delete", pay |-> p, unpost |-> pays[p].posted] /\ pays' = pays
      BY <1>0, <2>7 DEF DeleteBegin, Start, ReqOK, rows
    <3> QED
      BY <2>1, <3>1 DEF InTurn
  <2>8. CASE DeleteUnpost(c)
    <3>1. PICK p : p = req[c].pay
      OBVIOUS
    <3>2. req'[c].op = "delete" /\ req'[c].pay = p
      BY <1>0, <2>8, <3>1 DEF DeleteUnpost, ReqOK, Requests, Idle
    <3>3. p \in DOMAIN pays /\ ~pays'[p].posted
      BY <1>0, <2>8, <3>1 DEF DeleteUnpost, Unpost, Rows, Payment
    <3> QED
      BY <2>1, <3>2, <3>3 DEF InTurn
  <2>9. CASE DeletePayment(c)
    BY <1>3, <2>7, <2>8, <2>9 DEF DeletePayment, DeleteRow
  <2>10. CASE Abort(c)
    BY <1>3, <2>10 DEF Abort
  <2> QED
    BY <1>6, <2>2, <2>4, <2>6, <2>9, <2>10 DEF Core
<1>7. ASSUME NEW c \in Clients, NEW p \in DOMAIN pays, AllocateOwn(c, p) \/ DeallocateRow(c, p)
      PROVE  InTurn'
  BY <1>4, <1>7 DEF AllocateOwn, DeallocateRow, Allocate, Deallocate
<1> QED
  BY <1>1, <1>6, <1>7 DEF OrderlyNext

\* With the tables empty and nobody at work.
LEMMA AgreedInit == Init => Agreed /\ InTurn
<1> SUFFICES ASSUME Init PROVE Agreed /\ InTurn
  OBVIOUS
<1>1. DOMAIN pays = {} /\ DOMAIN allocs = {}
  BY DEF Init
<1>2. \A i \in Invoices : PostedOn(i) = {}
  BY <1>1 DEF PostedOn
<1>3. \A i \in Invoices : posted_allocations_total(i) = 0
  BY <1>2, SumEmpty DEF posted_allocations_total, Sum
<1>4. Agreed
  BY <1>1, <1>2, <1>3 DEF Agreed, OwnRows, DraftUnpaid, PaidIsAllocated, Init
<1>5. InTurn
  BY DEF InTurn, Init, Idle
<1> QED
  BY <1>4, <1>5

LEMMA AgreedInvariant ==
  ASSUME OneAtATime
  PROVE  OrderlySpec => []Agreed
<1>1. Init => Agreed /\ InTurn
  BY AgreedInit
<1>2. OInv /\ OInv' /\ Agreed /\ InTurn /\ [OrderlyNext]_vars => Agreed' /\ InTurn'
  BY AgreedStep, InTurnStep
<1> QED
  BY <1>1, <1>2, OrderlyInvariant, PTL DEF OrderlySpec

\* While requests come one at a time, what an invoice counts as paid is the sum
\* of the posted allocations on it: every handler that moves amount_paid by its
\* own amounts, and the unposting that sets it to zero, agree with the rows.
THEOREM PaidFollowsRows ==
  ASSUME OneAtATime
  PROVE  OrderlySpec => []PaidIsAllocated
<1>1. Agreed => PaidIsAllocated
  BY DEF Agreed
<1> QED
  BY <1>1, AgreedInvariant, PTL

\* And a draft invoice carries no posted payment: the guard of the unposting
\* refuses, or takes with it, all that was posted on it.
THEOREM DraftsCarryNothing ==
  ASSUME OneAtATime
  PROVE  OrderlySpec => []DraftUnpaid
<1>1. Agreed => DraftUnpaid
  BY DEF Agreed
<1> QED
  BY <1>1, AgreedInvariant, PTL
=============================================================================
