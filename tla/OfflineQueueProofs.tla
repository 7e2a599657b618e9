-------------------------- MODULE OfflineQueueProofs --------------------------
(***************************************************************************)
(* The queue of offline changes, for any number of tabs, runs, companies   *)
(* and changes: its tables are keyed, what is marked as synced was made,   *)
(* nothing is made twice but in the cases named as doubtful, and nothing   *)
(* goes to a company that was not named for it.                            *)
(***************************************************************************)
EXTENDS OfflineQueue, SumLemmas

-----------------------------------------------------------------------------
\* The changes a table speaks of; a table has one row at most for each.
IdsOf(s) == {e.id : e \in ToSet(s)}
Keys(s) == \A i, j \in DOMAIN s : i # j => s[i].id # s[j].id

\* The rows of a table are its items.
LEMMA ToSetIs ==
  ASSUME NEW S, NEW s \in Seq(S)
  PROVE  /\ ToSet(s) \subseteq S
         /\ \A i \in 1..Len(s) : s[i] \in ToSet(s) /\ s[i] \in S
         /\ \A e \in ToSet(s) : \E i \in 1..Len(s) : e = s[i]
         /\ DOMAIN s = 1..Len(s) /\ Len(s) \in Nat
BY DEF ToSet

\* A function on 1..n is a sequence.
LEMMA SeqIs ==
  ASSUME NEW S, NEW n \in Nat, NEW u, u = [i \in 1..n |-> u[i]], \A i \in 1..n : u[i] \in S
  PROVE  u \in Seq(S)
OBVIOUS

\* Rows with the same key in a keyed table are one.
LEMMA SameKey ==
  ASSUME NEW S, NEW s \in Seq(S), Keys(s), NEW e \in ToSet(s), NEW f \in ToSet(s),
         e.id = f.id
  PROVE  e = f
<1>1. PICK i \in DOMAIN s : e = s[i]
  BY DEF ToSet
<1>2. PICK j \in DOMAIN s : f = s[j]
  BY DEF ToSet
<1> QED
  BY <1>1, <1>2 DEF Keys

\* A table with a row more at its end.
LEMMA AppendIs ==
  ASSUME NEW S, NEW s \in Seq(S), NEW e \in S
  PROVE  /\ Append(s, e) \in Seq(S) /\ Len(Append(s, e)) = Len(s) + 1
         /\ ToSet(Append(s, e)) = ToSet(s) \cup {e}
         /\ Keys(s) /\ e.id \notin IdsOf(s) => Keys(Append(s, e))
<1> DEFINE t == Append(s, e)
<1>1. /\ t \in Seq(S) /\ DOMAIN t = 1..(Len(s) + 1) /\ DOMAIN s = 1..Len(s)
      /\ Len(s) \in Nat /\ \A i \in 1..Len(s) : t[i] = s[i]
      /\ t[Len(s) + 1] = e /\ Len(t) = Len(s) + 1
  OBVIOUS
<1> HIDE DEF t
<1>2. ToSet(t) = ToSet(s) \cup {e}
  <2>1. ASSUME NEW x \in ToSet(t) PROVE x \in ToSet(s) \cup {e}
    <3>1. PICK i \in DOMAIN t : x = t[i]
      BY DEF ToSet
    <3>2. i = Len(s) + 1 \/ i \in 1..Len(s)
      BY <1>1
    <3> QED
      BY <1>1, <3>1, <3>2 DEF ToSet
  <2>2. ASSUME NEW x \in ToSet(s) PROVE x \in ToSet(t)
    <3>1. PICK i \in DOMAIN s : x = s[i]
      BY DEF ToSet
    <3>2. i \in DOMAIN t /\ t[i] = x
      BY <1>1, <3>1
    <3> QED
      BY <3>2 DEF ToSet
  <2>3. e \in ToSet(t)
    <3>1. Len(s) + 1 \in DOMAIN t
      BY <1>1
    <3> QED
      BY <1>1, <3>1 DEF ToSet
  <2> QED
    BY <2>1, <2>2, <2>3
<1>3. ASSUME Keys(s), e.id \notin IdsOf(s) PROVE Keys(t)
  <2>1. \A i \in 1..Len(s) : s[i].id # e.id
    BY <1>1, <1>3 DEF IdsOf, ToSet
  <2>2. ASSUME NEW i \in DOMAIN t, NEW j \in DOMAIN t, i # j
        PROVE  t[i].id # t[j].id
    <3>1. i \in 1..Len(s) \/ i = Len(s) + 1
      BY <1>1
    <3>2. j \in 1..Len(s) \/ j = Len(s) + 1
      BY <1>1
    <3> QED
      BY <1>1, <1>3, <2>1, <2>2, <3>1, <3>2 DEF Keys
  <2> QED
    BY <2>2 DEF Keys
<1> QED
  BY <1>1, <1>2, <1>3 DEF t

\* A table without its first row.
LEMMA TailIs ==
  ASSUME NEW S, NEW s \in Seq(S), s # <<>>
  PROVE  /\ Tail(s) \in Seq(S) /\ Head(s) \in ToSet(s) /\ Head(s) \in S
         /\ ToSet(Tail(s)) \subseteq ToSet(s)
         /\ Keys(s) => Keys(Tail(s)) /\ Head(s).id \notin IdsOf(Tail(s))
<1> DEFINE t == Tail(s)
<1>1. /\ t \in Seq(S) /\ DOMAIN t = 1..(Len(s) - 1) /\ DOMAIN s = 1..Len(s)
      /\ Len(s) \in Nat \ {0} /\ Head(s) = s[1] /\ s[1] \in S
      /\ \A i \in 1..(Len(s) - 1) : t[i] = s[i + 1]
  OBVIOUS
<1> HIDE DEF t
<1>2. \A i \in DOMAIN t : i + 1 \in DOMAIN s /\ i + 1 # 1 /\ t[i] = s[i + 1]
  BY <1>1
<1>3. 1 \in DOMAIN s
  BY <1>1
<1>4. Head(s) \in ToSet(s)
  BY <1>1, <1>3 DEF ToSet
<1>5. ToSet(t) \subseteq ToSet(s)
  BY <1>2 DEF ToSet
<1>6. ASSUME Keys(s) PROVE Keys(t) /\ Head(s).id \notin IdsOf(t)
  <2>1. ASSUME NEW i \in DOMAIN t, NEW j \in DOMAIN t, i # j
        PROVE  t[i].id # t[j].id
    <3>1. i + 1 # j + 1
      BY <1>1, <2>1
    <3> QED
      BY <1>2, <1>6, <3>1 DEF Keys
  <2>2. \A i \in DOMAIN t : t[i].id # s[1].id
    BY <1>2, <1>3, <1>6 DEF Keys
  <2> QED
    BY <1>1, <2>1, <2>2 DEF Keys, IdsOf, ToSet
<1> QED
  BY <1>1, <1>4, <1>5, <1>6 DEF t

-----------------------------------------------------------------------------
\* The recursion of Only, the table it is defined by, and what an entry of the
\* table is: the rows kept of the first i.
Taken(rows, kept, f, i) ==
  IF i = 0 THEN <<>>
  ELSE IF rows[i] \in kept THEN Append(f[i - 1], rows[i]) ELSE f[i - 1]
OnlyTable(rows, kept) ==
  CHOOSE f : f = [i \in 0..Len(rows) |-> Taken(rows, kept, f, i)]
First(rows, kept, i) == {rows[j] : j \in {k \in 1..i : rows[k] \in kept}}

LEMMA OnlyIsTable ==
  ASSUME NEW rows, NEW kept
  PROVE  Only(rows, kept) = OnlyTable(rows, kept)[Len(rows)]
BY Zenon DEF Only, OnlyTable, Taken

\* The recursion has a solution: a table of as many entries as there are rows.
LEMMA OnlyTableExists ==
  ASSUME NEW rows, Len(rows) \in Nat, NEW kept
  PROVE  \A i \in 0..Len(rows) :
           OnlyTable(rows, kept)[i] = Taken(rows, kept, OnlyTable(rows, kept), i)
<1> DEFINE n == Len(rows)
           UpTo(f, k) == \A i \in 0..n : i <= k => f[i] = Taken(rows, kept, f, i)
           X == {k \in Nat : \E f : UpTo(f, k)}
<1> HIDE DEF n
<1>0. n \in Nat
  BY DEF n
<1>1. 0 \in X
  <2>1. UpTo([i \in 0..n |-> <<>>], 0)
    BY <1>0 DEF Taken
  <2> QED
    BY <2>1
<1>2. ASSUME NEW k \in X PROVE k + 1 \in X
  <2>1. PICK f : UpTo(f, k)
    OBVIOUS
  <2> DEFINE g == [i \in 0..n |-> IF i <= k THEN f[i] ELSE Taken(rows, kept, f, k + 1)]
  <2>2. ASSUME NEW i \in 0..n, i <= k + 1 PROVE g[i] = Taken(rows, kept, g, i)
    <3>1. CASE i = 0
      BY <1>0, <2>1, <3>1 DEF Taken
    <3>2. CASE i # 0 /\ i <= k
      <4>1. i - 1 \in 0..n /\ i - 1 <= k /\ k \in Nat
        BY <1>0, <3>2
      <4>2. g[i] = f[i] /\ g[i - 1] = f[i - 1]
        BY <3>2, <4>1
      <4>3. f[i] = Taken(rows, kept, f, i)
        BY <2>1, <3>2
      <4> HIDE DEF g
      <4> QED
        BY <4>2, <4>3 DEF Taken
    <3>3. CASE i = k + 1
      <4>1. i - 1 = k /\ k \in 0..n /\ ~(i <= k) /\ k \in Nat
        BY <1>0, <3>3
      <4>2. g[i] = Taken(rows, kept, f, i) /\ g[i - 1] = f[i - 1]
        BY <3>3, <4>1
      <4> HIDE DEF g
      <4> QED
        BY <4>2 DEF Taken
    <3>4. k \in Nat
      OBVIOUS
    <3> QED
      BY <1>0, <2>2, <3>1, <3>2, <3>3, <3>4
  <2> HIDE DEF g
  <2>3. UpTo(g, k + 1)
    BY <2>2
  <2> QED
    BY <2>3
<1>3. n \in X
  <2> HIDE DEF X
  <2>1. X \in SUBSET Nat
    BY DEF X
  <2>2. X = Nat
    BY <1>1, <1>2, <2>1, InductiveSet
  <2> QED
    BY <1>0, <2>2
<1>4. PICK f : UpTo(f, n)
  BY <1>3
<1> DEFINE g == [i \in 0..n |-> f[i]]
<1>5. \A i \in 0..n : g[i] = Taken(rows, kept, g, i)
  <2> TAKE i \in 0..n
  <2>1. g[i] = f[i] /\ f[i] = Taken(rows, kept, f, i)
    BY <1>0, <1>4
  <2>2. i # 0 => g[i - 1] = f[i - 1]
    BY <1>0
  <2> HIDE DEF g
  <2> QED
    BY <2>1, <2>2 DEF Taken
<1>6. g = [i \in 0..n |-> Taken(rows, kept, g, i)]
  <2>1. DOMAIN g = 0..n
    OBVIOUS
  <2>2. g = [i \in 0..n |-> g[i]]
    OBVIOUS
  <2> HIDE DEF g
  <2> QED
    BY <1>5, <2>2
<1> HIDE DEF g
<1>7. OnlyTable(rows, kept)
        = [i \in 0..n |-> Taken(rows, kept, OnlyTable(rows, kept), i)]
  BY <1>6, Zenon DEF OnlyTable, n
<1> DEFINE h == OnlyTable(rows, kept)
<1> HIDE DEF h
<1>8. h = [i \in 0..n |-> Taken(rows, kept, h, i)]
  BY <1>7 DEF h
<1> QED
  BY <1>8 DEF h, n

\* Only gives the rows kept, each once if the table is keyed.
LEMMA OnlyIs ==
  ASSUME NEW S, NEW rows \in Seq(S), NEW kept
  PROVE  /\ Only(rows, kept) \in Seq(S)
         /\ ToSet(Only(rows, kept)) = ToSet(rows) \cap kept
         /\ Keys(rows) => Keys(Only(rows, kept))
<1> DEFINE n == Len(rows)
           f == OnlyTable(rows, kept)
           Good(i) == /\ f[i] \in Seq(S)
                      /\ ToSet(f[i]) = First(rows, kept, i)
                      /\ Keys(rows) => Keys(f[i])
           X == {i \in Nat : i <= n => Good(i)}
<1>0. n \in Nat /\ DOMAIN rows = 1..n /\ \A i \in 1..n : rows[i] \in S
  OBVIOUS
<1> HIDE DEF n
<1>1. \A i \in 0..n : f[i] = Taken(rows, kept, f, i)
  BY <1>0, OnlyTableExists DEF n
<1> HIDE DEF f
<1>2. 0 \in X
  <2>1. f[0] = <<>>
    BY <1>0, <1>1 DEF Taken
  <2>2. <<>> \in Seq(S) /\ ToSet(<<>>) = {} /\ Keys(<<>>) /\ First(rows, kept, 0) = {}
    BY DEF ToSet, Keys, First
  <2> QED
    BY <2>1, <2>2
<1>3. ASSUME NEW k \in X PROVE k + 1 \in X
  <2> SUFFICES ASSUME k + 1 <= n PROVE Good(k + 1)
    OBVIOUS
  <2>1. k \in Nat /\ k <= n /\ Good(k)
    BY <1>0
  <2>2. k + 1 \in 0..n /\ k + 1 \in 1..n /\ k + 1 # 0 /\ (k + 1) - 1 = k
    BY <1>0, <2>1
  <2>3. rows[k + 1] \in S
    BY <1>0, <2>2
  <2>4. \A i \in 1..(k + 1) : i \in 1..k \/ i = k + 1
    BY <2>1
  <2>7. \A i \in 1..k : i \in 1..(k + 1) /\ i \in 1..n /\ i # k + 1
    BY <1>0, <2>1
  <2>8. k + 1 \in 1..(k + 1)
    BY <2>1
  <2>5. CASE rows[k + 1] \in kept
    <3>1. f[k + 1] = Append(f[k], rows[k + 1])
      BY <1>1, <2>2, <2>5 DEF Taken
    <3>2. First(rows, kept, k + 1) = First(rows, kept, k) \cup {rows[k + 1]}
      BY <2>4, <2>5, <2>7, <2>8 DEF First
    <3>3. Keys(rows) => rows[k + 1].id \notin IdsOf(f[k])
      BY <1>0, <2>1, <2>2, <2>7 DEF Keys, IdsOf, First
    <3>4. /\ f[k + 1] \in Seq(S) /\ ToSet(f[k + 1]) = ToSet(f[k]) \cup {rows[k + 1]}
          /\ Keys(f[k]) /\ rows[k + 1].id \notin IdsOf(f[k]) => Keys(f[k + 1])
      BY <2>1, <2>3, <3>1, AppendIs
    <3> QED
      BY <2>1, <3>2, <3>3, <3>4
  <2>6. CASE rows[k + 1] \notin kept
    <3>1. f[k + 1] = f[k]
      BY <1>1, <2>2, <2>6 DEF Taken
    <3>2. First(rows, kept, k + 1) = First(rows, kept, k)
      BY <2>4, <2>6, <2>7 DEF First
    <3> QED
      BY <2>1, <3>1, <3>2
  <2> QED
    BY <2>5, <2>6
<1>4. X \in SUBSET Nat
  OBVIOUS
<1>5. n \in X
  <2> HIDE DEF X
  <2> QED
    BY <1>0, <1>2, <1>3, <1>4, InductiveSet
<1>6. Good(n)
  BY <1>0, <1>5
<1>7. First(rows, kept, n) = ToSet(rows) \cap kept
  BY <1>0 DEF First, ToSet
<1>8. Only(rows, kept) = f[n]
  BY OnlyIsTable DEF f, n
<1> QED
  BY <1>6, <1>7, <1>8

-----------------------------------------------------------------------------
(***************************************************************************)
(* The inductive invariant                                                 *)
(***************************************************************************)
Types ==
  /\ queue \in Seq(Entry) /\ runs \in [Runs -> Run]
  /\ dialog \in [Tabs -> Runs \cup {NoRun}]
  /\ shown \in [Tabs -> SUBSET Changes]
  /\ direct \subseteq [id: Changes, tenant: Companies \cup {NoCompany}]
  /\ company \in Companies /\ asked \in Seq(Companies \cup {NoCompany})
  /\ made \subseteq Changes /\ doubtful \subseteq Changes
  /\ Len(asked) <= MaxChanges

\* A modal shows the conflict of a run of its tab.
Shows == \A t \in Tabs : dialog[t] # NoRun =>
           runs[dialog[t]].at = "conflict" /\ runs[dialog[t]].tab = t

\* No change is twice in the queue, twice in a run, or in a request and in one
\* of these.
Keyed ==
  /\ Keys(queue)
  /\ \A r \in Runs : Keys(runs[r].todo)
  /\ \A d \in direct : d.id \notin IdsOf(queue)
  /\ \A d \in direct : \A r \in Runs : d.id \notin IdsOf(runs[r].todo)

\* The company a request or an entry carries is the one named, if one was.
Named(e) == e.id \in Changes /\ asked[e.id] \in {NoCompany, e.tenant}
Tenants ==
  /\ \A e \in ToSet(queue) : Named(e)
  /\ \A r \in Runs : \A e \in ToSet(runs[r].todo) : Named(e)
  /\ \A d \in direct : d.tenant = asked[d.id]

\* A run that is under way has something to send.
Busy == \A r \in Runs : runs[r].at = "idle" <=> runs[r].todo = <<>>

\* What may yet be sent, and what two runs hold at once, was not made, or it is
\* doubtful.
Doubts ==
  /\ \A r \in Runs : IdsOf(runs[r].todo) \cap made \subseteq doubtful
  /\ \A e \in ToSet(queue) :
       e.status \in {"pending", "failed"} /\ e.id \in made => e.id \in doubtful
  /\ \A d \in direct : d.id \in made => d.id \in doubtful
  /\ \A q, r \in Runs :
       q # r => IdsOf(runs[q].todo) \cap IdsOf(runs[r].todo) \subseteq doubtful

IInv == /\ Types /\ Shows /\ Keyed /\ Tenants /\ Busy /\ Doubts
        /\ SyncedIsMade /\ MadeOnce /\ InItsCompany

\* What updating a row does to it: the one updated has a new status and error.
Becomes(e, f, m, status, error) ==
  /\ e.id = f.id /\ e.tenant = f.tenant
  /\ f.id = m => e.status = status /\ e.error = error
  /\ f.id # m => e = f

\* Updating a row changes its status and its error.
LEMMA UpdatedIs ==
  ASSUME queue \in Seq(Entry), NEW m, NEW status \in Statuses,
         NEW error \in {"", "server-wins"}
  PROVE  /\ Updated(m, status, error) \in Seq(Entry)
         /\ Keys(queue) => Keys(Updated(m, status, error))
         /\ IdsOf(Updated(m, status, error)) = IdsOf(queue)
         /\ \A e \in ToSet(Updated(m, status, error)) : \E f \in ToSet(queue) :
              Becomes(e, f, m, status, error)
<1> DEFINE u == Updated(m, status, error)
           n == Len(queue)
<1>1. n \in Nat /\ DOMAIN queue = 1..n /\ \A i \in 1..n : queue[i] \in Entry
  BY ToSetIs
<1> HIDE DEF n
<1>2. DOMAIN u = 1..n
  BY <1>1 DEF Updated
<1>3. ASSUME NEW i \in 1..n
      PROVE  /\ u[i] \in Entry /\ u[i].id = queue[i].id /\ u[i].tenant = queue[i].tenant
             /\ queue[i].id = m => u[i].status = status /\ u[i].error = error
             /\ queue[i].id # m => u[i] = queue[i]
  <2> DEFINE f == queue[i]
  <2>1. f \in Entry
    BY <1>1
  <2>2. u[i] = IF f.id = m THEN [f EXCEPT !.status = status, !.error = error] ELSE f
    BY <1>1 DEF Updated
  <2> HIDE DEF f, u
  <2> QED
    BY <2>1, <2>2 DEF Entry, f
<1>4. u = [i \in 1..n |-> u[i]]
  BY <1>1 DEF Updated
<1> HIDE DEF u
<1>5. u \in Seq(Entry)
  <2>1. \A i \in 1..n : u[i] \in Entry
    BY <1>3
  <2> QED
    BY <1>1, <1>4, <2>1, SeqIs
<1>6. Keys(queue) => Keys(u)
  BY <1>1, <1>2, <1>3 DEF Keys
<1>7. IdsOf(u) = IdsOf(queue)
  <2>1. ASSUME NEW x \in IdsOf(u) PROVE x \in IdsOf(queue)
    <3>1. PICK e \in ToSet(u) : x = e.id
      BY DEF IdsOf
    <3>2. PICK i \in 1..n : e = u[i]
      BY <1>2 DEF ToSet
    <3>3. queue[i] \in ToSet(queue) /\ queue[i].id = x
      BY <1>1, <1>3, <3>1, <3>2 DEF ToSet
    <3> QED
      BY <3>3 DEF IdsOf
  <2>2. ASSUME NEW x \in IdsOf(queue) PROVE x \in IdsOf(u)
    <3>1. PICK e \in ToSet(queue) : x = e.id
      BY DEF IdsOf
    <3>2. PICK i \in 1..n : e = queue[i]
      BY <1>1 DEF ToSet
    <3>3. u[i] \in ToSet(u) /\ u[i].id = x
      BY <1>2, <1>3, <3>1, <3>2 DEF ToSet
    <3> QED
      BY <3>3 DEF IdsOf
  <2> QED
    BY <2>1, <2>2
<1>8. ASSUME NEW e \in ToSet(u)
      PROVE  \E f \in ToSet(queue) : Becomes(e, f, m, status, error)
  <2>1. PICK i \in 1..n : e = u[i]
    BY <1>2 DEF ToSet
  <2>2. queue[i] \in ToSet(queue)
    BY <1>1 DEF ToSet
  <2> QED
    BY <1>3, <2>1, <2>2 DEF Becomes
<1> QED
  BY <1>5, <1>6, <1>7, <1>8 DEF u

\* A run at rest has nothing to send.
LEMMA IdleIs == Idle \in Run /\ Idle.at = "idle" /\ Idle.todo = <<>> /\ ToSet(Idle.todo) = {}
<1>1. (CHOOSE t \in Tabs : TRUE) \in Tabs
  BY QueueAssumption
<1>2. <<>> \in Seq(Entry) /\ ToSet(<<>>) = {}
  BY DEF ToSet
<1> QED
  BY <1>1, <1>2 DEF Idle, Run

\* The entry a run has in hand, and the run once its loop goes on.
LEMMA GoesOnIs ==
  ASSUME runs \in [Runs -> Run], NEW r \in Runs, runs[r].todo # <<>>, Keys(runs[r].todo),
         NEW status, NEW error, GoesOn(r, status, error)
  PROVE  /\ HeadOf(r) \in ToSet(runs[r].todo) /\ HeadOf(r) \in Entry
         /\ queue' = Updated(HeadOf(r).id, status, error)
         /\ runs' \in [Runs -> Run] /\ \A q \in Runs \ {r} : runs'[q] = runs[q]
         /\ runs'[r].at \in {"idle", "mark"}
         /\ runs'[r].at = "idle" <=> runs'[r].todo = <<>>
         /\ ToSet(runs'[r].todo) \subseteq ToSet(runs[r].todo)
         /\ Keys(runs'[r].todo) /\ HeadOf(r).id \notin IdsOf(runs'[r].todo)
<1> DEFINE todo == runs[r].todo
           rest == Tail(todo)
           next == [runs[r] EXCEPT !.todo = rest, !.at = "mark"]
<1>1. runs[r] \in Run /\ todo \in Seq(Entry)
  BY DEF Run
<1>2. /\ HeadOf(r) \in ToSet(todo) /\ HeadOf(r) \in Entry /\ rest \in Seq(Entry)
      /\ ToSet(rest) \subseteq ToSet(todo) /\ Keys(rest) /\ HeadOf(r).id \notin IdsOf(rest)
  BY <1>1, TailIs DEF HeadOf
<1>3. /\ queue' = Updated(HeadOf(r).id, status, error)
      /\ runs' = [runs EXCEPT ![r] = IF rest = <<>> THEN Idle ELSE next]
  BY DEF GoesOn
<1> HIDE DEF rest
<1>4. next \in Run /\ next.todo = rest /\ next.at = "mark"
  BY <1>1, <1>2 DEF Run
<1> HIDE DEF next
<1>5. /\ runs' \in [Runs -> Run] /\ \A q \in Runs \ {r} : runs'[q] = runs[q]
      /\ runs'[r] = IF rest = <<>> THEN Idle ELSE next
  BY <1>3, <1>4, IdleIs
<1>6. CASE rest = <<>>
  <2>1. Keys(<<>>) /\ IdsOf(<<>>) = {} /\ ToSet(<<>>) = {}
    BY DEF Keys, IdsOf, ToSet
  <2>2. runs'[r] = Idle
    BY <1>5, <1>6
  <2> QED
    BY <1>2, <1>3, <1>5, <2>1, <2>2, IdleIs
<1>7. CASE rest # <<>>
  <2>1. runs'[r] = next
    BY <1>5, <1>7
  <2> QED
    BY <1>2, <1>3, <1>4, <1>5, <1>7, <2>1
<1> QED
  BY <1>6, <1>7

\* Nothing else changes, and no more may be made than before.
Rest == UNCHANGED <<shown, direct, company, asked>>
Core == Types /\ Keyed /\ Tenants /\ Busy /\ Doubts
Safe == SyncedIsMade /\ MadeOnce /\ InItsCompany

LEMMA IInvIs == IInv <=> Core /\ Shows /\ Safe
BY DEF IInv, Core, Safe

\* An entry of a run is one of its table.
LEMMA HeldIs ==
  ASSUME Types, NEW r \in Runs
  PROVE  Held(r) = IdsOf(runs[r].todo) /\ runs[r] \in Run /\ runs[r].todo \in Seq(Entry)
BY DEF Held, IdsOf, Types, Run

-----------------------------------------------------------------------------
(***************************************************************************)
(* The loop of a run                                                       *)
(***************************************************************************)

\* A run that puts away the entry in hand keeps the invariant: a synced one has
\* been made, and one to be sent again has not, or it is doubtful.
LEMMA GoesOnKeeps ==
  ASSUME Core, Safe, NEW r \in Runs, runs[r].at # "idle",
         NEW status \in Statuses, NEW error \in {"", "server-wins"},
         GoesOn(r, status, error),
         NEW done \in SUBSET {HeadOf(r).id}, Made(done, SentTo(r), doubtful),
         NEW more \in SUBSET {HeadOf(r).id}, doubtful' = doubtful \cup more,
         status = "synced" /\ error = "" => HeadOf(r).id \in done,
         status \in {"pending", "failed"} => done \subseteq more,
         Rest, dialog' \in [Tabs -> Runs \cup {NoRun}]
  PROVE  Core' /\ Safe'
<1> DEFINE h == HeadOf(r).id
           todo(q) == runs[q].todo
<1>0. Types /\ Keyed /\ Tenants /\ Busy /\ Doubts
  BY DEF Core
<1>1. /\ runs \in [Runs -> Run] /\ todo(r) # <<>> /\ Keys(todo(r)) /\ Keys(queue)
      /\ queue \in Seq(Entry)
  BY <1>0 DEF Types, Busy, Keyed
<1>2. /\ HeadOf(r) \in ToSet(todo(r)) /\ HeadOf(r) \in Entry
      /\ queue' = Updated(h, status, error)
      /\ runs' \in [Runs -> Run] /\ \A q \in Runs \ {r} : runs'[q] = runs[q]
      /\ runs'[r].at = "idle" <=> runs'[r].todo = <<>>
      /\ ToSet(runs'[r].todo) \subseteq ToSet(todo(r))
      /\ Keys(runs'[r].todo) /\ h \notin IdsOf(runs'[r].todo)
  BY <1>1, GoesOnIs
<1>3. /\ queue' \in Seq(Entry) /\ Keys(queue') /\ IdsOf(queue') = IdsOf(queue)
      /\ \A e \in ToSet(queue') : \E f \in ToSet(queue) : Becomes(e, f, h, status, error)
  <2> DEFINE u == Updated(h, status, error)
  <2>1. /\ u \in Seq(Entry) /\ Keys(u) /\ IdsOf(u) = IdsOf(queue)
        /\ \A e \in ToSet(u) : \E f \in ToSet(queue) : Becomes(e, f, h, status, error)
    BY <1>1, UpdatedIs
  <2>2. queue' = u
    BY <1>2
  <2> HIDE DEF u
  <2> QED
    BY <2>1, <2>2
<1>4. h \in IdsOf(todo(r)) /\ Named(HeadOf(r))
  BY <1>0, <1>2 DEF IdsOf, Tenants
<1>5. h \in made => h \in doubtful
  BY <1>0, <1>4 DEF Doubts
<1>6. /\ made' = made \cup done /\ again' = again \cup ((made \cap done) \ doubtful)
      /\ astray' = astray \cup {m \in {h} \cap done :
                                  asked[m] \notin {NoCompany, SentTo(r)[m]}}
  BY DEF Made, SentTo
<1>7. \A q \in Runs : /\ ToSet(runs'[q].todo) \subseteq ToSet(todo(q))
                      /\ IdsOf(runs'[q].todo) \subseteq IdsOf(todo(q))
  <2> TAKE q \in Runs
  <2>1. ToSet(runs'[q].todo) \subseteq ToSet(todo(q))
    BY <1>2
  <2> QED
    BY <2>1 DEF IdsOf
<1>8. shown' = shown /\ direct' = direct /\ company' = company /\ asked' = asked
  BY DEF Rest
<1> HIDE DEF h, todo
<1>9. Types'
  <2>1. h \in Changes
    BY <1>4 DEF Named, h
  <2> QED
    BY <1>0, <1>2, <1>3, <1>6, <1>8, <2>1 DEF Types, Changes, h
<1>10. Keyed'
  <2>1. \A q \in Runs : Keys(runs'[q].todo)
    BY <1>0, <1>2 DEF Keyed
  <2> QED
    BY <1>0, <1>3, <1>7, <1>8, <2>1 DEF Keyed, todo
<1>11. Tenants'
  <2>1. \A e, f : e.id = f.id /\ e.tenant = f.tenant /\ Named(f) => Named(e)'
    BY <1>8 DEF Named, Changes
  <2>2. \A e \in ToSet(queue') : Named(e)'
    BY <1>0, <1>3, <2>1 DEF Tenants, Becomes
  <2>3. \A q \in Runs : \A e \in ToSet(runs'[q].todo) : Named(e)'
    BY <1>0, <1>7, <2>1 DEF Tenants, todo
  <2> QED
    BY <1>0, <1>8, <2>2, <2>3 DEF Tenants
<1>12. Busy'
  BY <1>0, <1>2 DEF Busy
<1>13. Doubts'
  <2>1. ASSUME NEW q \in Runs, NEW x \in IdsOf(runs'[q].todo) \cap made'
        PROVE  x \in doubtful'
    <3>1. CASE x \in made
      BY <1>0, <1>7, <2>1, <3>1 DEF Doubts, todo
    <3>2. CASE x = h
      <4>1. q # r
        BY <1>2, <2>1, <3>2
      <4> QED
        BY <1>0, <1>4, <1>7, <2>1, <3>2, <4>1 DEF Doubts, todo
    <3> QED
      BY <1>6, <2>1, <3>1, <3>2 DEF h
  <2>2. ASSUME NEW e \in ToSet(queue'), e.status \in {"pending", "failed"}, e.id \in made'
        PROVE  e.id \in doubtful'
    <3>1. PICK f \in ToSet(queue) : Becomes(e, f, h, status, error)
      BY <1>3
    <3>2. CASE f.id = h
      BY <1>5, <1>6, <2>2, <3>1, <3>2 DEF h, Becomes
    <3>3. CASE f.id # h
      BY <1>0, <1>6, <2>2, <3>1, <3>3 DEF Doubts, h, Becomes
    <3> QED
      BY <3>2, <3>3
  <2>3. ASSUME NEW d \in direct', d.id \in made' PROVE d.id \in doubtful'
    <3>1. d.id # h
      BY <1>0, <1>4, <1>8 DEF Keyed, todo
    <3> QED
      BY <1>0, <1>6, <1>8, <2>3, <3>1 DEF Doubts, h
  <2>4. ASSUME NEW p \in Runs, NEW q \in Runs, p # q,
               NEW x \in IdsOf(runs'[p].todo) \cap IdsOf(runs'[q].todo)
        PROVE  x \in doubtful'
    BY <1>0, <1>7, <2>4 DEF Doubts, todo
  <2> QED
    BY <2>1, <2>2, <2>3, <2>4 DEF Doubts
<1>14. SyncedIsMade'
  <2> SUFFICES ASSUME NEW e \in ToSet(queue'), e.status = "synced", e.error = ""
               PROVE  e.id \in made'
    BY DEF SyncedIsMade
  <2>1. PICK f \in ToSet(queue) : Becomes(e, f, h, status, error)
    BY <1>3
  <2>2. CASE f.id = h
    BY <1>6, <2>1, <2>2 DEF h, Becomes
  <2>3. CASE f.id # h
    BY <1>6, <2>1, <2>3 DEF Safe, SyncedIsMade, Becomes
  <2> QED
    BY <2>2, <2>3
<1>15. MadeOnce'
  BY <1>5, <1>6 DEF Safe, MadeOnce, h
<1>16. InItsCompany'
  <2>1. SentTo(r)[h] = HeadOf(r).tenant
    BY DEF SentTo, h
  <2>2. asked[h] \in {NoCompany, HeadOf(r).tenant}
    BY <1>4 DEF Named, h
  <2> QED
    BY <1>6, <2>1, <2>2 DEF Safe, InItsCompany
<1> QED
  BY <1>9, <1>10, <1>11, <1>12, <1>13, <1>14, <1>15, <1>16 DEF Core, Safe


-----------------------------------------------------------------------------
(***************************************************************************)
(* The editors                                                             *)
(***************************************************************************)

\* A change put into the table is pending, for the company named if one was.
EntryFor(e, m, tenant) ==
  /\ e \in Entry /\ e.id = m /\ e.status = "pending"
  /\ tenant \in {NoCompany, e.tenant}

LEMMA EnqueuedIs ==
  ASSUME queue \in Seq(Entry), company \in Companies, NEW m \in 1..MaxChanges,
         NEW tenant \in Companies \cup {NoCompany}
  PROVE  \E e : /\ EntryFor(e, m, tenant) /\ Enqueued(m, tenant) \in Seq(Entry)
                /\ ToSet(Enqueued(m, tenant)) = ToSet(queue) \cup {e}
                /\ Keys(queue) /\ m \notin IdsOf(queue) => Keys(Enqueued(m, tenant))
<1> DEFINE e == [id |-> m, status |-> "pending", error |-> "",
                 tenant |-> IF tenant = NoCompany THEN company ELSE tenant]
<1>1. EntryFor(e, m, tenant)
  BY DEF EntryFor, Entry, Statuses, NoCompany
<1>2. Enqueued(m, tenant) = Append(queue, e)
  BY DEF Enqueued
<1> HIDE DEF e
<1>3. e \in Entry /\ e.id = m
  BY <1>1 DEF EntryFor
<1>4. /\ Append(queue, e) \in Seq(Entry) /\ ToSet(Append(queue, e)) = ToSet(queue) \cup {e}
      /\ Keys(queue) /\ e.id \notin IdsOf(queue) => Keys(Append(queue, e))
  BY <1>3, AppendIs
<1> QED
  BY <1>1, <1>2, <1>3, <1>4

\* The table with a new pending entry of a change that neither it nor a request
\* holds, and that was not made, or is doubtful.
LEMMA EnqueuedKeeps ==
  ASSUME Types, Keyed, NEW m, NEW tenant, NEW e, EntryFor(e, m, tenant),
         ToSet(queue') = ToSet(queue) \cup {e},
         Doubts, made' \subseteq made \cup {m}, doubtful \subseteq doubtful',
         m \in made' => m \in doubtful'
  PROVE  /\ IdsOf(queue') = IdsOf(queue) \cup {m}
         /\ \A f \in ToSet(queue') :
              f.status \in {"pending", "failed"} /\ f.id \in made' => f.id \in doubtful'
<1>1. e.id = m
  BY DEF EntryFor
<1>2. IdsOf(queue') = IdsOf(queue) \cup {m}
  BY <1>1 DEF IdsOf
<1>3. ASSUME NEW f \in ToSet(queue'), f.status \in {"pending", "failed"}, f.id \in made'
      PROVE  f.id \in doubtful'
  <2>1. CASE f = e
    BY <1>1, <1>3, <2>1
  <2>2. CASE f \in ToSet(queue)
    BY <1>3, <2>2 DEF Doubts
  <2> QED
    BY <2>1, <2>2
<1> QED
  BY <1>2, <1>3

LEMMA ChangeKeeps ==
  ASSUME IInv, NEW c \in {company} \cup Unnamed, Change(c)
  PROVE  IInv'
<1> DEFINE m == Len(asked')
<1>0. Types /\ Shows /\ Keyed /\ Tenants /\ Busy /\ Doubts
      /\ SyncedIsMade /\ MadeOnce /\ InItsCompany
  BY DEF IInv
<1>1. c \in Companies \cup {NoCompany}
  BY <1>0, QueueAssumption DEF Types, NoCompany
<1>2. /\ Len(asked) \in Nat /\ Len(asked) < MaxChanges /\ MaxChanges \in Nat
      /\ asked' \in Seq(Companies \cup {NoCompany})
      /\ m = Len(asked) + 1 /\ asked'[m] = c
      /\ \A n \in Changes : asked'[n] = asked[n] /\ n # m /\ n \in Changes'
      /\ m \in 1..MaxChanges /\ m \in Changes' /\ Len(asked)' <= MaxChanges
  <2> DEFINE a == Append(asked, c)
  <2>1. asked' = a /\ asked \in Seq(Companies \cup {NoCompany}) /\ Len(asked) < MaxChanges
    BY <1>0 DEF Change, Types
  <2>2. /\ a \in Seq(Companies \cup {NoCompany}) /\ Len(a) = Len(asked) + 1
        /\ Len(asked) \in Nat /\ a[Len(asked) + 1] = c
        /\ \A n \in 1..Len(asked) : a[n] = asked[n]
    BY <1>1, <2>1
  <2> HIDE DEF a
  <2> QED
    BY <2>1, <2>2, QueueAssumption DEF Changes
<1> HIDE DEF m
<1>3. /\ runs' = runs /\ dialog' = dialog /\ shown' = shown /\ company' = company
      /\ made' = made /\ astray' = astray /\ again' = again /\ doubtful' = doubtful
  BY DEF Change, server
<1>4. /\ \A e \in ToSet(queue) : e.id \in Changes
      /\ \A r \in Runs : \A e \in ToSet(runs[r].todo) : e.id \in Changes
      /\ \A d \in direct : d.id \in Changes
      /\ m \notin made
  BY <1>0, <1>2 DEF Tenants, Named, Types
<1>5. /\ m \notin IdsOf(queue) /\ \A r \in Runs : m \notin IdsOf(runs[r].todo)
      /\ \A d \in direct : d.id # m
  BY <1>2, <1>4 DEF IdsOf
<1>6. \A e : Named(e) => Named(e)'
  BY <1>2 DEF Named
<1>7. /\ \A t \in Tabs : shown'[t] \subseteq Changes'
      /\ made' \subseteq Changes' /\ doubtful' \subseteq Changes'
  BY <1>0, <1>2, <1>3 DEF Types
<1>8. \A d \in direct : /\ d \in [id: Changes', tenant: Companies \cup {NoCompany}]
                        /\ d.tenant = asked'[d.id]
  <2> TAKE d \in direct
  <2>1. d \in [id: Changes, tenant: Companies \cup {NoCompany}] /\ d.tenant = asked[d.id]
    BY <1>0 DEF Types, Tenants
  <2>2. d = [id |-> d.id, tenant |-> d.tenant] /\ d.id \in Changes
        /\ d.tenant \in Companies \cup {NoCompany}
    BY <2>1
  <2> QED
    BY <1>2, <2>1, <2>2
<1>9. Shows'
  BY <1>0, <1>3 DEF Shows
<1>10. Busy'
  BY <1>0, <1>3 DEF Busy
<1>11. MadeOnce' /\ InItsCompany'
  BY <1>0, <1>3 DEF MadeOnce, InItsCompany
<1>12. shown' \in [Tabs -> SUBSET Changes']
  BY <1>0, <1>3, <1>7 DEF Types
<1>13. CASE queue' = Enqueued(m, c) /\ direct' = direct
  <2>1. PICK e : /\ EntryFor(e, m, c) /\ queue' \in Seq(Entry)
                 /\ ToSet(queue') = ToSet(queue) \cup {e}
                 /\ Keys(queue) /\ m \notin IdsOf(queue) => Keys(queue')
    <3> DEFINE u == Enqueued(m, c)
    <3>1. \E e : /\ EntryFor(e, m, c) /\ u \in Seq(Entry)
                 /\ ToSet(u) = ToSet(queue) \cup {e}
                 /\ Keys(queue) /\ m \notin IdsOf(queue) => Keys(u)
      BY <1>0, <1>1, <1>2, EnqueuedIs DEF Types
    <3>2. queue' = u
      BY <1>13
    <3> HIDE DEF u
    <3> QED
      BY <3>1, <3>2
  <2>2. /\ IdsOf(queue') = IdsOf(queue) \cup {m}
        /\ \A f \in ToSet(queue') :
              f.status \in {"pending", "failed"} /\ f.id \in made' => f.id \in doubtful'
    BY <1>0, <1>3, <1>4, <2>1, EnqueuedKeeps
  <2>3. Types'
    BY <1>0, <1>2, <1>3, <1>7, <1>8, <1>12, <1>13, <2>1 DEF Types
  <2>4. Keyed'
    BY <1>0, <1>3, <1>5, <1>13, <2>1, <2>2 DEF Keyed
  <2>5. Tenants'
    <3>1. Named(e)'
      BY <1>2, <2>1 DEF Named, EntryFor
    <3> QED
      BY <1>0, <1>3, <1>6, <1>8, <1>13, <2>1, <3>1 DEF Tenants
  <2>6. Doubts'
    BY <1>0, <1>3, <1>13, <2>2 DEF Doubts
  <2>7. SyncedIsMade'
    BY <1>0, <1>3, <2>1 DEF SyncedIsMade, EntryFor
  <2> QED
    BY <1>9, <1>10, <1>11, <2>3, <2>4, <2>5, <2>6, <2>7 DEF IInv
<1>14. CASE queue' = queue /\ direct' = direct \cup {[id |-> m, tenant |-> c]}
  <2> DEFINE n == [id |-> m, tenant |-> c]
  <2>1. n \in [id: Changes', tenant: Companies \cup {NoCompany}] /\ n.id = m /\ n.tenant = c
    BY <1>1, <1>2
  <2>2. direct' = direct \cup {n}
    BY <1>14
  <2> HIDE DEF n
  <2>3. Types'
    BY <1>0, <1>2, <1>3, <1>7, <1>8, <1>12, <1>14, <2>1, <2>2 DEF Types
  <2>4. Keyed'
    BY <1>0, <1>3, <1>5, <1>14, <2>1, <2>2 DEF Keyed
  <2>5. Tenants'
    BY <1>0, <1>2, <1>3, <1>6, <1>8, <1>14, <2>1, <2>2 DEF Tenants
  <2>6. Doubts'
    BY <1>0, <1>3, <1>4, <1>14, <2>1, <2>2 DEF Doubts
  <2>7. SyncedIsMade'
    BY <1>0, <1>3, <1>14 DEF SyncedIsMade
  <2> QED
    BY <1>9, <1>10, <1>11, <2>3, <2>4, <2>5, <2>6, <2>7 DEF IInv
<1> QED
  BY <1>13, <1>14 DEF Change, m

\* Requests that went to the server, or may have: one that is over was made, or
\* is doubtful, and goes to no other company.
LEMMA MadeDirectly ==
  ASSUME Types, Tenants, NEW done, done \subseteq Changes, Made(done, <<>>, doubtful),
         \A m \in done : m \in made => m \in doubtful, MadeOnce, InItsCompany
  PROVE  /\ made' = made \cup done /\ MadeOnce' /\ InItsCompany'
         /\ made' \subseteq Changes
<1>1. DOMAIN (<<>>) = {}
  OBVIOUS
<1> QED
  BY <1>1 DEF Made, MadeOnce, InItsCompany, Types

LEMMA DirectDoneKeeps ==
  ASSUME IInv, NEW d \in direct, DirectDone(d)
  PROVE  IInv'
<1>0. Types /\ Shows /\ Keyed /\ Tenants /\ Busy /\ Doubts
      /\ SyncedIsMade /\ MadeOnce /\ InItsCompany
  BY DEF IInv
<1>1. /\ direct' = direct \ {d} /\ Made({d.id}, <<>>, doubtful) /\ doubtful' = doubtful
      /\ queue' = queue /\ runs' = runs /\ dialog' = dialog /\ shown' = shown
      /\ company' = company /\ asked' = asked
  BY DEF DirectDone
<1>2. d.id \in Changes /\ {d.id} \subseteq Changes
  BY <1>0 DEF Types
<1>3. \A m \in {d.id} : m \in made => m \in doubtful
  BY <1>0 DEF Doubts
<1>4. made' = made \cup {d.id} /\ MadeOnce' /\ InItsCompany' /\ made' \subseteq Changes
  BY <1>0, <1>1, <1>2, <1>3, MadeDirectly
<1>5. Types'
  BY <1>0, <1>1, <1>4 DEF Types, Changes
<1>6. Shows' /\ Busy'
  BY <1>0, <1>1 DEF Shows, Busy
<1>7. Keyed'
  BY <1>0, <1>1 DEF Keyed
<1>8. Tenants'
  BY <1>0, <1>1 DEF Tenants, Named, Changes
<1>9. SyncedIsMade'
  BY <1>0, <1>1, <1>4 DEF SyncedIsMade
<1>10. Doubts'
  <2>1. d.id \notin IdsOf(queue) /\ \A r \in Runs : d.id \notin IdsOf(runs[r].todo)
    BY <1>0 DEF Keyed
  <2>2. \A e \in ToSet(queue) : e.id # d.id
    BY <2>1 DEF IdsOf
  <2>3. \A c \in direct' : c.id \in made' => c.id \in doubtful'
    <3> TAKE c \in direct'
    <3>1. CASE c.id = d.id
      <4>1. c.tenant = d.tenant
        BY <1>0, <1>1, <3>1 DEF Tenants
      <4>2. c \in [id: Changes, tenant: Companies \cup {NoCompany}]
            /\ d \in [id: Changes, tenant: Companies \cup {NoCompany}]
        BY <1>0, <1>1 DEF Types
      <4>3. c = d
        BY <3>1, <4>1, <4>2
      <4> QED
        BY <1>1, <4>3
    <3>2. CASE c.id # d.id
      BY <1>0, <1>1, <1>4, <3>2 DEF Doubts
    <3> QED
      BY <3>1, <3>2
  <2> QED
    BY <1>0, <1>1, <1>4, <2>1, <2>2, <2>3 DEF Doubts
<1> QED
  BY <1>4, <1>5, <1>6, <1>7, <1>8, <1>9, <1>10 DEF IInv

LEMMA DirectFailedKeeps ==
  ASSUME IInv, NEW d \in direct, DirectFailed(d)
  PROVE  IInv'
<1>0. Types /\ Shows /\ Keyed /\ Tenants /\ Busy /\ Doubts
      /\ SyncedIsMade /\ MadeOnce /\ InItsCompany
  BY DEF IInv
<1>1. /\ direct' = direct \ {d} /\ queue' = Enqueued(d.id, d.tenant)
      /\ runs' = runs /\ dialog' = dialog /\ shown' = shown
      /\ company' = company /\ asked' = asked
  BY DEF DirectFailed
<1>2. d.id \in Changes /\ {d.id} \subseteq Changes /\ d.id \in 1..MaxChanges
      /\ d.tenant \in Companies \cup {NoCompany} /\ d.tenant = asked[d.id]
  <2>1. d.id \in Changes /\ d.tenant \in Companies \cup {NoCompany}
    BY <1>0 DEF Types
  <2>2. Len(asked) \in Nat /\ Len(asked) <= MaxChanges
    BY <1>0 DEF Types
  <2> QED
    BY <1>0, <2>1, <2>2, QueueAssumption DEF Tenants, Changes
<1>3. /\ made' \subseteq made \cup {d.id} /\ made \subseteq made' /\ made' \subseteq Changes
      /\ doubtful \subseteq doubtful' /\ doubtful' \subseteq doubtful \cup {d.id}
      /\ d.id \in made' => d.id \in doubtful'
      /\ MadeOnce' /\ InItsCompany'
  <2>1. CASE made' = made /\ astray' = astray /\ again' = again /\ doubtful' = doubtful
    BY <1>0, <2>1 DEF MadeOnce, InItsCompany, Types, Doubts
  <2>2. CASE doubtful' = doubtful \cup {d.id} /\ Made({d.id}, <<>>, doubtful)
    <3>1. \A m \in {d.id} : m \in made => m \in doubtful
      BY <1>0 DEF Doubts
    <3>2. made' = made \cup {d.id} /\ MadeOnce' /\ InItsCompany' /\ made' \subseteq Changes
      BY <1>0, <1>2, <2>2, <3>1, MadeDirectly
    <3> QED
      BY <2>2, <3>2
  <2> QED
    BY <2>1, <2>2 DEF DirectFailed, server
<1>4. PICK e : /\ EntryFor(e, d.id, d.tenant) /\ queue' \in Seq(Entry)
               /\ ToSet(queue') = ToSet(queue) \cup {e}
               /\ Keys(queue) /\ d.id \notin IdsOf(queue) => Keys(queue')
  <2> DEFINE u == Enqueued(d.id, d.tenant)
  <2>1. \E e : /\ EntryFor(e, d.id, d.tenant) /\ u \in Seq(Entry)
               /\ ToSet(u) = ToSet(queue) \cup {e}
               /\ Keys(queue) /\ d.id \notin IdsOf(queue) => Keys(u)
    BY <1>0, <1>2, EnqueuedIs DEF Types
  <2>2. queue' = u
    BY <1>1
  <2> HIDE DEF u
  <2> QED
    BY <2>1, <2>2
<1>5. /\ IdsOf(queue') = IdsOf(queue) \cup {d.id}
      /\ \A f \in ToSet(queue') :
            f.status \in {"pending", "failed"} /\ f.id \in made' => f.id \in doubtful'
  BY <1>0, <1>3, <1>4, EnqueuedKeeps
<1>6. d.id \notin IdsOf(queue) /\ \A r \in Runs : d.id \notin IdsOf(runs[r].todo)
  BY <1>0 DEF Keyed
<1>7. \A c \in direct' : c \in direct /\ c.id # d.id
  <2> SUFFICES ASSUME NEW c \in direct', c.id = d.id PROVE FALSE
    BY <1>1
  <2>1. c.tenant = d.tenant
    BY <1>0, <1>1 DEF Tenants
  <2>2. c \in [id: Changes, tenant: Companies \cup {NoCompany}]
        /\ d \in [id: Changes, tenant: Companies \cup {NoCompany}]
    BY <1>0, <1>1 DEF Types
  <2>3. c = d
    BY <2>1, <2>2
  <2> QED
    BY <1>1, <2>3
<1>8. Types'
  BY <1>0, <1>1, <1>2, <1>3, <1>4 DEF Types, Changes
<1>9. Shows' /\ Busy'
  BY <1>0, <1>1 DEF Shows, Busy
<1>10. Keyed'
  BY <1>0, <1>1, <1>4, <1>5, <1>6, <1>7 DEF Keyed
<1>11. Tenants'
  <2>1. \A f : Named(f) => Named(f)'
    BY <1>1 DEF Named, Changes
  <2>2. Named(e)'
    BY <1>1, <1>2, <1>4 DEF Named, EntryFor, Changes
  <2> QED
    BY <1>0, <1>1, <1>4, <2>1, <2>2 DEF Tenants
<1>12. SyncedIsMade'
  BY <1>0, <1>3, <1>4 DEF SyncedIsMade, EntryFor
<1>13. Doubts'
  BY <1>0, <1>1, <1>3, <1>5, <1>6, <1>7 DEF Doubts
<1> QED
  BY <1>3, <1>8, <1>9, <1>10, <1>11, <1>12, <1>13 DEF IInv

-----------------------------------------------------------------------------
(***************************************************************************)
(* A run starts, marks an entry, and has its answer                        *)
(***************************************************************************)

\* The invariant, named part by named part.
LEMMA Parts ==
  ASSUME IInv
  PROVE  /\ Types /\ Shows /\ Keyed /\ Tenants /\ Busy /\ Doubts
         /\ SyncedIsMade /\ MadeOnce /\ InItsCompany /\ Core /\ Safe
BY DEF IInv, Core, Safe

\* A step that leaves alone the run a modal shows leaves the modals right.
LEMMA ShowsKept ==
  ASSUME Types, Shows, NEW r \in Runs, runs[r].at # "conflict", dialog' = dialog,
         \A q \in Runs \ {r} : runs'[q] = runs[q]
  PROVE  Shows'
<1> SUFFICES ASSUME NEW t \in Tabs, dialog'[t] # NoRun
             PROVE  runs'[dialog'[t]].at = "conflict" /\ runs'[dialog'[t]].tab = t
  BY DEF Shows
<1>1. dialog[t] \in Runs /\ runs[dialog[t]].at = "conflict" /\ runs[dialog[t]].tab = t
  BY DEF Types, Shows
<1>2. dialog[t] \in Runs \ {r}
  BY <1>1
<1> QED
  BY <1>1, <1>2

LEMMA StartKeeps ==
  ASSUME IInv, NEW r \in Runs, NEW t \in Tabs, Start(r, t)
  PROVE  IInv'
<1> DEFINE kept == {e \in ToSet(queue) : e.status = "pending" /\ e.tenant = company}
           p == Pending
           taken == {m \in UNION {Held(q) : q \in Runs} : \E e \in ToSet(p) : e.id = m}
           new == [tab |-> t, todo |-> p, at |-> "mark"]
<1>0. Types /\ Shows /\ Keyed /\ Tenants /\ Busy /\ Doubts
      /\ SyncedIsMade /\ MadeOnce /\ InItsCompany
  BY Parts
<1>1. /\ runs[r].at = "idle" /\ p # <<>> /\ runs' = [runs EXCEPT ![r] = new]
      /\ doubtful' = doubtful \cup taken
      /\ queue' = queue /\ dialog' = dialog /\ shown' = shown /\ direct' = direct
      /\ company' = company /\ asked' = asked
      /\ made' = made /\ astray' = astray /\ again' = again
  BY DEF Start, server
<1>2. p \in Seq(Entry) /\ ToSet(p) = ToSet(queue) \cap kept /\ Keys(p)
  <2>1. queue \in Seq(Entry) /\ Keys(queue)
    BY <1>0 DEF Types, Keyed
  <2>2. p = Only(queue, kept)
    BY DEF Pending
  <2> HIDE DEF p, kept
  <2> QED
    BY <2>1, <2>2, OnlyIs
<1>3. \A e \in ToSet(p) : e \in ToSet(queue) /\ e.status = "pending"
  BY <1>2
<1>4. IdsOf(p) \subseteq IdsOf(queue)
  BY <1>3 DEF IdsOf
<1> HIDE DEF p, kept
<1>5. new \in Run /\ new.todo = p /\ new.at = "mark"
  BY <1>2 DEF Run
<1> HIDE DEF new
<1>6. runs' \in [Runs -> Run] /\ runs'[r] = new /\ \A q \in Runs \ {r} : runs'[q] = runs[q]
  BY <1>0, <1>1, <1>5 DEF Types
<1>7. \A q \in Runs : Held(q) = IdsOf(runs[q].todo)
  BY <1>0, HeldIs
<1>8. taken \subseteq Changes /\ \A q \in Runs : IdsOf(runs[q].todo) \cap IdsOf(p) \subseteq taken
  <2>1. taken \subseteq Changes
    BY <1>0, <1>3 DEF Tenants, Named
  <2>2. \A q \in Runs : IdsOf(runs[q].todo) \cap IdsOf(p) \subseteq taken
    BY <1>7 DEF IdsOf
  <2> QED
    BY <2>1, <2>2
<1> HIDE DEF taken
<1>9. Types'
  BY <1>0, <1>1, <1>6, <1>8 DEF Types, Changes
<1>10. Shows'
  <2>1. runs[r].at # "conflict"
    BY <1>1
  <2> QED
    BY <1>0, <1>1, <1>6, <2>1, ShowsKept
<1>11. Keyed'
  BY <1>0, <1>1, <1>2, <1>4, <1>5, <1>6 DEF Keyed
<1>12. Tenants'
  <2>1. \A f : Named(f) => Named(f)'
    BY <1>1 DEF Named, Changes
  <2> QED
    BY <1>0, <1>1, <1>3, <1>5, <1>6, <2>1 DEF Tenants
<1>13. Busy'
  BY <1>0, <1>1, <1>5, <1>6 DEF Busy
<1>14. Doubts'
  <2>1. IdsOf(p) \cap made \subseteq doubtful
    BY <1>0, <1>3 DEF Doubts, IdsOf
  <2>2. \A q \in Runs : IdsOf(runs'[q].todo) \cap made' \subseteq doubtful'
    BY <1>0, <1>1, <1>5, <1>6, <2>1 DEF Doubts
  <2>3. \A e \in ToSet(queue') :
          e.status \in {"pending", "failed"} /\ e.id \in made' => e.id \in doubtful'
    BY <1>0, <1>1 DEF Doubts
  <2>4. \A d \in direct' : d.id \in made' => d.id \in doubtful'
    BY <1>0, <1>1 DEF Doubts
  <2>5. ASSUME NEW q \in Runs, NEW s \in Runs, q # s
        PROVE  IdsOf(runs'[q].todo) \cap IdsOf(runs'[s].todo) \subseteq doubtful'
    <3>1. CASE q # r /\ s # r
      BY <1>0, <1>1, <1>6, <2>5, <3>1 DEF Doubts
    <3>2. CASE q = r
      BY <1>1, <1>5, <1>6, <1>8, <2>5, <3>2
    <3>3. CASE s = r
      BY <1>1, <1>5, <1>6, <1>8, <2>5, <3>3
    <3> QED
      BY <3>1, <3>2, <3>3
  <2> QED
    BY <2>2, <2>3, <2>4, <2>5 DEF Doubts
<1>15. SyncedIsMade' /\ MadeOnce' /\ InItsCompany'
  BY <1>0, <1>1 DEF SyncedIsMade, MadeOnce, InItsCompany
<1> QED
  BY <1>9, <1>10, <1>11, <1>12, <1>13, <1>14, <1>15 DEF IInv

\* A new state of a run that keeps what it has to send, and stays under way.
LEMMA AtIs ==
  ASSUME NEW run \in Run, NEW at \in {"mark", "answer", "conflict", "unheard"}
  PROVE  /\ [run EXCEPT !.at = at] \in Run /\ [run EXCEPT !.at = at].at = at
         /\ [run EXCEPT !.at = at].todo = run.todo /\ [run EXCEPT !.at = at].tab = run.tab
BY DEF Run

LEMMA MarkKeeps ==
  ASSUME IInv, NEW r \in Runs, Mark(r)
  PROVE  IInv'
<1> DEFINE h == HeadOf(r).id
           u == Updated(h, "syncing", "")
           new == [runs[r] EXCEPT !.at = "answer"]
<1>0. Types /\ Shows /\ Keyed /\ Tenants /\ Busy /\ Doubts
      /\ SyncedIsMade /\ MadeOnce /\ InItsCompany
  BY Parts
<1>1. /\ runs[r].at = "mark" /\ queue' = u /\ runs' = [runs EXCEPT ![r] = new]
      /\ dialog' = dialog /\ shown' = shown /\ direct' = direct
      /\ company' = company /\ asked' = asked /\ doubtful' = doubtful
      /\ made' = made /\ astray' = astray /\ again' = again
  BY DEF Mark, server
<1>2. /\ u \in Seq(Entry) /\ Keys(u) /\ IdsOf(u) = IdsOf(queue)
      /\ \A e \in ToSet(u) : \E f \in ToSet(queue) : Becomes(e, f, h, "syncing", "")
  BY <1>0, UpdatedIs DEF Types, Keyed, Statuses
<1> HIDE DEF u, h
<1>3. new \in Run /\ new.at = "answer" /\ new.todo = runs[r].todo
  BY <1>0, AtIs DEF Types
<1> HIDE DEF new
<1>4. /\ runs' \in [Runs -> Run] /\ runs'[r] = new /\ \A q \in Runs \ {r} : runs'[q] = runs[q]
      /\ \A q \in Runs : runs'[q].todo = runs[q].todo
  BY <1>0, <1>1, <1>3 DEF Types
<1>5. \A e \in ToSet(queue') : \E f \in ToSet(queue) : e.id = f.id /\ e.tenant = f.tenant
  BY <1>1, <1>2 DEF Becomes
<1>6. \A e \in ToSet(queue') : e.status # "syncing" => e \in ToSet(queue)
  BY <1>1, <1>2 DEF Becomes
<1>7. Types'
  BY <1>0, <1>1, <1>2, <1>4 DEF Types, Changes
<1>8. Shows'
  <2>1. runs[r].at # "conflict"
    BY <1>1
  <2> QED
    BY <1>0, <1>1, <1>4, <2>1, ShowsKept
<1>9. Keyed'
  BY <1>0, <1>1, <1>2, <1>4 DEF Keyed
<1>10. Tenants'
  <2>1. \A e, f : e.id = f.id /\ e.tenant = f.tenant /\ Named(f) => Named(e)'
    BY <1>1 DEF Named, Changes
  <2>2. \A e \in ToSet(queue') : Named(e)'
    BY <1>0, <1>5, <2>1 DEF Tenants
  <2>3. \A q \in Runs : \A e \in ToSet(runs'[q].todo) : Named(e)'
    BY <1>0, <1>4, <2>1 DEF Tenants
  <2> QED
    BY <1>0, <1>1, <2>2, <2>3 DEF Tenants
<1>11. Busy'
  BY <1>0, <1>1, <1>3, <1>4 DEF Busy
<1>12. Doubts'
  <2>1. \A e \in ToSet(queue') :
          e.status \in {"pending", "failed"} /\ e.id \in made' => e.id \in doubtful'
    BY <1>0, <1>1, <1>6 DEF Doubts
  <2> QED
    BY <1>0, <1>1, <1>4, <2>1 DEF Doubts
<1>13. SyncedIsMade'
  BY <1>0, <1>1, <1>6 DEF SyncedIsMade
<1>14. MadeOnce' /\ InItsCompany'
  BY <1>0, <1>1 DEF MadeOnce, InItsCompany
<1> QED
  BY <1>7, <1>8, <1>9, <1>10, <1>11, <1>12, <1>13, <1>14 DEF IInv

LEMMA ConflictKeeps ==
  ASSUME IInv, NEW r \in Runs, runs[r].at = "answer", Conflict(r), Rest
  PROVE  IInv'
<1> DEFINE shows == dialog[runs[r].tab]
<1>0. Types /\ Shows /\ Keyed /\ Tenants /\ Busy /\ Doubts
      /\ SyncedIsMade /\ MadeOnce /\ InItsCompany
  BY Parts
<1>1. /\ queue' = queue /\ shown' = shown /\ direct' = direct
      /\ company' = company /\ asked' = asked /\ doubtful' = doubtful
      /\ made' = made /\ astray' = astray /\ again' = again
      /\ dialog' = [dialog EXCEPT ![runs[r].tab] = r]
      /\ runs' = [q \in Runs |->
                    CASE q = r -> [runs[q] EXCEPT !.at = "conflict"]
                      [] q = shows -> [runs[q] EXCEPT !.at = "unheard"]
                      [] OTHER -> runs[q]]
  BY DEF Conflict, Rest, server
<1>2. \A q \in Runs : runs[q] \in Run /\ runs[q].tab \in Tabs
  BY <1>0 DEF Types, Run
<1>3. shows \in Runs => runs[shows].at = "conflict" /\ runs[shows].tab = runs[r].tab
  <2>1. shows \in Runs => shows # NoRun
    BY QueueAssumption DEF NoRun
  <2> QED
    BY <1>0, <1>2, <2>1 DEF Shows
<1> HIDE DEF shows
<1>4. shows \in Runs => shows # r
  BY <1>3
<1>5. \A q \in Runs : /\ runs'[q] \in Run /\ runs'[q].tab = runs[q].tab
                      /\ runs'[q].todo = runs[q].todo
                      /\ runs'[q].at = IF q = r THEN "conflict"
                                       ELSE IF q = shows THEN "unheard" ELSE runs[q].at
  <2> TAKE q \in Runs
  <2>1. CASE q = r
    <3>1. runs'[q] = [runs[q] EXCEPT !.at = "conflict"]
      <4>1. runs'[q] = CASE q = r -> [runs[q] EXCEPT !.at = "conflict"]
                         [] q = shows -> [runs[q] EXCEPT !.at = "unheard"]
                         [] OTHER -> runs[q]
        BY <1>1
      <4>2. q # shows
        BY <1>4, <2>1
      <4> QED
        BY <2>1, <4>1, <4>2
    <3>2. /\ [runs[q] EXCEPT !.at = "conflict"] \in Run
          /\ [runs[q] EXCEPT !.at = "conflict"].at = "conflict"
          /\ [runs[q] EXCEPT !.at = "conflict"].todo = runs[q].todo
          /\ [runs[q] EXCEPT !.at = "conflict"].tab = runs[q].tab
      BY <1>2, AtIs
    <3> QED
      BY <2>1, <3>1, <3>2
  <2>2. CASE q # r /\ q = shows
    <3>1. runs'[q] = [runs[q] EXCEPT !.at = "unheard"]
      BY <1>1, <2>2
    <3>2. /\ [runs[q] EXCEPT !.at = "unheard"] \in Run
          /\ [runs[q] EXCEPT !.at = "unheard"].at = "unheard"
          /\ [runs[q] EXCEPT !.at = "unheard"].todo = runs[q].todo
          /\ [runs[q] EXCEPT !.at = "unheard"].tab = runs[q].tab
      BY <1>2, AtIs
    <3> QED
      BY <2>2, <3>1, <3>2
  <2>3. CASE q # r /\ q # shows
    BY <1>1, <1>2, <2>3
  <2> QED
    BY <2>1, <2>2, <2>3
<1>6. runs' \in [Runs -> Run]
  <2>1. runs' = [q \in Runs |-> runs'[q]]
    BY <1>1
  <2>2. \A q \in Runs : runs'[q] \in Run
    BY <1>5
  <2> QED
    BY <2>1, <2>2
<1>7. \A t \in Tabs : dialog'[t] = IF t = runs[r].tab THEN r ELSE dialog[t]
  BY <1>0, <1>1, <1>2 DEF Types
<1>8. Types'
  <2>1. dialog' \in [Tabs -> Runs \cup {NoRun}]
    BY <1>0, <1>1 DEF Types
  <2> QED
    BY <1>0, <1>1, <1>6, <2>1 DEF Types, Changes
<1>9. Shows'
  <2> SUFFICES ASSUME NEW t \in Tabs, dialog'[t] # NoRun
               PROVE  runs'[dialog'[t]].at = "conflict" /\ runs'[dialog'[t]].tab = t
    BY DEF Shows
  <2>1. CASE t = runs[r].tab
    <3>1. dialog'[t] = r
      BY <1>7, <2>1
    <3> QED
      BY <1>5, <2>1, <3>1
  <2>2. CASE t # runs[r].tab
    <3>1. /\ dialog'[t] = dialog[t] /\ dialog[t] \in Runs
          /\ runs[dialog[t]].at = "conflict" /\ runs[dialog[t]].tab = t
      BY <1>0, <1>7, <2>2 DEF Types, Shows
    <3>2. dialog[t] # r /\ dialog[t] # shows
      BY <1>3, <2>2, <3>1
    <3> QED
      BY <1>5, <3>1, <3>2
  <2> QED
    BY <2>1, <2>2
<1>10. Keyed'
  BY <1>0, <1>1, <1>5 DEF Keyed
<1>11. Tenants'
  <2>1. \A f : Named(f) => Named(f)'
    BY <1>1 DEF Named, Changes
  <2> QED
    BY <1>0, <1>1, <1>5, <2>1 DEF Tenants
<1>12. Busy'
  <2> SUFFICES ASSUME NEW q \in Runs PROVE runs'[q].at = "idle" <=> runs'[q].todo = <<>>
    BY DEF Busy
  <2>1. runs[q].at = "idle" <=> runs'[q].at = "idle"
    BY <1>3, <1>5
  <2> QED
    BY <1>0, <1>5, <2>1 DEF Busy
<1>13. Doubts'
  BY <1>0, <1>1, <1>5 DEF Doubts
<1>14. SyncedIsMade' /\ MadeOnce' /\ InItsCompany'
  BY <1>0, <1>1 DEF SyncedIsMade, MadeOnce, InItsCompany
<1> QED
  BY <1>8, <1>9, <1>10, <1>11, <1>12, <1>13, <1>14 DEF IInv

\* Made of nothing is a server that does nothing.
LEMMA MadeNothing ==
  ASSUME made' = made, astray' = astray, again' = again, NEW places, NEW doubts
  PROVE  Made({}, places, doubts)
BY DEF Made

LEMMA AnswerKeeps ==
  ASSUME IInv, NEW r \in Runs, Answer(r)
  PROVE  IInv'
<1> DEFINE h == HeadOf(r).id
<1>0. /\ Types /\ Shows /\ Keyed /\ Core /\ Safe
  BY Parts
<1>1. runs[r].at = "answer" /\ Rest /\ runs[r].at # "idle"
  BY DEF Answer, Rest
<1>2. /\ {h} \in SUBSET {h} /\ {} \in SUBSET {h}
      /\ "synced" \in Statuses /\ "failed" \in Statuses /\ "pending" \in Statuses
      /\ "" \in {"", "server-wins"}
  BY DEF Statuses
<1>3. dialog' = dialog => dialog' \in [Tabs -> Runs \cup {NoRun}]
  BY <1>0 DEF Types
<1>4. doubtful' = doubtful => doubtful' = doubtful \cup {}
  OBVIOUS
<1>5. CASE Ok(r)
  <2>1. GoesOn(r, "synced", "") /\ Made({h}, SentTo(r), doubtful) /\ doubtful' = doubtful
        /\ dialog' = dialog
    BY <1>5 DEF Ok
  <2>2. h \in {h} /\ "synced" \notin {"pending", "failed"} /\ doubtful' = doubtful \cup {}
    BY <2>1
  <2>3. Core' /\ Safe'
    BY <1>0, <1>1, <1>2, <1>3, <2>1, <2>2, GoesOnKeeps
  <2>4. Shows'
    <3>1. \A q \in Runs \ {r} : runs'[q] = runs[q]
      BY <1>0, <2>1 DEF GoesOn, Types
    <3>2. runs[r].at # "conflict"
      BY <1>1
    <3> QED
      BY <1>0, <2>1, <3>1, <3>2, ShowsKept
  <2> QED
    BY <2>3, <2>4 DEF IInv, Core, Safe
<1>6. CASE Refused(r)
  <2>1. GoesOn(r, "failed", "") /\ Made({}, SentTo(r), doubtful) /\ doubtful' = doubtful
        /\ dialog' = dialog
    BY <1>6, MadeNothing DEF Refused, server
  <2>2. Core' /\ Safe'
    BY <1>0, <1>1, <1>2, <1>3, <1>4, <2>1, GoesOnKeeps
  <2>3. Shows'
    <3>1. \A q \in Runs \ {r} : runs'[q] = runs[q]
      BY <1>0, <2>1 DEF GoesOn, Types
    <3>2. runs[r].at # "conflict"
      BY <1>1
    <3> QED
      BY <1>0, <2>1, <3>1, <3>2, ShowsKept
  <2> QED
    BY <2>2, <2>3 DEF IInv, Core, Safe
<1>7. CASE Unreached(r)
  <2>1. GoesOn(r, "pending", "") /\ Made({}, SentTo(r), doubtful) /\ doubtful' = doubtful
        /\ dialog' = dialog
    BY <1>7, MadeNothing DEF Unreached, server
  <2>2. Core' /\ Safe'
    BY <1>0, <1>1, <1>2, <1>3, <1>4, <2>1, GoesOnKeeps
  <2>3. Shows'
    <3>1. \A q \in Runs \ {r} : runs'[q] = runs[q]
      BY <1>0, <2>1 DEF GoesOn, Types
    <3>2. runs[r].at # "conflict"
      BY <1>1
    <3> QED
      BY <1>0, <2>1, <3>1, <3>2, ShowsKept
  <2> QED
    BY <2>2, <2>3 DEF IInv, Core, Safe
<1>8. CASE Lost(r)
  <2>1. GoesOn(r, "pending", "") /\ Made({h}, SentTo(r), doubtful)
        /\ doubtful' = doubtful \cup {h} /\ dialog' = dialog
    BY <1>8 DEF Lost
  <2>2. Core' /\ Safe'
    BY <1>0, <1>1, <1>2, <1>3, <2>1, GoesOnKeeps
  <2>3. Shows'
    <3>1. \A q \in Runs \ {r} : runs'[q] = runs[q]
      BY <1>0, <2>1 DEF GoesOn, Types
    <3>2. runs[r].at # "conflict"
      BY <1>1
    <3> QED
      BY <1>0, <2>1, <3>1, <3>2, ShowsKept
  <2> QED
    BY <2>2, <2>3 DEF IInv, Core, Safe
<1>9. CASE Conflict(r)
  BY <1>1, <1>9, ConflictKeeps
<1> QED
  BY <1>5, <1>6, <1>7, <1>8, <1>9 DEF Answer

LEMMA ResolveKeeps ==
  ASSUME IInv, NEW t \in Tabs, Resolve(t)
  PROVE  IInv'
<1> DEFINE r == dialog[t]
<1>0. /\ Types /\ Shows /\ Keyed /\ Core /\ Safe
  BY Parts
<1>1. /\ r \in Runs /\ runs[r].at = "conflict" /\ runs[r].tab = t /\ runs[r].at # "idle"
      /\ dialog' = [dialog EXCEPT ![t] = NoRun]
      /\ shown' = shown /\ direct' = direct /\ company' = company /\ asked' = asked
      /\ doubtful' = doubtful \cup {}
      /\ made' = made /\ astray' = astray /\ again' = again
  BY <1>0 DEF Resolve, Types, Shows, server
<1>2. \/ GoesOn(r, "pending", "") \/ GoesOn(r, "synced", "server-wins")
      \/ GoesOn(r, "failed", "")
  BY DEF Resolve
<1>3. dialog' \in [Tabs -> Runs \cup {NoRun}]
  BY <1>0, <1>1 DEF Types
<1> HIDE DEF r
<1>4. Made({}, SentTo(r), doubtful) /\ Rest /\ {} \in SUBSET {HeadOf(r).id}
  BY <1>1, MadeNothing DEF Rest
<1>5. Core' /\ Safe'
  <2>1. /\ "synced" \in Statuses /\ "failed" \in Statuses /\ "pending" \in Statuses
        /\ "" \in {"", "server-wins"} /\ "server-wins" \in {"", "server-wins"}
        /\ "server-wins" # ""
    BY DEF Statuses
  <2>2. CASE GoesOn(r, "pending", "")
    BY <1>0, <1>1, <1>3, <1>4, <2>1, <2>2, GoesOnKeeps
  <2>3. CASE GoesOn(r, "synced", "server-wins")
    BY <1>0, <1>1, <1>3, <1>4, <2>1, <2>3, GoesOnKeeps
  <2>4. CASE GoesOn(r, "failed", "")
    BY <1>0, <1>1, <1>3, <1>4, <2>1, <2>4, GoesOnKeeps
  <2> QED
    BY <1>2, <2>2, <2>3, <2>4
<1>6. Shows'
  <2> SUFFICES ASSUME NEW s \in Tabs, dialog'[s] # NoRun
               PROVE  runs'[dialog'[s]].at = "conflict" /\ runs'[dialog'[s]].tab = s
    BY DEF Shows
  <2>1. s # t /\ dialog'[s] = dialog[s]
    BY <1>0, <1>1 DEF Types
  <2>2. dialog[s] \in Runs /\ runs[dialog[s]].at = "conflict" /\ runs[dialog[s]].tab = s
    BY <1>0, <2>1 DEF Types, Shows
  <2>3. dialog[s] # r
    BY <1>1, <2>1, <2>2
  <2>4. \A q \in Runs \ {r} : runs'[q] = runs[q]
    BY <1>0, <1>2 DEF GoesOn, Types
  <2> QED
    BY <2>1, <2>2, <2>3, <2>4
<1> QED
  BY <1>5, <1>6 DEF IInv, Core, Safe

-----------------------------------------------------------------------------
(***************************************************************************)
(* The panel, and the rest of the world                                    *)
(***************************************************************************)

LEMMA RefreshKeeps ==
  ASSUME IInv, NEW t \in Tabs, Refresh(t)
  PROVE  IInv'
<1>0. Types /\ Shows /\ Keyed /\ Tenants /\ Busy /\ Doubts
      /\ SyncedIsMade /\ MadeOnce /\ InItsCompany
  BY Parts
<1>1. /\ shown' = [shown EXCEPT ![t] = Failed]
      /\ queue' = queue /\ runs' = runs /\ dialog' = dialog /\ direct' = direct
      /\ company' = company /\ asked' = asked /\ doubtful' = doubtful
      /\ made' = made /\ astray' = astray /\ again' = again
  BY DEF Refresh, server
<1>2. Failed \subseteq Changes
  BY <1>0 DEF Failed, Tenants, Named
<1>3. Types'
  <2>1. shown' \in [Tabs -> SUBSET Changes]
    BY <1>0, <1>1, <1>2 DEF Types
  <2> QED
    BY <1>0, <1>1, <2>1 DEF Types, Changes
<1>4. Tenants'
  BY <1>0, <1>1 DEF Tenants, Named, Changes
<1>5. Shows' /\ Keyed' /\ Busy' /\ Doubts' /\ SyncedIsMade' /\ MadeOnce' /\ InItsCompany'
  BY <1>0, <1>1 DEF Shows, Keyed, Busy, Doubts, SyncedIsMade, MadeOnce, InItsCompany
<1> QED
  BY <1>3, <1>4, <1>5 DEF IInv

\* A retry makes an entry pending: one that failed was not made or is doubtful,
\* and any other becomes so.
LEMMA RetryKeeps ==
  ASSUME IInv, NEW t \in Tabs, NEW m \in shown[t], Retry(t, m)
  PROVE  IInv'
<1> DEFINE u == Updated(m, "pending", "")
           more == {n \in {m} : n \notin Failed}
<1>0. Types /\ Shows /\ Keyed /\ Tenants /\ Busy /\ Doubts
      /\ SyncedIsMade /\ MadeOnce /\ InItsCompany
  BY Parts
<1>1. /\ queue' = u /\ shown' = [shown EXCEPT ![t] = @ \ {m}]
      /\ doubtful' = doubtful \cup more
      /\ runs' = runs /\ dialog' = dialog /\ direct' = direct
      /\ company' = company /\ asked' = asked
      /\ made' = made /\ astray' = astray /\ again' = again
  BY DEF Retry, server
<1>2. /\ u \in Seq(Entry) /\ Keys(u) /\ IdsOf(u) = IdsOf(queue)
      /\ \A e \in ToSet(u) : \E f \in ToSet(queue) : Becomes(e, f, m, "pending", "")
  BY <1>0, UpdatedIs DEF Types, Keyed, Statuses
<1> HIDE DEF u
<1>3. m \in Changes /\ more \subseteq Changes
  BY <1>0 DEF Types
<1>4. Types'
  <2>1. shown' \in [Tabs -> SUBSET Changes]
    BY <1>0, <1>1 DEF Types
  <2> QED
    BY <1>0, <1>1, <1>2, <1>3, <2>1 DEF Types, Changes
<1>5. Shows' /\ Busy' /\ MadeOnce' /\ InItsCompany'
  BY <1>0, <1>1 DEF Shows, Busy, MadeOnce, InItsCompany
<1>6. Keyed'
  BY <1>0, <1>1, <1>2 DEF Keyed
<1>7. Tenants'
  <2>1. \A e, f : e.id = f.id /\ e.tenant = f.tenant /\ Named(f) => Named(e)'
    BY <1>1 DEF Named, Changes
  <2>2. \A e \in ToSet(queue') : Named(e)'
    BY <1>0, <1>1, <1>2, <2>1 DEF Tenants, Becomes
  <2>3. \A q \in Runs : \A e \in ToSet(runs'[q].todo) : Named(e)'
    BY <1>0, <1>1, <2>1 DEF Tenants
  <2> QED
    BY <1>0, <1>1, <2>2, <2>3 DEF Tenants
<1>8. SyncedIsMade'
  <2> SUFFICES ASSUME NEW e \in ToSet(queue'), e.status = "synced", e.error = ""
               PROVE  e.id \in made'
    BY DEF SyncedIsMade
  <2>1. PICK f \in ToSet(queue) : Becomes(e, f, m, "pending", "")
    BY <1>1, <1>2
  <2>2. e = f
    BY <2>1 DEF Becomes
  <2> QED
    BY <1>0, <1>1, <2>2 DEF SyncedIsMade
<1>9. Doubts'
  <2>1. ASSUME NEW e \in ToSet(queue'), e.status \in {"pending", "failed"}, e.id \in made'
        PROVE  e.id \in doubtful'
    <3>1. PICK f \in ToSet(queue) : Becomes(e, f, m, "pending", "")
      BY <1>1, <1>2
    <3>2. CASE f.id # m
      BY <1>0, <1>1, <2>1, <3>1, <3>2 DEF Doubts, Becomes
    <3>3. CASE f.id = m /\ m \in Failed
      <4>1. PICK g \in ToSet(queue) : g.id = m /\ g.status = "failed"
        BY <3>3 DEF Failed
      <4> QED
        BY <1>0, <1>1, <2>1, <3>1, <3>3, <4>1 DEF Doubts, Becomes
    <3>4. CASE f.id = m /\ m \notin Failed
      BY <1>1, <3>1, <3>4 DEF Becomes
    <3> QED
      BY <3>2, <3>3, <3>4
  <2> QED
    BY <1>0, <1>1, <2>1 DEF Doubts
<1> QED
  BY <1>4, <1>5, <1>6, <1>7, <1>8, <1>9 DEF IInv

LEMMA DeleteKeeps ==
  ASSUME IInv, NEW t \in Tabs, NEW m \in shown[t], Delete(t, m)
  PROVE  IInv'
<1> DEFINE kept == {e \in ToSet(queue) : e.id # m}
           u == Only(queue, kept)
<1>0. Types /\ Shows /\ Keyed /\ Tenants /\ Busy /\ Doubts
      /\ SyncedIsMade /\ MadeOnce /\ InItsCompany
  BY Parts
<1>1. /\ queue' = u /\ shown' = [shown EXCEPT ![t] = @ \ {m}]
      /\ runs' = runs /\ dialog' = dialog /\ direct' = direct
      /\ company' = company /\ asked' = asked /\ doubtful' = doubtful
      /\ made' = made /\ astray' = astray /\ again' = again
  BY DEF Delete, server
<1> HIDE DEF kept
<1>2. u \in Seq(Entry) /\ ToSet(u) = ToSet(queue) \cap kept /\ Keys(u)
  BY <1>0, OnlyIs DEF Types, Keyed
<1> HIDE DEF u
<1>3. queue' \in Seq(Entry) /\ ToSet(queue') \subseteq ToSet(queue) /\ Keys(queue')
      /\ IdsOf(queue') \subseteq IdsOf(queue)
  BY <1>1, <1>2 DEF IdsOf
<1>4. Types'
  <2>1. shown' \in [Tabs -> SUBSET Changes]
    BY <1>0, <1>1 DEF Types
  <2> QED
    BY <1>0, <1>1, <1>3, <2>1 DEF Types, Changes
<1>5. Shows' /\ Busy' /\ MadeOnce' /\ InItsCompany'
  BY <1>0, <1>1 DEF Shows, Busy, MadeOnce, InItsCompany
<1>6. Keyed'
  BY <1>0, <1>1, <1>3 DEF Keyed
<1>7. Tenants'
  <2>1. \A f : Named(f) => Named(f)'
    BY <1>1 DEF Named, Changes
  <2> QED
    BY <1>0, <1>1, <1>3, <2>1 DEF Tenants
<1>8. SyncedIsMade' /\ Doubts'
  BY <1>0, <1>1, <1>3 DEF SyncedIsMade, Doubts
<1> QED
  BY <1>4, <1>5, <1>6, <1>7, <1>8 DEF IInv

LEMMA SwitchCompanyKeeps ==
  ASSUME IInv, SwitchCompany
  PROVE  IInv'
<1>1. /\ company' \in Companies
      /\ queue' = queue /\ runs' = runs /\ dialog' = dialog /\ shown' = shown
      /\ direct' = direct /\ asked' = asked /\ doubtful' = doubtful
      /\ made' = made /\ astray' = astray /\ again' = again
  BY DEF SwitchCompany, server
<1> QED
  BY <1>1 DEF IInv, Types, Shows, Keyed, Tenants, Busy, Doubts, SyncedIsMade, MadeOnce,
              InItsCompany, Named, Changes

\* A reload drops the runs and the requests of a tab, any of which may have been
\* done: what they held was not made, or is doubtful, and now it is.
LEMMA ReloadKeeps ==
  ASSUME IInv, NEW t \in Tabs, Reload(t)
  PROVE  IInv'
<1> DEFINE out == {HeadOf(r) : r \in Waiting(t)}
           places == [m \in {e.id : e \in out} |-> (CHOOSE e \in out : e.id = m).tenant]
<1>0. Types /\ Shows /\ Keyed /\ Tenants /\ Busy /\ Doubts
      /\ SyncedIsMade /\ MadeOnce /\ InItsCompany
  BY Parts
<1>1. PICK gone \in SUBSET direct :
        /\ direct' = direct \ gone
        /\ \E done \in SUBSET (DOMAIN places \cup {d.id : d \in gone}) :
              Made(done, places, doubtful) /\ doubtful' = doubtful \cup done
  BY DEF Reload
<1>2. PICK done \in SUBSET (DOMAIN places \cup {d.id : d \in gone}) :
        Made(done, places, doubtful) /\ doubtful' = doubtful \cup done
  BY <1>1
<1>3. /\ runs' = [r \in Runs |-> IF runs[r].tab = t THEN Idle ELSE runs[r]]
      /\ dialog' = [dialog EXCEPT ![t] = NoRun] /\ shown' = [shown EXCEPT ![t] = {}]
      /\ queue' = queue /\ company' = company /\ asked' = asked
  BY DEF Reload
<1>4. DOMAIN places = {e.id : e \in out}
  OBVIOUS
<1>5. \A e \in out : \E r \in Runs : e \in ToSet(runs[r].todo)
  <2> TAKE e \in out
  <2>1. PICK r \in Waiting(t) : e = HeadOf(r)
    OBVIOUS
  <2>2. r \in Runs /\ runs[r].at = "answer"
    BY <2>1 DEF Waiting
  <2>3. runs[r].todo \in Seq(Entry) /\ runs[r].todo # <<>>
    BY <1>0, <2>2, HeldIs DEF Busy
  <2>4. Head(runs[r].todo) \in ToSet(runs[r].todo)
    BY <2>3, TailIs
  <2> QED
    BY <2>1, <2>2, <2>4 DEF HeadOf
<1> HIDE DEF out
<1>6. \A m \in DOMAIN places : asked[m] \in {NoCompany, places[m]}
  <2> TAKE m \in DOMAIN places
  <2> DEFINE e == CHOOSE e \in out : e.id = m
  <2>1. e \in out /\ e.id = m
    BY <1>4
  <2>2. places[m] = e.tenant
    BY <1>4
  <2> HIDE DEF e, places
  <2>3. Named(e)
    BY <1>0, <1>5, <2>1 DEF Tenants
  <2> QED
    BY <2>1, <2>2, <2>3 DEF Named
<1>7. \A m \in done : \/ \E r \in Runs : m \in IdsOf(runs[r].todo)
                      \/ \E d \in direct : m = d.id
  BY <1>2, <1>4, <1>5 DEF IdsOf
<1>8. /\ \A m \in done : m \in made => m \in doubtful
      /\ done \subseteq Changes
  <2>1. ASSUME NEW m \in done PROVE (m \in made => m \in doubtful) /\ m \in Changes
    <3>1. CASE \E r \in Runs : m \in IdsOf(runs[r].todo)
      BY <1>0, <3>1 DEF Doubts, Tenants, Named, IdsOf
    <3>2. CASE \E d \in direct : m = d.id
      BY <1>0, <3>2 DEF Doubts, Types
    <3> QED
      BY <1>7, <3>1, <3>2
  <2> QED
    BY <2>1
<1> HIDE DEF places
<1>9. /\ made' = made \cup done /\ doubtful' = doubtful \cup done
      /\ MadeOnce' /\ InItsCompany'
  <2>1. /\ made' = made \cup done
        /\ astray' = astray \cup {m \in DOMAIN places \cap done :
                                    asked[m] \notin {NoCompany, places[m]}}
        /\ again' = again \cup ((made \cap done) \ doubtful)
    BY <1>2 DEF Made
  <2> QED
    BY <1>0, <1>2, <1>6, <1>8, <2>1 DEF MadeOnce, InItsCompany
<1>10. \A r \in Runs : /\ runs'[r] \in Run
                       /\ (runs'[r] = runs[r] /\ runs[r].tab # t) \/ runs'[r] = Idle
  BY <1>0, <1>3, IdleIs DEF Types
<1>11. \A r \in Runs : /\ ToSet(runs'[r].todo) \subseteq ToSet(runs[r].todo)
                       /\ IdsOf(runs'[r].todo) \subseteq IdsOf(runs[r].todo)
                       /\ Keys(runs'[r].todo)
  <2> TAKE r \in Runs
  <2>1. CASE runs'[r] = runs[r]
    BY <1>0, <2>1 DEF Keyed
  <2>2. CASE runs'[r] = Idle
    <3>1. runs'[r].todo = <<>>
      BY <2>2, IdleIs
    <3> QED
      BY <3>1 DEF Keys, IdsOf, ToSet
  <2> QED
    BY <1>10, <2>1, <2>2
<1>12. direct' \subseteq direct
  BY <1>1
<1>13. Types'
  <2>1. runs' = [r \in Runs |-> runs'[r]]
    BY <1>3
  <2>2. runs' \in [Runs -> Run]
    BY <1>10, <2>1
  <2>3. dialog' \in [Tabs -> Runs \cup {NoRun}] /\ shown' \in [Tabs -> SUBSET Changes]
    BY <1>0, <1>3 DEF Types
  <2> QED
    BY <1>0, <1>3, <1>8, <1>9, <1>12, <2>2, <2>3 DEF Types, Changes
<1>14. Shows'
  <2> SUFFICES ASSUME NEW s \in Tabs, dialog'[s] # NoRun
               PROVE  runs'[dialog'[s]].at = "conflict" /\ runs'[dialog'[s]].tab = s
    BY DEF Shows
  <2>1. s # t /\ dialog'[s] = dialog[s]
    BY <1>0, <1>3 DEF Types
  <2>2. dialog[s] \in Runs /\ runs[dialog[s]].at = "conflict" /\ runs[dialog[s]].tab = s
    BY <1>0, <2>1 DEF Types, Shows
  <2>3. runs'[dialog[s]] = runs[dialog[s]]
    BY <1>3, <2>1, <2>2
  <2> QED
    BY <2>1, <2>2, <2>3
<1>15. Keyed'
  BY <1>0, <1>3, <1>11, <1>12 DEF Keyed
<1>16. Tenants'
  <2>1. \A f : Named(f) => Named(f)'
    BY <1>3 DEF Named, Changes
  <2> QED
    BY <1>0, <1>3, <1>11, <1>12, <2>1 DEF Tenants
<1>17. Busy'
  BY <1>0, <1>10, IdleIs DEF Busy
<1>18. Doubts'
  <2>1. \A r \in Runs : IdsOf(runs'[r].todo) \cap made' \subseteq doubtful'
    BY <1>0, <1>9, <1>11 DEF Doubts
  <2>2. \A e \in ToSet(queue') :
          e.status \in {"pending", "failed"} /\ e.id \in made' => e.id \in doubtful'
    BY <1>0, <1>3, <1>9 DEF Doubts
  <2>3. \A d \in direct' : d.id \in made' => d.id \in doubtful'
    BY <1>0, <1>9, <1>12 DEF Doubts
  <2>4. \A q, r \in Runs :
          q # r => IdsOf(runs'[q].todo) \cap IdsOf(runs'[r].todo) \subseteq doubtful'
    BY <1>0, <1>9, <1>11 DEF Doubts
  <2> QED
    BY <2>1, <2>2, <2>3, <2>4 DEF Doubts
<1>19. SyncedIsMade'
  BY <1>0, <1>3, <1>9 DEF SyncedIsMade
<1> QED
  BY <1>9, <1>13, <1>14, <1>15, <1>16, <1>17, <1>18, <1>19 DEF IInv

-----------------------------------------------------------------------------
(***************************************************************************)
(* The theorems                                                            *)
(***************************************************************************)

LEMMA InitQueue == Init => IInv
<1> SUFFICES ASSUME Init PROVE IInv
  OBVIOUS
<1>1. /\ queue = <<>> /\ runs = [r \in Runs |-> Idle]
      /\ dialog = [t \in Tabs |-> NoRun] /\ shown = [t \in Tabs |-> {}]
      /\ direct = {} /\ company \in Companies
      /\ asked = <<>> /\ made = {} /\ astray = {} /\ again = {} /\ doubtful = {}
  BY QueueAssumption DEF Init
<1>2. ToSet(<<>>) = {} /\ IdsOf(<<>>) = {} /\ Keys(<<>>) /\ Len(<<>>) = 0
  BY DEF ToSet, IdsOf, Keys
<1>3. \A r \in Runs : runs[r] \in Run /\ runs[r].at = "idle" /\ runs[r].todo = <<>>
  BY <1>1, IdleIs
<1>4. Types
  <2>1. runs \in [Runs -> Run]
    BY <1>1, <1>3
  <2>2. \A S : <<>> \in Seq(S)
    OBVIOUS
  <2> QED
    BY <1>1, <1>2, <2>1, <2>2, QueueAssumption DEF Types
<1>5. Shows /\ Keyed /\ Tenants /\ Busy /\ Doubts
  BY <1>1, <1>2, <1>3 DEF Shows, Keyed, Tenants, Busy, Doubts
<1>6. SyncedIsMade /\ MadeOnce /\ InItsCompany
  BY <1>1, <1>2 DEF SyncedIsMade, MadeOnce, InItsCompany
<1> QED
  BY <1>4, <1>5, <1>6 DEF IInv

LEMMA NextQueue == IInv /\ [Next]_vars => IInv'
<1> SUFFICES ASSUME IInv, [Next]_vars PROVE IInv'
  OBVIOUS
<1>1. ASSUME NEW c \in {company} \cup Unnamed, Change(c) PROVE IInv'
  BY <1>1, ChangeKeeps
<1>2. ASSUME NEW d \in direct, DirectDone(d) \/ DirectFailed(d) PROVE IInv'
  BY <1>2, DirectDoneKeeps, DirectFailedKeeps
<1>3. ASSUME NEW r \in Runs, NEW t \in Tabs, Start(r, t) PROVE IInv'
  BY <1>3, StartKeeps
<1>4. ASSUME NEW r \in Runs, Mark(r) \/ Answer(r) PROVE IInv'
  BY <1>4, MarkKeeps, AnswerKeeps
<1>5. ASSUME NEW t \in Tabs, Resolve(t) \/ Refresh(t) \/ Reload(t) PROVE IInv'
  BY <1>5, ResolveKeeps, RefreshKeeps, ReloadKeeps
<1>6. ASSUME NEW t \in Tabs, NEW m \in shown[t], Retry(t, m) \/ Delete(t, m) PROVE IInv'
  BY <1>6, RetryKeeps, DeleteKeeps
<1>7. CASE SwitchCompany
  BY <1>7, SwitchCompanyKeeps
<1>8. CASE UNCHANGED vars
  <2>1. /\ queue' = queue /\ runs' = runs /\ dialog' = dialog /\ shown' = shown
        /\ direct' = direct /\ company' = company /\ asked' = asked
        /\ made' = made /\ astray' = astray /\ again' = again /\ doubtful' = doubtful
    BY <1>8 DEF vars
  <2> QED
    BY <2>1 DEF IInv, Types, Shows, Keyed, Tenants, Busy, Doubts, SyncedIsMade, MadeOnce,
                InItsCompany, Named, Changes
<1> QED
  BY <1>1, <1>2, <1>3, <1>4, <1>5, <1>6, <1>7, <1>8 DEF Next

\* The invariant holds in every state of the queue.
LEMMA Invariant == Spec => []IInv
BY InitQueue, NextQueue, PTL DEF Spec

\* For any number of tabs and runs, the table keeps one entry of a change at most,
\* no change is in a request and in the table, and a modal shows the conflict of a
\* run of its own tab (cachedApi.ts, processMutationQueue, ConflictResolutionModal).
THEOREM QueueIsTyped == Spec => []TypeOK
<1>1. IInv => TypeOK
  <2> SUFFICES ASSUME IInv PROVE TypeOK
    OBVIOUS
  <2>1. Types /\ Shows /\ Keyed /\ MadeOnce /\ InItsCompany
    BY Parts
  <2>2. \A d \in direct : \A i \in DOMAIN queue : queue[i].id # d.id
    BY <2>1 DEF Keyed, IdsOf, ToSet
  <2> QED
    BY <2>1, <2>2 DEF TypeOK, Types, Shows, Keyed, Keys, MadeOnce, InItsCompany
<1> QED
  BY <1>1, Invariant, PTL

\* An entry marked as synced, and not given up for the server's version, was made
\* by the server, whichever run marked it (processMutationQueue).
THEOREM SyncedWasMade == Spec => []SyncedIsMade
<1>1. IInv => SyncedIsMade
  BY Parts
<1> QED
  BY <1>1, Invariant, PTL

\* The server makes a change once, unless an answer was lost, two runs had the
\* entry at once, or an old panel put back an entry that went through
\* (processMutationQueue, retryMutation).
THEOREM NothingIsMadeTwice == Spec => []MadeOnce
<1>1. IInv => MadeOnce
  BY Parts
<1> QED
  BY <1>1, Invariant, PTL

\* A change of the queue is made in the company its caller named, though the user
\* has turned to another one since (enqueueMutation, the X-Company-Id header).
THEOREM NothingGoesAstray == Spec => []InItsCompany
<1>1. IInv => InItsCompany
  BY Parts
<1> QED
  BY <1>1, Invariant, PTL
=============================================================================
