------------------------- MODULE InvoiceEditorProofs -------------------------
(***************************************************************************)
(* What the sales invoice editor keeps in every run, for all values of the *)
(* constants.  The inductive invariant joins the types to two facts about  *)
(* the form.  A form that is touched, and whose pause was written down, is *)
(* what the LAST write under way holds, or else its row: no earlier write, *)
(* landing late, is what stays.  A form that is not touched holds the work *)
(* the server keeps under the stamp that it bears, and no stamp is ahead   *)
(* of the server's clock, so an invoice that is saved leaves it behind.    *)
(* A second invariant follows the copies of an edit: all are of one        *)
(* invoice, or all of the one that is not saved yet.                       *)
(***************************************************************************)
EXTENDS InvoiceEditor, SequenceTheorems, FiniteSetTheorems, TLAPS

-----------------------------------------------------------------------------
(* Types *)

Draft == [key : Docs \cup {New}, row : Row]

ScreenOK ==
    /\ screen \in Screen
    /\ screen.doc # New => screen.doc \in DOMAIN invoices
    /\ screen.posted => screen.doc # New

RowTable(db) == DOMAIN db \subseteq Keys /\ \A k \in DOMAIN db : db[k] \in Row
RowsOK == RowTable(rows)
HookOK == hook \in HookType /\ (hook.orphans # {} => screen.doc = New)

\* A request is about an invoice the server has, or makes one.
RequestsOK ==
    /\ requests \subseteq Request
    /\ \A r \in requests :
          /\ r.doc # New => r.doc \in DOMAIN invoices
          /\ r.doc = New => r.op = "save"

ServerOK ==
    /\ DOMAIN invoices \subseteq Docs
    /\ \A d \in DOMAIN invoices : invoices[d] \in Invoice /\ invoices[d].stamp <= clock
    /\ clock \in 0..MaxStamp

RestOK ==
    /\ busy \subseteq Flags /\ typed \in 0..MaxEdits /\ signedIn \in BOOLEAN
    /\ marks \subseteq {"apart", "dropped", "undoFailed"}

StampsOK == screen.stamp <= clock

TypeInv == /\ ScreenOK /\ RowsOK /\ HookOK /\ writes \in Seq(Draft)
           /\ RequestsOK /\ ServerOK /\ RestOK /\ StampsOK

-----------------------------------------------------------------------------

LEMMA Keyed == New \notin Docs /\ Orphan \notin Docs /\ NoKey \notin Docs
  BY DraftsAssumption DEF New, Orphan, NoKey

LEMMA FoundTyped ==
    ASSUME NEW db, RowTable(db), NEW s \in Screen
    PROVE  Found(db, s) \in Banner
  BY DEF RowTable, Found, Banner, NoBanner, Eligibility, Row, Work

\* What the hook becomes when the same document is rendered, or another.
LEMMA RenderedSame ==
    ASSUME NEW h \in HookType, NEW db, NEW s \in Screen, NEW t \in Screen, t.doc = s.doc,
           NEW g, g = Rendered(h, db, s, t)
    PROVE  /\ g \in HookType
           /\ g.adopted = h.adopted /\ g.banner = h.banner /\ g.coming = h.coming
           /\ g.orphans = h.orphans
           /\ g.due <=> t.dirty /\ (h.due \/ ~s.dirty \/ t.work # s.work)
<1>1. Stamp(t) \in Nat /\ t.dirty \in BOOLEAN /\ s.dirty \in BOOLEAN
  BY DEF Stamp, Screen, NoStamp
<1>2. g = [h EXCEPT !.stamp = IF @ = NoStamp THEN Stamp(t) ELSE @,
                    !.due = t.dirty /\ (@ \/ ~s.dirty \/ t.work # s.work)]
  BY DEF Rendered
<1> QED
  BY <1>1, <1>2 DEF HookType

LEMMA RenderedOther ==
    ASSUME NEW h \in HookType, NEW db, RowTable(db),
           NEW s \in Screen, NEW t \in Screen, t.doc # s.doc,
           NEW g, g = Rendered(h, db, s, t)
    PROVE  /\ g \in HookType
           /\ g.adopted = h.adopted /\ g.banner = h.banner
           /\ g.coming = Found(db, t) /\ g.due = t.dirty
           /\ g.orphans = Orphans(db, t) /\ (g.orphans # {} => t.doc = New)
<1>1. Stamp(t) \in Nat /\ t.dirty \in BOOLEAN
  BY DEF Stamp, Screen, NoStamp
<1>2. Found(db, t) \in Banner
  BY FoundTyped
<1>3. Orphans(db, t) \in SUBSET {Orphan} /\ (Orphans(db, t) # {} => t.doc = New)
  BY DEF Orphans
<1>4. g = [h EXCEPT !.stamp = Stamp(t), !.due = t.dirty,
                    !.coming = Found(db, t), !.orphans = Orphans(db, t)]
  BY DEF Rendered
<1> QED
  BY <1>1, <1>2, <1>3, <1>4 DEF HookType

LEMMA FreshTyped ==
    ASSUME NEW db, RowTable(db), NEW s \in Screen
    PROVE  /\ FreshHook(db, s) \in HookType
           /\ FreshHook(db, s).orphans = Orphans(db, s)
           /\ FreshHook(db, s).coming = Found(db, s)
           /\ FreshHook(db, s).banner = NoBanner
           /\ FreshHook(db, s).adopted = NoKey /\ FreshHook(db, s).due = FALSE
           /\ FreshHook(db, s).orphans # {} => s.doc = New
<1>1. Stamp(s) \in Nat
  BY DEF Stamp, Screen, NoStamp
<1>2. Found(db, s) \in Banner /\ NoBanner \in Banner
  BY FoundTyped DEF NoBanner, Banner, Work
<1>3. Orphans(db, s) \in SUBSET {Orphan} /\ (Orphans(db, s) # {} => s.doc = New)
  BY DEF Orphans
<1> QED
  BY <1>1, <1>2, <1>3 DEF FreshHook, NoHook, HookType, NoStamp

LEMMA NoHookTyped ==
    /\ NoHook \in HookType /\ NoHook.orphans = {} /\ NoHook.coming = NoBanner
    /\ NoHook.adopted = NoKey /\ NoHook.banner = NoBanner /\ NoHook.due = FALSE
  BY DEF NoHook, HookType, Banner, NoBanner, NoStamp, Work

LEMMA WithoutTyped ==
    ASSUME RowsOK, NEW keys
    PROVE  /\ DOMAIN Without(keys) = DOMAIN rows \ keys
           /\ \A k \in DOMAIN rows \ keys : Without(keys)[k] = rows[k]
           /\ RowTable(Without(keys))
  BY DEF Without, Restrict, RowsOK, RowTable

\* The draft that is written is of the form shown.
LEMMA WrittenTyped ==
    ASSUME HookOK, NEW s \in Screen, writes \in Seq(Draft)
    PROVE  /\ Written(writes, s) \in Seq(Draft)
           /\ ~s.dirty => Written(writes, s) = writes
           /\ s.dirty => /\ Written(writes, s) # <<>>
                         /\ Len(Written(writes, s)) = Len(writes) + 1
                         /\ \A i \in 1..Len(writes) : Written(writes, s)[i] = writes[i]
                         /\ Written(writes, s)[Len(writes) + 1].key = s.doc
                         /\ Written(writes, s)[Len(writes) + 1].row.work = s.work
<1> DEFINE w == [key |-> s.doc, row |-> [work |-> s.work, stamp |-> hook.stamp]]
<1>1. w \in Draft
  BY DEF HookOK, HookType, Screen, Draft, Row
<1>2. w.key = s.doc /\ w.row.work = s.work
  OBVIOUS
<1>3. Written(writes, s) = IF s.dirty THEN Append(writes, w) ELSE writes
  BY DEF Written
<1> HIDE DEF w
<1> QED
  BY <1>1, <1>2, <1>3

LEMMA DiscardTyped ==
    ASSUME RowsOK, hook \in HookType, NEW keys, NEW s \in Screen, NEW t \in Screen,
           Discard(keys, s, t), hook.orphans # {} => s.doc = New
    PROVE  /\ rows' = Without(keys \cup {hook.adopted}) \/ rows' = rows
           /\ RowsOK'
           /\ hook' \in HookType /\ hook'.adopted = NoKey /\ hook'.banner = NoBanner
           /\ hook'.orphans # {} => t.doc = New
           /\ t.doc = s.doc =>
                /\ hook'.coming = hook.coming
                /\ hook'.due <=> t.dirty /\ (hook.due \/ ~s.dirty \/ t.work # s.work)
           /\ t.doc # s.doc => hook'.coming = Found(rows', t) /\ hook'.due = t.dirty
<1>1. PICK h : h = [hook EXCEPT !.banner = NoBanner, !.adopted = NoKey,
                               !.orphans = @ \ (keys \cup {hook.adopted})]
  OBVIOUS
<1>2. /\ rows' = Without(keys \cup {hook.adopted}) \/ rows' = rows
      /\ hook' = Rendered(h, rows', s, t)
  BY <1>1 DEF Discard
<1>3. NoBanner \in Banner
  BY DEF NoBanner, Banner, Work
<1>4. /\ h \in HookType /\ h.banner = NoBanner /\ h.adopted = NoKey
      /\ h.orphans \subseteq hook.orphans /\ h.coming = hook.coming /\ h.due = hook.due
  BY <1>1, <1>3 DEF HookType
<1>5. RowsOK'
  BY <1>2, WithoutTyped DEF RowsOK
<1>6. RowTable(rows')
  BY <1>5 DEF RowsOK
<1>7. CASE t.doc = s.doc
  BY <1>2, <1>4, <1>5, <1>7, RenderedSame
<1>8. CASE t.doc # s.doc
  <2>1. PICK db, g : db = rows' /\ g = hook'
    OBVIOUS
  <2>2. RowTable(db) /\ g = Rendered(h, db, s, t) /\ h \in HookType
    BY <1>2, <1>4, <1>6, <2>1
  <2>3. /\ g \in HookType /\ g.adopted = h.adopted /\ g.banner = h.banner
        /\ g.coming = Found(db, t) /\ g.due = t.dirty
        /\ g.orphans # {} => t.doc = New
    BY <1>8, <2>2, RenderedOther
  <2> QED
    BY <1>2, <1>4, <1>5, <1>8, <2>1, <2>3
<1> QED
  BY <1>7, <1>8

LEMMA ScreenFields ==
    ASSUME NEW s \in Screen
    PROVE  /\ Blank(s) \in Screen /\ Blank(s).doc = New /\ ~Blank(s).dirty
           /\ ~Blank(s).posted /\ Blank(s).work = {} /\ Blank(s).stamp = NoStamp
           /\ Blank(s).open = s.open
           /\ \A d \in Docs : \A v \in Invoice :
                LET t == Applied(s, d, v)
                IN  /\ t \in Screen /\ t.doc = d /\ t.work = v.work /\ ~t.dirty
                    /\ t.posted = v.posted /\ t.stamp = v.stamp /\ t.open = s.open
  BY DEF Blank, Applied, Screen, Invoice, New, NoStamp, Work

LEMMA RestoredFields ==
    ASSUME screen \in Screen, NEW w \in Work
    PROVE  /\ Restored(w) \in Screen /\ Restored(w).doc = screen.doc
           /\ Restored(w).dirty /\ Restored(w).posted = screen.posted
           /\ Restored(w).stamp = screen.stamp /\ Restored(w).open = screen.open
           /\ Restored(w).work = w \ Forgotten
  BY DEF Restored, Screen, Work

LEMMA GoneFields ==
    ASSUME screen \in Screen
    PROVE  /\ Gone \in Screen /\ Gone.doc = New /\ ~Gone.dirty /\ ~Gone.posted
           /\ ~Gone.open /\ Gone.work = {} /\ Gone.stamp = NoStamp
  BY DEF Gone, Blank, Screen, New, NoStamp, Work

\* The server has done what r asked: its invoice is d from now on.
LEMMA DoneTyped ==
    ASSUME ServerOK, RequestsOK, NEW r \in requests, NEW d \in Docs, Done(r, d)
    PROVE  /\ ServerOK' /\ DOMAIN invoices \subseteq DOMAIN invoices' /\ d \in DOMAIN invoices'
           /\ clock <= clock'
           /\ \/ /\ Reads(r) /\ d = r.doc /\ UNCHANGED <<invoices, clock>>
              \/ /\ ~Reads(r) /\ clock' = clock + 1 /\ invoices'[d] = Result(r)
                 /\ Saves(r) => invoices'[d].stamp = clock'
                 /\ DOMAIN invoices' = DOMAIN invoices \cup {d}
                 /\ \A e \in DOMAIN invoices \ {d} : invoices'[e] = invoices[e]
                 /\ r.doc = New => d \notin DOMAIN invoices
                 /\ r.doc # New => d = r.doc
<1>1. clock \in Nat /\ MaxStamp \in Nat /\ clock <= MaxStamp
  BY EditorAssumption DEF ServerOK
<1>2. CASE Reads(r)
  <2>1. d = r.doc /\ UNCHANGED <<invoices, clock>>
    BY <1>2 DEF Done
  <2>2. d \in DOMAIN invoices
    BY <2>1, Keyed DEF RequestsOK
  <2> QED
    BY <1>1, <1>2, <2>1, <2>2 DEF ServerOK
<1>3. CASE ~Reads(r)
  <2>1. /\ clock < MaxStamp /\ clock' = clock + 1
        /\ d \in IF r.doc = New THEN Docs \ DOMAIN invoices ELSE {r.doc}
        /\ invoices' = With(invoices, d, Result(r))
    BY <1>3 DEF Done
  <2>2. r.work \in Work /\ r.op \in Ops /\ (r.doc = New => Saves(r))
    BY DEF RequestsOK, Request, Saves
  <2>3. r.doc # New =>
           /\ invoices[r.doc] \in Invoice /\ invoices[r.doc].stamp \in Nat
           /\ invoices[r.doc].stamp <= clock
    BY DEF RequestsOK, ServerOK, Invoice
  <2>4. /\ Result(r) \in Invoice /\ Result(r).stamp \in Nat /\ Result(r).stamp <= clock + 1
        /\ Saves(r) => Result(r).stamp = clock + 1
    <3>1. CASE Saves(r)
      BY <1>1, <2>2, <3>1 DEF Result, Invoice
    <3>2. CASE ~Saves(r)
      <4>1. PICK inv \in Invoice : /\ inv = invoices[r.doc] /\ inv.stamp \in Nat
                                    /\ inv.stamp <= clock
        BY <2>2, <2>3, <3>2
      <4>2. inv.work \in Work
        BY DEF Invoice
      <4> QED
        BY <1>1, <3>2, <4>1, <4>2 DEF Result, Invoice
    <3> QED
      BY <3>1, <3>2
  <2>5. /\ DOMAIN invoices' = DOMAIN invoices \cup {d} /\ invoices'[d] = Result(r)
        /\ \A e \in DOMAIN invoices \ {d} : invoices'[e] = invoices[e]
    BY <2>1 DEF With
  <2>6. ServerOK'
    <3>1. \A e \in DOMAIN invoices' : invoices'[e] \in Invoice /\ invoices'[e].stamp <= clock'
      <4>1. \A e \in DOMAIN invoices :
               invoices[e] \in Invoice /\ invoices[e].stamp \in Nat /\ invoices[e].stamp <= clock
        BY DEF ServerOK, Invoice
      <4> QED
        BY <1>1, <2>1, <2>4, <2>5, <4>1
    <3> QED
      BY <1>1, <2>1, <2>5, <3>1 DEF ServerOK
  <2> QED
    BY <1>1, <1>3, <2>1, <2>4, <2>5, <2>6
<1> QED
  BY <1>2, <1>3

-----------------------------------------------------------------------------
(* The invariants *)

\* While a pause has been written down, the last write that is under way, or
\* else the row, holds what the form shows.
DraftInv ==
    screen.open /\ screen.dirty /\ ~hook.due =>
        IF writes # <<>>
        THEN writes[Len(writes)].key = screen.doc /\ writes[Len(writes)].row.work = screen.work
        ELSE "dropped" \notin marks =>
                screen.doc \in DOMAIN rows /\ rows[screen.doc].work = screen.work

UndoUnderWay(rs) == \E r \in rs : r.op = "undo" /\ r.mounted
FormIs(s, f) == s.work = f[s.doc].work

FormInv == DraftInv /\ CleanMeansSaved

\* What a step does to the form it keeps: a write follows each change of what it
\* holds, no draft is changed by anything but a write, and none disappears
\* unmarked.
RowsOnlyGo == /\ DOMAIN rows' \subseteq DOMAIN rows
              /\ \A k \in DOMAIN rows' : rows'[k] = rows[k]
SameForm ==
    /\ screen'.open = screen.open /\ screen'.doc = screen.doc
    /\ screen'.dirty /\ ~hook'.due => screen.dirty /\ ~hook.due /\ screen'.work = screen.work

LEMMA DraftStays ==
    ASSUME DraftInv, Marked, SameForm, RowsOnlyGo, UNCHANGED writes
    PROVE  DraftInv'
<1> SUFFICES ASSUME screen'.open, screen'.dirty, ~hook'.due
             PROVE  IF writes' # <<>>
                    THEN /\ writes'[Len(writes')].key = screen'.doc
                         /\ writes'[Len(writes')].row.work = screen'.work
                    ELSE "dropped" \notin marks' =>
                            /\ screen'.doc \in DOMAIN rows'
                            /\ rows'[screen'.doc].work = screen'.work
  BY DEF DraftInv
<1>1. /\ screen.open /\ screen.dirty /\ ~hook.due /\ screen'.work = screen.work
      /\ screen'.doc = screen.doc /\ Same
  BY DEF SameForm, Same
<1>2. CASE writes # <<>>
  BY <1>1, <1>2 DEF DraftInv
<1>3. CASE writes = <<>>
  <2> SUFFICES ASSUME "dropped" \notin marks'
               PROVE  screen.doc \in DOMAIN rows' /\ rows'[screen.doc].work = screen.work
    BY <1>1, <1>3
  <2>1. ~Kept
    BY <1>3 DEF Kept
  <2>2. ~Lost /\ "dropped" \notin marks
    BY <1>1, <2>1 DEF Marked
  <2>3. screen.doc \in DOMAIN rows /\ rows[screen.doc].work = screen.work
    BY <1>1, <1>3, <2>2 DEF DraftInv
  <2>4. screen.doc \in DOMAIN rows'
    BY <2>2, <2>3 DEF Lost
  <2> QED
    BY <2>3, <2>4 DEF RowsOnlyGo
<1> QED
  BY <1>2, <1>3

\* A form that is left, or marked as saved, has no draft to keep.
LEMMA NoDraft ==
    ASSUME ~screen'.open \/ ~screen'.dirty
    PROVE  DraftInv'
  BY DEF DraftInv

\* The form that is written is the last under way.
LEMMA DraftWritten ==
    ASSUME TypeInv, writes' = Written(writes, screen), screen.dirty,
           screen' = screen
    PROVE  DraftInv'
<1>1. /\ Written(writes, screen) # <<>> /\ Len(Written(writes, screen)) = Len(writes) + 1
      /\ Written(writes, screen)[Len(writes) + 1].key = screen.doc
      /\ Written(writes, screen)[Len(writes) + 1].row.work = screen.work
  BY WrittenTyped DEF TypeInv, ScreenOK
<1> QED
  BY <1>1 DEF DraftInv

LEMMA OnlyOneLeft ==
    ASSUME NEW S, NEW q \in Seq(S), q # <<>>, Tail(q) = <<>>
    PROVE  Head(q) = q[Len(q)]
<1>1. Tail(q) \in Seq(S) /\ Len(Tail(q)) = Len(q) - 1 /\ Len(q) \in Nat
  OBVIOUS
<1>2. Len(Tail(q)) = 0
  BY <1>1, EmptySeq
<1>3. Len(q) = 1
  BY <1>1, <1>2
<1> QED
  BY <1>3

\* A write ends; only the last one leaves the row of the form behind.
LEMMA DraftLands ==
    ASSUME TypeInv, DraftInv, Marked, screen' = screen, hook' = hook,
           writes # <<>>, writes' = Tail(writes),
           \/ rows' = With(rows, Head(writes).key, Head(writes).row)
           \/ rows' = rows
    PROVE  DraftInv'
<1> SUFFICES ASSUME screen.open, screen.dirty, ~hook.due
             PROVE  IF writes' # <<>>
                    THEN /\ writes'[Len(writes')].key = screen.doc
                         /\ writes'[Len(writes')].row.work = screen.work
                    ELSE "dropped" \notin marks' =>
                            /\ screen.doc \in DOMAIN rows'
                            /\ rows'[screen.doc].work = screen.work
  BY DEF DraftInv
<1>0. writes \in Seq(Draft)
  BY DEF TypeInv
<1>1. writes[Len(writes)].key = screen.doc /\ writes[Len(writes)].row.work = screen.work
  BY DEF DraftInv
<1>2. CASE writes' # <<>>
  <2>1. writes'[Len(writes')] = writes[Len(writes)]
    BY <1>0, <1>2
  <2> QED
    BY <1>1, <1>2, <2>1
<1>3. CASE writes' = <<>>
  <2>1. Head(writes) = writes[Len(writes)]
    BY <1>0, <1>3, OnlyOneLeft
  <2>2. ASSUME "dropped" \notin marks' PROVE Kept
    BY <2>2 DEF Marked, Lost, Same
  <2> QED
    BY <1>1, <1>3, <2>1, <2>2 DEF Kept
<1> QED
  BY <1>2, <1>3

\* What the server does meanwhile gives the invoice a stamp the form has not seen,
\* or leaves its work and its stamp as they are.
ServerMoves ==
    \/ UNCHANGED <<invoices, clock>>
    \/ \E d \in Docs : /\ clock' = clock + 1
                       /\ \/ invoices'[d].stamp = clock'
                          \/ /\ invoices'[d].stamp = invoices[d].stamp
                             /\ invoices'[d].work = invoices[d].work
                       /\ \A e \in DOMAIN invoices \ {d} : invoices'[e] = invoices[e]

LEMMA CleanStays ==
    ASSUME TypeInv, CleanMeansSaved, Marked, ServerMoves,
           screen'.open = screen.open, screen'.doc = screen.doc, screen'.work = screen.work,
           screen'.posted = screen.posted, screen'.stamp = screen.stamp,
           \/ screen'.dirty
           \/ UndoUnderWay(requests') \/ "undoFailed" \in marks'
           \/ ~screen.dirty /\ (UndoUnderWay(requests) => UndoUnderWay(requests'))
    PROVE  CleanMeansSaved'
<1> SUFFICES ASSUME screen'.open, ~screen'.dirty, screen'.doc # New,
                    screen'.stamp = invoices'[screen'.doc].stamp,
                    "undoFailed" \notin marks', ~UndoUnderWay(requests')
             PROVE  FormIs(screen', invoices')
  BY DEF CleanMeansSaved, FormIs, UndoUnderWay
<1>1. /\ screen.open /\ ~screen.dirty /\ screen.doc # New /\ ~UndoUnderWay(requests)
      /\ Same
  BY DEF Same
<1>2. "undoFailed" \notin marks
  BY <1>1 DEF Marked
<1>3. screen.stamp <= clock /\ clock \in Nat /\ screen.stamp \in Nat
      /\ screen.doc \in DOMAIN invoices
  <2>1. screen \in Screen /\ screen.doc \in DOMAIN invoices /\ clock \in 0..MaxStamp
    BY <1>1 DEF TypeInv, ScreenOK, ServerOK
  <2>2. screen.stamp \in Nat /\ clock \in Nat
    <3>1. screen.stamp \in Nat
      BY <2>1 DEF Screen
    <3>2. clock \in Nat
      BY <2>1, EditorAssumption
    <3> QED
      BY <3>1, <3>2
  <2> QED
    BY <2>1, <2>2 DEF TypeInv, StampsOK
<1>4. /\ invoices'[screen.doc].stamp = invoices[screen.doc].stamp
      /\ invoices'[screen.doc].work = invoices[screen.doc].work
  <2>1. CASE UNCHANGED <<invoices, clock>>
    BY <2>1
  <2>2. ASSUME NEW d \in Docs, clock' = clock + 1,
               \/ invoices'[d].stamp = clock'
               \/ /\ invoices'[d].stamp = invoices[d].stamp
                  /\ invoices'[d].work = invoices[d].work,
               \A e \in DOMAIN invoices \ {d} : invoices'[e] = invoices[e]
        PROVE  /\ invoices'[screen.doc].stamp = invoices[screen.doc].stamp
               /\ invoices'[screen.doc].work = invoices[screen.doc].work
    <3>1. CASE screen.doc # d
      BY <1>3, <2>2, <3>1
    <3>2. CASE screen.doc = d
      BY <1>3, <2>2, <3>2
    <3> QED
      BY <3>1, <3>2
  <2> QED
    BY <2>1, <2>2 DEF ServerMoves
<1>5. screen.stamp = invoices[screen.doc].stamp
  BY <1>4
<1>6. screen.work = invoices[screen.doc].work
  BY <1>1, <1>2, <1>5 DEF CleanMeansSaved, UndoUnderWay
<1> QED
  BY <1>4, <1>6 DEF FormIs

\* A form that is left, changed, new, or just taken from the server.
LEMMA CleanAnew ==
    ASSUME ~screen'.open \/ screen'.dirty \/ screen'.doc = New \/ FormIs(screen', invoices')
    PROVE  CleanMeansSaved'
  BY DEF CleanMeansSaved, FormIs

-----------------------------------------------------------------------------
(* The user at the form *)

Inv == TypeInv /\ FormInv

LEMMA MarksTyped == ASSUME Marked PROVE marks' \subseteq {"apart", "dropped", "undoFailed"}
  BY DEF Marked

\* A request more, about an invoice the server has, or to make one.
LEMMA AskKeeps ==
    ASSUME Inv, Marked, UNCHANGED <<drafts, screen, world>>,
           NEW r \in Request, r.doc # New => r.doc \in DOMAIN invoices,
           r.doc = New => r.op = "save",
           requests' = requests \cup {r}, busy' \subseteq Flags
    PROVE  Inv'
<1>1. UNCHANGED <<rows, writes, hook, screen, typed, invoices, clock, signedIn>>
  BY DEF drafts, world
<1>2. TypeInv'
  <2>1. RequestsOK'
    BY <1>1 DEF Inv, TypeInv, RequestsOK
  <2>2. ScreenOK' /\ RowsOK' /\ HookOK' /\ (writes \in Seq(Draft))' /\ ServerOK' /\ StampsOK'
    BY <1>1 DEF Inv, TypeInv, ScreenOK, RowsOK, HookOK, ServerOK, StampsOK
  <2>3. RestOK'
    BY <1>1, MarksTyped DEF Inv, TypeInv, RestOK
  <2> QED
    BY <2>1, <2>2, <2>3 DEF TypeInv
<1>3. DraftInv'
  BY <1>1, DraftStays DEF Inv, FormInv, SameForm, RowsOnlyGo
<1>4. CleanMeansSaved'
  <2>1. UndoUnderWay(requests) => UndoUnderWay(requests')
    BY DEF UndoUnderWay
  <2>2. screen.dirty \/ ~screen.dirty
    OBVIOUS
  <2> QED
    BY <1>1, <2>1, <2>2, CleanStays DEF Inv, FormInv, ServerMoves
<1> QED
  BY <1>2, <1>3, <1>4 DEF Inv, FormInv

Thens == {"", "post", "intent", "collect", "new"}

LEMMA AskTyped ==
    ASSUME ScreenOK, NEW op \in Ops, NEW then \in Thens
    PROVE  /\ Ask(op, then) \in Request /\ Ask(op, then).doc = screen.doc
           /\ Ask(op, then).op = op /\ Ask(op, then).mounted
           /\ Ask(op, then).then = then /\ Ask(op, then).drops = {screen.doc}
           /\ screen.doc \in DOMAIN invoices \/ screen.doc = New
<1>1. screen.doc \in Docs \cup {New} /\ screen.work \in Work
  BY DEF ScreenOK, Screen
<1>2. {screen.doc} \in SUBSET Keys /\ {} \in Work
  BY <1>1 DEF Keys, Work
<1>3. screen.doc \in DOMAIN invoices \/ screen.doc = New
  BY DEF ScreenOK
<1> QED
  BY <1>1, <1>2, <1>3 DEF Ask, Request, Thens

LEMMA SendKeeps ==
    ASSUME Inv, Marked, UNCHANGED <<drafts, screen, world>>,
           NEW op \in Ops, NEW then \in Thens,
           screen.doc = New => op = "save",
           NEW flags \in SUBSET Flags, Send(Ask(op, then), flags)
    PROVE  Inv'
<1>1. requests' = requests \cup {Ask(op, then)} /\ busy' \subseteq Flags
  BY DEF Send, Inv, TypeInv, RestOK
<1>2. PICK r : r = Ask(op, then)
  OBVIOUS
<1>3. r \in Request /\ r.doc = screen.doc /\ r.op = op
      /\ (screen.doc \in DOMAIN invoices \/ screen.doc = New)
  <2>1. ScreenOK
    BY DEF Inv, TypeInv
  <2>2. /\ Ask(op, then) \in Request /\ Ask(op, then).doc = screen.doc
        /\ Ask(op, then).op = op /\ (screen.doc \in DOMAIN invoices \/ screen.doc = New)
    BY <2>1, AskTyped
  <2> QED
    BY <1>2, <2>2
<1> QED
  BY <1>1, <1>2, <1>3, AskKeeps

LEMMA ButtonsKeep ==
    ASSUME Inv, Marked,
           \/ Save \/ SaveAndPost \/ SaveThenNew \/ Post \/ Unpost
           \/ PayFull \/ WriteIntent \/ Collect
    PROVE  Inv'
<1>0. screen.posted => screen.doc # New
  BY DEF Inv, TypeInv, ScreenOK
<1>1. {"saving"} \in SUBSET Flags /\ {"posting"} \in SUBSET Flags
      /\ {"collecting"} \in SUBSET Flags /\ {"saving", "collecting"} \in SUBSET Flags
      /\ "save" \in Ops /\ "patch" \in Ops /\ "post" \in Ops /\ "unpost" \in Ops
      /\ "intent" \in Ops /\ "collect" \in Ops
      /\ "" \in Thens /\ "post" \in Thens /\ "intent" \in Thens /\ "collect" \in Thens
      /\ "new" \in Thens
  BY DEF Flags, Ops, Thens
<1>2. CASE Save \/ SaveAndPost \/ SaveThenNew \/ PayFull
  BY <1>1, <1>2, SendKeeps DEF Save, SaveAndPost, SaveThenNew, PayFull
<1>3. CASE Post
  <2>1. CASE screen.dirty
    BY <1>1, <1>3, <2>1, SendKeeps DEF Post
  <2>2. CASE ~screen.dirty
    BY <1>1, <1>3, <2>2, SendKeeps DEF Post
  <2> QED
    BY <2>1, <2>2
<1>4. CASE Unpost
  BY <1>0, <1>1, <1>4, SendKeeps DEF Unpost
<1>5. CASE WriteIntent
  <2>1. CASE screen.doc = New
    BY <1>1, <1>5, <2>1, SendKeeps DEF WriteIntent
  <2>2. CASE screen.doc # New
    BY <1>1, <1>5, <2>2, SendKeeps DEF WriteIntent
  <2> QED
    BY <2>1, <2>2
<1>6. CASE Collect
  <2>1. CASE screen.posted
    BY <1>0, <1>1, <1>6, <2>1, SendKeeps DEF Collect
  <2>2. CASE ~screen.posted
    BY <1>1, <1>6, <2>2, SendKeeps DEF Collect
  <2> QED
    BY <2>1, <2>2
<1> QED
  BY <1>2, <1>3, <1>4, <1>5, <1>6

LEMMA LoadingTyped ==
    ASSUME ScreenOK, ServerOK, NEW d \in DOMAIN invoices, Loading(d)
    PROVE  \E r \in Request : /\ r.doc = d /\ r.op = "load" /\ r.drops = {}
                              /\ requests' = requests \cup {r}
<1>1. PICK a : a = Ask("load", "")
  OBVIOUS
<1>2. a \in Request /\ a.op = "load"
  BY <1>1, AskTyped DEF Ops, Thens
<1>3. PICK r : r = [a EXCEPT !.doc = d, !.drops = {}]
  OBVIOUS
<1>4. d \in Docs
  BY DEF ServerOK
<1>5. r \in Request /\ r.doc = d /\ r.op = "load" /\ r.drops = {}
  BY <1>2, <1>3, <1>4 DEF Request
<1> QED
  BY <1>1, <1>3, <1>5 DEF Loading

LEMMA NavigateKeeps ==
    ASSUME Inv, Marked, NEW d \in DOMAIN invoices, Navigate(d)
    PROVE  Inv'
<1>1. PICK r \in Request : r.doc = d /\ r.op = "load" /\ requests' = requests \cup {r}
  BY LoadingTyped DEF Navigate, Inv, TypeInv
<1>2. busy' \subseteq Flags /\ d # New
  BY Keyed DEF Navigate, Inv, TypeInv, RestOK, ServerOK
<1> QED
  BY <1>1, <1>2, AskKeeps DEF Navigate

\* The same document is rendered with what the user did to it.
LEMMA RenderKeeps ==
    ASSUME Inv, Marked, NEW t \in Screen, screen' = t,
           t.doc = screen.doc, t.open = screen.open, t.posted = screen.posted,
           t.stamp = screen.stamp,
           t.dirty \/ (t.dirty = screen.dirty /\ t.work = screen.work),
           NEW h, h = Rendered(hook, rows, screen, t),
           hook' = h \/ \E k \in hook.orphans : hook' = [h EXCEPT !.adopted = k],
           UNCHANGED <<rows, writes, busy, requests, invoices, clock, signedIn>>,
           typed' \in 0..MaxEdits
    PROVE  Inv'
<1>0. ScreenOK /\ HookOK /\ screen \in Screen /\ hook \in HookType
  BY DEF Inv, TypeInv, ScreenOK, HookOK
<1>1. /\ h \in HookType /\ h.orphans = hook.orphans
      /\ h.due <=> t.dirty /\ (hook.due \/ ~screen.dirty \/ t.work # screen.work)
  BY <1>0, RenderedSame
<1>2. /\ hook' \in HookType /\ hook'.orphans = hook.orphans
      /\ hook'.due <=> t.dirty /\ (hook.due \/ ~screen.dirty \/ t.work # screen.work)
  <2>1. hook.orphans \in SUBSET {Orphan}
    BY <1>0 DEF HookType
  <2> QED
    BY <1>1, <2>1 DEF HookType
<1>3. TypeInv'
  <2>1. ScreenOK' /\ HookOK'
    BY <1>0, <1>2 DEF ScreenOK, HookOK
  <2>2. RowsOK' /\ (writes \in Seq(Draft))' /\ RequestsOK' /\ ServerOK' /\ StampsOK'
    BY DEF Inv, TypeInv, RowsOK, RequestsOK, ServerOK, StampsOK
  <2>3. RestOK'
    BY MarksTyped DEF Inv, TypeInv, RestOK
  <2> QED
    BY <2>1, <2>2, <2>3 DEF TypeInv
<1>4. DraftInv'
  BY <1>2, DraftStays DEF Inv, FormInv, SameForm, RowsOnlyGo
<1>5. CleanMeansSaved'
  <2>1. CASE t.dirty
    BY <2>1, CleanAnew
  <2>2. CASE t.dirty = screen.dirty /\ t.work = screen.work /\ ~t.dirty
    BY <2>2, CleanStays DEF Inv, FormInv, ServerMoves
  <2> QED
    BY <2>1, <2>2
<1> QED
  BY <1>3, <1>4, <1>5 DEF Inv, FormInv

LEMMA EditsKeep ==
    ASSUME Inv, Marked,
           Edit \/ StartEditing \/ ApplyStale \/ \E k \in hook.orphans : OpenOrphan(k)
    PROVE  Inv'
<1>0. ScreenOK /\ HookOK /\ screen \in Screen /\ hook \in HookType /\ RowsOK
  BY DEF Inv, TypeInv, ScreenOK, HookOK
<1>1. typed \in 0..MaxEdits
  BY DEF Inv, TypeInv, RestOK
<1>2. CASE Edit
  <2>1. PICK t : t = [screen EXCEPT !.work = @ \cup {typed'}, !.dirty = TRUE]
    OBVIOUS
  <2>2. typed' \in 1..MaxEdits
    BY <1>1, <1>2, DraftsAssumption DEF Edit
  <2>3. /\ t \in Screen /\ t.doc = screen.doc /\ t.open = screen.open
        /\ t.posted = screen.posted /\ t.stamp = screen.stamp /\ t.dirty
    BY <1>0, <2>1, <2>2 DEF Screen, Work, Edits
  <2>4. screen' = t /\ hook' = Rendered(hook, rows, screen, t)
        /\ UNCHANGED <<rows, writes, busy, requests, invoices, clock, signedIn>>
    BY <1>2, <2>1 DEF Edit, Show
  <2> QED
    BY <2>2, <2>3, <2>4, RenderKeeps
<1>3. CASE StartEditing
  <2>1. PICK t : t = [screen EXCEPT !.view = FALSE]
    OBVIOUS
  <2>3. /\ t \in Screen /\ t.doc = screen.doc /\ t.open = screen.open
        /\ t.posted = screen.posted /\ t.stamp = screen.stamp
        /\ t.dirty = screen.dirty /\ t.work = screen.work
    BY <1>0, <2>1 DEF Screen
  <2>4. screen' = t /\ hook' = Rendered(hook, rows, screen, t)
        /\ UNCHANGED <<rows, writes, busy, requests, invoices, clock, signedIn, typed>>
    BY <1>3, <2>1 DEF StartEditing, Show, world
  <2> QED
    BY <1>1, <2>3, <2>4, RenderKeeps
<1>4. CASE ApplyStale
  <2>1. PICK t : t = Restored(hook.banner.work)
    OBVIOUS
  <2>2. hook.banner.work \in Work
    BY <1>0 DEF HookType, Banner
  <2>3. /\ t \in Screen /\ t.doc = screen.doc /\ t.open = screen.open
        /\ t.posted = screen.posted /\ t.stamp = screen.stamp /\ t.dirty
    BY <1>0, <2>1, <2>2, RestoredFields
  <2>4. screen' = t /\ hook' = Rendered(hook, rows, screen, t)
        /\ UNCHANGED <<rows, writes, busy, requests, invoices, clock, signedIn, typed>>
    BY <1>4, <2>1 DEF ApplyStale, Show, world
  <2> QED
    BY <1>1, <2>3, <2>4, RenderKeeps
<1>5. ASSUME NEW k \in hook.orphans, OpenOrphan(k)
      PROVE  Inv'
  <2>1. PICK t : t = Restored(rows[k].work)
    OBVIOUS
  <2>2. rows[k].work \in Work
    BY <1>0, <1>5 DEF OpenOrphan, RowsOK, RowTable, Row
  <2>3. /\ t \in Screen /\ t.doc = screen.doc /\ t.open = screen.open
        /\ t.posted = screen.posted /\ t.stamp = screen.stamp /\ t.dirty
    BY <1>0, <2>1, <2>2, RestoredFields
  <2>4. PICK h : h = Rendered(hook, rows, screen, t)
    OBVIOUS
  <2>5. screen' = t /\ hook' = [h EXCEPT !.adopted = k]
        /\ UNCHANGED <<rows, writes, busy, requests, invoices, clock, signedIn, typed>>
    BY <1>5, <2>1, <2>4 DEF OpenOrphan, world
  <2> QED
    BY <1>1, <2>3, <2>4, <2>5, RenderKeeps
<1> QED
  BY <1>2, <1>3, <1>4, <1>5

-----------------------------------------------------------------------------
(* The form is left *)

\* The parts of the type invariant after a step
LEMMA TypesKeep ==
    ASSUME TypeInv, Marked, ScreenOK', RowsOK', HookOK', (writes \in Seq(Draft))',
           RequestsOK', ServerOK', StampsOK',
           busy' \subseteq Flags, typed' \in 0..MaxEdits, signedIn' \in BOOLEAN
    PROVE  TypeInv'
  BY MarksTyped DEF TypeInv, RestOK

\* The form turns to t: what was written of it counts only if t is still that form.
LEMMA ShowTyped ==
    ASSUME TypeInv, NEW t \in Screen, screen' = t,
           hook' = Rendered(hook, rows, screen, t)
    PROVE  /\ HookOK' /\ hook'.adopted = hook.adopted /\ hook'.banner = hook.banner
           /\ t.dirty /\ ~hook'.due => /\ t.doc = screen.doc /\ screen.dirty /\ ~hook.due
                                       /\ t.work = screen.work
<1>1. hook \in HookType /\ screen \in Screen /\ (hook.orphans # {} => screen.doc = New)
      /\ RowTable(rows)
  BY DEF TypeInv, HookOK, ScreenOK, RowsOK
<1>2. PICK g : g = hook'
  OBVIOUS
<1>3. CASE t.doc = screen.doc
  BY <1>1, <1>2, <1>3, RenderedSame DEF HookOK
<1>4. CASE t.doc # screen.doc
  <2>1. /\ g \in HookType /\ g.adopted = hook.adopted /\ g.banner = hook.banner
        /\ g.due = t.dirty /\ (g.orphans # {} => t.doc = New)
    BY <1>1, <1>2, <1>4, RenderedOther
  <2> QED
    BY <1>2, <2>1 DEF HookOK
<1> QED
  BY <1>3, <1>4

LEMMA ClockCounts ==
    ASSUME TypeInv
    PROVE  clock \in Nat /\ NoStamp <= clock /\ NoStamp \in Nat
  BY EditorAssumption DEF TypeInv, ServerOK, NoStamp

\* A form about no document, with nothing on it
EmptyForm(s) == /\ s \in Screen /\ s.doc = New /\ ~s.dirty /\ ~s.posted
                /\ s.stamp = NoStamp

LEMMA EmptyFormKeeps ==
    ASSUME Inv, Marked, EmptyForm(screen'), RowsOK', HookOK', (writes \in Seq(Draft))',
           RequestsOK', ServerOK', clock <= clock',
           busy' \subseteq Flags, typed' \in 0..MaxEdits, signedIn' \in BOOLEAN
    PROVE  Inv'
<1>1. ScreenOK'
  BY DEF EmptyForm, ScreenOK
<1>2. StampsOK'
  <2>1. TypeInv
    BY DEF Inv
  <2>2. clock \in Nat /\ clock' \in Nat
    BY <2>1, ClockCounts, EditorAssumption DEF ServerOK
  <2> QED
    BY <2>2 DEF EmptyForm, StampsOK, NoStamp
<1>3. TypeInv'
  BY <1>1, <1>2, TypesKeep DEF Inv
<1>4. DraftInv'
  BY NoDraft DEF EmptyForm
<1>5. CleanMeansSaved'
  BY CleanAnew DEF EmptyForm
<1> QED
  BY <1>3, <1>4, <1>5 DEF Inv, FormInv

LEMMA Parts ==
    ASSUME Inv
    PROVE  /\ TypeInv /\ ScreenOK /\ RowsOK /\ HookOK /\ writes \in Seq(Draft)
           /\ RequestsOK /\ ServerOK /\ StampsOK
           /\ busy \subseteq Flags /\ typed \in 0..MaxEdits /\ signedIn \in BOOLEAN
           /\ screen \in Screen /\ hook \in HookType
           /\ (hook.orphans # {} => screen.doc = New)
           /\ clock \in Nat /\ DraftInv /\ CleanMeansSaved
  BY ClockCounts DEF Inv, FormInv, TypeInv, ScreenOK, HookOK, RestOK

LEMMA ResetKeeps == ASSUME Inv, Marked, Reset PROVE Inv'
<1>1. PICK t : t = Blank(screen)
  OBVIOUS
<1>2. t \in Screen /\ EmptyForm(t)
  BY <1>1, Parts, ScreenFields DEF EmptyForm
<1>3. /\ screen' = t /\ hook' = Rendered(hook, rows, screen, t)
      /\ UNCHANGED <<rows, writes, busy, requests, typed, invoices, clock, signedIn>>
  BY <1>1 DEF Reset, Show, world
<1>4. HookOK' /\ EmptyForm(screen')
  BY <1>2, <1>3, Parts, ShowTyped
<1>5. RowsOK' /\ (writes \in Seq(Draft))' /\ RequestsOK' /\ ServerOK'
  BY <1>3, Parts DEF RowsOK, RequestsOK, ServerOK
<1>6. clock <= clock' /\ busy' \subseteq Flags /\ typed' \in 0..MaxEdits /\ signedIn' \in BOOLEAN
  BY <1>3, Parts
<1> QED
  BY <1>4, <1>5, <1>6, EmptyFormKeeps

\* The closures that are left without a form
LEMMA LeftTyped ==
    ASSUME RequestsOK, NEW D \in [Request -> SUBSET Keys],
           requests' = {[r EXCEPT !.mounted = FALSE, !.drops = D[r]] : r \in requests},
           DOMAIN invoices \subseteq DOMAIN invoices'
    PROVE  RequestsOK'
<1>1. \A r \in requests : LET q == [r EXCEPT !.mounted = FALSE, !.drops = D[r]]
                          IN  q \in Request /\ q.doc = r.doc /\ q.op = r.op
  BY DEF RequestsOK, Request
<1>2. ASSUME NEW q \in requests'
      PROVE  /\ q \in Request /\ (q.doc # New => q.doc \in DOMAIN invoices')
             /\ (q.doc = New => q.op = "save")
  <2>1. PICK r \in requests : q = [r EXCEPT !.mounted = FALSE, !.drops = D[r]]
    OBVIOUS
  <2>2. q \in Request /\ q.doc = r.doc /\ q.op = r.op
    BY <1>1, <2>1
  <2> QED
    BY <2>2 DEF RequestsOK
<1> QED
  BY <1>2 DEF RequestsOK

LEMMA GoneEmpty == ASSUME screen \in Screen PROVE EmptyForm(Gone)
  BY GoneFields DEF EmptyForm

LEMMA CloseKeeps == ASSUME Inv, Marked, Close PROVE Inv'
<1>1. /\ screen' = Gone /\ hook' = NoHook /\ writes' = Written(writes, screen) /\ busy' = {}
      /\ UNCHANGED <<rows, typed, invoices, clock, signedIn>>
  BY DEF Close, Unmounted, world
<1>2. EmptyForm(screen') /\ HookOK'
  BY <1>1, Parts, GoneEmpty, NoHookTyped DEF HookOK
<1>3. (writes \in Seq(Draft))'
  BY <1>1, Parts, WrittenTyped
<1>4. RequestsOK'
  <2>1. hook.adopted \in {NoKey, Orphan}
    BY Parts DEF HookType
  <2>2. PICK D \in [Request -> SUBSET Keys] :
           D = [r \in Request |-> r.drops \cup (IF r.mounted THEN {hook.adopted} \ {NoKey}
                                                ELSE {})]
    <3>1. \A r \in Request : r.drops \cup (IF r.mounted THEN {hook.adopted} \ {NoKey}
                                           ELSE {}) \in SUBSET Keys
      BY <2>1 DEF Request, Keys
    <3> QED
      BY <3>1
  <2>3. requests' = {[r EXCEPT !.mounted = FALSE,
                               !.drops = r.drops \cup (IF r.mounted THEN {hook.adopted} \ {NoKey}
                                                       ELSE {})] : r \in requests}
    BY DEF Close
  <2>4. requests' = {[r EXCEPT !.mounted = FALSE, !.drops = D[r]] : r \in requests}
    BY <2>2, <2>3, Parts DEF RequestsOK
  <2> QED
    BY <1>1, <2>4, Parts, LeftTyped
<1>5. RowsOK' /\ ServerOK'
  BY <1>1, Parts DEF RowsOK, ServerOK
<1>6. clock <= clock' /\ busy' \subseteq Flags /\ typed' \in 0..MaxEdits /\ signedIn' \in BOOLEAN
  BY <1>1, Parts
<1> QED
  BY <1>2, <1>3, <1>4, <1>5, <1>6, EmptyFormKeeps

LEMMA ReloadKeeps == ASSUME Inv, Marked, ReloadPage PROVE Inv'
<1>1. /\ screen' = Gone /\ hook' = NoHook /\ writes' = <<>> /\ busy' = {} /\ requests' = {}
      /\ UNCHANGED <<rows, typed, signedIn>>
  BY DEF ReloadPage
<1>2. EmptyForm(screen') /\ HookOK'
  BY <1>1, Parts, GoneEmpty, NoHookTyped DEF HookOK
<1>3. (writes \in Seq(Draft))' /\ RequestsOK' /\ RowsOK'
  BY <1>1, Parts DEF RequestsOK, RowsOK
<1>4. ServerOK' /\ clock <= clock'
  <2>1. CASE UNCHANGED <<invoices, clock>>
    BY <2>1, Parts DEF ServerOK
  <2>2. ASSUME NEW r \in requests, NEW d \in Docs, Done(r, d)
        PROVE  ServerOK' /\ clock <= clock'
    BY <2>2, Parts, DoneTyped
  <2> QED
    BY <2>1, <2>2 DEF ReloadPage
<1>5. busy' \subseteq Flags /\ typed' \in 0..MaxEdits /\ signedIn' \in BOOLEAN
  BY <1>1, Parts
<1> QED
  BY <1>2, <1>3, <1>4, <1>5, EmptyFormKeeps

LEMMA SignOutKeeps == ASSUME Inv, Marked, SignOut PROVE Inv'
<1>1. /\ screen' = Gone /\ hook' = NoHook /\ writes' = Written(writes, screen) /\ busy' = {}
      /\ rows' = <<>> /\ signedIn' = FALSE /\ UNCHANGED <<typed, invoices, clock>>
  BY DEF SignOut, Unmounted
<1>2. EmptyForm(screen') /\ HookOK'
  BY <1>1, Parts, GoneEmpty, NoHookTyped DEF HookOK
<1>3. (writes \in Seq(Draft))'
  BY <1>1, Parts, WrittenTyped
<1>4. RequestsOK'
  <2>1. PICK D \in [Request -> SUBSET Keys] : D = [r \in Request |-> r.drops]
    BY DEF Request
  <2>2. requests' = {[r EXCEPT !.mounted = FALSE] : r \in requests}
    BY DEF SignOut
  <2>3. \A r \in requests :
           [r EXCEPT !.mounted = FALSE] = [r EXCEPT !.mounted = FALSE, !.drops = D[r]]
    BY <2>1, Parts DEF RequestsOK, Request
  <2>4. requests' = {[r EXCEPT !.mounted = FALSE, !.drops = D[r]] : r \in requests}
    BY <2>2, <2>3
  <2> QED
    BY <1>1, <2>4, Parts, LeftTyped
<1>5. RowsOK' /\ ServerOK'
  BY <1>1, Parts, EmptySeq DEF RowsOK, RowTable, ServerOK
<1>6. clock <= clock' /\ busy' \subseteq Flags /\ typed' \in 0..MaxEdits /\ signedIn' \in BOOLEAN
  <2>1. clock <= clock' /\ busy' \subseteq Flags /\ typed' \in 0..MaxEdits
    BY <1>1, Parts
  <2>2. signedIn' \in BOOLEAN
    BY <1>1
  <2> QED
    BY <2>1, <2>2
<1> QED
  BY <1>2, <1>3, <1>4, <1>5, <1>6, EmptyFormKeeps

-----------------------------------------------------------------------------
(* The banners and the orphans *)

\* The same form is shown, marked as it was, over drafts of which some may be gone.
LEMMA SameFormKeeps ==
    ASSUME Inv, Marked, screen' = screen, RowsOnlyGo, UNCHANGED <<writes, requests, busy, world>>,
           RowsOK', HookOK', screen.dirty /\ ~hook'.due => ~hook.due
    PROVE  Inv'
<1>1. UNCHANGED <<typed, invoices, clock, signedIn>>
  BY DEF world
<1>2. TypeInv'
  <2>1. ScreenOK' /\ RequestsOK' /\ ServerOK' /\ StampsOK' /\ (writes \in Seq(Draft))'
    BY <1>1, Parts DEF ScreenOK, RequestsOK, ServerOK, StampsOK
  <2>2. busy' \subseteq Flags /\ typed' \in 0..MaxEdits /\ signedIn' \in BOOLEAN
    BY <1>1, Parts
  <2> QED
    BY <2>1, <2>2, TypesKeep, Parts
<1>3. DraftInv'
  BY DraftStays, Parts DEF SameForm
<1>4. CleanMeansSaved'
  <2>1. screen'.dirty \/ (~screen.dirty /\ (UndoUnderWay(requests) => UndoUnderWay(requests')))
    OBVIOUS
  <2>2. ServerMoves
    BY <1>1 DEF ServerMoves
  <2> QED
    BY <2>1, <2>2, CleanStays, Parts
<1> QED
  BY <1>2, <1>3, <1>4 DEF Inv, FormInv

LEMMA UndoKeeps == ASSUME Inv, Marked, Undo PROVE Inv'
<1>0. UNCHANGED <<typed, invoices, clock, signedIn>> /\ (writes \in Seq(Draft))'
  <2>1. UNCHANGED <<typed, invoices, clock, signedIn>>
    BY DEF Undo, world
  <2>2. Written(writes, screen) \in Seq(Draft)
    BY Parts, WrittenTyped
  <2>3. writes' = writes \/ writes' = Written(writes, screen)
    BY DEF Undo
  <2> QED
    BY <2>1, <2>2, <2>3, Parts
<1>1. CASE screen.doc = New
  <2>1. PICK t : t = Blank(screen)
    OBVIOUS
  <2>2. t \in Screen /\ EmptyForm(t)
    BY <2>1, Parts, ScreenFields DEF EmptyForm
  <2>3. screen' = t /\ Discard({New}, screen, t) /\ UNCHANGED <<busy, requests>>
    BY <1>1, <2>1 DEF Undo
  <2>4. RowsOK' /\ hook' \in HookType /\ (hook'.orphans # {} => t.doc = New)
    BY <2>2, <2>3, Parts, DiscardTyped
  <2>5. HookOK' /\ EmptyForm(screen')
    BY <2>2, <2>3, <2>4 DEF HookOK
  <2>6. (writes \in Seq(Draft))' /\ RequestsOK' /\ ServerOK'
    BY <1>0, <2>3, Parts DEF RequestsOK, ServerOK
  <2>7. clock <= clock' /\ busy' \subseteq Flags /\ typed' \in 0..MaxEdits /\ signedIn' \in BOOLEAN
    BY <1>0, <2>3, Parts
  <2> QED
    BY <2>4, <2>5, <2>6, <2>7, EmptyFormKeeps
<1>2. CASE screen.doc # New
  <2>1. PICK t : t = [screen EXCEPT !.dirty = FALSE]
    OBVIOUS
  <2>2. /\ t \in Screen /\ ~t.dirty /\ t.doc = screen.doc /\ t.open = screen.open
        /\ t.work = screen.work /\ t.posted = screen.posted /\ t.stamp = screen.stamp
    BY <2>1, Parts DEF Screen
  <2>3. /\ screen' = t /\ hook' = Rendered(hook, rows, screen, t) /\ UNCHANGED rows
        /\ Send(Ask("undo", ""), {})
    BY <1>2, <2>1 DEF Undo, Show
  <2>4. PICK r : r = Ask("undo", "")
    OBVIOUS
  <2>5. r \in Request /\ r.doc = screen.doc /\ r.op = "undo" /\ r.mounted
        /\ screen.doc \in DOMAIN invoices
    <3>1. "undo" \in Ops /\ "" \in Thens
      BY DEF Ops, Thens
    <3>2. /\ Ask("undo", "") \in Request /\ Ask("undo", "").doc = screen.doc
          /\ Ask("undo", "").op = "undo" /\ Ask("undo", "").mounted
          /\ (screen.doc \in DOMAIN invoices \/ screen.doc = New)
      BY <3>1, Parts, AskTyped
    <3> QED
      BY <1>2, <2>4, <3>2
  <2>6. requests' = requests \cup {r} /\ busy' = busy
    BY <2>3, <2>4 DEF Send
  <2>7. HookOK'
    BY <2>2, <2>3, Parts, ShowTyped
  <2>8. RequestsOK'
    BY <1>0, <1>2, <2>5, <2>6, Parts DEF RequestsOK
  <2>9. ScreenOK' /\ RowsOK' /\ ServerOK' /\ StampsOK' /\ (writes \in Seq(Draft))'
    BY <1>0, <2>2, <2>3, Parts DEF ScreenOK, RowsOK, ServerOK, StampsOK
  <2>10. busy' \subseteq Flags /\ typed' \in 0..MaxEdits /\ signedIn' \in BOOLEAN
    BY <1>0, <2>6, Parts
  <2>11. TypeInv'
    BY <2>7, <2>8, <2>9, <2>10, TypesKeep, Parts
  <2>12. DraftInv'
    BY <2>2, <2>3, NoDraft
  <2>13. CleanMeansSaved'
    <3>1. UndoUnderWay(requests') /\ ServerMoves
      BY <1>0, <2>5, <2>6 DEF UndoUnderWay, ServerMoves
    <3> QED
      BY <2>2, <2>3, <3>1, CleanStays, Parts
  <2> QED
    BY <2>11, <2>12, <2>13 DEF Inv, FormInv
<1> QED
  BY <1>1, <1>2

LEMMA GoOnly ==
    ASSUME RowsOK, NEW keys, rows' = Without(keys) \/ rows' = rows
    PROVE  RowsOnlyGo /\ RowsOK'
<1>1. CASE rows' = Without(keys)
  BY <1>1, WithoutTyped DEF RowsOnlyGo, RowsOK
<1>2. CASE rows' = rows
  BY <1>2 DEF RowsOnlyGo, RowsOK, RowTable
<1> QED
  BY <1>1, <1>2

LEMMA DiscardStaleKeeps == ASSUME Inv, Marked, DiscardStale PROVE Inv'
<1>1. Discard({screen.doc}, screen, screen) /\ screen' = screen
      /\ UNCHANGED <<writes, requests, busy, world>>
  BY DEF DiscardStale
<1>2. /\ rows' = Without({screen.doc} \cup {hook.adopted}) \/ rows' = rows
      /\ hook' \in HookType
      /\ (hook'.orphans # {} => screen.doc = New)
      /\ hook'.due <=> screen.dirty /\ (hook.due \/ ~screen.dirty)
  BY <1>1, Parts, DiscardTyped
<1>3. RowsOnlyGo /\ RowsOK' /\ HookOK'
  BY <1>1, <1>2, Parts, GoOnly DEF HookOK
<1> QED
  BY <1>1, <1>2, <1>3, SameFormKeeps

LEMMA DeleteOrphanKeeps ==
    ASSUME Inv, Marked, NEW k \in hook.orphans, DeleteOrphan(k)
    PROVE  Inv'
<1>1. /\ rows' = Without({k}) \/ rows' = rows
      /\ screen' = screen /\ UNCHANGED <<writes, requests, busy, world>>
      /\ hook' = [hook EXCEPT !.orphans = @ \ {k}, !.adopted = IF @ = k THEN NoKey ELSE @]
  BY DEF DeleteOrphan, Listed
<1>2. /\ hook' \in HookType /\ hook'.orphans \subseteq hook.orphans /\ hook'.due = hook.due
  BY <1>1, Parts DEF HookType
<1>3. RowsOnlyGo /\ RowsOK' /\ HookOK'
  BY <1>1, <1>2, Parts, GoOnly DEF HookOK
<1> QED
  BY <1>1, <1>2, <1>3, SameFormKeeps

-----------------------------------------------------------------------------
(* The editor is opened *)

LEMMA OpenEditorKeeps ==
    ASSUME Inv, Marked, NEW d \in DOMAIN invoices \cup {New}, OpenEditor(d)
    PROVE  Inv'
<1>1. PICK t : t = [Gone EXCEPT !.open = TRUE, !.view = (d # New)]
  OBVIOUS
<1>2. EmptyForm(t) /\ t \in Screen
  <2>1. Gone \in Screen /\ EmptyForm(Gone)
    BY Parts, GoneFields, GoneEmpty
  <2> QED
    BY <1>1, <2>1 DEF EmptyForm, Screen
<1>3. /\ screen' = t /\ hook' = FreshHook(rows, screen')
      /\ UNCHANGED <<rows, writes, busy, typed, invoices, clock, signedIn>>
  BY <1>1 DEF OpenEditor, world
<1>4. PICK g : g = FreshHook(rows, t)
  OBVIOUS
<1>5. g \in HookType /\ (g.orphans # {} => t.doc = New)
  BY <1>2, <1>4, Parts, FreshTyped DEF RowsOK
<1>6. HookOK' /\ EmptyForm(screen')
  BY <1>2, <1>3, <1>4, <1>5 DEF HookOK
<1>7. RequestsOK'
  <2>1. CASE d = New
    BY <1>3, <2>1, Parts DEF OpenEditor, RequestsOK
  <2>2. CASE d # New
    <3>1. Loading(d) /\ d \in DOMAIN invoices
      BY <2>2 DEF OpenEditor
    <3>2. PICK r \in Request : r.doc = d /\ r.op = "load" /\ requests' = requests \cup {r}
      BY <3>1, Parts, LoadingTyped
    <3> QED
      BY <1>3, <2>2, <3>1, <3>2, Parts DEF RequestsOK
  <2> QED
    BY <2>1, <2>2
<1>8. RowsOK' /\ (writes \in Seq(Draft))' /\ ServerOK'
  BY <1>3, Parts DEF RowsOK, ServerOK
<1>9. clock <= clock' /\ busy' \subseteq Flags /\ typed' \in 0..MaxEdits /\ signedIn' \in BOOLEAN
  BY <1>3, Parts
<1> QED
  BY <1>6, <1>7, <1>8, <1>9, EmptyFormKeeps

-----------------------------------------------------------------------------
(* The hook by itself *)

LEMMA WritingKeeps ==
    ASSUME Inv, Marked, screen' = screen, screen.dirty, writes' = Written(writes, screen),
           UNCHANGED <<rows, requests, busy, world>>, HookOK'
    PROVE  Inv'
<1>1. UNCHANGED <<typed, invoices, clock, signedIn>>
  BY DEF world
<1>2. ScreenOK' /\ RowsOK' /\ RequestsOK' /\ ServerOK' /\ StampsOK'
  BY <1>1, Parts DEF ScreenOK, RowsOK, RequestsOK, ServerOK, StampsOK
<1>3. (writes \in Seq(Draft))'
  BY Parts, WrittenTyped
<1>4. busy' \subseteq Flags /\ typed' \in 0..MaxEdits /\ signedIn' \in BOOLEAN
  BY <1>1, Parts
<1>5. TypeInv'
  BY <1>2, <1>3, <1>4, TypesKeep, Parts
<1>6. DraftInv' /\ CleanMeansSaved'
  BY DraftWritten, CleanAnew, Parts
<1> QED
  BY <1>5, <1>6 DEF Inv, FormInv

LEMMA DebounceKeeps == ASSUME Inv, Marked, Debounce \/ Hidden PROVE Inv'
<1>1. /\ screen' = screen /\ screen.dirty /\ writes' = Written(writes, screen)
      /\ UNCHANGED <<rows, requests, busy, world>>
  BY DEF Debounce, Hidden, DebounceFires, TabHidden, WriteNow, Others
<1>2. hook' \in HookType /\ hook'.orphans = hook.orphans
  <2>1. CASE Debounce
    BY <2>1, Parts DEF Debounce, DebounceFires, HookType
  <2>2. CASE Hidden
    BY <2>2, Parts DEF Hidden, TabHidden
  <2> QED
    BY <2>1, <2>2
<1>3. HookOK'
  BY <1>1, <1>2, Parts DEF HookOK
<1> QED
  BY <1>1, <1>3, WritingKeeps

LEMMA WriteEndsKeeps == ASSUME Inv, Marked, WriteEnds PROVE Inv'
<1>1. /\ writes # <<>> /\ writes' = Tail(writes) /\ hook' = hook /\ screen' = screen
      /\ UNCHANGED <<requests, busy, typed, invoices, clock, signedIn>>
      /\ \/ rows' = With(rows, Head(writes).key, Head(writes).row)
         \/ rows' = rows
  BY DEF WriteEnds, WriteDone, WriteFails, Others, world
<1>2. (writes \in Seq(Draft))' /\ Head(writes) \in Draft
  BY <1>1, Parts
<1>3. RowsOK'
  <2>1. PICK k, v : k = Head(writes).key /\ v = Head(writes).row
    OBVIOUS
  <2>2. k \in Keys /\ v \in Row
    BY <1>2, <2>1 DEF Draft, Keys
  <2>3. rows' = With(rows, k, v) => RowsOK'
    BY <2>2, Parts DEF With, RowsOK, RowTable
  <2>4. rows' = rows => RowsOK'
    BY Parts DEF RowsOK
  <2> QED
    BY <1>1, <2>1, <2>3, <2>4
<1>4. ScreenOK' /\ HookOK' /\ RequestsOK' /\ ServerOK' /\ StampsOK'
  BY <1>1, Parts DEF ScreenOK, HookOK, RequestsOK, ServerOK, StampsOK
<1>5. busy' \subseteq Flags /\ typed' \in 0..MaxEdits /\ signedIn' \in BOOLEAN
  BY <1>1, Parts
<1>6. TypeInv'
  BY <1>2, <1>3, <1>4, <1>5, TypesKeep, Parts
<1>7. DraftInv'
  BY <1>1, DraftLands, Parts
<1>8. CleanMeansSaved'
  <2>1. screen'.dirty \/ (~screen.dirty /\ (UndoUnderWay(requests) => UndoUnderWay(requests')))
    BY <1>1
  <2>2. ServerMoves
    BY <1>1 DEF ServerMoves
  <2> QED
    BY <1>1, <2>1, <2>2, CleanStays, Parts
<1> QED
  BY <1>6, <1>7, <1>8 DEF Inv, FormInv

LEMMA ReadKeeps == ASSUME Inv, Marked, Read PROVE Inv'
<1>1. PICK t : t = IF hook.coming.kind = "restore" THEN Restored(hook.coming.work) ELSE screen
  OBVIOUS
<1>2. /\ screen' = t /\ ReadDone(screen, t)
      /\ UNCHANGED <<rows, writes, busy, requests, typed, invoices, clock, signedIn>>
  BY <1>1 DEF Read, ReadDone, world
<1>3. hook.coming \in Banner /\ hook.coming.work \in Work
      /\ hook.coming.kind \in {"none", "restore", "stale"}
  BY Parts DEF HookType, Banner
<1>4. /\ t \in Screen /\ t.doc = screen.doc /\ t.open = screen.open
      /\ t.posted = screen.posted /\ t.stamp = screen.stamp
      /\ IF hook.coming.kind = "restore" THEN t.dirty ELSE t = screen
  BY <1>1, <1>3, Parts, RestoredFields
<1>5. PICK h : h = Rendered(hook, rows, screen, t)
  OBVIOUS
<1>6. /\ h \in HookType /\ h.orphans = hook.orphans
      /\ h.due <=> t.dirty /\ (hook.due \/ ~screen.dirty \/ t.work # screen.work)
  BY <1>4, <1>5, Parts, RenderedSame
<1>7. PICK b \in Banner : b = [hook.coming EXCEPT !.work = IF hook.coming.kind = "stale"
                                                          THEN @ ELSE {}]
  BY <1>3 DEF Banner, Work
<1>8. hook' = [h EXCEPT !.coming = NoBanner, !.banner = b,
                        !.due = @ \/ hook.coming.kind = "restore"]
  BY <1>2, <1>5, <1>7 DEF ReadDone
<1>9. /\ hook' \in HookType /\ hook'.orphans = hook.orphans
      /\ hook'.due <=> h.due \/ hook.coming.kind = "restore"
  <2>1. NoBanner \in Banner
    BY DEF NoBanner, Banner, Work
  <2>2. h.due \in BOOLEAN
    BY <1>6 DEF HookType
  <2> QED
    BY <1>6, <1>8, <2>1, <2>2 DEF HookType
<1>10. TypeInv'
  <2>1. ScreenOK' /\ HookOK'
    BY <1>2, <1>4, <1>9, Parts DEF ScreenOK, HookOK
  <2>2. RowsOK' /\ RequestsOK' /\ ServerOK' /\ StampsOK' /\ (writes \in Seq(Draft))'
    BY <1>2, <1>4, Parts DEF RowsOK, RequestsOK, ServerOK, StampsOK
  <2>3. busy' \subseteq Flags /\ typed' \in 0..MaxEdits /\ signedIn' \in BOOLEAN
    BY <1>2, Parts
  <2> QED
    BY <2>1, <2>2, <2>3, TypesKeep, Parts
<1>11. DraftInv'
  <2>1. SameForm
    BY <1>2, <1>4, <1>6, <1>9 DEF SameForm
  <2>2. RowsOnlyGo
    BY <1>2 DEF RowsOnlyGo
  <2> QED
    BY <1>2, <2>1, <2>2, DraftStays, Parts
<1>12. CleanMeansSaved'
  <2>1. CASE t.dirty
    BY <1>2, <2>1, CleanAnew
  <2>2. CASE ~t.dirty
    BY <1>2, <1>4, <2>2, CleanStays, Parts DEF ServerMoves
  <2> QED
    BY <2>1, <2>2
<1> QED
  BY <1>10, <1>11, <1>12 DEF Inv, FormInv

-----------------------------------------------------------------------------
(* The answers *)

\* An answer that does not reach the form: it may drop drafts.
LEMMA BehindKeeps ==
    ASSUME Inv, Marked, UNCHANGED <<screen, hook, writes, typed, signedIn>>,
           RowsOnlyGo, RowsOK', RequestsOK', busy' \subseteq Flags,
           ServerOK', ServerMoves, DOMAIN invoices \subseteq DOMAIN invoices', clock <= clock',
           UndoUnderWay(requests) => UndoUnderWay(requests')
    PROVE  Inv'
<1>1. StampsOK'
  <2>1. screen.stamp \in Nat /\ clock' \in Nat /\ screen.stamp <= clock /\ clock \in Nat
    BY Parts, EditorAssumption DEF Screen, ServerOK, StampsOK
  <2> QED
    BY <2>1 DEF StampsOK
<1>2. ScreenOK' /\ HookOK' /\ (writes \in Seq(Draft))'
  BY Parts DEF ScreenOK, HookOK
<1>3. typed' \in 0..MaxEdits /\ signedIn' \in BOOLEAN
  BY Parts
<1>4. TypeInv'
  BY <1>1, <1>2, <1>3, TypesKeep, Parts
<1>5. DraftInv'
  BY DraftStays, Parts DEF SameForm
<1>6. CleanMeansSaved'
  <2>1. screen'.dirty \/ (~screen.dirty /\ (UndoUnderWay(requests) => UndoUnderWay(requests')))
    OBVIOUS
  <2> QED
    BY <2>1, CleanStays, Parts
<1> QED
  BY <1>4, <1>5, <1>6 DEF Inv, FormInv

\* The form becomes what the server keeps of an invoice, or is emptied.
LEMMA TakenKeeps ==
    ASSUME Inv, Marked, screen' \in Screen, ~screen'.dirty,
           screen'.posted => screen'.doc # New, screen'.stamp <= clock',
           \/ screen'.doc = New
           \/ screen'.doc \in DOMAIN invoices' /\ FormIs(screen', invoices'),
           HookOK', RowsOK', RequestsOK', ServerOK', busy' \subseteq Flags,
           UNCHANGED <<writes, typed, signedIn>>
    PROVE  Inv'
<1>1. ScreenOK' /\ StampsOK' /\ (writes \in Seq(Draft))'
  BY Parts DEF ScreenOK, StampsOK
<1>2. typed' \in 0..MaxEdits /\ signedIn' \in BOOLEAN
  BY Parts
<1>3. TypeInv'
  BY <1>1, <1>2, TypesKeep, Parts
<1>4. DraftInv' /\ CleanMeansSaved'
  BY NoDraft, CleanAnew
<1> QED
  BY <1>3, <1>4 DEF Inv, FormInv

LEMMA DoneMoves ==
    ASSUME Inv, NEW r \in requests, NEW d \in Docs, Done(r, d)
    PROVE  /\ ServerMoves /\ ServerOK' /\ DOMAIN invoices \subseteq DOMAIN invoices'
           /\ d \in DOMAIN invoices' /\ clock <= clock'
           /\ invoices'[d] \in Invoice /\ invoices'[d].stamp <= clock'
<1>1. /\ ServerOK' /\ DOMAIN invoices \subseteq DOMAIN invoices' /\ d \in DOMAIN invoices'
      /\ clock <= clock'
  BY Parts, DoneTyped
<1>2. ServerMoves
  <2>1. CASE UNCHANGED <<invoices, clock>>
    BY <2>1 DEF ServerMoves
  <2>2. CASE ~UNCHANGED <<invoices, clock>>
    <3>1. /\ ~Reads(r) /\ clock' = clock + 1 /\ invoices'[d] = Result(r)
          /\ Saves(r) => invoices'[d].stamp = clock'
          /\ \A e \in DOMAIN invoices \ {d} : invoices'[e] = invoices[e]
          /\ r.doc # New => d = r.doc
      BY <2>2, Parts, DoneTyped
    <3>2. CASE Saves(r)
      BY <3>1, <3>2 DEF ServerMoves
    <3>3. CASE ~Saves(r)
      <4>1. d = r.doc
        BY <3>1, <3>3, Parts DEF RequestsOK, ServerOK, Saves
      <4>2. invoices'[d].stamp = invoices[d].stamp /\ invoices'[d].work = invoices[d].work
        BY <3>1, <3>3, <4>1 DEF Result
      <4> QED
        BY <3>1, <4>2 DEF ServerMoves
    <3> QED
      BY <3>2, <3>3
  <2> QED
    BY <2>1, <2>2
<1> QED
  BY <1>1, <1>2 DEF ServerOK

LEMMA GoesOnTyped ==
    ASSUME Inv, NEW r \in requests, NEW d \in Docs, d \in DOMAIN invoices',
           DOMAIN invoices \subseteq DOMAIN invoices',
           GoesOn(r, After(r, d)) \/ GoesOn(r, {})
    PROVE  /\ RequestsOK' /\ busy' \subseteq Flags
           /\ r.op # "undo" \/ ~r.mounted =>
                 (UndoUnderWay(requests) => UndoUnderWay(requests'))
<1>1. r \in Request
  BY Parts DEF RequestsOK
<1>2. PICK next : /\ requests' = (requests \ {r}) \cup next
                  /\ busy' \subseteq busy \cup {FlagOf[n.op] : n \in next}
                  /\ next \subseteq After(r, d)
  <2>1. PICK N : /\ N = After(r, d) \/ N = {}
                 /\ GoesOn(r, N)
    OBVIOUS
  <2>2. /\ requests' = (requests \ {r}) \cup N
        /\ busy' \subseteq busy \cup {FlagOf[n.op] : n \in N}
    BY <2>1 DEF GoesOn
  <2> QED
    BY <2>1, <2>2
<1>3. \A n \in After(r, d) : /\ n \in Request /\ n.doc = d
                             /\ n.op \in {"post", "intent", "collect"}
  <2>1. SUFFICES ASSUME r.then \in {"post", "intent", "collect"}
                 PROVE  LET n == FollowedUp(r, r.then, d)
                        IN  /\ n \in Request /\ n.doc = d
                            /\ n.op \in {"post", "intent", "collect"}
    BY <1>1 DEF After, Request
  <2>2. r.then \in Ops /\ {} \in Work
    BY <2>1 DEF Ops, Work
  <2> QED
    BY <1>1, <2>1, <2>2 DEF FollowedUp, Request
<1>4. \A n \in next : FlagOf[n.op] \in Flags
  <2>1. \A op \in {"post", "intent", "collect"} : FlagOf[op] \in Flags
    BY DEF FlagOf, Flags, Ops
  <2> QED
    BY <1>2, <1>3, <2>1
<1>5. busy' \subseteq Flags
  BY <1>2, <1>4, Parts
<1>6. RequestsOK'
  <2>1. d # New
    BY Keyed
  <2> QED
    BY <1>2, <1>3, <2>1, Parts DEF RequestsOK
<1>7. r.op # "undo" \/ ~r.mounted => (UndoUnderWay(requests) => UndoUnderWay(requests'))
  BY <1>2 DEF UndoUnderWay
<1> QED
  BY <1>5, <1>6, <1>7

\* What an answer does to the form t, or to the drafts behind it
LEMMA TakeTyped ==
    ASSUME Inv, NEW r \in requests, NEW t \in Screen, Take(r, t)
    PROVE  /\ RowsOK' /\ RowsOnlyGo
           /\ r.mounted => screen' = t /\ HookOK'
           /\ ~r.mounted => UNCHANGED <<screen, hook>>
<1>1. CASE r.mounted
  <2>1. CASE r.op \in {"save", "post", "undo"}
    <3>1. screen' = t /\ Discard(r.drops, screen, t)
      BY <1>1, <2>1 DEF Take
    <3>2. /\ rows' = Without(r.drops \cup {hook.adopted}) \/ rows' = rows
          /\ hook' \in HookType /\ (hook'.orphans # {} => t.doc = New)
      BY <3>1, Parts, DiscardTyped
    <3> QED
      BY <1>1, <3>1, <3>2, GoOnly, Parts DEF HookOK
  <2>2. CASE r.op \notin {"save", "post", "undo"}
    <3>1. screen' = t /\ hook' = Rendered(hook, rows, screen, t) /\ UNCHANGED rows
      BY <1>1, <2>2 DEF Take
    <3>2. HookOK' /\ RowsOK' /\ RowsOnlyGo
      BY <3>1, ShowTyped, Parts DEF RowsOK, RowsOnlyGo
    <3> QED
      BY <1>1, <3>1, <3>2
  <2> QED
    BY <2>1, <2>2
<1>2. CASE ~r.mounted
  <2>1. rows' = Without(r.drops) \/ rows' = rows
    BY <1>2 DEF Take
  <2>2. UNCHANGED <<screen, hook>>
    BY <1>2 DEF Take
  <2>3. RowsOK' /\ RowsOnlyGo
    BY <2>1, GoOnly, Parts DEF RowsOK, RowsOnlyGo
  <2> QED
    BY <1>2, <2>2, <2>3
<1> QED
  BY <1>1, <1>2

LEMMA AnsweredKeeps ==
    ASSUME Inv, Marked, NEW r \in requests, NEW d \in Docs, Answered(r, d)
    PROVE  Inv'
<1>1. Done(r, d) /\ UNCHANGED <<writes, typed, signedIn>>
  BY DEF Answered
<1>2. /\ ServerMoves /\ ServerOK' /\ DOMAIN invoices \subseteq DOMAIN invoices'
      /\ d \in DOMAIN invoices' /\ clock <= clock'
      /\ invoices'[d] \in Invoice /\ invoices'[d].stamp <= clock'
  BY <1>1, DoneMoves
<1>3. GoesOn(r, After(r, d)) \/ GoesOn(r, {})
  BY DEF Answered
<1>4. /\ RequestsOK' /\ busy' \subseteq Flags
      /\ r.op # "undo" \/ ~r.mounted => (UndoUnderWay(requests) => UndoUnderWay(requests'))
  BY <1>2, <1>3, GoesOnTyped
<1>5. CASE r.op = "patch"
  <2>1. UNCHANGED <<rows, hook, screen>>
    BY <1>5 DEF Answered
  <2>2. RowsOK' /\ RowsOnlyGo
    BY <2>1, Parts DEF RowsOK, RowsOnlyGo
  <2> QED
    BY <1>1, <1>2, <1>4, <1>5, <2>1, <2>2, BehindKeeps
<1>6. CASE r.op # "patch"
  <2>1. PICK t : t = Applied(screen, d, invoices'[d])
    OBVIOUS
  <2>2. PICK u : u = IF r.then = "new" THEN Blank(t) ELSE t
    OBVIOUS
  <2>3. Take(r, u)
    BY <1>6, <2>1, <2>2 DEF Answered
  <2>4. /\ t \in Screen /\ t.doc = d /\ t.work = invoices'[d].work /\ ~t.dirty
        /\ t.posted = invoices'[d].posted /\ t.stamp = invoices'[d].stamp
    BY <1>2, <2>1, Parts, ScreenFields
  <2>5. /\ Blank(t) \in Screen /\ Blank(t).doc = New /\ ~Blank(t).dirty
        /\ ~Blank(t).posted /\ Blank(t).stamp = NoStamp
    BY <2>4, ScreenFields
  <2>6. NoStamp <= clock'
    BY <1>2, EditorAssumption DEF ServerOK, NoStamp
  <2>7. d # New
    BY Keyed
  <2>8. /\ u \in Screen /\ ~u.dirty /\ (u.posted => u.doc # New) /\ u.stamp <= clock'
        /\ u.doc = New \/ (u.doc \in DOMAIN invoices' /\ FormIs(u, invoices'))
    BY <1>2, <2>2, <2>4, <2>5, <2>6, <2>7 DEF FormIs
  <2>9. /\ RowsOK' /\ RowsOnlyGo /\ (r.mounted => screen' = u /\ HookOK')
        /\ ~r.mounted => UNCHANGED <<screen, hook>>
    BY <2>3, <2>8, TakeTyped
  <2>10. CASE r.mounted
    BY <1>1, <1>2, <1>4, <2>8, <2>9, <2>10, TakenKeeps
  <2>11. CASE ~r.mounted
    BY <1>1, <1>2, <1>4, <2>9, <2>11, BehindKeeps
  <2> QED
    BY <2>10, <2>11
<1> QED
  BY <1>5, <1>6

LEMMA FailedKeeps ==
    ASSUME Inv, Marked, NEW r \in requests, Failed(r)
    PROVE  Inv'
<1>1. UNCHANGED <<writes, typed, signedIn>> /\ requests' = requests \ {r}
  BY DEF Failed
<1>2. /\ ServerMoves /\ ServerOK' /\ DOMAIN invoices \subseteq DOMAIN invoices'
      /\ clock <= clock'
  <2>1. CASE UNCHANGED <<invoices, clock>>
    BY <2>1, Parts DEF ServerMoves, ServerOK
  <2>2. ASSUME NEW d \in Docs, Done(r, d)
        PROVE  /\ ServerMoves /\ ServerOK' /\ DOMAIN invoices \subseteq DOMAIN invoices'
               /\ clock <= clock'
    BY <2>2, DoneMoves
  <2> QED
    BY <2>1, <2>2 DEF Failed, Unanswered
<1>3. RequestsOK'
  BY <1>1, <1>2, Parts DEF RequestsOK
<1>4. busy' \subseteq Flags
  BY Parts DEF Failed
<1>5. r.op # "undo" \/ ~r.mounted => (UndoUnderWay(requests) => UndoUnderWay(requests'))
  BY <1>1 DEF UndoUnderWay
<1>6. \/ r.mounted /\ Show(Blank(screen)) /\ UNCHANGED rows
      \/ r.op = "undo" /\ Take(r, screen)
      \/ r.op # "undo" /\ UNCHANGED <<rows, hook, screen>>
  BY DEF Failed
<1>7. CASE Show(Blank(screen)) /\ UNCHANGED rows
  <2>1. PICK t : t = Blank(screen)
    OBVIOUS
  <2>2. t \in Screen /\ EmptyForm(t)
    BY <2>1, Parts, ScreenFields DEF EmptyForm
  <2>3. screen' = t /\ hook' = Rendered(hook, rows, screen, t)
    BY <1>7, <2>1 DEF Show
  <2>4. HookOK' /\ EmptyForm(screen')
    BY <2>2, <2>3, Parts, ShowTyped
  <2>5. RowsOK' /\ (writes \in Seq(Draft))'
    BY <1>1, <1>7, Parts DEF RowsOK
  <2>6. typed' \in 0..MaxEdits /\ signedIn' \in BOOLEAN
    BY <1>1, Parts
  <2> QED
    BY <1>2, <1>3, <1>4, <2>4, <2>5, <2>6, EmptyFormKeeps
<1>8. CASE r.op = "undo" /\ Take(r, screen)
  <2>1. /\ RowsOK' /\ RowsOnlyGo /\ screen' = screen
        /\ (r.mounted => HookOK') /\ (~r.mounted => hook' = hook)
    BY <1>8, Parts, TakeTyped
  <2>2. CASE ~r.mounted
    BY <1>1, <1>2, <1>3, <1>4, <1>5, <2>1, <2>2, BehindKeeps
  <2>3. CASE r.mounted
    <3>1. UNCHANGED <<invoices, clock>>
      BY <1>8 DEF Failed, Unanswered, Reads
    <3>2. screen.dirty /\ ~hook'.due => ~hook.due
      <4>1. Discard(r.drops, screen, screen)
        BY <1>8, <2>3 DEF Take
      <4>2. hook'.due <=> screen.dirty /\ (hook.due \/ ~screen.dirty)
        BY <4>1, Parts, DiscardTyped
      <4> QED
        BY <4>2
    <3>3. DraftInv'
      <4>1. SameForm
        BY <2>1, <3>2 DEF SameForm
      <4> QED
        BY <1>1, <2>1, <4>1, DraftStays, Parts
    <3>4. CleanMeansSaved'
      <4>1. CASE ~screen.open \/ screen.dirty
        BY <2>1, <4>1, CleanAnew
      <4>2. CASE screen.open /\ ~screen.dirty
        <5>1. UndoFailed
          BY <1>1, <1>8, <2>1, <2>3, <3>1, <4>2 DEF UndoFailed
        <5>2. Same
          BY <2>1, <4>2 DEF Same
        <5>3. "undoFailed" \in marks'
          BY <5>1, <5>2 DEF Marked
        <5> QED
          BY <1>2, <2>1, <5>3, CleanStays, Parts
      <4> QED
        BY <4>1, <4>2
    <3>5. ScreenOK' /\ StampsOK' /\ (writes \in Seq(Draft))'
      BY <1>1, <2>1, <3>1, Parts DEF ScreenOK, StampsOK
    <3>6. typed' \in 0..MaxEdits /\ signedIn' \in BOOLEAN
      BY <1>1, Parts
    <3>7. TypeInv'
      BY <1>2, <1>3, <1>4, <2>1, <2>3, <3>5, <3>6, TypesKeep, Parts
    <3> QED
      BY <3>3, <3>4, <3>7 DEF Inv, FormInv
  <2> QED
    BY <2>2, <2>3
<1>9. CASE r.op # "undo" /\ UNCHANGED <<rows, hook, screen>>
  <2>1. RowsOK' /\ RowsOnlyGo
    BY <1>9, Parts DEF RowsOK, RowsOnlyGo
  <2> QED
    BY <1>1, <1>2, <1>3, <1>4, <1>5, <1>9, <2>1, BehindKeeps
<1> QED
  BY <1>6, <1>7, <1>8, <1>9

-----------------------------------------------------------------------------
(* Every step *)

LEMMA InitInv == ASSUME Init PROVE Inv
<1>1. /\ screen = [open |-> FALSE, doc |-> New, work |-> {}, dirty |-> FALSE,
                   posted |-> FALSE, view |-> FALSE, stamp |-> NoStamp]
      /\ hook = NoHook /\ writes = <<>> /\ busy = {} /\ requests = {} /\ marks = {}
      /\ signedIn = TRUE
  BY DEF Init
<1>2. screen \in Screen
  BY <1>1 DEF Screen, Work, NoStamp
<1>3. ScreenOK /\ HookOK
  BY <1>1, <1>2, NoHookTyped DEF ScreenOK, HookOK
<1>4. typed \in 0..MaxEdits
  BY DraftsAssumption DEF Init
<1>5. RowsOK
  <2>1. CASE rows = <<>>
    BY <2>1, EmptySeq DEF RowsOK, RowTable
  <2>2. CASE rows = [k \in {Orphan} |-> [work |-> {1}, stamp |-> NoStamp]]
    <3>1. [work |-> {1}, stamp |-> NoStamp] \in Row
      BY DraftsAssumption DEF Row, Work, Edits, NoStamp
    <3> QED
      BY <2>2, <3>1 DEF RowsOK, RowTable, Keys
  <2> QED
    BY <2>1, <2>2 DEF Init
<1>6. ServerOK
  <2>1. CASE invoices = <<>>
    BY <2>1, EmptySeq, EditorAssumption DEF Init, ServerOK
  <2>2. CASE invoices = [d \in {CHOOSE d \in Docs : TRUE} |->
                            [work |-> {}, posted |-> FALSE, stamp |-> 1]]
    <3>1. PICK e \in Docs : e = CHOOSE d \in Docs : TRUE
      BY DraftsAssumption
    <3>2. PICK v : v = [work |-> {}, posted |-> FALSE, stamp |-> 1]
      OBVIOUS
    <3>3. v \in Invoice /\ v.stamp = 1
      BY <3>2 DEF Invoice, Work
    <3>4. DOMAIN invoices = {e} /\ invoices[e] = v
      BY <2>2, <3>1, <3>2
    <3>5. clock = 1
      <4>1. invoices # <<>>
        BY <3>4, EmptySeq
      <4> QED
        BY <4>1 DEF Init
    <3> QED
      BY <3>1, <3>3, <3>4, <3>5, EditorAssumption DEF ServerOK
  <2> QED
    BY <2>1, <2>2 DEF Init
<1>7. RequestsOK /\ writes \in Seq(Draft)
  BY <1>1 DEF RequestsOK
<1>8. StampsOK
  BY <1>1, <1>6, EditorAssumption DEF StampsOK, ServerOK, NoStamp
<1>9. RestOK
  BY <1>1, <1>4 DEF RestOK
<1>10. DraftInv /\ CleanMeansSaved
  BY <1>1 DEF DraftInv, CleanMeansSaved
<1> QED
  BY <1>3, <1>5, <1>6, <1>7, <1>8, <1>9, <1>10 DEF Inv, TypeInv, FormInv

LEMMA StepKeeps == ASSUME Inv, [Next]_vars PROVE Inv'
<1>1. CASE UNCHANGED vars
  <2>1. UNCHANGED <<rows, writes, hook, screen, typed, busy, requests, invoices, clock,
                    signedIn, marks>>
    BY <1>1 DEF vars, drafts
  <2>2. TypeInv'
    BY <2>1, Parts
       DEF TypeInv, ScreenOK, RowsOK, HookOK, RequestsOK, ServerOK, RestOK, StampsOK, Inv
  <2>3. FormInv'
    BY <2>1 DEF Inv, FormInv, DraftInv, CleanMeansSaved
  <2> QED
    BY <2>2, <2>3 DEF Inv
<1>2. CASE UserStep /\ Marked
  <2>1. CASE \/ \E d \in DOMAIN invoices \cup {New} : OpenEditor(d)
             \/ \E d \in DOMAIN invoices : Navigate(d)
    BY <1>2, <2>1, OpenEditorKeeps, NavigateKeeps
  <2>2. CASE \/ Edit \/ StartEditing \/ ApplyStale
             \/ \E k \in hook.orphans : OpenOrphan(k)
    BY <1>2, <2>2, EditsKeep
  <2>3. CASE Reset \/ Close \/ ReloadPage \/ SignOut
    BY <1>2, <2>3, ResetKeeps, CloseKeeps, ReloadKeeps, SignOutKeeps
  <2>4. CASE Undo \/ DiscardStale \/ \E k \in hook.orphans : DeleteOrphan(k)
    BY <1>2, <2>4, UndoKeeps, DiscardStaleKeeps, DeleteOrphanKeeps
  <2>5. CASE \/ Save \/ SaveAndPost \/ SaveThenNew \/ Post \/ Unpost
             \/ PayFull \/ WriteIntent \/ Collect
    BY <1>2, <2>5, ButtonsKeep
  <2> QED
    BY <1>2, <2>1, <2>2, <2>3, <2>4, <2>5 DEF UserStep
<1>3. CASE HookStep /\ Marked
  BY <1>3, DebounceKeeps, WriteEndsKeeps, ReadKeeps DEF HookStep
<1>4. CASE NetStep /\ Marked
  BY <1>4, AnsweredKeeps, FailedKeeps DEF NetStep, Ends
<1> QED
  BY <1>1, <1>2, <1>3, <1>4 DEF Next

LEMMA InvTyped == ASSUME Inv PROVE TypeOK
<1>1. DraftsTypeOK
  <2>1. \A i \in DOMAIN writes : writes[i] \in Draft
    BY Parts
  <2>2. DOMAIN rows \subseteq Keys /\ \A k \in DOMAIN rows : rows[k] \in Row
    BY Parts DEF RowsOK, RowTable
  <2> QED
    BY <2>1, <2>2, Parts DEF DraftsTypeOK, Draft
<1>2. \A d \in DOMAIN invoices : invoices[d] \in Invoice
  BY Parts DEF ServerOK
<1> QED
  BY <1>1, <1>2, Parts DEF Inv, TypeInv, TypeOK, ScreenOK, RequestsOK, ServerOK, RestOK

LEMMA InvFollows == ASSUME Inv PROVE DraftFollowsForm
  BY DEF Inv, FormInv, DraftInv, DraftFollowsForm

-----------------------------------------------------------------------------
(* No edit in two invoices: the copies of an edit on the form, in requests, *)
(* in drafts, in writes and on the server are all of one invoice, or of the *)
(* invoice that is not saved yet.                                           *)

Calm == "apart" \notin marks

OnForm(k, x) == /\ screen.doc = k
                /\ x \in screen.work \/ x \in hook.coming.work \/ x \in hook.banner.work
Sent(k, x) == \E r \in requests : r.doc = k /\ x \in r.work
Drafted(k, x) == k \in DOMAIN rows /\ x \in rows[k].work
Saved(k, x) == k \in DOMAIN invoices /\ x \in invoices[k].work
OnItsWay(k, x) == \E i \in 1..Len(writes) : writes[i].key = k /\ x \in writes[i].row.work

OfInvoice(d, x) ==
    OnForm(d, x) \/ Sent(d, x) \/ Drafted(d, x) \/ Saved(d, x) \/ OnItsWay(d, x)
Unsaved(x) == OnForm(New, x) \/ Sent(New, x) \/ Drafted(New, x)
OfNew(x) == Unsaved(x) \/ Drafted(Orphan, x)

\* An edit has one owner.
OneOwner ==
    \A d \in Docs : \A x : OfInvoice(d, x) =>
        ~OfNew(x) /\ \A e \in Docs \ {d} : ~OfInvoice(e, x)

\* A draft of the new invoice, written too late, that the invoice d has since taken:
\* d has it wherever it has anything, and no draft of its own yet.
Carries(d, x) ==
    /\ Saved(d, x) /\ d \notin DOMAIN rows
    /\ screen.doc = d => /\ x \in screen.work /\ hook.coming = NoBanner
                         /\ hook.banner.kind # "stale"
    /\ \A r \in requests : r.doc = d /\ r.op \in {"save", "patch"} => x \in r.work
LateFor(i, d) == \A j \in 1..Len(writes) : writes[j].key = d => j > i
Overtaken ==
    \A i \in 1..Len(writes) : writes[i].key = New =>
        \A x \in writes[i].row.work : \A d \in Docs : OfInvoice(d, x) =>
            Carries(d, x) /\ LateFor(i, d)

\* An invoice is being made from the form, which goes on holding what was sent.
Creates(r) == r.op = "save" /\ r.doc = New
OneCreation ==
    \A r \in requests : Creates(r) =>
        /\ screen.open /\ screen.doc = New /\ r.work \subseteq screen.work /\ r.mounted
        /\ \A q \in requests : Creates(q) => q = r

\* An orphan that nobody opened shares nothing.
OrphanApart ==
    Orphan \in DOMAIN rows /\ hook.adopted # Orphan =>
        \A x \in rows[Orphan].work : ~Unsaved(x) /\ ~OnItsWay(New, x)

\* What the database is going to restore is not on the form yet.
ComingApart == screen.doc = New => \A x \in hook.coming.work : x \notin screen.work
NoStaleNew == screen.doc = New => hook.banner.kind # "stale"

OwnersInv == OneOwner /\ Overtaken /\ OneCreation /\ OrphanApart /\ ComingApart /\ NoStaleNew

\* What holds even of invoices that were made twice
Known(x) == (\E d \in Docs : OfInvoice(d, x)) \/ OfNew(x) \/ OnItsWay(New, x)
Tidy ==
    /\ \A x : Known(x) => x \in 1..typed
    /\ screen.doc = New /\ screen.work # {} => screen.dirty
    /\ hook.banner.kind # "stale" => hook.banner.work = {}
    /\ hook.coming.kind = "none" => hook.coming.work = {}
    /\ screen.doc = New => hook.coming.kind # "stale"
    /\ DOMAIN rows \subseteq DOMAIN invoices \cup {New, Orphan}
    /\ \A i \in 1..Len(writes) : writes[i].key \in DOMAIN invoices \cup {New}
    /\ \A r \in requests : r.op = "save" => (New \in r.drops <=> r.doc = New)
    /\ IsFiniteSet(requests)

OwnersKept == Tidy /\ (Calm => OwnersInv)

LEMMA CalmBefore == ASSUME Marked, Calm' PROVE Calm /\ ~Disturbed
  BY DEF Marked, Calm

LEMMA OwnersGive == ASSUME Inv, OwnersKept PROVE SavedOnce
<1> SUFFICES ASSUME Calm, NEW d \in DOMAIN invoices, NEW e \in DOMAIN invoices, d # e,
                    NEW x, x \in invoices[d].work, x \in invoices[e].work
             PROVE  FALSE
  BY DEF SavedOnce, Calm
<1>1. d \in Docs /\ e \in Docs
  BY Parts DEF ServerOK
<1>2. OfInvoice(d, x) /\ OfInvoice(e, x)
  BY DEF OfInvoice, Saved
<1>3. OneOwner
  BY DEF OwnersKept, OwnersInv
<1> QED
  BY <1>1, <1>2, <1>3 DEF OneOwner

\* The creations of the history are those of the invariant.
LEMMA CreationsAre ==
    ASSUME Tidy
    PROVE  \A r : r \in Creations(requests) <=> r \in requests /\ Creates(r)
  BY DEF Tidy, Creations, Creates

LEMMA AtMostOne ==
    ASSUME NEW S, IsFiniteSet(S), ~(Cardinality(S) > 1), NEW a \in S, NEW b \in S
    PROVE  a = b
<1> SUFFICES ASSUME a # b PROVE FALSE
  OBVIOUS
<1>1. {a, b} \subseteq S /\ IsFiniteSet({a}) /\ Cardinality({a}) = 1
  BY FS_Singleton
<1>2. Cardinality({a} \cup {b}) = Cardinality({a}) + 1
  BY <1>1, FS_AddElement
<1>3. Cardinality({a} \cup {b}) <= Cardinality(S)
  BY <1>1, FS_Subset
<1>4. Cardinality(S) \in Nat
  BY FS_CardinalityType
<1> QED
  BY <1>1, <1>2, <1>3, <1>4

-----------------------------------------------------------------------------
(* The steps that make no edit and land no draft: what a form, a request, a *)
(* draft or an invoice holds after them, something held before.             *)

FormKept ==
    /\ screen'.doc = screen.doc /\ screen'.work = screen.work
    /\ screen'.dirty \/ screen'.dirty = screen.dirty \/ screen.doc # New
FormEmptied == screen'.doc = New /\ screen'.work = {}
FormTaken == screen'.doc \in DOMAIN invoices' /\ screen'.work = invoices'[screen'.doc].work
FormRestored ==
    /\ screen'.doc = screen.doc /\ screen'.dirty
    /\ \/ hook.coming.kind = "restore" /\ screen'.work \subseteq hook.coming.work
          /\ hook'.coming = NoBanner
       \/ hook.banner.kind = "stale" /\ screen'.work \subseteq hook.banner.work
OrphanOpened ==
    /\ screen.doc = New /\ screen'.doc = New /\ screen'.dirty
    /\ hook'.coming = NoBanner /\ hook'.adopted = Orphan
    /\ Orphan \in DOMAIN rows /\ screen'.work \subseteq rows[Orphan].work
FormMoves == FormKept \/ FormEmptied \/ FormTaken \/ FormRestored \/ OrphanOpened

ComingMoves ==
    \/ hook'.coming = NoBanner
    \/ screen'.doc = screen.doc /\ hook'.coming = hook.coming
    \/ hook'.coming = Found(rows', screen')
       /\ (screen'.doc # screen.doc \/ screen'.work = {})
BannerMoves ==
    \/ hook'.banner = hook.banner \/ hook'.banner = NoBanner
    \/ /\ screen'.doc = screen.doc /\ hook.coming # NoBanner
       /\ hook'.banner.kind = hook.coming.kind
       /\ hook'.banner.work = IF hook.coming.kind = "stale" THEN hook.coming.work ELSE {}
AdoptedMoves ==
    \/ hook'.adopted = hook.adopted \/ hook'.adopted = Orphan
    \/ Orphan \notin DOMAIN rows' \/ rows' = rows \/ ~screen'.open \/ ~screen.open

Follows(q, r) ==
    /\ q.op = r.op /\ q.doc = r.doc /\ q.work = r.work
    /\ New \in q.drops <=> New \in r.drops
    /\ r.mounted => q.mounted \/ ~screen'.open
Asked(q) ==
    /\ q.op \in {"save", "patch"} /\ q.doc = screen.doc /\ q.work = screen.work
    /\ q.drops = {screen.doc} /\ q.mounted /\ screen.open /\ screen' = screen
Silent(q) == q.op \notin {"save", "patch"} /\ q.work = {}
RequestsMove ==
    \A q \in requests' : Silent(q) \/ Asked(q) \/ \E r \in requests : Follows(q, r)

TakesFrom(r, d) ==
    /\ r.op \in {"save", "patch"} /\ invoices'[d].work = r.work
    /\ r.doc = d \/ (r.doc = New /\ d \notin DOMAIN invoices)
ServerTakes ==
    /\ DOMAIN invoices \subseteq DOMAIN invoices'
    /\ \A d \in DOMAIN invoices' :
          \/ d \in DOMAIN invoices /\ invoices'[d].work = invoices[d].work
          \/ \E r \in requests : TakesFrom(r, d)

WritesMove == writes' = writes \/ writes' = Written(writes, screen) \/ writes' = <<>>

Moves ==
    /\ FormMoves /\ ComingMoves /\ BannerMoves /\ AdoptedMoves
    /\ RequestsMove /\ IsFiniteSet(requests') /\ ServerTakes /\ WritesMove
    /\ RowsOnlyGo /\ typed' = typed

LEMMA FoundGives ==
    ASSUME NEW db, RowTable(db), NEW s \in Screen, NEW b, b = Found(db, s)
    PROVE  /\ b.kind = "none" => b.work = {}
           /\ s.doc \notin DOMAIN db => b = NoBanner
           /\ s.doc = New => b.kind # "stale"
           /\ \A x \in b.work : s.doc \in DOMAIN db /\ x \in db[s.doc].work
<1>1. NoBanner.kind = "none" /\ NoBanner.work = {}
  BY DEF NoBanner
<1>2. CASE s.doc \in DOMAIN db /\ Eligibility(db[s.doc], s) # "none"
  <2>1. b.kind = Eligibility(db[s.doc], s) /\ b.work = db[s.doc].work
    BY <1>2 DEF Found
  <2>2. s.doc = New => Eligibility(db[s.doc], s) # "stale"
    BY DEF Eligibility, Stamp
  <2> QED
    BY <1>2, <2>1, <2>2
<1>3. CASE ~(s.doc \in DOMAIN db /\ Eligibility(db[s.doc], s) # "none")
  BY <1>1, <1>3 DEF Found
<1> QED
  BY <1>2, <1>3

LEMMA WritesGive ==
    ASSUME Inv, WritesMove, NEW i \in 1..Len(writes')
    PROVE  \/ i \in 1..Len(writes) /\ writes'[i] = writes[i]
           \/ /\ i = Len(writes) + 1
              /\ writes'[i].key = screen.doc /\ writes'[i].row.work = screen.work
<1>1. writes \in Seq(Draft) /\ HookOK /\ screen \in Screen
  BY DEF Inv, TypeInv, ScreenOK
<1>2. CASE writes' = writes
  BY <1>2
<1>3. CASE writes' = <<>>
  BY <1>3, EmptySeq
<1>4. CASE writes' = Written(writes, screen) /\ ~screen.dirty
  BY <1>1, <1>4, WrittenTyped
<1>5. CASE writes' = Written(writes, screen) /\ screen.dirty
  <2>1. /\ Len(writes') = Len(writes) + 1
        /\ \A j \in 1..Len(writes) : writes'[j] = writes[j]
        /\ writes'[Len(writes) + 1].key = screen.doc
        /\ writes'[Len(writes) + 1].row.work = screen.work
    BY <1>1, <1>5, WrittenTyped
  <2>2. Len(writes) \in Nat
    BY <1>1
  <2>3. i \in 1..Len(writes) \/ i = Len(writes) + 1
    BY <2>1, <2>2
  <2> QED
    BY <2>1, <2>3
<1> QED
  BY <1>2, <1>3, <1>4, <1>5 DEF WritesMove

\* What is on the form came from the form, the drafts, or the server.
LEMMA FormGives ==
    ASSUME Inv, Inv', Moves, NEW x,
           x \in screen'.work \/ x \in hook'.coming.work \/ x \in hook'.banner.work
    PROVE  \/ screen'.doc = screen.doc /\ OnForm(screen.doc, x)
           \/ FormTaken /\ x \in screen'.work
           \/ Drafted(screen'.doc, x)
           \/ OrphanOpened /\ Drafted(Orphan, x)
           \/ screen'.doc # screen.doc /\ hook'.banner = hook.banner /\ x \in hook.banner.work
<1>1. NoBanner.work = {}
  BY DEF NoBanner
<1>2. CASE x \in screen'.work
  BY <1>2 DEF Moves, FormMoves, FormKept, FormEmptied, FormRestored, OrphanOpened, OnForm,
              Drafted
<1>3. CASE x \in hook'.coming.work
  <2>1. CASE screen'.doc = screen.doc /\ hook'.coming = hook.coming
    BY <1>3, <2>1 DEF OnForm
  <2>2. CASE hook'.coming = Found(rows', screen')
    <3>1. PICK db, s, b : db = rows' /\ s = screen' /\ b = hook'.coming
      OBVIOUS
    <3>2. RowTable(db) /\ s \in Screen
      BY <3>1 DEF Inv, TypeInv, RowsOK, ScreenOK
    <3>3. b = Found(db, s) /\ x \in b.work
      BY <1>3, <2>2, <3>1
    <3>4. s.doc \in DOMAIN db /\ x \in db[s.doc].work
      BY <3>2, <3>3, FoundGives
    <3> QED
      BY <3>1, <3>4 DEF Moves, RowsOnlyGo, Drafted
  <2> QED
    BY <1>1, <1>3, <2>1, <2>2 DEF Moves, ComingMoves
<1>4. CASE x \in hook'.banner.work
  BY <1>1, <1>4 DEF Moves, BannerMoves, OnForm
<1> QED
  BY <1>2, <1>3, <1>4

LEMMA SentGives ==
    ASSUME Moves, NEW k, NEW x, Sent(k, x)'
    PROVE  Sent(k, x) \/ OnForm(k, x)
<1>1. PICK q \in requests' : q.doc = k /\ x \in q.work
  BY DEF Sent
<1>2. ~Silent(q)
  BY <1>1 DEF Silent
<1>3. CASE Asked(q)
  BY <1>1, <1>3 DEF Asked, OnForm
<1>4. CASE \E r \in requests : Follows(q, r)
  BY <1>1, <1>4 DEF Follows, Sent
<1> QED
  BY <1>2, <1>3, <1>4 DEF Moves, RequestsMove

LEMMA DraftedGives ==
    ASSUME Moves, NEW k, NEW x, Drafted(k, x)'
    PROVE  Drafted(k, x)
  BY DEF Moves, RowsOnlyGo, Drafted

LEMMA WayGives ==
    ASSUME Inv, Moves, NEW k, NEW x, OnItsWay(k, x)'
    PROVE  OnItsWay(k, x) \/ OnForm(k, x)
<1>1. PICK i \in 1..Len(writes') : writes'[i].key = k /\ x \in writes'[i].row.work
  BY DEF OnItsWay
<1>2. \/ i \in 1..Len(writes) /\ writes'[i] = writes[i]
      \/ writes'[i].key = screen.doc /\ writes'[i].row.work = screen.work
  BY WritesGive DEF Moves
<1> QED
  BY <1>1, <1>2 DEF OnItsWay, OnForm

LEMMA SavedGives ==
    ASSUME Moves, NEW d, NEW x, Saved(d, x)'
    PROVE  \/ Saved(d, x) \/ Sent(d, x)
           \/ /\ d \in DOMAIN invoices' \ DOMAIN invoices
              /\ \E r \in requests : TakesFrom(r, d) /\ r.doc = New /\ x \in r.work
<1>1. d \in DOMAIN invoices' /\ x \in invoices'[d].work
  BY DEF Saved
<1>2. CASE d \in DOMAIN invoices /\ invoices'[d].work = invoices[d].work
  BY <1>1, <1>2 DEF Saved
<1>3. CASE \E r \in requests : TakesFrom(r, d)
  BY <1>1, <1>3 DEF TakesFrom, Sent
<1> QED
  BY <1>1, <1>2, <1>3 DEF Moves, ServerTakes

LEMMA KnownParts ==
    ASSUME Inv, NEW x, NEW k \in Docs \cup {New},
           \/ OnForm(k, x) \/ Sent(k, x) \/ Drafted(k, x) \/ OnItsWay(k, x)
    PROVE  Known(x)
  BY DEF Known, OfInvoice, OfNew, Unsaved

LEMMA KnownStays ==
    ASSUME Inv, Inv', Moves, NEW x, Known(x)'
    PROVE  Known(x)
<1>1. screen.doc \in Docs \cup {New} /\ screen'.doc \in Docs \cup {New}
  BY DEF Inv, TypeInv, ScreenOK, Screen
<1>2. Drafted(Orphan, x) => Known(x)
  BY DEF Known, OfNew
<1>3. \A d : Saved(d, x) => Known(x)
  <2> SUFFICES ASSUME NEW d, Saved(d, x) PROVE Known(x)
    OBVIOUS
  <2>1. d \in Docs
    BY DEF Saved, Inv, TypeInv, ServerOK
  <2> QED
    BY <2>1 DEF Known, OfInvoice
<1>4. ASSUME NEW d, Saved(d, x)' PROVE Known(x)
  <2>1. CASE Saved(d, x)
    BY <2>1, <1>3
  <2>2. CASE Sent(d, x) \/ \E r \in requests : r.doc = New /\ x \in r.work
    <3>1. PICK r \in requests : x \in r.work
      BY <2>2 DEF Sent
    <3>2. r.doc \in Docs \cup {New} /\ Sent(r.doc, x)
      BY <3>1 DEF Inv, TypeInv, RequestsOK, Request, Sent
    <3> QED
      BY <3>2, KnownParts
  <2> QED
    BY <1>4, <2>1, <2>2, SavedGives
<1>5. ASSUME NEW k \in Docs \cup {New}, OnForm(k, x)' PROVE Known(x)
  <2>1. x \in screen'.work \/ x \in hook'.coming.work \/ x \in hook'.banner.work
    BY <1>5 DEF OnForm
  <2>2. CASE OnForm(screen.doc, x) \/ Drafted(screen'.doc, x) \/ Drafted(Orphan, x)
    BY <1>1, <1>2, <2>2, KnownParts
  <2>3. CASE FormTaken /\ x \in screen'.work
    <3>1. PICK d : d = screen'.doc
      OBVIOUS
    <3>2. Saved(d, x)'
      BY <2>3, <3>1 DEF FormTaken, Saved
    <3> QED
      BY <3>2, <1>4
  <2>4. CASE x \in hook.banner.work
    <3>1. OnForm(screen.doc, x)
      BY <2>4 DEF OnForm
    <3> QED
      BY <1>1, <3>1, KnownParts
  <2> QED
    BY <2>1, <2>2, <2>3, <2>4, FormGives
<1>6. ASSUME NEW k \in Docs \cup {New}, Sent(k, x)' \/ Drafted(k, x)' \/ OnItsWay(k, x)'
      PROVE  Known(x)
  BY <1>6, KnownParts, SentGives, DraftedGives, WayGives
<1>7. Drafted(Orphan, x)' => Known(x)
  BY <1>2, DraftedGives
<1>8. CASE (\E d \in Docs : OfInvoice(d, x))'
  <2>1. PICK d \in Docs : OfInvoice(d, x)'
    BY <1>8
  <2> QED
    BY <2>1, <1>4, <1>5, <1>6 DEF OfInvoice
<1>9. CASE OfNew(x)'
  BY <1>9, <1>5, <1>6, <1>7 DEF OfNew, Unsaved
<1>10. CASE OnItsWay(New, x)'
  BY <1>10, <1>6
<1> QED
  BY <1>8, <1>9, <1>10 DEF Known

LEMMA TidyKeeps ==
    ASSUME Inv, Inv', Tidy, Moves
    PROVE  Tidy'
<1>0. screen.doc \in Docs \cup {New} /\ screen'.doc \in Docs \cup {New}
  BY DEF Inv, TypeInv, ScreenOK, Screen
<1>1. \A x : Known(x)' => x \in 1..typed'
  <2> SUFFICES ASSUME NEW x, Known(x)' PROVE x \in 1..typed'
    OBVIOUS
  <2>1. Known(x)
    BY KnownStays
  <2> QED
    BY <2>1 DEF Tidy, Moves
<1>2. screen'.doc = New /\ screen'.work # {} => screen'.dirty
  <2>1. FormTaken => screen'.doc # New
    BY Keyed DEF FormTaken, Inv, TypeInv, ServerOK
  <2>2. FormKept => (screen'.doc = New /\ screen'.work # {} => screen'.dirty)
    BY DEF FormKept, Tidy
  <2> QED
    BY <2>1, <2>2 DEF Moves, FormMoves, FormEmptied, FormRestored, OrphanOpened
<1>3. hook'.banner.kind # "stale" => hook'.banner.work = {}
  BY DEF Moves, BannerMoves, NoBanner, Tidy
<1>4. /\ hook'.coming.kind = "none" => hook'.coming.work = {}
      /\ screen'.doc = New => hook'.coming.kind # "stale"
  <2>1. CASE hook'.coming = NoBanner
    BY <2>1 DEF NoBanner
  <2>2. CASE screen'.doc = screen.doc /\ hook'.coming = hook.coming
    BY <2>2 DEF Tidy
  <2>3. CASE hook'.coming = Found(rows', screen')
    <3>1. PICK db, s, b : db = rows' /\ s = screen' /\ b = hook'.coming
      OBVIOUS
    <3>2. RowTable(db) /\ s \in Screen /\ b = Found(db, s)
      BY <3>1, <2>3 DEF Inv, TypeInv, RowsOK, ScreenOK
    <3>3. (b.kind = "none" => b.work = {}) /\ (s.doc = New => b.kind # "stale")
      BY <3>2, FoundGives
    <3> QED
      BY <3>1, <3>3
  <2> QED
    BY <2>1, <2>2, <2>3 DEF Moves, ComingMoves
<1>5. DOMAIN rows' \subseteq DOMAIN invoices' \cup {New, Orphan}
  BY DEF Moves, RowsOnlyGo, ServerTakes, Tidy
<1>6. \A i \in 1..Len(writes') : writes'[i].key \in DOMAIN invoices' \cup {New}
  <2> SUFFICES ASSUME NEW i \in 1..Len(writes')
               PROVE  writes'[i].key \in DOMAIN invoices \cup {New}
    BY DEF Moves, ServerTakes
  <2>1. screen.doc \in DOMAIN invoices \cup {New}
    BY DEF Inv, TypeInv, ScreenOK
  <2>2. i \in 1..Len(writes) => writes[i].key \in DOMAIN invoices \cup {New}
    BY DEF Tidy
  <2> QED
    BY <2>1, <2>2, WritesGive DEF Moves
<1>7. \A r \in requests' : r.op = "save" => (New \in r.drops <=> r.doc = New)
  <2> SUFFICES ASSUME NEW q \in requests', q.op = "save"
               PROVE  New \in q.drops <=> q.doc = New
    OBVIOUS
  <2>1. CASE Asked(q)
    BY <2>1 DEF Asked
  <2>2. CASE \E r \in requests : Follows(q, r)
    BY <2>2 DEF Follows, Tidy
  <2> QED
    BY <2>1, <2>2 DEF Moves, RequestsMove, Silent
<1> QED
  BY <1>1, <1>2, <1>3, <1>4, <1>5, <1>6, <1>7 DEF Tidy, Moves

LEMMA OnFormGives ==
    ASSUME Inv, Inv', Tidy, Moves, ~Disturbed,
           NEW k \in Docs \cup {New}, NEW x, OnForm(k, x)'
    PROVE  \/ OnForm(k, x) \/ Drafted(k, x)
           \/ k # New /\ Saved(k, x)'
           \/ k = New /\ hook'.adopted = Orphan /\ Drafted(Orphan, x)
<1>1. /\ screen'.doc = k
      /\ x \in screen'.work \/ x \in hook'.coming.work \/ x \in hook'.banner.work
  BY DEF OnForm
<1>2. CASE FormTaken /\ x \in screen'.work
  <2>1. k \in DOMAIN invoices' /\ x \in invoices'[k].work
    BY <1>1, <1>2 DEF FormTaken
  <2>2. k # New
    BY <2>1, Keyed DEF Inv, TypeInv, ServerOK
  <2> QED
    BY <2>1, <2>2 DEF Saved
<1>3. CASE screen'.doc # screen.doc /\ hook'.banner = hook.banner /\ x \in hook.banner.work
  <2>1. hook'.banner.kind # "stale"
    BY <1>3 DEF Disturbed
  <2> QED
    BY <1>3, <2>1 DEF Tidy
<1>4. CASE OrphanOpened /\ Drafted(Orphan, x)
  BY <1>1, <1>4 DEF OrphanOpened
<1> QED
  BY <1>1, <1>2, <1>3, <1>4, FormGives

LEMMA OfInvoiceGives ==
    ASSUME Inv, Inv', Tidy, Moves, ~Disturbed, NEW d \in Docs, NEW x, OfInvoice(d, x)'
    PROVE  \/ OfInvoice(d, x)
           \/ /\ d \in DOMAIN invoices' \ DOMAIN invoices
              /\ \E r \in requests : TakesFrom(r, d) /\ r.doc = New /\ x \in r.work
<1>1. d # New
  BY Keyed
<1>2. CASE OnForm(d, x)'
  BY <1>1, <1>2, OnFormGives, SavedGives DEF OfInvoice
<1>3. CASE Sent(d, x)' \/ Drafted(d, x)' \/ OnItsWay(d, x)'
  BY <1>3, SentGives, DraftedGives, WayGives DEF OfInvoice
<1>4. CASE Saved(d, x)'
  BY <1>4, SavedGives DEF OfInvoice
<1> QED
  BY <1>2, <1>3, <1>4 DEF OfInvoice

LEMMA UnsavedGives ==
    ASSUME Inv, Inv', Tidy, Moves, ~Disturbed, NEW x, Unsaved(x)'
    PROVE  Unsaved(x) \/ (hook'.adopted = Orphan /\ Drafted(Orphan, x))
<1>1. CASE OnForm(New, x)'
  BY <1>1, OnFormGives DEF Unsaved
<1>2. CASE Sent(New, x)' \/ Drafted(New, x)'
  BY <1>2, SentGives, DraftedGives DEF Unsaved
<1> QED
  BY <1>1, <1>2 DEF Unsaved

LEMMA OfNewGives ==
    ASSUME Inv, Inv', Tidy, Moves, ~Disturbed, NEW x, OfNew(x)'
    PROVE  OfNew(x)
  BY UnsavedGives, DraftedGives DEF OfNew

\* A quiet step: no invoice is made.
Quiet == Moves /\ DOMAIN invoices' = DOMAIN invoices

LEMMA QuietOneOwner ==
    ASSUME Inv, Inv', Tidy, Quiet, ~Disturbed, OneOwner
    PROVE  OneOwner'
<1>1. Moves /\ \A d : d \notin DOMAIN invoices' \ DOMAIN invoices
  BY DEF Quiet
<1>2. ASSUME NEW d \in Docs, NEW x, OfInvoice(d, x)' PROVE OfInvoice(d, x)
  BY <1>1, <1>2, OfInvoiceGives
<1> SUFFICES ASSUME NEW d \in Docs, NEW x, OfInvoice(d, x)'
             PROVE  ~OfNew(x)' /\ \A e \in Docs \ {d} : ~OfInvoice(e, x)'
  BY DEF OneOwner
<1>3. ~OfNew(x) /\ \A e \in Docs \ {d} : ~OfInvoice(e, x)
  BY <1>2 DEF OneOwner
<1>4. ~OfNew(x)'
  BY <1>1, <1>3, OfNewGives
<1> QED
  BY <1>2, <1>3, <1>4

\* What an invoice has of a draft written too late, it goes on having.
LEMMA CarriesOn ==
    ASSUME Inv, Inv', Tidy, Moves, ~Disturbed, NEW d \in Docs, NEW x, Carries(d, x)
    PROVE  Carries(d, x)'
<1>0. d # New /\ d \in DOMAIN invoices /\ x \in invoices[d].work
  BY Keyed DEF Carries, Saved
<1>1. Saved(d, x)'
  <2>1. d \in DOMAIN invoices'
    BY <1>0 DEF Moves, ServerTakes
  <2>2. CASE invoices'[d].work = invoices[d].work
    BY <1>0, <2>1, <2>2 DEF Saved
  <2>3. CASE \E r \in requests : TakesFrom(r, d)
    BY <1>0, <2>1, <2>3 DEF TakesFrom, Carries, Saved
  <2> QED
    BY <2>1, <2>2, <2>3 DEF Moves, ServerTakes
<1>2. d \notin DOMAIN rows'
  BY DEF Carries, Moves, RowsOnlyGo
<1>3. ASSUME screen'.doc = d
      PROVE  /\ x \in screen'.work /\ hook'.coming = NoBanner
             /\ hook'.banner.kind # "stale"
  <2>1. screen.doc = d => /\ x \in screen.work /\ hook.coming = NoBanner
                          /\ hook.banner.kind # "stale"
    BY DEF Carries
  <2>2. NoBanner.kind = "none"
    BY DEF NoBanner
  <2>3. x \in screen'.work
    <3>1. FormTaken => x \in screen'.work
      BY <1>1, <1>3 DEF FormTaken, Saved
    <3>2. ~FormRestored
      BY <1>3, <2>1, <2>2 DEF FormRestored
    <3> QED
      BY <1>0, <1>3, <2>1, <3>1, <3>2 DEF Moves, FormMoves, FormKept, FormEmptied, OrphanOpened
  <2>4. hook'.coming = NoBanner
    <3>1. CASE hook'.coming = Found(rows', screen')
      <4>1. PICK db, s, b : db = rows' /\ s = screen' /\ b = hook'.coming
        OBVIOUS
      <4>2. RowTable(db) /\ s \in Screen /\ b = Found(db, s) /\ s.doc \notin DOMAIN db
        BY <1>2, <1>3, <3>1, <4>1 DEF Inv, TypeInv, RowsOK, ScreenOK
      <4>3. b = NoBanner
        BY <4>2, FoundGives
      <4> QED
        BY <4>1, <4>3
    <3> QED
      BY <1>3, <2>1, <3>1 DEF Moves, ComingMoves
  <2>5. hook'.banner.kind # "stale"
    <3>1. CASE screen.doc = d
      BY <2>1, <2>2, <3>1 DEF Moves, BannerMoves
    <3>2. CASE screen.doc # d
      BY <1>3, <3>2 DEF Disturbed
    <3> QED
      BY <3>1, <3>2
  <2> QED
    BY <2>3, <2>4, <2>5
<1>4. ASSUME NEW q \in requests', q.doc = d, q.op \in {"save", "patch"}
      PROVE  x \in q.work
  <2>1. CASE Asked(q)
    BY <1>4, <2>1 DEF Asked, Carries
  <2>2. CASE \E r \in requests : Follows(q, r)
    BY <1>4, <2>2 DEF Follows, Carries
  <2> QED
    BY <1>4, <2>1, <2>2 DEF Moves, RequestsMove, Silent
<1> QED
  BY <1>1, <1>2, <1>3, <1>4 DEF Carries

LEMMA LateOn ==
    ASSUME Inv, WritesMove, NEW d \in Docs, NEW i \in 1..Len(writes), LateFor(i, d)
    PROVE  LateFor(i, d)'
<1> SUFFICES ASSUME NEW j \in 1..Len(writes'), writes'[j].key = d PROVE j > i
  BY DEF LateFor
<1>1. Len(writes) \in Nat
  BY DEF Inv, TypeInv
<1>2. CASE j \in 1..Len(writes) /\ writes'[j] = writes[j]
  BY <1>2 DEF LateFor
<1>3. CASE j = Len(writes) + 1
  BY <1>1, <1>3
<1> QED
  BY <1>2, <1>3, WritesGive

LEMMA QuietOvertaken ==
    ASSUME Inv, Inv', Tidy, Quiet, ~Disturbed, OneOwner, Overtaken
    PROVE  Overtaken'
<1>1. Moves /\ WritesMove /\ \A d : d \notin DOMAIN invoices' \ DOMAIN invoices
  BY DEF Quiet, Moves
<1> SUFFICES ASSUME NEW i \in 1..Len(writes'), writes'[i].key = New,
                    NEW x \in writes'[i].row.work, NEW d \in Docs, OfInvoice(d, x)'
             PROVE  Carries(d, x)' /\ LateFor(i, d)'
  BY DEF Overtaken
<1>2. OfInvoice(d, x)
  BY <1>1, OfInvoiceGives
<1>3. CASE i \in 1..Len(writes) /\ writes'[i] = writes[i]
  <2>1. Carries(d, x) /\ LateFor(i, d)
    BY <1>2, <1>3 DEF Overtaken
  <2> QED
    BY <1>1, <1>3, <2>1, CarriesOn, LateOn
<1>4. CASE writes'[i].key = screen.doc /\ writes'[i].row.work = screen.work
  <2>1. OfNew(x)
    BY <1>4 DEF OnForm, Unsaved, OfNew
  <2> QED
    BY <1>2, <2>1 DEF OneOwner
<1> QED
  BY <1>1, <1>3, <1>4, WritesGive

LEMMA OneCreationStays ==
    ASSUME Inv, Inv', Tidy, Quiet, ~Disturbed, OneCreation
    PROVE  OneCreation'
<1>1. Tidy' /\ Moves /\ DOMAIN invoices' = DOMAIN invoices
  BY TidyKeeps DEF Quiet
<1>2. \A r : Creates(r) /\ r \in requests => r \in Creations(requests)
  BY CreationsAre
<1>3. \A r \in requests' : Creates(r) => r \in Creations(requests')
  BY <1>1 DEF Tidy, Creations, Creates
<1>4. ASSUME NEW q \in requests', Creates(q)
      PROVE  screen'.open /\ screen'.doc = New /\ q.work \subseteq screen'.work /\ q.mounted
  <2>1. q.op = "save" /\ q.doc = New
    BY <1>4 DEF Creates
  <2>2. CASE Asked(q)
    BY <2>1, <2>2 DEF Asked
  <2>3. CASE \E r \in requests : Follows(q, r)
    <3>1. PICK r \in requests : Follows(q, r)
      BY <2>3
    <3>2. Creates(r)
      BY <2>1, <3>1 DEF Follows, Creates
    <3>3. screen.open /\ screen.doc = New /\ r.work \subseteq screen.work /\ r.mounted
      BY <3>2 DEF OneCreation
    <3>4. screen'.open /\ screen'.doc = New /\ screen.work \subseteq screen'.work
      BY <1>1, <1>2, <1>3, <1>4, <3>2 DEF Disturbed
    <3> QED
      BY <3>1, <3>3, <3>4 DEF Follows
  <2> QED
    BY <1>1, <2>1, <2>2, <2>3 DEF Moves, RequestsMove, Silent
<1>5. ASSUME NEW q \in requests', NEW p \in requests', Creates(q), Creates(p)
      PROVE  p = q
  <2>1. IsFiniteSet(Creations(requests'))
    <3>1. IsFiniteSet(requests') /\ Creations(requests') \subseteq requests'
      BY <1>1 DEF Moves, Creations
    <3> QED
      BY <3>1, FS_Subset
  <2>2. ~(Cardinality(Creations(requests')) > 1)
    BY DEF Disturbed
  <2>3. p \in Creations(requests') /\ q \in Creations(requests')
    BY <1>3, <1>5
  <2>4. PICK S, a, b : S = Creations(requests') /\ a = p /\ b = q
    OBVIOUS
  <2>5. IsFiniteSet(S) /\ ~(Cardinality(S) > 1) /\ a \in S /\ b \in S
    BY <2>1, <2>2, <2>3, <2>4
  <2>6. a = b
    BY <2>5, AtMostOne
  <2> QED
    BY <2>4, <2>6
<1> QED
  BY <1>4, <1>5 DEF OneCreation

\* The orphan that was opened stays so until its draft goes.
LEMMA OrphanApartStays ==
    ASSUME Inv, Inv', Tidy, Moves, ~Disturbed, OneCreation, OrphanApart
    PROVE  OrphanApart'
<1> SUFFICES ASSUME Orphan \in DOMAIN rows', hook'.adopted # Orphan,
                    NEW x \in rows'[Orphan].work
             PROVE  ~Unsaved(x)' /\ ~OnItsWay(New, x)'
  BY DEF OrphanApart
<1>1. Orphan \in DOMAIN rows /\ x \in rows[Orphan].work
  BY DEF Moves, RowsOnlyGo
<1>2. hook.adopted # Orphan
  <2> SUFFICES ASSUME hook.adopted = Orphan PROVE FALSE
    OBVIOUS
  <2>1. Creations(requests) # {} /\ screen'.open /\ rows' # rows
    BY DEF Disturbed
  <2>2. screen.open
    BY <2>1, CreationsAre DEF OneCreation
  <2> QED
    BY <2>1, <2>2 DEF Moves, AdoptedMoves
<1>3. ~Unsaved(x) /\ ~OnItsWay(New, x)
  BY <1>1, <1>2 DEF OrphanApart
<1>4. ~OnForm(New, x)
  BY <1>3 DEF Unsaved
<1> QED
  BY <1>3, <1>4, UnsavedGives, WayGives

LEMMA NoStaleStays ==
    ASSUME Inv, Inv', Tidy, Moves, ~Disturbed, NoStaleNew
    PROVE  NoStaleNew'
  BY DEF Moves, BannerMoves, NoBanner, Disturbed, Tidy, NoStaleNew

LEMMA ComingApartStays ==
    ASSUME Inv, Inv', Tidy, Moves, ~Disturbed, NoStaleNew, ComingApart
    PROVE  ComingApart'
<1> SUFFICES ASSUME screen'.doc = New, NEW x \in hook'.coming.work
             PROVE  x \notin screen'.work
  BY DEF ComingApart
<1>1. ~FormTaken
  BY Keyed DEF FormTaken, Inv, TypeInv, ServerOK
<1>2. hook'.coming # NoBanner
  BY DEF NoBanner
<1>3. ~FormRestored
  BY <1>2 DEF FormRestored, NoStaleNew
<1>4. FormKept \/ FormEmptied
  BY <1>1, <1>2, <1>3 DEF Moves, FormMoves, OrphanOpened
<1> QED
  BY <1>2, <1>4 DEF Moves, ComingMoves, FormKept, FormEmptied, ComingApart

LEMMA QuietKeeps ==
    ASSUME Inv, Inv', Marked, OwnersKept, Quiet
    PROVE  OwnersKept'
<1>1. Tidy /\ Tidy' /\ Moves
  BY TidyKeeps DEF OwnersKept, Quiet
<1>2. ASSUME Calm' PROVE OwnersInv'
  <2>1. OwnersInv /\ ~Disturbed
    BY <1>2, CalmBefore DEF OwnersKept
  <2> QED
    BY <1>1, <2>1, QuietOneOwner, QuietOvertaken, OneCreationStays, OrphanApartStays,
       ComingApartStays, NoStaleStays DEF OwnersInv
<1> QED
  BY <1>1, <1>2 DEF OwnersKept

-----------------------------------------------------------------------------
(* The step that makes an invoice *)

Made(r, d) ==
    /\ r \in requests /\ Creates(r) /\ d \in Docs \ DOMAIN invoices
    /\ DOMAIN invoices' = DOMAIN invoices \cup {d} /\ invoices'[d].work = r.work

\* The answer of the mounted closure r, or the end of the page.
MadeFor(r, d) ==
    /\ writes' = writes \/ writes' = <<>>
    /\ rows' = rows \/ DOMAIN rows' \cap {New, hook.adopted} = {}
    /\ screen'.doc = New \/ (screen'.doc = d /\ screen'.work = r.work)
    /\ \A q \in requests' : Creates(q) => \E p \in requests \ {r} : Creates(p)

\* What is known when nothing disturbed it: the form has the work, or is empty.
MadeWell(r, d) ==
    /\ screen.open /\ screen.doc = New /\ r.work \subseteq screen.work
    /\ New \notin DOMAIN rows' /\ hook.adopted \notin DOMAIN rows'
    /\ writes' = writes \/ writes' = <<>>
    /\ \/ screen'.doc = New /\ screen'.work = {}
       \/ screen'.doc = d /\ screen'.work = r.work
    /\ \A q \in requests' : ~Creates(q)

LEMMA MadeUndisturbed ==
    ASSUME Tidy, Tidy', OneCreation, ~Disturbed, NEW r, NEW d, Made(r, d), MadeFor(r, d)
    PROVE  MadeWell(r, d)
<1>1. r \in requests /\ Creates(r)
  BY DEF Made
<1>2. screen.open /\ screen.doc = New /\ r.work \subseteq screen.work
  BY <1>1 DEF OneCreation
<1>3. Creations(requests) # {}
  BY <1>1, CreationsAre
<1>4. DOMAIN invoices' # DOMAIN invoices
  BY DEF Made
<1>5. New \notin DOMAIN rows' /\ hook.adopted \notin DOMAIN rows'
  BY <1>3, <1>4 DEF Disturbed, MadeFor
<1>6. ~(screen'.dirty /\ screen'.doc = New)
  BY <1>3, <1>4 DEF Disturbed
<1>7. \/ screen'.doc = New /\ screen'.work = {}
      \/ screen'.doc = d /\ screen'.work = r.work
  BY <1>6 DEF Tidy, MadeFor
<1>8. \A q \in requests' : ~Creates(q)
  BY <1>1 DEF OneCreation, MadeFor
<1>9. writes' = writes \/ writes' = <<>>
  BY DEF MadeFor
<1> QED
  BY <1>2, <1>5, <1>7, <1>8, <1>9 DEF MadeWell

LEMMA NothingOfNew ==
    ASSUME Inv, Tidy, NEW d \in Docs \ DOMAIN invoices, NEW x
    PROVE  ~OfInvoice(d, x)
<1>1. d # New /\ d # Orphan
  BY Keyed
<1>2. ~OnForm(d, x)
  BY <1>1 DEF OnForm, Inv, TypeInv, ScreenOK
<1>3. ~Sent(d, x)
  BY <1>1 DEF Sent, Inv, TypeInv, RequestsOK
<1>4. ~Drafted(d, x) /\ ~OnItsWay(d, x)
  BY <1>1 DEF Drafted, OnItsWay, Tidy
<1> QED
  BY <1>2, <1>3, <1>4 DEF OfInvoice, Saved

LEMMA MadeOfInvoice ==
    ASSUME Inv, Inv', Tidy, Moves, ~Disturbed, OneCreation, NEW r, NEW d, Made(r, d),
           NEW e \in Docs, NEW x, OfInvoice(e, x)'
    PROVE  \/ e # d /\ OfInvoice(e, x)
           \/ e = d /\ x \in r.work
<1>1. CASE OfInvoice(e, x)
  BY <1>1, NothingOfNew DEF Made
<1>2. CASE /\ e \in DOMAIN invoices' \ DOMAIN invoices
           /\ \E q \in requests : TakesFrom(q, e) /\ q.doc = New /\ x \in q.work
  <2>1. PICK q \in requests : TakesFrom(q, e) /\ q.doc = New /\ x \in q.work
    BY <1>2
  <2>2. invoices'[e].work = q.work /\ e = d /\ invoices'[d].work = r.work
    BY <1>2, <2>1 DEF TakesFrom, Made
  <2> QED
    BY <2>1, <2>2
<1> QED
  BY <1>1, <1>2, OfInvoiceGives

\* Nothing of the new invoice is left anywhere.
LEMMA NothingLeft ==
    ASSUME Inv, Inv', Tidy, Tidy', Moves, ~Disturbed, OneOwner, OneCreation, OrphanApart,
           ComingApart, NoStaleNew,
           NEW r, NEW d, Made(r, d), MadeWell(r, d), NEW x \in r.work
    PROVE  ~OfNew(x)'
<1>1. NoStaleNew'
  BY NoStaleStays
<1>2. x \in screen.work /\ screen.doc = New /\ Unsaved(x)
  BY DEF MadeWell, Unsaved, OnForm
<1>3. ~OnForm(New, x)'
  <2> SUFFICES ASSUME OnForm(New, x)' PROVE FALSE
    OBVIOUS
  <2>1. screen'.doc = New /\ New \notin DOMAIN rows'
    BY DEF OnForm, MadeWell
  <2>2. x \notin screen'.work
    BY <2>1, Keyed DEF MadeWell, Made
  <2>3. x \notin hook'.banner.work
    BY <1>1, <2>1 DEF NoStaleNew, Tidy
  <2>4. x \notin hook.coming.work
    BY <1>2 DEF ComingApart
  <2>5. hook'.coming = Found(rows', screen') => hook'.coming = NoBanner
    <3>1. PICK db, s, b : db = rows' /\ s = screen' /\ b = hook'.coming
      OBVIOUS
    <3>2. RowTable(db) /\ s \in Screen /\ s.doc \notin DOMAIN db
      BY <2>1, <3>1 DEF Inv, TypeInv, RowsOK, ScreenOK
    <3>3. b = Found(db, s) => b = NoBanner
      BY <3>2, FoundGives
    <3> QED
      BY <3>1, <3>3
  <2>6. x \notin hook'.coming.work
    BY <2>4, <2>5 DEF Moves, ComingMoves, NoBanner
  <2> QED
    BY <2>2, <2>3, <2>6 DEF OnForm
<1>4. ~Sent(New, x)'
  BY DEF Sent, MadeWell, Creates, Inv, TypeInv, RequestsOK
<1>5. ~Drafted(New, x)'
  BY DEF Drafted, MadeWell
<1>6. ~Drafted(Orphan, x)'
  <2> SUFFICES ASSUME Drafted(Orphan, x)' PROVE FALSE
    OBVIOUS
  <2>1. Drafted(Orphan, x) /\ Orphan \in DOMAIN rows'
    BY DraftedGives DEF Drafted
  <2>2. hook.adopted # Orphan
    BY <2>1 DEF MadeWell
  <2> QED
    BY <1>2, <2>1, <2>2 DEF OrphanApart, Drafted
<1> QED
  BY <1>3, <1>4, <1>5, <1>6 DEF OfNew, Unsaved

LEMMA MadeOneOwner ==
    ASSUME Inv, Inv', Tidy, Tidy', Moves, ~Disturbed, OwnersInv,
           NEW r, NEW d, Made(r, d), MadeWell(r, d)
    PROVE  OneOwner'
<1>0. OneOwner /\ OneCreation /\ OrphanApart /\ ComingApart /\ NoStaleNew
  BY DEF OwnersInv
<1>1. \A x \in r.work : Unsaved(x) /\ OfNew(x)
  BY DEF MadeWell, Unsaved, OnForm, OfNew
<1> SUFFICES ASSUME NEW e \in Docs, NEW x, OfInvoice(e, x)'
             PROVE  ~OfNew(x)' /\ \A f \in Docs \ {e} : ~OfInvoice(f, x)'
  BY DEF OneOwner
<1>2. CASE e # d /\ OfInvoice(e, x)
  <2>1. ~OfNew(x) /\ \A f \in Docs \ {e} : ~OfInvoice(f, x)
    BY <1>0, <1>2 DEF OneOwner
  <2>2. x \notin r.work
    BY <1>1, <2>1
  <2>3. ~OfNew(x)'
    BY <2>1, OfNewGives
  <2> QED
    BY <1>0, <2>1, <2>2, <2>3, MadeOfInvoice
<1>3. CASE e = d /\ x \in r.work
  <2>1. OfNew(x)
    BY <1>1, <1>3
  <2>2. \A f \in Docs : ~OfInvoice(f, x)
    BY <1>0, <2>1 DEF OneOwner
  <2>3. \A f \in Docs \ {e} : ~OfInvoice(f, x)'
    BY <1>0, <1>3, <2>2, MadeOfInvoice
  <2>4. ~OfNew(x)'
    BY <1>0, <1>3, NothingLeft
  <2> QED
    BY <2>3, <2>4
<1> QED
  BY <1>0, <1>2, <1>3, MadeOfInvoice

LEMMA MadeCarries ==
    ASSUME Inv, Inv', Tidy, Tidy', Moves, ~Disturbed,
           NEW r, NEW d, Made(r, d), MadeWell(r, d), NEW x \in r.work
    PROVE  Carries(d, x)'
<1>0. d # New /\ d # Orphan /\ d \in Docs /\ d \notin DOMAIN invoices
  BY Keyed DEF Made
<1>1. Saved(d, x)'
  BY DEF Made, Saved
<1>2. d \notin DOMAIN rows'
  BY <1>0 DEF Moves, RowsOnlyGo, Tidy
<1>3. ASSUME screen'.doc = d
      PROVE  /\ x \in screen'.work /\ hook'.coming = NoBanner
             /\ hook'.banner.kind # "stale"
  <2>1. screen'.doc # screen.doc /\ screen'.work = r.work
    BY <1>0, <1>3 DEF MadeWell
  <2>2. hook'.coming = Found(rows', screen') => hook'.coming = NoBanner
    <3>1. PICK db, s, b : db = rows' /\ s = screen' /\ b = hook'.coming
      OBVIOUS
    <3>2. RowTable(db) /\ s \in Screen /\ s.doc \notin DOMAIN db
      BY <1>2, <1>3, <3>1 DEF Inv, TypeInv, RowsOK, ScreenOK
    <3>3. b = Found(db, s) => b = NoBanner
      BY <3>2, FoundGives
    <3> QED
      BY <3>1, <3>3
  <2> QED
    BY <2>1, <2>2 DEF Moves, ComingMoves, Disturbed
<1>4. ASSUME NEW q \in requests', q.doc = d, q.op \in {"save", "patch"}
      PROVE  FALSE
  <2>1. ~Asked(q)
    BY <1>0, <1>4 DEF Asked, MadeWell
  <2>2. ~\E p \in requests : Follows(q, p)
    BY <1>0, <1>4 DEF Follows, Inv, TypeInv, RequestsOK
  <2> QED
    BY <1>4, <2>1, <2>2 DEF Moves, RequestsMove, Silent
<1> QED
  BY <1>1, <1>2, <1>3, <1>4 DEF Carries

LEMMA MadeOvertaken ==
    ASSUME Inv, Inv', Tidy, Tidy', Moves, ~Disturbed, Overtaken, OneCreation,
           NEW r, NEW d, Made(r, d), MadeWell(r, d)
    PROVE  Overtaken'
<1> SUFFICES ASSUME NEW i \in 1..Len(writes'), writes'[i].key = New,
                    NEW x \in writes'[i].row.work, NEW e \in Docs, OfInvoice(e, x)'
             PROVE  Carries(e, x)' /\ LateFor(i, e)'
  BY DEF Overtaken
<1>1. writes' = writes /\ i \in 1..Len(writes)
  BY EmptySeq DEF MadeWell
<1>2. CASE e # d /\ OfInvoice(e, x)
  <2>1. Carries(e, x) /\ LateFor(i, e)
    BY <1>1, <1>2 DEF Overtaken
  <2>2. Carries(e, x)'
    BY <2>1, CarriesOn
  <2> QED
    BY <1>1, <2>1, <2>2 DEF LateFor
<1>3. CASE e = d /\ x \in r.work
  <2>1. \A j \in 1..Len(writes) : writes[j].key # d
    BY Keyed DEF Tidy, Made
  <2>2. LateFor(i, e)'
    BY <1>1, <1>3, <2>1 DEF LateFor
  <2> QED
    BY <1>3, <2>2, MadeCarries
<1> QED
  BY <1>2, <1>3, MadeOfInvoice

LEMMA MadeKeeps ==
    ASSUME Inv, Inv', Marked, OwnersKept, Moves,
           NEW r, NEW d, Made(r, d), r.mounted /\ screen.doc = New => MadeFor(r, d)
    PROVE  OwnersKept'
<1>1. Tidy /\ Tidy'
  BY TidyKeeps DEF OwnersKept
<1>2. ASSUME Calm' PROVE OwnersInv'
  <2>1. OwnersInv /\ ~Disturbed
    BY <1>2, CalmBefore DEF OwnersKept
  <2>2. OneOwner /\ Overtaken /\ OneCreation /\ OrphanApart /\ ComingApart /\ NoStaleNew
    BY <2>1 DEF OwnersInv
  <2>3. r.mounted /\ screen.doc = New
    BY <2>2 DEF OneCreation, Made
  <2>4. MadeWell(r, d)
    BY <1>1, <2>1, <2>2, <2>3, MadeUndisturbed
  <2>5. OneOwner' /\ Overtaken'
    BY <1>1, <2>1, <2>2, <2>4, MadeOneOwner, MadeOvertaken
  <2>6. OneCreation'
    BY <2>4 DEF MadeWell, OneCreation
  <2>7. OrphanApart' /\ NoStaleNew' /\ ComingApart'
    BY <1>1, <2>1, <2>2, OrphanApartStays, NoStaleStays, ComingApartStays
  <2> QED
    BY <2>5, <2>6, <2>7 DEF OwnersInv
<1> QED
  BY <1>1, <1>2 DEF OwnersKept

-----------------------------------------------------------------------------
(* An edit: it is of the form, and nowhere else. *)

EditMade(z) ==
    /\ ~Known(z) /\ typed' = typed + 1 /\ z = typed'
    /\ screen'.doc = screen.doc /\ screen'.open = screen.open /\ screen'.dirty
    /\ screen'.work = screen.work \cup {z}
    /\ hook'.coming = hook.coming /\ hook'.banner = hook.banner /\ hook'.adopted = hook.adopted
    /\ UNCHANGED <<rows, writes, requests, invoices>>

LEMMA EditMakes ==
    ASSUME Inv, Tidy, Edit
    PROVE  \E z : EditMade(z)
<1>0. screen \in Screen /\ hook \in HookType /\ typed \in Nat
  BY DraftsAssumption DEF Inv, TypeInv, ScreenOK, HookOK, RestOK
<1>1. PICK z : z = typed + 1
  OBVIOUS
<1>2. PICK t : t = [screen EXCEPT !.work = @ \cup {z}, !.dirty = TRUE]
  OBVIOUS
<1>3. /\ typed' = z /\ typed < MaxEdits /\ Show(t)
      /\ UNCHANGED <<rows, writes, requests, invoices>>
  BY <1>1, <1>2 DEF Edit
<1>4. z \in Edits
  BY <1>0, <1>1, <1>3, DraftsAssumption DEF Edits
<1>5. /\ t \in Screen /\ t.doc = screen.doc /\ t.open = screen.open /\ t.dirty
      /\ t.work = screen.work \cup {z}
  BY <1>0, <1>2, <1>4 DEF Screen, Work
<1>6. PICK g : g = Rendered(hook, rows, screen, t)
  OBVIOUS
<1>7. g.coming = hook.coming /\ g.banner = hook.banner /\ g.adopted = hook.adopted
  BY <1>0, <1>5, <1>6, RenderedSame
<1>8. screen' = t /\ hook' = g
  BY <1>3, <1>6 DEF Show
<1>9. ~Known(z)
  <2>1. z \notin 1..typed
    BY <1>0, <1>1
  <2> QED
    BY <2>1 DEF Tidy
<1> QED
  BY <1>1, <1>3, <1>5, <1>7, <1>8, <1>9 DEF EditMade

LEMMA EditGives ==
    ASSUME NEW z, EditMade(z), NEW k, NEW x
    PROVE  /\ OnForm(k, x)' => OnForm(k, x) \/ (screen.doc = k /\ x = z)
           /\ Sent(k, x)' <=> Sent(k, x)
           /\ Drafted(k, x)' <=> Drafted(k, x)
           /\ Saved(k, x)' <=> Saved(k, x)
           /\ OnItsWay(k, x)' <=> OnItsWay(k, x)
  BY DEF EditMade, OnForm, Sent, Drafted, Saved, OnItsWay

LEMMA EditFlows ==
    ASSUME NEW z, EditMade(z), NEW x
    PROVE  /\ \A d \in Docs : OfInvoice(d, x)' => OfInvoice(d, x) \/ (screen.doc = d /\ x = z)
           /\ Unsaved(x)' => Unsaved(x) \/ (screen.doc = New /\ x = z)
           /\ OfNew(x)' => OfNew(x) \/ (screen.doc = New /\ x = z)
           /\ OnItsWay(New, x)' => OnItsWay(New, x)
           /\ \A d \in Docs : ~OfInvoice(d, z)
           /\ ~OfNew(z) /\ ~OnItsWay(New, z)
<1>1. /\ \A d \in Docs : ~OfInvoice(d, z)
      /\ ~OfNew(z) /\ ~OnItsWay(New, z)
  BY DEF EditMade, Known
<1>2. \A d \in Docs : OfInvoice(d, x)' => OfInvoice(d, x) \/ (screen.doc = d /\ x = z)
  BY EditGives DEF OfInvoice
<1>3. Unsaved(x)' => Unsaved(x) \/ (screen.doc = New /\ x = z)
  BY EditGives DEF Unsaved
<1>4. OfNew(x)' => OfNew(x) \/ (screen.doc = New /\ x = z)
  BY <1>3, EditGives DEF OfNew
<1> QED
  BY <1>1, <1>2, <1>3, <1>4, EditGives

LEMMA EditTidy ==
    ASSUME Inv, Inv', Tidy, NEW z, EditMade(z)
    PROVE  Tidy'
<1>1. typed \in Nat /\ typed' = typed + 1 /\ z = typed'
  BY DraftsAssumption DEF EditMade, Inv, TypeInv, RestOK
<1>2. \A x : Known(x)' => x \in 1..typed'
  <2> SUFFICES ASSUME NEW x, Known(x)', x # z PROVE x \in 1..typed'
    BY <1>1
  <2>1. Known(x)
    BY EditFlows DEF Known
  <2>2. x \in 1..typed
    BY <2>1 DEF Tidy
  <2> QED
    BY <1>1, <2>2
<1> QED
  BY <1>2 DEF EditMade, Tidy

LEMMA EditOwners ==
    ASSUME Inv, Inv', Tidy, NEW z, EditMade(z), OwnersInv
    PROVE  OwnersInv'
<1>0. OneOwner /\ Overtaken /\ OneCreation /\ OrphanApart /\ ComingApart /\ NoStaleNew
  BY DEF OwnersInv
<1>1. OneOwner'
  <2> SUFFICES ASSUME NEW d \in Docs, NEW x, OfInvoice(d, x)'
               PROVE  ~OfNew(x)' /\ \A e \in Docs \ {d} : ~OfInvoice(e, x)'
    BY DEF OneOwner
  <2>1. CASE OfInvoice(d, x)
    <3>1. x # z
      BY <2>1, EditFlows
    <3>2. ~OfNew(x) /\ \A e \in Docs \ {d} : ~OfInvoice(e, x)
      BY <1>0, <2>1 DEF OneOwner
    <3> QED
      BY <3>1, <3>2, EditFlows
  <2>2. CASE screen.doc = d /\ x = z
    BY <2>2, Keyed, EditFlows
  <2> QED
    BY <2>1, <2>2, EditFlows
<1>2. Overtaken'
  <2> SUFFICES ASSUME NEW i \in 1..Len(writes), writes[i].key = New,
                      NEW x \in writes[i].row.work, NEW d \in Docs, OfInvoice(d, x)'
               PROVE  Carries(d, x)' /\ LateFor(i, d)'
    BY DEF Overtaken, EditMade
  <2>1. OnItsWay(New, x)
    BY DEF OnItsWay
  <2>2. x # z
    BY <2>1, EditFlows
  <2>3. OfInvoice(d, x)
    BY <2>2, EditFlows
  <2>4. Carries(d, x) /\ LateFor(i, d)
    BY <1>0, <2>3 DEF Overtaken
  <2>5. LateFor(i, d)'
    BY <2>4 DEF LateFor, EditMade
  <2>6. Carries(d, x)'
    BY <2>4 DEF Carries, Saved, EditMade
  <2> QED
    BY <2>5, <2>6
<1>3. OneCreation'
  BY <1>0 DEF OneCreation, EditMade
<1>4. OrphanApart'
  <2> SUFFICES ASSUME Orphan \in DOMAIN rows, hook.adopted # Orphan,
                      NEW x \in rows[Orphan].work
               PROVE  ~Unsaved(x)' /\ ~OnItsWay(New, x)'
    BY DEF OrphanApart, EditMade
  <2>1. Drafted(Orphan, x)
    BY DEF Drafted
  <2>2. x # z
    BY <2>1, EditFlows DEF OfNew
  <2>3. ~Unsaved(x) /\ ~OnItsWay(New, x)
    BY <1>0 DEF OrphanApart
  <2> QED
    BY <2>2, <2>3, EditFlows
<1>5. ComingApart'
  <2> SUFFICES ASSUME screen.doc = New, NEW x \in hook.coming.work
               PROVE  x \notin screen'.work
    BY DEF ComingApart, EditMade
  <2>1. OfNew(x) /\ x \notin screen.work
    BY <1>0 DEF ComingApart, OfNew, Unsaved, OnForm
  <2>2. x # z
    BY <2>1, EditFlows
  <2> QED
    BY <2>1, <2>2 DEF EditMade
<1>6. NoStaleNew'
  BY <1>0 DEF NoStaleNew, EditMade
<1> QED
  BY <1>1, <1>2, <1>3, <1>4, <1>5, <1>6 DEF OwnersInv

LEMMA EditOwnersKept ==
    ASSUME Inv, Inv', Marked, OwnersKept, Edit
    PROVE  OwnersKept'
<1>1. PICK z : EditMade(z)
  BY EditMakes DEF OwnersKept
<1> QED
  BY <1>1, EditTidy, EditOwners, CalmBefore DEF OwnersKept

-----------------------------------------------------------------------------
(* A write ends: it leaves the draft, or nothing. *)

Landed == rows' = With(rows, Head(writes).key, Head(writes).row)
WriteLeaves ==
    /\ writes # <<>> /\ writes' = Tail(writes)
    /\ Landed \/ rows' = rows
    /\ UNCHANGED <<hook, screen, typed, requests, invoices>>

LEMMA TailOf ==
    ASSUME NEW S, NEW q \in Seq(S), q # <<>>
    PROVE  /\ Len(Tail(q)) = Len(q) - 1 /\ Len(q) \in Nat /\ 1 \in 1..Len(q) /\ Head(q) = q[1]
           /\ \A i \in 1..Len(Tail(q)) : Tail(q)[i] = q[i + 1] /\ i + 1 \in 1..Len(q)
<1>1. Len(q) \in Nat /\ Len(q) # 0
  BY EmptySeq
<1>2. Tail(q) \in Seq(S) /\ Len(Tail(q)) = Len(q) - 1 /\ Head(q) = q[1]
  BY <1>1
<1>3. \A i \in 1..Len(Tail(q)) : Tail(q)[i] = q[i + 1] /\ i + 1 \in 1..Len(q)
  BY <1>1, <1>2
<1> QED
  BY <1>1, <1>2, <1>3

LEMMA WritesLeft ==
    ASSUME Inv, WriteLeaves
    PROVE  /\ 1 \in 1..Len(writes) /\ Head(writes) = writes[1] /\ Len(writes) \in Nat
           /\ \A i \in 1..Len(writes') : writes'[i] = writes[i + 1] /\ i + 1 \in 1..Len(writes)
<1>1. writes \in Seq(Draft)
  BY DEF Inv, TypeInv
<1> QED
  BY <1>1, TailOf DEF WriteLeaves

\* What landed
LEMMA LandedRows ==
    ASSUME WriteLeaves, NEW k
    PROVE  /\ k # Head(writes).key \/ ~Landed =>
                 (k \in DOMAIN rows' <=> k \in DOMAIN rows)
                 /\ (k \in DOMAIN rows => rows'[k] = rows[k])
           /\ k = Head(writes).key /\ Landed =>
                 k \in DOMAIN rows' /\ rows'[k] = Head(writes).row
<1>1. ~Landed => rows' = rows
  BY DEF WriteLeaves
<1>2. Landed => /\ DOMAIN rows' = DOMAIN rows \cup {Head(writes).key}
                /\ rows'[Head(writes).key] = Head(writes).row
                /\ \A j \in DOMAIN rows \ {Head(writes).key} : rows'[j] = rows[j]
  <2>1. PICK j, v : j = Head(writes).key /\ v = Head(writes).row
    OBVIOUS
  <2>2. PICK h : h = With(rows, j, v)
    OBVIOUS
  <2>3. /\ DOMAIN h = DOMAIN rows \cup {j} /\ h[j] = v
        /\ \A i \in DOMAIN rows \ {j} : h[i] = rows[i]
    BY <2>2 DEF With
  <2>4. Landed => rows' = h
    BY <2>1, <2>2 DEF Landed
  <2> QED
    BY <2>1, <2>3, <2>4
<1> QED
  BY <1>1, <1>2

LEMMA WriteGives ==
    ASSUME Inv, WriteLeaves, NEW k, NEW x
    PROVE  /\ OnForm(k, x)' <=> OnForm(k, x)
           /\ Sent(k, x)' <=> Sent(k, x)
           /\ Saved(k, x)' <=> Saved(k, x)
           /\ OnItsWay(k, x)' => OnItsWay(k, x)
           /\ Drafted(k, x)' => Drafted(k, x)
                               \/ (Landed /\ k = Head(writes).key /\ x \in Head(writes).row.work
                                   /\ OnItsWay(k, x))
<1>1. /\ OnForm(k, x)' <=> OnForm(k, x)
      /\ Sent(k, x)' <=> Sent(k, x)
      /\ Saved(k, x)' <=> Saved(k, x)
  BY DEF WriteLeaves, OnForm, Sent, Saved
<1>2. OnItsWay(k, x)' => OnItsWay(k, x)
  <2> SUFFICES ASSUME OnItsWay(k, x)' PROVE OnItsWay(k, x)
    OBVIOUS
  <2>1. PICK i \in 1..Len(writes') : writes'[i].key = k /\ x \in writes'[i].row.work
    BY DEF OnItsWay
  <2>2. writes'[i] = writes[i + 1] /\ i + 1 \in 1..Len(writes)
    BY <2>1, WritesLeft
  <2> QED
    BY <2>1, <2>2 DEF OnItsWay
<1>3. ASSUME Drafted(k, x)'
      PROVE  Drafted(k, x) \/ (Landed /\ k = Head(writes).key /\ x \in Head(writes).row.work
                               /\ OnItsWay(k, x))
  <2>1. CASE k # Head(writes).key \/ ~Landed
    BY <1>3, <2>1, LandedRows DEF Drafted
  <2>2. CASE k = Head(writes).key /\ Landed
    <3>1. x \in Head(writes).row.work
      BY <1>3, <2>2, LandedRows DEF Drafted
    <3> QED
      BY <2>2, <3>1, WritesLeft DEF OnItsWay
  <2> QED
    BY <2>1, <2>2
<1> QED
  BY <1>1, <1>2, <1>3

LEMMA WriteFlows ==
    ASSUME Inv, Tidy, WriteLeaves, NEW x
    PROVE  /\ \A d \in Docs : OfInvoice(d, x)' => OfInvoice(d, x)
           /\ Unsaved(x)' => Unsaved(x) \/ (Landed /\ Head(writes).key = New
                                             /\ x \in Head(writes).row.work /\ OnItsWay(New, x))
           /\ Drafted(Orphan, x)' => Drafted(Orphan, x)
           /\ OnItsWay(New, x)' => OnItsWay(New, x)
<1>1. Head(writes).key # Orphan
  <2>1. writes[1].key \in DOMAIN invoices \cup {New}
    BY WritesLeft DEF Tidy
  <2>2. Orphan \notin DOMAIN invoices \cup {New}
    BY Keyed DEF Inv, TypeInv, ServerOK, New, Orphan
  <2> QED
    BY <2>1, <2>2, WritesLeft
<1>2. \A d \in Docs : OfInvoice(d, x)' => OfInvoice(d, x)
  BY WriteGives DEF OfInvoice
<1>3. Unsaved(x)' => Unsaved(x) \/ (Landed /\ Head(writes).key = New
                                    /\ x \in Head(writes).row.work /\ OnItsWay(New, x))
  BY WriteGives DEF Unsaved
<1>4. Drafted(Orphan, x)' => Drafted(Orphan, x)
  BY <1>1, WriteGives
<1> QED
  BY <1>2, <1>3, <1>4, WriteGives

LEMMA WriteTidy ==
    ASSUME Inv, Inv', Tidy, WriteLeaves
    PROVE  Tidy'
<1>1. \A x : Known(x)' => x \in 1..typed'
  <2> SUFFICES ASSUME NEW x, Known(x)' PROVE x \in 1..typed
    BY DEF WriteLeaves
  <2>1. Known(x)
    BY WriteFlows DEF Known, OfNew
  <2> QED
    BY <2>1 DEF Tidy
<1>2. \A i \in 1..Len(writes) : writes[i].key \in DOMAIN invoices \cup {New}
  BY DEF Tidy
<1>3. Head(writes).key \in DOMAIN invoices \cup {New}
  BY <1>2, WritesLeft
<1>4. DOMAIN rows' \subseteq DOMAIN invoices' \cup {New, Orphan}
  BY <1>3, LandedRows DEF Tidy, WriteLeaves
<1>5. \A i \in 1..Len(writes') : writes'[i].key \in DOMAIN invoices' \cup {New}
  BY <1>2, WritesLeft DEF WriteLeaves
<1> QED
  BY <1>1, <1>4, <1>5 DEF WriteLeaves, Tidy

\* A write of the new invoice that lands though the invoice was made is marked.
LEMMA WriteOwners ==
    ASSUME Inv, Inv', Tidy, WriteLeaves, ~Disturbed, OwnersInv
    PROVE  OwnersInv'
<1>0. OneOwner /\ Overtaken /\ OneCreation /\ OrphanApart /\ ComingApart /\ NoStaleNew
  BY DEF OwnersInv
<1>1. OneOwner'
  <2> SUFFICES ASSUME NEW d \in Docs, NEW x, OfInvoice(d, x)'
               PROVE  ~OfNew(x)' /\ \A e \in Docs \ {d} : ~OfInvoice(e, x)'
    BY DEF OneOwner
  <2>1. OfInvoice(d, x) /\ ~OfNew(x) /\ \A e \in Docs \ {d} : ~OfInvoice(e, x)
    BY <1>0, WriteFlows DEF OneOwner
  <2>2. ~OfNew(x)'
    <3> SUFFICES ASSUME OfNew(x)' PROVE FALSE
      OBVIOUS
    <3>1. /\ Landed /\ Head(writes).key = New /\ x \in Head(writes).row.work
      BY <2>1, WriteFlows DEF OfNew
    <3>2. Carries(d, x)
      BY <1>0, <2>1, <3>1, WritesLeft DEF Overtaken
    <3>3. x \in WorkOn(invoices)
      BY <3>2 DEF Carries, Saved, WorkOn
    <3>4. New \in DOMAIN rows' /\ rows'[New].work = Head(writes).row.work
      BY <3>1, LandedRows
    <3>5. rows' = rows
      BY <3>1, <3>3, <3>4 DEF Disturbed
    <3>6. OfNew(x)
      BY <3>1, <3>4, <3>5 DEF Drafted, Unsaved, OfNew
    <3> QED
      BY <2>1, <3>6
  <2> QED
    BY <2>1, <2>2, WriteFlows
<1>2. Overtaken'
  <2> SUFFICES ASSUME NEW i \in 1..Len(writes'), writes'[i].key = New,
                      NEW x \in writes'[i].row.work, NEW d \in Docs, OfInvoice(d, x)'
               PROVE  Carries(d, x)' /\ LateFor(i, d)'
    BY DEF Overtaken
  <2>1. i + 1 \in 1..Len(writes) /\ writes'[i] = writes[i + 1] /\ i \in Nat
    BY WritesLeft
  <2>2. OfInvoice(d, x)
    BY WriteFlows
  <2>3. Carries(d, x) /\ LateFor(i + 1, d)
    BY <1>0, <2>1, <2>2 DEF Overtaken
  <2>4. LateFor(i, d)'
    <3> SUFFICES ASSUME NEW j \in 1..Len(writes'), writes'[j].key = d PROVE j > i
      BY DEF LateFor
    <3>1. j + 1 \in 1..Len(writes) /\ writes[j + 1].key = d /\ j \in Nat
      BY WritesLeft
    <3>2. j + 1 > i + 1
      BY <2>3, <3>1 DEF LateFor
    <3> QED
      BY <2>1, <3>1, <3>2
  <2>5. d # Head(writes).key
    <3> SUFFICES ASSUME d = writes[1].key PROVE FALSE
      BY WritesLeft
    <3>1. 1 > i + 1
      BY <2>3, WritesLeft DEF LateFor
    <3> QED
      BY <2>1, <3>1
  <2>6. d \notin DOMAIN rows'
    BY <2>3, <2>5, LandedRows DEF Carries
  <2>7. Carries(d, x)'
    BY <2>3, <2>6 DEF Carries, Saved, WriteLeaves
  <2> QED
    BY <2>4, <2>7
<1>3. OneCreation' /\ ComingApart' /\ NoStaleNew'
  BY <1>0 DEF OneCreation, ComingApart, NoStaleNew, WriteLeaves
<1>4. OrphanApart'
  <2> SUFFICES ASSUME Orphan \in DOMAIN rows', hook.adopted # Orphan,
                      NEW x \in rows'[Orphan].work
               PROVE  ~Unsaved(x)' /\ ~OnItsWay(New, x)'
    BY DEF OrphanApart, WriteLeaves
  <2>1. Drafted(Orphan, x)'
    BY DEF Drafted
  <2>2. Drafted(Orphan, x)
    BY <2>1, WriteFlows
  <2>3. ~Unsaved(x) /\ ~OnItsWay(New, x)
    BY <1>0, <2>2 DEF OrphanApart, Drafted
  <2> QED
    BY <2>3, WriteFlows
<1> QED
  BY <1>1, <1>2, <1>3, <1>4 DEF OwnersInv

LEMMA WriteOwnersKept ==
    ASSUME Inv, Inv', Marked, OwnersKept, WriteEnds
    PROVE  OwnersKept'
<1>1. WriteLeaves
  BY DEF WriteEnds, WriteDone, WriteFails, Others, world, WriteLeaves, Landed
<1> QED
  BY <1>1, WriteTidy, WriteOwners, CalmBefore DEF OwnersKept

-----------------------------------------------------------------------------
(* Which steps move so *)

HookMoves == ComingMoves /\ BannerMoves /\ AdoptedMoves

LEMMA SameRequests ==
    ASSUME Tidy, requests' = requests
    PROVE  RequestsMove /\ IsFiniteSet(requests')
<1>1. \A r \in requests : Follows(r, r)
  BY DEF Follows
<1> QED
  BY <1>1 DEF RequestsMove, Tidy

LEMMA OneMore ==
    ASSUME Tidy, NEW r, requests' = requests \cup {r}, Asked(r) \/ Silent(r)
    PROVE  RequestsMove /\ IsFiniteSet(requests')
<1>1. \A q \in requests : Follows(q, q)
  BY DEF Follows
<1>2. IsFiniteSet(requests \cup {r})
  BY FS_AddElement DEF Tidy
<1> QED
  BY <1>1, <1>2 DEF RequestsMove

\* A closure ends, or goes on with other requests.
LEMMA OneGoesOn ==
    ASSUME Tidy, NEW r, NEW next, IsFiniteSet(next), \A q \in next : Silent(q),
           requests' = (requests \ {r}) \cup next
    PROVE  /\ RequestsMove /\ IsFiniteSet(requests')
           /\ \A q \in requests' : Creates(q) => \E p \in requests \ {r} : Creates(p)
<1>1. \A q \in requests : Follows(q, q)
  BY DEF Follows
<1>2. IsFiniteSet(requests \ {r})
  BY FS_RemoveElement DEF Tidy
<1>3. IsFiniteSet((requests \ {r}) \cup next)
  BY <1>2, FS_Union
<1>4. \A q \in next : ~Creates(q)
  BY DEF Silent, Creates
<1> QED
  BY <1>1, <1>3, <1>4 DEF RequestsMove

LEMMA SameServer ==
    ASSUME invoices' = invoices
    PROVE  ServerTakes /\ DOMAIN invoices' = DOMAIN invoices
  BY DEF ServerTakes

LEMMA RenderMoves ==
    ASSUME Inv, NEW t \in Screen, screen' = t, rows' = rows,
           NEW g, g = Rendered(hook, rows, screen, t), hook' = g
    PROVE  HookMoves /\ RowsOnlyGo
<1>0. hook \in HookType /\ screen \in Screen /\ RowTable(rows)
  BY DEF Inv, TypeInv, HookOK, ScreenOK, RowsOK
<1>1. CASE t.doc = screen.doc
  <2>1. g.adopted = hook.adopted /\ g.banner = hook.banner /\ g.coming = hook.coming
    BY <1>0, <1>1, RenderedSame
  <2> QED
    BY <1>1, <2>1 DEF HookMoves, ComingMoves, BannerMoves, AdoptedMoves, RowsOnlyGo
<1>2. CASE t.doc # screen.doc
  <2>1. g.adopted = hook.adopted /\ g.banner = hook.banner /\ g.coming = Found(rows, t)
    BY <1>0, <1>2, RenderedOther
  <2> QED
    BY <1>2, <2>1 DEF HookMoves, ComingMoves, BannerMoves, AdoptedMoves, RowsOnlyGo
<1> QED
  BY <1>1, <1>2

LEMMA DiscardMoves ==
    ASSUME Inv, NEW keys, NEW t \in Screen, screen' = t, Discard(keys, screen, t)
    PROVE  /\ HookMoves /\ RowsOnlyGo
           /\ rows' = Without(keys \cup {hook.adopted}) \/ rows' = rows
<1>0. /\ RowsOK /\ hook \in HookType /\ screen \in Screen
      /\ hook.orphans # {} => screen.doc = New
  BY DEF Inv, TypeInv, HookOK, ScreenOK
<1>1. /\ rows' = Without(keys \cup {hook.adopted}) \/ rows' = rows
      /\ hook'.adopted = NoKey /\ hook'.banner = NoBanner
      /\ t.doc = screen.doc => hook'.coming = hook.coming
      /\ t.doc # screen.doc => hook'.coming = Found(rows', t)
  BY <1>0, DiscardTyped
<1>2. RowsOnlyGo /\ (hook.adopted \notin DOMAIN rows' \/ rows' = rows)
  <2>1. PICK all : all = keys \cup {hook.adopted}
    OBVIOUS
  <2>2. CASE rows' = rows
    BY <2>2 DEF RowsOnlyGo
  <2>3. CASE rows' = Without(all)
    <3>1. DOMAIN rows' = DOMAIN rows \ all /\ \A k \in DOMAIN rows \ all : rows'[k] = rows[k]
      BY <1>0, <2>3, WithoutTyped
    <3> QED
      BY <2>1, <3>1 DEF RowsOnlyGo
  <2> QED
    BY <1>1, <2>1, <2>2, <2>3
<1>3. hook.adopted \in {NoKey, Orphan}
  BY <1>0 DEF HookType
<1>4. ComingMoves /\ BannerMoves
  BY <1>1 DEF ComingMoves, BannerMoves
<1>5. AdoptedMoves
  BY <1>1, <1>2, <1>3 DEF AdoptedMoves
<1> QED
  BY <1>1, <1>2, <1>4, <1>5 DEF HookMoves

LEMMA AskSilent ==
    ASSUME NEW op \in Ops, op \notin {"save", "patch"}, NEW then, NEW r, r = Ask(op, then)
    PROVE  Silent(r)
  BY DEF Ask, Silent

LEMMA AskAsked ==
    ASSUME NEW op \in {"save", "patch"}, NEW then, NEW r, r = Ask(op, then),
           screen.open, screen' = screen
    PROVE  Asked(r)
  BY DEF Ask, Asked

LEMMA LoadingSilent ==
    ASSUME NEW d, Loading(d)
    PROVE  \E r : requests' = requests \cup {r} /\ Silent(r)
<1>1. PICK a : a = Ask("load", "")
  OBVIOUS
<1>2. a.op = "load" /\ a.work = {}
  BY <1>1 DEF Ask
<1>3. PICK r : r = [a EXCEPT !.doc = d, !.drops = {}]
  OBVIOUS
<1>4. requests' = requests \cup {r}
  BY <1>1, <1>3 DEF Loading
<1>5. r.op = "load" /\ r.work = {}
  BY <1>1, <1>3 DEF Ask
<1> QED
  BY <1>4, <1>5 DEF Silent

LEMMA OpenEditorMoves ==
    ASSUME Inv, Tidy, NEW d \in DOMAIN invoices \cup {New}, OpenEditor(d)
    PROVE  Quiet
<1>0. screen \in Screen /\ RowTable(rows)
  BY DEF Inv, TypeInv, ScreenOK, RowsOK
<1>1. /\ screen' = [Gone EXCEPT !.open = TRUE, !.view = (d # New)]
      /\ hook' = FreshHook(rows, screen') /\ ~screen.open
      /\ UNCHANGED <<rows, writes, typed, invoices>>
  BY DEF OpenEditor, world
<1>2. screen' \in Screen /\ screen'.doc = New /\ screen'.work = {}
  BY <1>0, <1>1, GoneFields DEF Screen
<1>3. PICK s, h : s = screen' /\ h = hook'
  OBVIOUS
<1>4. h = FreshHook(rows, s) /\ s \in Screen
  BY <1>1, <1>2, <1>3
<1>5. h.coming = Found(rows, s) /\ h.banner = NoBanner /\ h.adopted = NoKey
  BY <1>0, <1>4, FreshTyped
<1>6. ComingMoves /\ BannerMoves /\ AdoptedMoves
  BY <1>1, <1>2, <1>3, <1>5 DEF ComingMoves, BannerMoves, AdoptedMoves
<1>7. FormMoves
  BY <1>2 DEF FormMoves, FormEmptied
<1>8. RequestsMove /\ IsFiniteSet(requests')
  <2>1. CASE d = New
    BY <2>1, SameRequests DEF OpenEditor
  <2>2. CASE d # New
    <3>1. Loading(d)
      BY <2>2 DEF OpenEditor
    <3> QED
      BY <3>1, LoadingSilent, OneMore
  <2> QED
    BY <2>1, <2>2
<1> QED
  BY <1>1, <1>6, <1>7, <1>8, SameServer DEF Quiet, Moves, WritesMove, RowsOnlyGo

\* Nothing moves but the requests.
LEMMA StillMoves ==
    ASSUME Inv, UNCHANGED <<drafts, screen, world>>, RequestsMove, IsFiniteSet(requests')
    PROVE  Quiet
<1>1. UNCHANGED <<rows, writes, hook, screen, typed, invoices>>
  BY DEF drafts, world
<1>2. FormMoves /\ ComingMoves /\ BannerMoves /\ AdoptedMoves
  BY <1>1 DEF FormMoves, FormKept, ComingMoves, BannerMoves, AdoptedMoves
<1> QED
  BY <1>1, <1>2, SameServer DEF Quiet, Moves, WritesMove, RowsOnlyGo

LEMMA NavigateMoves ==
    ASSUME Inv, Tidy, NEW d \in DOMAIN invoices, Navigate(d)
    PROVE  Quiet
<1>1. PICK r : requests' = requests \cup {r} /\ Silent(r)
  BY LoadingSilent DEF Navigate
<1>2. RequestsMove /\ IsFiniteSet(requests')
  BY <1>1, OneMore
<1> QED
  BY <1>2, StillMoves DEF Navigate

LEMMA SendMoves ==
    ASSUME Inv, Tidy, UNCHANGED <<drafts, screen, world>>,
           NEW op \in Ops, NEW then, NEW flags, Send(Ask(op, then), flags)
    PROVE  Quiet
<1>1. PICK r : r = Ask(op, then)
  OBVIOUS
<1>2. screen.open /\ requests' = requests \cup {r}
  BY <1>1 DEF Send
<1>3. Silent(r) \/ Asked(r)
  BY <1>1, <1>2, AskSilent, AskAsked
<1>4. RequestsMove /\ IsFiniteSet(requests')
  BY <1>2, <1>3, OneMore
<1> QED
  BY <1>4, StillMoves

LEMMA ButtonsMove ==
    ASSUME Inv, Tidy,
           \/ Save \/ SaveAndPost \/ SaveThenNew \/ Post \/ Unpost
           \/ PayFull \/ WriteIntent \/ Collect
    PROVE  Quiet
<1>1. \E op \in Ops : \E then, flags : Send(Ask(op, then), flags)
  BY DEF Save, SaveAndPost, SaveThenNew, Post, Unpost, PayFull, WriteIntent, Collect, Ops
<1>2. UNCHANGED <<drafts, screen, world>>
  BY DEF Save, SaveAndPost, SaveThenNew, Post, Unpost, PayFull, WriteIntent, Collect
<1> QED
  BY <1>1, <1>2, SendMoves

LEMMA ImageFinite ==
    ASSUME NEW S, IsFiniteSet(S), NEW f, f = [x \in S |-> f[x]], NEW T, T = {f[x] : x \in S}
    PROVE  IsFiniteSet(T)
<1>1. f \in Surjection(S, T)
  BY DEF Surjection
<1> QED
  BY <1>1, FS_Surjection

LEMMA RenderQuiet ==
    ASSUME Inv, NEW t \in Screen, Show(t), FormMoves, rows' = rows,
           UNCHANGED <<typed, invoices>>, WritesMove, RequestsMove, IsFiniteSet(requests')
    PROVE  Quiet
<1>1. PICK g : g = Rendered(hook, rows, screen, t)
  OBVIOUS
<1>2. screen' = t /\ hook' = g
  BY <1>1 DEF Show
<1>3. HookMoves /\ RowsOnlyGo
  BY <1>1, <1>2, RenderMoves
<1> QED
  BY <1>3, SameServer DEF Quiet, Moves, HookMoves

LEMMA DiscardQuiet ==
    ASSUME Inv, NEW keys, NEW t \in Screen, screen' = t, Discard(keys, screen, t), FormMoves,
           UNCHANGED <<writes, typed, invoices>>, RequestsMove, IsFiniteSet(requests')
    PROVE  Quiet
<1>1. HookMoves /\ RowsOnlyGo
  BY DiscardMoves
<1> QED
  BY <1>1, SameServer DEF Quiet, Moves, HookMoves, WritesMove

LEMMA ScreenTyped ==
    ASSUME Inv
    PROVE  screen \in Screen /\ hook \in HookType /\ screen.doc \in Docs \cup {New}
  BY DEF Inv, TypeInv, ScreenOK, HookOK, Screen

LEMMA StartEditingMoves == ASSUME Inv, Tidy, StartEditing PROVE Quiet
<1>1. PICK t : t = [screen EXCEPT !.view = FALSE]
  OBVIOUS
<1>2. t \in Screen /\ t.doc = screen.doc /\ t.work = screen.work /\ t.dirty = screen.dirty
  BY <1>1, ScreenTyped DEF Screen
<1>3. Show(t) /\ UNCHANGED <<rows, writes, requests, typed, invoices>>
  BY <1>1 DEF StartEditing, world
<1>4. FormMoves
  BY <1>2, <1>3 DEF Show, FormMoves, FormKept
<1> QED
  BY <1>2, <1>3, <1>4, RenderQuiet, SameRequests DEF WritesMove

LEMMA ResetMoves == ASSUME Inv, Tidy, Reset PROVE Quiet
<1>1. PICK t : t = Blank(screen)
  OBVIOUS
<1>2. t \in Screen /\ t.doc = New /\ t.work = {}
  BY <1>1, ScreenTyped, ScreenFields
<1>3. Show(t) /\ UNCHANGED <<rows, writes, requests, typed, invoices>>
  BY <1>1 DEF Reset, world
<1>4. FormMoves
  BY <1>2, <1>3 DEF Show, FormMoves, FormEmptied
<1> QED
  BY <1>2, <1>3, <1>4, RenderQuiet, SameRequests DEF WritesMove

\* The editor is gone: no form, no hook.
LEMMA GoneMoves ==
    ASSUME Inv, screen' = Gone, hook' = NoHook
    PROVE  /\ FormMoves /\ ComingMoves /\ BannerMoves /\ AdoptedMoves
           /\ ~screen'.open /\ screen'.doc = New
<1>1. screen'.doc = New /\ screen'.work = {} /\ ~screen'.open
  BY ScreenTyped, GoneFields
<1>2. hook'.coming = NoBanner /\ hook'.banner = NoBanner
  BY NoHookTyped
<1> QED
  BY <1>1, <1>2 DEF FormMoves, FormEmptied, ComingMoves, BannerMoves, AdoptedMoves

LEMMA CloseMoves == ASSUME Inv, Tidy, Close PROVE Quiet
<1>1. /\ screen' = Gone /\ hook' = NoHook /\ writes' = Written(writes, screen)
      /\ UNCHANGED <<rows, typed, invoices>>
  BY DEF Close, world, Unmounted
<1>2. FormMoves /\ ComingMoves /\ BannerMoves /\ AdoptedMoves /\ ~screen'.open
  BY <1>1, GoneMoves
<1>3. PICK Left : Left = [r \in requests |->
                             [r EXCEPT !.mounted = FALSE,
                                       !.drops = @ \cup (IF r.mounted THEN {hook.adopted} \ {NoKey}
                                                         ELSE {})]]
  OBVIOUS
<1>4. requests' = {Left[r] : r \in requests}
  BY <1>3 DEF Close
<1>5. IsFiniteSet(requests')
  <2>1. Left = [r \in requests |-> Left[r]]
    BY <1>3
  <2>2. PICK T : T = {Left[r] : r \in requests}
    OBVIOUS
  <2>3. IsFiniteSet(requests)
    BY DEF Tidy
  <2>4. IsFiniteSet(T)
    BY <2>1, <2>2, <2>3, ImageFinite
  <2> QED
    BY <1>4, <2>2, <2>4
<1>6. RequestsMove
  <2> SUFFICES ASSUME NEW r \in requests PROVE Follows(Left[r], r)
    BY <1>4 DEF RequestsMove
  <2>1. r \in Request
    BY DEF Inv, TypeInv, RequestsOK
  <2>2. New \notin {hook.adopted} \ {NoKey}
    BY ScreenTyped DEF HookType, New, Orphan, NoKey
  <2>3. /\ Left[r].op = r.op /\ Left[r].doc = r.doc /\ Left[r].work = r.work
        /\ Left[r].drops = r.drops \cup (IF r.mounted THEN {hook.adopted} \ {NoKey} ELSE {})
    BY <1>3, <2>1 DEF Request
  <2> QED
    BY <1>2, <2>2, <2>3 DEF Follows
<1> QED
  BY <1>1, <1>2, <1>5, <1>6, SameServer DEF Quiet, Moves, WritesMove, RowsOnlyGo

LEMMA SignOutMoves == ASSUME Inv, Tidy, SignOut PROVE Quiet
<1>1. /\ screen' = Gone /\ hook' = NoHook /\ writes' = Written(writes, screen)
      /\ rows' = <<>> /\ UNCHANGED <<typed, invoices>>
  BY DEF SignOut, Unmounted
<1>2. FormMoves /\ ComingMoves /\ BannerMoves /\ AdoptedMoves /\ ~screen'.open
  BY <1>1, GoneMoves
<1>3. PICK Left : Left = [r \in requests |-> [r EXCEPT !.mounted = FALSE]]
  OBVIOUS
<1>4. requests' = {Left[r] : r \in requests}
  BY <1>3 DEF SignOut
<1>5. IsFiniteSet(requests')
  <2>1. Left = [r \in requests |-> Left[r]]
    BY <1>3
  <2>2. PICK T : T = {Left[r] : r \in requests}
    OBVIOUS
  <2>3. IsFiniteSet(requests)
    BY DEF Tidy
  <2>4. IsFiniteSet(T)
    BY <2>1, <2>2, <2>3, ImageFinite
  <2> QED
    BY <1>4, <2>2, <2>4
<1>6. RequestsMove
  <2> SUFFICES ASSUME NEW r \in requests PROVE Follows(Left[r], r)
    BY <1>4 DEF RequestsMove
  <2>1. r \in Request
    BY DEF Inv, TypeInv, RequestsOK
  <2> QED
    BY <1>2, <1>3, <2>1 DEF Follows, Request
<1>7. RowsOnlyGo
  BY <1>1, EmptySeq DEF RowsOnlyGo
<1> QED
  BY <1>1, <1>2, <1>5, <1>6, <1>7, SameServer DEF Quiet, Moves, WritesMove

LEMMA UndoMoves == ASSUME Inv, Tidy, Undo PROVE Quiet
<1>0. UNCHANGED <<typed, invoices>>
  BY DEF Undo, world
<1>1. CASE screen.doc = New
  <2>1. PICK t : t = Blank(screen)
    OBVIOUS
  <2>2. t \in Screen /\ t.doc = New /\ t.work = {}
    BY <2>1, ScreenTyped, ScreenFields
  <2>3. /\ screen' = t /\ Discard({New}, screen, screen')
        /\ requests' = requests /\ writes' = writes
    BY <1>1, <2>1 DEF Undo
  <2>4. FormMoves
    BY <2>2, <2>3 DEF FormMoves, FormEmptied
  <2>5. Discard({New}, screen, t)
    BY <2>3 DEF Discard
  <2> QED
    BY <1>0, <2>2, <2>3, <2>4, <2>5, DiscardQuiet, SameRequests
<1>2. CASE screen.doc # New
  <2>1. PICK t : t = [screen EXCEPT !.dirty = FALSE]
    OBVIOUS
  <2>2. t \in Screen /\ t.doc = screen.doc /\ t.work = screen.work
    BY <2>1, ScreenTyped DEF Screen
  <2>3. Show(t) /\ rows' = rows /\ Send(Ask("undo", ""), {})
    BY <1>2, <2>1 DEF Undo
  <2>4. FormMoves
    BY <1>2, <2>2, <2>3 DEF Show, FormMoves, FormKept
  <2>5. RequestsMove /\ IsFiniteSet(requests')
    <3>1. PICK r : r = Ask("undo", "")
      OBVIOUS
    <3>2. Silent(r) /\ requests' = requests \cup {r}
      BY <2>3, <3>1, AskSilent DEF Ops, Send
    <3> QED
      BY <3>2, OneMore
  <2>6. WritesMove
    BY <1>2 DEF Undo, WritesMove
  <2> QED
    BY <1>0, <2>2, <2>3, <2>4, <2>5, <2>6, RenderQuiet
<1> QED
  BY <1>1, <1>2

LEMMA ApplyStaleMoves == ASSUME Inv, Tidy, ApplyStale PROVE Quiet
<1>1. PICK w : w = hook.banner.work
  OBVIOUS
<1>2. PICK t : t = Restored(w)
  OBVIOUS
<1>3. w \in Work
  BY <1>1, ScreenTyped DEF HookType, Banner
<1>4. t \in Screen /\ t.doc = screen.doc /\ t.dirty /\ t.work = w \ Forgotten
  BY <1>2, <1>3, ScreenTyped, RestoredFields
<1>5. Show(t) /\ hook.banner.kind = "stale" /\ UNCHANGED <<rows, writes, requests, typed, invoices>>
  BY <1>1, <1>2 DEF ApplyStale, world
<1>6. FormMoves
  BY <1>1, <1>4, <1>5 DEF Show, FormMoves, FormRestored
<1> QED
  BY <1>4, <1>5, <1>6, RenderQuiet, SameRequests DEF WritesMove

LEMMA DiscardStaleMoves == ASSUME Inv, Tidy, DiscardStale PROVE Quiet
<1>1. /\ Discard({screen.doc}, screen, screen) /\ screen' = screen
      /\ UNCHANGED <<writes, requests, typed, invoices>>
  BY DEF DiscardStale, world
<1>2. FormMoves
  BY <1>1 DEF FormMoves, FormKept
<1> QED
  BY <1>1, <1>2, ScreenTyped, DiscardQuiet, SameRequests

LEMMA OpenOrphanMoves ==
    ASSUME Inv, Tidy, NEW k \in hook.orphans, OpenOrphan(k) PROVE Quiet
<1>0. screen \in Screen /\ hook \in HookType
  BY ScreenTyped
<1>1. k = Orphan /\ screen.doc = New
  BY DEF Inv, TypeInv, HookOK, HookType
<1>2. hook.coming = NoBanner /\ Orphan \in DOMAIN rows
  BY <1>1 DEF OpenOrphan, Listed
<1>3. PICK w : w = rows[k].work
  OBVIOUS
<1>4. PICK t : t = Restored(w)
  OBVIOUS
<1>5. w \in Work
  BY <1>1, <1>2, <1>3 DEF Inv, TypeInv, RowsOK, RowTable, Row
<1>6. t \in Screen /\ t.doc = screen.doc /\ t.dirty /\ t.work = w \ Forgotten
  BY <1>0, <1>4, <1>5, RestoredFields
<1>7. PICK g : g = Rendered(hook, rows, screen, t)
  OBVIOUS
<1>8. g \in HookType /\ g.banner = hook.banner /\ g.coming = hook.coming
  BY <1>0, <1>6, <1>7, RenderedSame
<1>9. /\ screen' = t /\ hook' = [g EXCEPT !.adopted = k]
      /\ UNCHANGED <<rows, writes, requests, typed, invoices>>
  BY <1>3, <1>4, <1>7 DEF OpenOrphan, world
<1>10. hook'.banner = hook.banner /\ hook'.coming = NoBanner /\ hook'.adopted = Orphan
  BY <1>1, <1>2, <1>8, <1>9 DEF HookType
<1>11. FormMoves
  BY <1>1, <1>2, <1>3, <1>6, <1>9, <1>10 DEF FormMoves, OrphanOpened
<1>12. ComingMoves /\ BannerMoves /\ AdoptedMoves
  BY <1>10 DEF ComingMoves, BannerMoves, AdoptedMoves
<1> QED
  BY <1>9, <1>11, <1>12, SameRequests, SameServer DEF Quiet, Moves, WritesMove, RowsOnlyGo

LEMMA DeleteOrphanMoves ==
    ASSUME Inv, Tidy, NEW k \in hook.orphans, DeleteOrphan(k) PROVE Quiet
<1>0. hook \in HookType
  BY ScreenTyped
<1>1. k = Orphan
  BY <1>0 DEF HookType
<1>2. /\ screen' = screen /\ (rows' = Without({k}) \/ rows' = rows)
      /\ hook' = [hook EXCEPT !.orphans = @ \ {k}, !.adopted = IF @ = k THEN NoKey ELSE @]
      /\ UNCHANGED <<writes, requests, typed, invoices>>
  BY DEF DeleteOrphan, world
<1>3. RowsOnlyGo /\ (Orphan \notin DOMAIN rows' \/ rows' = rows)
  <2>1. PICK all : all = {k}
    OBVIOUS
  <2>2. CASE rows' = rows
    BY <2>2 DEF RowsOnlyGo
  <2>3. CASE rows' = Without(all)
    <3>1. DOMAIN rows' = DOMAIN rows \ all /\ \A j \in DOMAIN rows \ all : rows'[j] = rows[j]
      BY <2>3, WithoutTyped DEF Inv, TypeInv
    <3> QED
      BY <1>1, <2>1, <3>1 DEF RowsOnlyGo
  <2> QED
    BY <1>2, <2>1, <2>2, <2>3
<1>4. hook'.coming = hook.coming /\ hook'.banner = hook.banner
  BY <1>0, <1>2 DEF HookType
<1>5. FormMoves /\ ComingMoves /\ BannerMoves /\ AdoptedMoves
  BY <1>2, <1>3, <1>4 DEF FormMoves, FormKept, ComingMoves, BannerMoves, AdoptedMoves
<1> QED
  BY <1>2, <1>3, <1>5, SameRequests, SameServer DEF Quiet, Moves, WritesMove

LEMMA WriteNowMoves == ASSUME Inv, Tidy, Debounce \/ Hidden PROVE Quiet
<1>1. /\ screen' = screen /\ writes' = Written(writes, screen)
      /\ UNCHANGED <<rows, requests, typed, invoices>>
  BY DEF Debounce, Hidden, DebounceFires, TabHidden, WriteNow, Others, world
<1>2. hook' = hook \/ hook' = [hook EXCEPT !.due = FALSE]
  BY DEF Debounce, Hidden, DebounceFires, TabHidden
<1>3. hook'.coming = hook.coming /\ hook'.banner = hook.banner /\ hook'.adopted = hook.adopted
  BY <1>2, ScreenTyped DEF HookType
<1>4. FormMoves /\ ComingMoves /\ BannerMoves /\ AdoptedMoves
  BY <1>1, <1>3 DEF FormMoves, FormKept, ComingMoves, BannerMoves, AdoptedMoves
<1> QED
  BY <1>1, <1>4, SameRequests, SameServer DEF Quiet, Moves, WritesMove, RowsOnlyGo

LEMMA ReadMoves == ASSUME Inv, Tidy, Read PROVE Quiet
<1>0. screen \in Screen /\ hook \in HookType
  BY ScreenTyped
<1>1. PICK w : w = hook.coming.work
  OBVIOUS
<1>2. w \in Work
  BY <1>0, <1>1 DEF HookType, Banner
<1>3. PICK t : t = IF hook.coming.kind = "restore" THEN Restored(w) ELSE screen
  OBVIOUS
<1>4. /\ t \in Screen /\ t.doc = screen.doc
      /\ hook.coming.kind = "restore" => t.dirty /\ t.work = w \ Forgotten
      /\ hook.coming.kind # "restore" => t = screen
  BY <1>0, <1>2, <1>3, RestoredFields
<1>5. PICK g : g = Rendered(hook, rows, screen, t)
  OBVIOUS
<1>6. g \in HookType /\ g.adopted = hook.adopted
  BY <1>0, <1>4, <1>5, RenderedSame
<1>7. PICK b : b = [hook.coming EXCEPT
                       !.work = IF hook.coming.kind = "stale" THEN @ ELSE {}]
  OBVIOUS
<1>8. /\ b.kind = hook.coming.kind
      /\ b.work = IF hook.coming.kind = "stale" THEN hook.coming.work ELSE {}
  BY <1>0, <1>7 DEF HookType, Banner
<1>9. /\ screen' = t /\ hook.coming # NoBanner
      /\ UNCHANGED <<rows, writes, requests, typed, invoices>>
  BY <1>1, <1>3 DEF Read, ReadDone, world
<1>10. hook' = [g EXCEPT !.coming = NoBanner, !.banner = b,
                         !.due = @ \/ hook.coming.kind = "restore"]
  BY <1>1, <1>3, <1>5, <1>7, <1>9 DEF Read, ReadDone
<1>11. hook'.coming = NoBanner /\ hook'.banner = b /\ hook'.adopted = hook.adopted
  BY <1>6, <1>10 DEF HookType
<1>12. FormMoves
  BY <1>1, <1>4, <1>9, <1>11 DEF FormMoves, FormKept, FormRestored
<1>13. ComingMoves /\ BannerMoves /\ AdoptedMoves
  BY <1>4, <1>8, <1>9, <1>11 DEF ComingMoves, BannerMoves, AdoptedMoves
<1> QED
  BY <1>9, <1>12, <1>13, SameRequests, SameServer DEF Quiet, Moves, WritesMove, RowsOnlyGo

-----------------------------------------------------------------------------
(* The answers, and what they make *)

LEMMA DoneTakes ==
    ASSUME Inv, NEW r \in requests, NEW d \in Docs, Done(r, d)
    PROVE  /\ ServerTakes /\ d \in DOMAIN invoices'
           /\ DOMAIN invoices' = DOMAIN invoices \/ Made(r, d)
<1>0. /\ r.op \in Ops /\ (r.doc = New => r.op = "save")
      /\ r.doc # New => r.doc \in DOMAIN invoices
  BY DEF Inv, TypeInv, RequestsOK, Request
<1>1. /\ d \in DOMAIN invoices'
      /\ \/ Reads(r) /\ d = r.doc /\ UNCHANGED invoices
         \/ /\ invoices'[d] = Result(r) /\ DOMAIN invoices' = DOMAIN invoices \cup {d}
            /\ \A e \in DOMAIN invoices \ {d} : invoices'[e] = invoices[e]
            /\ r.doc = New => d \notin DOMAIN invoices
            /\ r.doc # New => d = r.doc
  BY DoneTyped DEF Inv, TypeInv
<1>2. CASE UNCHANGED invoices
  BY <1>1, <1>2, SameServer
<1>3. CASE /\ invoices'[d] = Result(r) /\ DOMAIN invoices' = DOMAIN invoices \cup {d}
           /\ \A e \in DOMAIN invoices \ {d} : invoices'[e] = invoices[e]
           /\ r.doc = New => d \notin DOMAIN invoices
           /\ r.doc # New => d = r.doc
  <2>1. /\ r.op \in {"save", "patch"} => invoices'[d].work = r.work
        /\ r.op \notin {"save", "patch"} => invoices'[d].work = invoices[r.doc].work
    BY <1>3 DEF Result, Saves
  <2>2. r.op \in {"save", "patch"} => TakesFrom(r, d)
    BY <1>3, <2>1 DEF TakesFrom
  <2>3. r.op \notin {"save", "patch"} =>
           d \in DOMAIN invoices /\ invoices'[d].work = invoices[d].work
    BY <1>0, <1>3, <2>1
  <2>4. ServerTakes
    BY <1>3, <2>2, <2>3 DEF ServerTakes
  <2>5. CASE r.doc = New
    BY <1>0, <1>1, <1>3, <2>1, <2>4, <2>5 DEF Made, Creates
  <2>6. CASE r.doc # New
    BY <1>0, <1>1, <1>3, <2>4, <2>6
  <2> QED
    BY <2>5, <2>6
<1> QED
  BY <1>1, <1>2, <1>3

LEMMA AnswerKeeps ==
    ASSUME Inv, Inv', Marked, OwnersKept, Moves, NEW r, NEW d,
           DOMAIN invoices' = DOMAIN invoices \/ Made(r, d),
           Made(r, d) /\ r.mounted /\ screen.doc = New => MadeFor(r, d)
    PROVE  OwnersKept'
<1>1. CASE DOMAIN invoices' = DOMAIN invoices
  BY <1>1, QuietKeeps DEF Quiet
<1>2. CASE Made(r, d)
  BY <1>2, MadeKeeps
<1> QED
  BY <1>1, <1>2

LEMMA ReloadOwners ==
    ASSUME Inv, Inv', Marked, OwnersKept, ReloadPage
    PROVE  OwnersKept'
<1>0. Tidy
  BY DEF OwnersKept
<1>1. /\ screen' = Gone /\ hook' = NoHook /\ writes' = <<>> /\ requests' = {}
      /\ rows' = rows /\ typed' = typed
      /\ UNCHANGED <<invoices, clock>> \/ \E r \in requests, d \in Docs : Done(r, d)
  BY DEF ReloadPage
<1>2. /\ FormMoves /\ ComingMoves /\ BannerMoves /\ AdoptedMoves /\ screen'.doc = New
  BY <1>1, GoneMoves
<1>3. RequestsMove /\ IsFiniteSet(requests')
  BY <1>1, FS_EmptySet DEF RequestsMove
<1>4. ServerTakes => Moves
  BY <1>1, <1>2, <1>3 DEF Moves, WritesMove, RowsOnlyGo
<1>5. CASE UNCHANGED <<invoices, clock>>
  BY <1>4, <1>5, SameServer, QuietKeeps DEF Quiet
<1>6. CASE \E r \in requests, d \in Docs : Done(r, d)
  <2>1. PICK r \in requests, d \in Docs : Done(r, d)
    BY <1>6
  <2>2. Moves /\ (DOMAIN invoices' = DOMAIN invoices \/ Made(r, d))
    BY <1>4, <2>1, DoneTakes
  <2>3. MadeFor(r, d)
    BY <1>1, <1>2 DEF MadeFor
  <2> QED
    BY <2>2, <2>3, AnswerKeeps
<1> QED
  BY <1>1, <1>5, <1>6

LEMMA GoesOnMoves ==
    ASSUME Tidy, NEW r \in Request, NEW d, NEW next, next = {} \/ next = After(r, d),
           GoesOn(r, next)
    PROVE  /\ RequestsMove /\ IsFiniteSet(requests')
           /\ \A q \in requests' : Creates(q) => \E p \in requests \ {r} : Creates(p)
<1>1. requests' = (requests \ {r}) \cup next
  BY DEF GoesOn
<1>2. IsFiniteSet(next) /\ \A q \in next : Silent(q)
  <2>1. CASE next = {}
    BY <2>1, FS_EmptySet
  <2>2. CASE next = After(r, d) /\ r.then \notin {"", "new"}
    <3>1. PICK q : q = FollowedUp(r, r.then, d)
      OBVIOUS
    <3>2. next = {q}
      BY <2>2, <3>1 DEF After
    <3>3. q.op = r.then /\ q.work = {}
      BY <3>1 DEF FollowedUp, Request
    <3>4. r.then \in {"post", "intent", "collect"}
      BY <2>2 DEF Request
    <3> QED
      BY <3>2, <3>3, <3>4, FS_Singleton DEF Silent
  <2> QED
    BY <2>1, <2>2 DEF After
<1> QED
  BY <1>1, <1>2, OneGoesOn

LEMMA TakeMoves ==
    ASSUME Inv, NEW r \in requests, NEW t \in Screen, Take(r, t),
           screen' = t => FormMoves
    PROVE  /\ FormMoves /\ HookMoves /\ RowsOnlyGo
           /\ r.mounted => screen' = t
           /\ r.mounted /\ r.op = "save" =>
                 rows' = Without(r.drops \cup {hook.adopted}) \/ rows' = rows
<1>1. CASE r.mounted /\ r.op \in {"save", "post", "undo"}
  <2>1. screen' = t /\ Discard(r.drops, screen, t)
    BY <1>1 DEF Take
  <2>2. PICK keys : keys = r.drops
    OBVIOUS
  <2>3. Discard(keys, screen, t)
    BY <2>1, <2>2
  <2> QED
    BY <2>1, <2>2, <2>3, DiscardMoves
<1>2. CASE r.mounted /\ r.op \notin {"save", "post", "undo"}
  <2>1. PICK g : g = Rendered(hook, rows, screen, t)
    OBVIOUS
  <2>2. screen' = t /\ hook' = g /\ rows' = rows
    BY <1>2, <2>1 DEF Take
  <2> QED
    BY <1>2, <2>1, <2>2, RenderMoves
<1>3. CASE ~r.mounted
  <2>1. /\ screen' = screen /\ hook' = hook
        /\ rows' = Without(r.drops) \/ rows' = rows
    BY <1>3 DEF Take
  <2>2. PICK keys : keys = r.drops
    OBVIOUS
  <2>3. RowsOnlyGo
    <3>1. CASE rows' = Without(keys)
      <4>1. /\ DOMAIN rows' = DOMAIN rows \ keys
            /\ \A k \in DOMAIN rows \ keys : rows'[k] = rows[k]
        BY <3>1, WithoutTyped DEF Inv, TypeInv
      <4> QED
        BY <4>1 DEF RowsOnlyGo
    <3>2. CASE rows' = rows
      BY <3>2 DEF RowsOnlyGo
    <3> QED
      BY <2>1, <2>2, <3>1, <3>2
  <2>4. FormMoves /\ HookMoves
    BY <2>1 DEF FormMoves, FormKept, HookMoves, ComingMoves, BannerMoves, AdoptedMoves
  <2> QED
    BY <1>3, <2>3, <2>4
<1> QED
  BY <1>1, <1>2, <1>3

LEMMA AnsweredOwners ==
    ASSUME Inv, Inv', Marked, OwnersKept, NEW r \in requests, NEW d \in Docs, Answered(r, d)
    PROVE  OwnersKept'
<1>0. Tidy /\ r \in Request
  BY DEF OwnersKept, Inv, TypeInv, RequestsOK
<1>1. Done(r, d) /\ UNCHANGED <<writes, typed>>
  BY DEF Answered
<1>2. /\ ServerTakes /\ d \in DOMAIN invoices'
      /\ DOMAIN invoices' = DOMAIN invoices \/ Made(r, d)
  BY <1>1, DoneTakes
<1>3. /\ RequestsMove /\ IsFiniteSet(requests')
      /\ \A q \in requests' : Creates(q) => \E p \in requests \ {r} : Creates(p)
  <2>1. GoesOn(r, After(r, d)) \/ GoesOn(r, {})
    BY DEF Answered
  <2>2. PICK next : (next = {} \/ next = After(r, d)) /\ GoesOn(r, next)
    BY <2>1
  <2> QED
    BY <1>0, <2>2, GoesOnMoves
<1>4. CASE r.op = "patch"
  <2>1. UNCHANGED <<rows, hook, screen>>
    BY <1>4 DEF Answered
  <2>2. FormMoves /\ HookMoves /\ RowsOnlyGo
    BY <2>1 DEF FormMoves, FormKept, HookMoves, ComingMoves, BannerMoves, AdoptedMoves,
                RowsOnlyGo
  <2>3. Moves
    BY <1>1, <1>2, <1>3, <2>2 DEF Moves, HookMoves, WritesMove
  <2>4. ~Made(r, d)
    BY <1>4 DEF Made, Creates
  <2> QED
    BY <1>2, <2>3, <2>4, AnswerKeeps
<1>5. CASE r.op # "patch"
  <2>1. PICK v : v = invoices'[d]
    OBVIOUS
  <2>2. v \in Invoice
    BY <1>2, <2>1 DEF Inv, TypeInv, ServerOK
  <2>3. PICK t1 : t1 = Applied(screen, d, v)
    OBVIOUS
  <2>4. t1 \in Screen /\ t1.doc = d /\ t1.work = v.work
    BY <2>2, <2>3, ScreenTyped, ScreenFields
  <2>5. PICK t : t = IF r.then = "new" THEN Blank(t1) ELSE t1
    OBVIOUS
  <2>6. t \in Screen /\ ((t.doc = d /\ t.work = v.work) \/ (t.doc = New /\ t.work = {}))
    BY <2>4, <2>5, ScreenFields
  <2>7. Take(r, t)
    BY <1>5, <2>1, <2>3, <2>5 DEF Answered
  <2>8. screen' = t => FormMoves
    BY <1>2, <2>1, <2>6 DEF FormMoves, FormTaken, FormEmptied
  <2>9. /\ FormMoves /\ HookMoves /\ RowsOnlyGo
        /\ r.mounted => screen' = t
        /\ r.mounted /\ r.op = "save" =>
              rows' = Without(r.drops \cup {hook.adopted}) \/ rows' = rows
    BY <2>6, <2>7, <2>8, TakeMoves
  <2>10. Moves
    BY <1>1, <1>2, <1>3, <2>9 DEF Moves, HookMoves, WritesMove
  <2>11. ASSUME Made(r, d), r.mounted PROVE MadeFor(r, d)
    <3>1. r.op = "save" /\ r.doc = New /\ v.work = r.work
      BY <2>1, <2>11 DEF Made, Creates
    <3>2. New \in r.drops
      BY <1>0, <3>1 DEF Tidy
    <3>3. rows' = rows \/ DOMAIN rows' \cap {New, hook.adopted} = {}
      <4>1. PICK all : all = r.drops \cup {hook.adopted}
        OBVIOUS
      <4>2. rows' = Without(all) \/ rows' = rows
        BY <2>9, <2>11, <3>1, <4>1
      <4>3. rows' = Without(all) => DOMAIN rows' = DOMAIN rows \ all
        BY WithoutTyped DEF Inv, TypeInv
      <4> QED
        BY <3>2, <4>1, <4>2, <4>3
    <3>4. screen'.doc = New \/ (screen'.doc = d /\ screen'.work = r.work)
      BY <2>6, <2>9, <2>11, <3>1
    <3> QED
      BY <1>1, <1>3, <3>3, <3>4 DEF MadeFor
  <2> QED
    BY <1>2, <2>10, <2>11, AnswerKeeps
<1> QED
  BY <1>4, <1>5

LEMMA FailedOwners ==
    ASSUME Inv, Inv', Marked, OwnersKept, NEW r \in requests, Failed(r)
    PROVE  OwnersKept'
<1>0. Tidy
  BY DEF OwnersKept
<1>1. /\ requests' = (requests \ {r}) \cup {} /\ UNCHANGED <<writes, typed>>
      /\ UNCHANGED <<invoices, clock>> \/ \E d \in Docs : Done(r, d)
  BY DEF Failed, Unanswered
<1>2. /\ RequestsMove /\ IsFiniteSet(requests')
      /\ \A q \in requests' : Creates(q) => \E p \in requests \ {r} : Creates(p)
  BY <1>0, <1>1, FS_EmptySet, OneGoesOn
<1>3. /\ FormMoves /\ HookMoves /\ RowsOnlyGo
      /\ Creates(r) => rows' = rows /\ (screen'.doc = New \/ screen' = screen)
  <2>0. \/ Show(Blank(screen)) /\ UNCHANGED rows
        \/ r.op = "undo" /\ Take(r, screen)
        \/ UNCHANGED <<rows, hook, screen>>
    BY DEF Failed
  <2>1. CASE Show(Blank(screen)) /\ UNCHANGED rows
    <3>1. PICK t : t = Blank(screen)
      OBVIOUS
    <3>2. t \in Screen /\ t.doc = New /\ t.work = {}
      BY <3>1, ScreenTyped, ScreenFields
    <3>3. PICK g : g = Rendered(hook, rows, screen, t)
      OBVIOUS
    <3>4. screen' = t /\ hook' = g /\ rows' = rows
      BY <2>1, <3>1, <3>3 DEF Show
    <3>5. FormMoves
      BY <3>2, <3>4 DEF FormMoves, FormEmptied
    <3> QED
      BY <3>2, <3>3, <3>4, <3>5, RenderMoves
  <2>2. CASE r.op = "undo" /\ Take(r, screen)
    <3>1. screen' = screen => FormMoves
      BY DEF FormMoves, FormKept
    <3> QED
      BY <2>2, <3>1, ScreenTyped, TakeMoves DEF Creates
  <2>3. CASE UNCHANGED <<rows, hook, screen>>
    BY <2>3 DEF FormMoves, FormKept, HookMoves, ComingMoves, BannerMoves, AdoptedMoves,
                RowsOnlyGo
  <2> QED
    BY <2>0, <2>1, <2>2, <2>3
<1>4. ServerTakes => Moves
  BY <1>1, <1>2, <1>3 DEF Moves, HookMoves, WritesMove
<1>5. CASE UNCHANGED <<invoices, clock>>
  BY <1>4, <1>5, SameServer, QuietKeeps DEF Quiet
<1>6. CASE \E d \in Docs : Done(r, d)
  <2>1. PICK d \in Docs : Done(r, d)
    BY <1>6
  <2>2. Moves /\ (DOMAIN invoices' = DOMAIN invoices \/ Made(r, d))
    BY <1>4, <2>1, DoneTakes
  <2>3. ASSUME Made(r, d), screen.doc = New PROVE MadeFor(r, d)
    BY <1>1, <1>2, <1>3, <2>3 DEF MadeFor, Made
  <2> QED
    BY <2>2, <2>3, AnswerKeeps
<1> QED
  BY <1>1, <1>5, <1>6

-----------------------------------------------------------------------------

LEMMA InitOwners == ASSUME Init PROVE OwnersKept
<1>1. /\ screen.doc = New /\ screen.work = {} /\ ~screen.open
      /\ hook.coming = NoBanner /\ hook.banner = NoBanner /\ hook.adopted = NoKey
      /\ writes = <<>> /\ requests = {}
  BY NoHookTyped DEF Init
<1>2. NoBanner.work = {} /\ NoBanner.kind = "none"
  BY DEF NoBanner
<1>3. \A k, x : ~OnForm(k, x) /\ ~Sent(k, x) /\ ~OnItsWay(k, x)
  BY <1>1, <1>2, EmptySeq DEF OnForm, Sent, OnItsWay
<1>4. \A k, x : ~Saved(k, x)
  <2>1. CASE invoices = <<>>
    BY <2>1, EmptySeq DEF Saved
  <2>2. CASE invoices = [d \in {CHOOSE d \in Docs : TRUE} |->
                            [work |-> {}, posted |-> FALSE, stamp |-> 1]]
    BY <2>2 DEF Saved
  <2> QED
    BY <2>1, <2>2 DEF Init
<1>5. /\ DOMAIN rows \subseteq {Orphan}
      /\ \A k, x : Drafted(k, x) => k = Orphan /\ x = 1 /\ typed = 1
  <2>1. CASE rows = <<>>
    BY <2>1, EmptySeq DEF Drafted
  <2>2. CASE rows = [k \in {Orphan} |-> [work |-> {1}, stamp |-> NoStamp]]
    <3>1. Orphan \in DOMAIN rows /\ DOMAIN rows = {Orphan} /\ rows[Orphan].work = {1}
      BY <2>2
    <3>2. rows # <<>>
      BY <3>1, EmptySeq
    <3>3. typed = 1
      BY <3>2 DEF Init
    <3> QED
      BY <3>1, <3>3 DEF Drafted
  <2> QED
    BY <2>1, <2>2 DEF Init
<1>6. New # Orphan /\ \A d \in Docs : d # Orphan
  BY Keyed DEF New, Orphan
<1>7. \A x : /\ \A d \in Docs : ~OfInvoice(d, x)
             /\ ~Unsaved(x)
  BY <1>3, <1>4, <1>5, <1>6 DEF OfInvoice, Unsaved
<1>8. Tidy
  <2>1. \A x : Known(x) => x \in 1..typed
    BY <1>3, <1>5, <1>7 DEF Known, OfNew
  <2>2. Len(writes) = 0
    BY <1>1, EmptySeq
  <2>3. IsFiniteSet(requests)
    BY <1>1, FS_EmptySet
  <2> QED
    BY <1>1, <1>2, <1>5, <2>1, <2>2, <2>3 DEF Tidy
<1>9. OwnersInv
  <2>1. OneOwner /\ Overtaken
    BY <1>7 DEF OneOwner, Overtaken
  <2>2. OneCreation /\ ComingApart /\ NoStaleNew
    BY <1>1, <1>2 DEF OneCreation, ComingApart, NoStaleNew
  <2>3. OrphanApart
    BY <1>3, <1>7 DEF OrphanApart
  <2> QED
    BY <2>1, <2>2, <2>3 DEF OwnersInv
<1> QED
  BY <1>8, <1>9 DEF OwnersKept

LEMMA StepOwners == ASSUME Inv, Inv', OwnersKept, [Next]_vars PROVE OwnersKept'
<1>0. Tidy
  BY DEF OwnersKept
<1>1. CASE UNCHANGED vars
  <2>1. UNCHANGED <<rows, writes, hook, screen, typed, requests, invoices, marks>>
    BY <1>1 DEF vars, drafts
  <2>2. \A k, x : /\ OnForm(k, x)' <=> OnForm(k, x)
                  /\ Sent(k, x)' <=> Sent(k, x)
                  /\ Drafted(k, x)' <=> Drafted(k, x)
                  /\ Saved(k, x)' <=> Saved(k, x)
                  /\ OnItsWay(k, x)' <=> OnItsWay(k, x)
    BY <2>1 DEF OnForm, Sent, Drafted, Saved, OnItsWay
  <2>3. Tidy'
    BY <2>1 DEF OwnersKept, Tidy, Known, OfInvoice, OfNew, Unsaved, OnForm, Sent, Drafted,
                Saved, OnItsWay
  <2>4. \A d, x : /\ OfInvoice(d, x)' <=> OfInvoice(d, x)
                  /\ Carries(d, x)' <=> Carries(d, x)
    BY <2>1 DEF OfInvoice, Carries, OnForm, Sent, Drafted, Saved, OnItsWay
  <2>5. \A x : (OfNew(x)' <=> OfNew(x)) /\ (Unsaved(x)' <=> Unsaved(x))
    BY <2>2 DEF OfNew, Unsaved
  <2>6. \A i, d : LateFor(i, d)' <=> LateFor(i, d)
    BY <2>1 DEF LateFor
  <2>7. OneOwner => OneOwner'
    BY <2>4, <2>5 DEF OneOwner
  <2>8. Overtaken => Overtaken'
    BY <2>1, <2>4, <2>6 DEF Overtaken
  <2>9. OrphanApart => OrphanApart'
    BY <2>1, <2>2, <2>5 DEF OrphanApart
  <2>10. (OneCreation => OneCreation') /\ (ComingApart => ComingApart')
         /\ (NoStaleNew => NoStaleNew')
    BY <2>1 DEF OneCreation, ComingApart, NoStaleNew
  <2> QED
    BY <2>1, <2>3, <2>7, <2>8, <2>9, <2>10 DEF OwnersKept, OwnersInv, Calm
<1>2. CASE UserStep /\ Marked
  <2>1. CASE Edit
    BY <1>2, <2>1, EditOwnersKept
  <2>2. CASE ReloadPage
    BY <1>2, <2>2, ReloadOwners
  <2>3. CASE ~Edit /\ ~ReloadPage
    <3>1. Quiet
      BY <1>0, <1>2, <2>3, OpenEditorMoves, NavigateMoves, StartEditingMoves, ResetMoves,
         CloseMoves, SignOutMoves, UndoMoves, ApplyStaleMoves, DiscardStaleMoves,
         OpenOrphanMoves, DeleteOrphanMoves, ButtonsMove DEF UserStep
    <3> QED
      BY <1>2, <3>1, QuietKeeps
  <2> QED
    BY <2>1, <2>2, <2>3
<1>3. CASE HookStep /\ Marked
  <2>1. CASE WriteEnds
    BY <1>3, <2>1, WriteOwnersKept
  <2>2. CASE Debounce \/ Hidden \/ Read
    BY <1>0, <1>3, <2>2, WriteNowMoves, ReadMoves, QuietKeeps
  <2> QED
    BY <1>3, <2>1, <2>2 DEF HookStep
<1>4. CASE NetStep /\ Marked
  BY <1>4, AnsweredOwners, FailedOwners DEF NetStep, Ends
<1> QED
  BY <1>1, <1>2, <1>3, <1>4 DEF Next

-----------------------------------------------------------------------------
(* The theorems *)

(* The rows, the writes, the hook, the form, the requests and the invoices   *)
(* have their types; the form is about an invoice that the server has, and *)
(* orphans are offered to a new one only.                                  *)
THEOREM EditorTyped == Spec => []TypeOK
<1>1. Spec => []Inv
  BY InitInv, StepKeeps, PTL DEF Spec
<1> QED
  BY <1>1, InvTyped, PTL

(* Once the user has paused and no write is on its way, the draft is the    *)
(* form, unless it was dropped or could not be written.                    *)
THEOREM DraftFollows == Spec => []DraftFollowsForm
<1>1. Spec => []Inv
  BY InitInv, StepKeeps, PTL DEF Spec
<1> QED
  BY <1>1, InvFollows, PTL

(* A form that is not marked as changed holds the work the server keeps     *)
(* under the stamp it bears, whatever answered, failed or came late before, *)
(* and whoever posted or unposted the invoice meanwhile.                   *)
THEOREM CleanIsSaved == Spec => []CleanMeansSaved
<1>1. Spec => []Inv
  BY InitInv, StepKeeps, PTL DEF Spec
<1>2. Inv => CleanMeansSaved
  BY DEF Inv, FormInv
<1> QED
  BY <1>1, <1>2, PTL

(* No edit lands in two invoices, by a click that makes several requests,   *)
(* a draft that comes back, an orphan or a write that ends late, as long as *)
(* nothing disturbed the making of an invoice.                             *)
THEOREM SavedInOne == Spec => []SavedOnce
<1>1. Spec => []Inv
  BY InitInv, StepKeeps, PTL DEF Spec
<1>2. Init => OwnersKept
  BY InitOwners
<1>3. OwnersKept /\ Inv /\ Inv' /\ [Next]_vars => OwnersKept'
  BY StepOwners
<1>4. Spec => []OwnersKept
  BY <1>1, <1>2, <1>3, PTL DEF Spec
<1> QED
  BY <1>1, <1>4, OwnersGive, PTL

=============================================================================
