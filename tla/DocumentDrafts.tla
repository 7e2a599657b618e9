--------------------------- MODULE DocumentDrafts ---------------------------
(***************************************************************************)
(* The local drafts of documents: rows in the browser's database, and the  *)
(* hook through which one editor of one tab writes, restores and drops     *)
(* them.  The editor that uses the hook tells it, at each rendering, the   *)
(* document, the work on the form and whether a user touched it.           *)
(*                                                                         *)
(* The work of a form is the set of edits it holds; every edit is a new    *)
(* one, so that two forms share an edit only if the program copied it.     *)
(***************************************************************************)
EXTENDS Integers, Sequences, Functions

CONSTANTS
    Docs,       \* ids the server gives to documents
    MaxEdits,   \* bound: edits a user makes
    Forgotten,  \* edits that restoring a draft forgets: serials, line notes
    MaxWrites   \* bound: writes of drafts under way

ASSUME DraftsAssumption ==
    /\ Docs \subseteq Nat \ {0} /\ Docs # {}
    /\ MaxEdits \in Nat \ {0} /\ MaxWrites \in Nat \ {0}
    /\ Forgotten \subseteq 1..MaxEdits

VARIABLES
    rows,       \* document_drafts: a draft for some of the keys
    writes,     \* runs of writeNow whose transaction has not ended
    hook        \* the state and the refs of useDocumentDraft

drafts == <<rows, writes, hook>>

Edits == 1..MaxEdits
Work == SUBSET Edits

(* The key of a document, of a new document in this tab, of one left by a  *)
(* tab that is gone.                                                       *)
New == 0
Orphan == -1
NoKey == -2
Keys == Docs \cup {New, Orphan}

NoStamp == 0
Row == [work: Work, stamp: Nat]
Banner == [kind: {"none", "restore", "stale"}, work: Work]
NoBanner == [kind |-> "none", work |-> {}]

HookType ==
    [stamp: Nat, due: BOOLEAN, coming: Banner, banner: Banner,
     orphans: SUBSET {Orphan}, adopted: {NoKey, Orphan}]

DraftsTypeOK ==
    /\ DOMAIN rows \subseteq Keys /\ \A k \in DOMAIN rows : rows[k] \in Row
    /\ \A i \in DOMAIN writes :
          writes[i] \in [key: Docs \cup {New}, row: Row]
    /\ hook \in HookType

-----------------------------------------------------------------------------

(* What the editor shows the hook *)
Stamp(s) == IF s.doc = New THEN NoStamp ELSE s.stamp

(* evaluateDraftRestore; the banner over a posted document only informs. *)
Eligibility(row, s) ==
    IF s.posted THEN "none"
    ELSE IF NoStamp \notin {row.stamp, Stamp(s)} /\ row.stamp # Stamp(s) THEN "stale"
    ELSE "restore"

(* What the database, which serves one question after the other, is going   *)
(* to say of the document s                                                *)
Found(db, s) ==
    IF s.doc \in DOMAIN db /\ Eligibility(db[s.doc], s) # "none"
    THEN [kind |-> Eligibility(db[s.doc], s), work |-> db[s.doc].work]
    ELSE NoBanner
Orphans(db, s) == IF s.doc = New THEN DOMAIN db \cap {Orphan} ELSE {}

NoHook ==
    [stamp |-> NoStamp, due |-> FALSE, coming |-> NoBanner, banner |-> NoBanner,
     orphans |-> {}, adopted |-> NoKey]
FreshHook(db, s) ==
    [NoHook EXCEPT !.stamp = Stamp(s), !.coming = Found(db, s), !.orphans = Orphans(db, s)]

RenderedOrphansStay(h, db, s, t) ==   \* mutant: the list of orphans outlives a new document
    IF t.doc # s.doc
    THEN [h EXCEPT !.stamp = Stamp(t), !.due = t.dirty, !.coming = Found(db, t)]
    ELSE [h EXCEPT !.stamp = IF @ = NoStamp THEN Stamp(t) ELSE @,
                   !.due = t.dirty /\ (@ \/ ~s.dirty \/ t.work # s.work)]
RenderedOnce(h, db, s, t) ==   \* mutant: the pause is counted from the first edit only
    IF t.doc # s.doc
    THEN [h EXCEPT !.stamp = Stamp(t), !.due = t.dirty, !.coming = Found(db, t),
                   !.orphans = Orphans(db, t)]
    ELSE [h EXCEPT !.stamp = IF @ = NoStamp THEN Stamp(t) ELSE @,
                   !.due = t.dirty /\ (@ \/ ~s.dirty)]
(* The editor, which showed s, is rendered as t: another document is read   *)
(* from the database; the same one keeps the stamp it was first seen with,  *)
(* and waits again for the user to pause.                                   *)
Rendered(h, db, s, t) ==
    IF t.doc # s.doc
    THEN [h EXCEPT !.stamp = Stamp(t), !.due = t.dirty, !.coming = Found(db, t),
                   !.orphans = Orphans(db, t)]
    ELSE [h EXCEPT !.stamp = IF @ = NoStamp THEN Stamp(t) ELSE @,
                   !.due = t.dirty /\ (@ \/ ~s.dirty \/ t.work # s.work)]

WrittenIfSaved(box, s) ==   \* mutant: a document never saved keeps no draft
    IF s.dirty /\ s.doc # New
    THEN Append(box, [key |-> s.doc, 
                      row |-> [work |-> s.work, stamp |-> hook.stamp]])
    ELSE box
(* writeNow of the form s, if a user touched it *)
Written(box, s) ==
    IF s.dirty
    THEN Append(box, [key |-> s.doc, 
                      row |-> [work |-> s.work, stamp |-> hook.stamp]])
    ELSE box

(* f, with v for k *)
With(f, k, v) == [j \in DOMAIN f \cup {k} |-> IF j = k THEN v ELSE f[j]]
Without(keys) == Restrict(rows, DOMAIN rows \ keys)

(* discardDraft, by a closure that knows these keys, while the form turns    *)
(* from s to t: the orphan opened last goes too.  A deletion that fails is  *)
(* passed over in silence.                                                  *)
DiscardKeepsOrphan(keys, s, t) ==   \* mutant: the orphan that was opened stays
    LET h == [hook EXCEPT !.banner = NoBanner, !.adopted = NoKey, !.orphans = @ \ keys]
    IN  rows' = Without(keys) /\ hook' = Rendered(h, rows', s, t)
Discard(keys, s, t) ==
    LET all == keys \cup {hook.adopted}
        h == [hook EXCEPT !.banner = NoBanner, !.adopted = NoKey, !.orphans = @ \ all]
    IN  rows' \in {Without(all), rows} /\ hook' = Rendered(h, rows', s, t)

-----------------------------------------------------------------------------
(* What happens by itself, s on the form *)

(* The user has paused for half a second, or the tab is hidden. *)
WriteNow(s) ==
    /\ s.dirty /\ Len(writes) < MaxWrites
    /\ writes' = Written(writes, s)
    /\ UNCHANGED rows

DebounceFires(s) ==
    /\ hook.due
    /\ hook' = [hook EXCEPT !.due = FALSE]
    /\ WriteNow(s)

TabHidden(s) ==
    /\ WriteNow(s)
    /\ UNCHANGED hook

(* The oldest write ends, though the editor that asked for it may be gone. *)
WriteDone ==
    /\ writes # <<>>
    /\ writes' = Tail(writes)
    /\ rows' = With(rows, Head(writes).key, Head(writes).row)
    /\ UNCHANGED hook

(* The quota is used up, or the browser keeps nothing: a banner says so. *)
WriteFails ==
    /\ writes # <<>>
    /\ writes' = Tail(writes)
    /\ UNCHANGED <<rows, hook>>

(* The editor is taken off the page: what it holds is written once more. *)
Unmounted(s) == Written(writes, s)

(* The database answers; t is the form then, restored if the draft may be. *)
ReadDone(s, t) ==
    /\ hook.coming # NoBanner
    /\ hook' = [Rendered(hook, rows, s, t) EXCEPT
                   !.coming = NoBanner,
                   !.banner = [hook.coming EXCEPT !.work = IF hook.coming.kind = "stale" THEN @ ELSE {}],
                   !.due = @ \/ hook.coming.kind = "restore"]
    /\ UNCHANGED <<rows, writes>>

=============================================================================
