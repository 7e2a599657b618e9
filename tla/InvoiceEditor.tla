---------------------------- MODULE InvoiceEditor ----------------------------
(***************************************************************************)
(* The sales invoice editor of one tab: the form, its local draft, and the *)
(* requests that save, post, unpost and collect, some of them made one     *)
(* after the other by one click, while the user goes on typing, turns to   *)
(* another invoice, closes the editor, reloads the page or signs out.      *)
(***************************************************************************)
EXTENDS DocumentDrafts, FiniteSets

CONSTANTS
    MaxStamp,       \* bound: changes of invoices on the server
    MaxRequests     \* bound: requests under way

ASSUME EditorAssumption == MaxStamp \in Nat \ {0} /\ MaxRequests \in Nat \ {0}

VARIABLES
    screen,     \* the form and what it is about
    typed,      \* edits made so far
    busy,       \* the flags that disable buttons
    requests,   \* requests under way, each with what its closure remembers
    invoices,   \* the server: the invoices
    clock,      \* the server: the time of the last change
    signedIn,   \* a user is signed in
    marks       \* history, see Marked

vars == <<drafts, screen, typed, busy, requests, invoices, clock, signedIn, marks>>
world == <<typed, invoices, clock, signedIn>>

-----------------------------------------------------------------------------
(* Types *)

Screen == [open: BOOLEAN, doc: Docs \cup {New}, work: Work, dirty: BOOLEAN,
           posted: BOOLEAN, view: BOOLEAN, stamp: Nat]
Flags == {"saving", "posting", "collecting"}
Invoice == [work: Work, posted: BOOLEAN, stamp: Nat]
Ops == {"save", "patch", "post", "unpost", "intent", "collect", "load", "undo"}
Request == [op: Ops, doc: Docs \cup {New}, work: Work, drops: SUBSET Keys,
            then: {"", "post", "intent", "collect", "new"},
            mounted: BOOLEAN]

TypeOK ==
    /\ DraftsTypeOK
    /\ screen \in Screen /\ typed \in 0..MaxEdits /\ busy \subseteq Flags
    /\ requests \subseteq Request
    /\ DOMAIN invoices \subseteq Docs /\ \A d \in DOMAIN invoices : invoices[d] \in Invoice
    /\ clock \in 0..MaxStamp /\ signedIn \in BOOLEAN
    /\ marks \subseteq {"apart", "dropped", "undoFailed"}
    /\ screen.doc # New => screen.doc \in DOMAIN invoices
    /\ hook.orphans # {} => screen.doc = New

-----------------------------------------------------------------------------
(* Helpers *)

ReadOnly == screen.posted \/ screen.view

(* resetForm *)
Blank(s) == [s EXCEPT !.doc = New, !.work = {}, !.dirty = FALSE,
                      !.posted = FALSE, !.stamp = NoStamp]

(* applyDetail: the form becomes what the server answered. *)
Applied(s, d, inv) ==
    [s EXCEPT !.doc = d, !.work = inv.work, !.dirty = FALSE,
              !.posted = inv.posted, !.stamp = inv.stamp]

(* onRestoreDraft *)
Restored(work) == [screen EXCEPT !.work = work \ Forgotten, !.dirty = TRUE]

Show(t) == screen' = t /\ hook' = Rendered(hook, rows, screen, t)

(* The editor is gone: nothing of it is on the page. *)
Gone == [Blank(screen) EXCEPT !.open = FALSE, !.view = FALSE]

(* A request made by the present rendering, with the work it carries *)
Ask(op, then) ==
    [op |-> op, doc |-> screen.doc, drops |-> {screen.doc},
     work |-> IF op \in {"save", "patch"} THEN screen.work ELSE {},
     then |-> then, mounted |-> TRUE]

(* validateClient: a new invoice has a line. *)
Valid == screen.doc # New \/ screen.work # {}

Send(r, flags) ==
    /\ screen.open /\ Valid /\ Cardinality(requests) < MaxRequests
    /\ requests' = requests \cup {r}
    /\ busy' = busy \cup flags

Loading(d) ==
    /\ Cardinality(requests) < MaxRequests
    /\ requests' = requests \cup {[Ask("load", "") EXCEPT !.doc = d, !.drops = {}]}

(* The next request of the same click, for the invoice d just saved *)
FollowedUp(r, op, d) == [r EXCEPT !.op = op, !.doc = d, !.then = "", !.work = {}]

-----------------------------------------------------------------------------
(* The server *)

(* What it will do for r *)
Accepts(r) ==
    r.doc # New => CASE r.op = "unpost" -> invoices[r.doc].posted
                     [] r.op \in {"save", "patch", "post", "intent"} -> ~invoices[r.doc].posted
                     [] OTHER -> TRUE

Reads(r) == r.op \in {"load", "undo"}
Saves(r) == r.op \in {"save", "patch"}

(* The invoice after it: only a save writes updated_at. *)
Result(r) ==
    [work |-> IF Saves(r) THEN r.work ELSE invoices[r.doc].work,
     posted |-> r.op \in {"post", "collect"},
     stamp |-> IF Saves(r) THEN clock + 1 ELSE invoices[r.doc].stamp]

(* The server does what r asks: its invoice is d from now on. *)
Done(r, d) ==
    IF Reads(r) THEN d = r.doc /\ UNCHANGED <<invoices, clock>>
    ELSE /\ Accepts(r) /\ clock < MaxStamp
         /\ d \in IF r.doc = New THEN Docs \ DOMAIN invoices ELSE {r.doc}
         /\ invoices' = With(invoices, d, Result(r))
         /\ clock' = clock + 1

-----------------------------------------------------------------------------
(* The user at the form *)

OpenEditor(d) ==
    /\ signedIn /\ ~screen.open
    /\ screen' = [Gone EXCEPT !.open = TRUE, !.view = (d # New)]
    /\ hook' = FreshHook(rows, screen')
    /\ IF d = New THEN UNCHANGED requests
       ELSE Loading(d)
    /\ UNCHANGED <<rows, writes, busy, world>>

(* loadInvoice, from the buttons "next" and "previous" *)
Navigate(d) ==
    /\ screen.open /\ d # screen.doc
    /\ \A r \in requests : r.op = "load" => ~r.mounted
    /\ Loading(d)
    /\ UNCHANGED <<drafts, screen, busy, world>>

Edit ==
    /\ screen.open /\ ~ReadOnly /\ typed < MaxEdits
    /\ typed' = typed + 1
    /\ Show([screen EXCEPT !.work = @ \cup {typed'}, !.dirty = TRUE])
    /\ UNCHANGED <<rows, writes, busy, requests, invoices, clock, signedIn>>

StartEditing ==
    /\ screen.open /\ screen.view /\ ~screen.posted
    /\ Show([screen EXCEPT !.view = FALSE])
    /\ UNCHANGED <<rows, writes, busy, requests, world>>

(* Escape, and "new" or "cancel" when the user gives up what is not saved *)
Reset ==
    /\ screen.open
    /\ Show(Blank(screen))
    /\ UNCHANGED <<rows, writes, busy, requests, world>>

(* The unmount: closures that wait for an answer go on without a form. *)
Close ==
    /\ screen.open /\ Len(writes) < MaxWrites
    /\ writes' = Unmounted(screen)
    /\ screen' = Gone
    /\ hook' = NoHook
    /\ busy' = {}
    /\ requests' = {[r EXCEPT !.mounted = FALSE,
                              !.drops = @ \cup (IF r.mounted THEN {hook.adopted} \ {NoKey}
                                                ELSE {})] : r \in requests}
    /\ UNCHANGED <<rows, world>>

(* The page is reloaded, or crashes: no closure and no write survives.  Of  *)
(* the requests sent the server may still do one.                          *)
ReloadPage ==
    /\ screen.open
    /\ screen' = Gone
    /\ hook' = NoHook
    /\ writes' = <<>> /\ busy' = {}
    /\ requests' = {}
    /\ UNCHANGED <<invoices, clock>> \/ \E r \in requests, d \in Docs : Done(r, d)
    /\ UNCHANGED <<rows, typed, signedIn>>

(* logoutUser empties the drafts, then the editor is unmounted. *)
SignOut ==
    /\ signedIn /\ signedIn' = FALSE
    /\ rows' = <<>>
    /\ writes' = Unmounted(screen)
    /\ screen' = Gone
    /\ hook' = NoHook
    /\ busy' = {}
    /\ requests' = {[r EXCEPT !.mounted = FALSE] : r \in requests}
    /\ UNCHANGED <<typed, invoices, clock>>

-----------------------------------------------------------------------------
(* The banners *)

(* handleUndoDraft.  Until the next rendering the hook sees a touched form, *)
(* so a pause under way may still end in a write.                          *)
Undo ==
    /\ screen.open /\ hook.banner.kind = "restore"
    /\ IF screen.doc = New
       THEN /\ screen' = Blank(screen)
            /\ Discard({New}, screen, screen')
            /\ UNCHANGED <<writes, busy, requests>>
       ELSE /\ Show([screen EXCEPT !.dirty = FALSE])
            /\ Send(Ask("undo", ""), {})
            /\ UNCHANGED rows
            /\ UNCHANGED writes \/ (Len(writes) < MaxWrites /\ writes' = Written(writes, screen))
    /\ UNCHANGED world

ApplyStale ==
    /\ screen.open /\ hook.banner.kind = "stale"
    /\ Show(Restored(hook.banner.work))
    /\ UNCHANGED <<rows, writes, busy, requests, world>>

DiscardStale ==
    /\ screen.open /\ hook.banner.kind = "stale"
    /\ Discard({screen.doc}, screen, screen)
    /\ UNCHANGED <<writes, screen, busy, requests, world>>

(* The orphans are listed when the draft was read: they are asked for next. *)
Listed == IF hook.coming = NoBanner THEN hook.orphans ELSE {}

OpenOrphan(k) ==
    /\ screen.open /\ k \in Listed \cap DOMAIN rows
    /\ screen' = Restored(rows[k].work)
    /\ hook' = [Rendered(hook, rows, screen, screen') EXCEPT !.adopted = k]
    /\ UNCHANGED <<rows, writes, busy, requests, world>>

DeleteOrphan(k) ==
    /\ screen.open /\ k \in Listed
    /\ rows' \in {Without({k}), rows}
    /\ hook' = [hook EXCEPT !.orphans = @ \ {k}, !.adopted = IF @ = k THEN NoKey ELSE @]
    /\ UNCHANGED <<writes, screen, busy, requests, world>>

-----------------------------------------------------------------------------
(* The buttons that ask the server *)

Save ==
    /\ ~ReadOnly /\ "saving" \notin busy
    /\ Send(Ask("save", ""), {"saving"})
    /\ UNCHANGED <<drafts, screen, world>>

SaveAndPost ==
    /\ ~ReadOnly /\ busy \cap {"saving", "posting"} = {}
    /\ Send(Ask("save", "post"), {"saving"})
    /\ UNCHANGED <<drafts, screen, world>>

(* guardedReset, when the user chooses to save first *)
SaveThenNew ==
    /\ ~screen.posted /\ screen.dirty
    /\ Send(Ask("save", "new"), {"saving"})
    /\ UNCHANGED <<drafts, screen, world>>

(* handlePost saves what is not saved, then posts. *)
Post ==
    /\ ~screen.posted /\ screen.doc # New /\ "posting" \notin busy
    /\ Send(IF screen.dirty THEN Ask("patch", "post") ELSE Ask("post", ""), {"posting"})
    /\ UNCHANGED <<drafts, screen, world>>

Unpost ==
    /\ screen.posted /\ "posting" \notin busy
    /\ Send(Ask("unpost", ""), {"posting"})
    /\ UNCHANGED <<drafts, screen, world>>

(* fillCollectFull on a draft *)
PayFull ==
    /\ ~screen.posted /\ busy \cap {"saving", "collecting"} = {}
    /\ Send(Ask("save", "intent"), {"saving"})
    /\ UNCHANGED <<drafts, screen, world>>

(* writeIntent from the panel and the table of payments *)
WriteIntent ==
    /\ ~screen.posted /\ "collecting" \notin busy
    /\ IF screen.doc = New
       THEN Send(Ask("save", "intent"), {"saving"})
       ELSE Send(Ask("intent", ""), {"collecting"})
    /\ UNCHANGED <<drafts, screen, world>>

(* submitCollect: a draft is saved, then posted and collected at once. *)
Collect ==
    /\ "collecting" \notin busy
    /\ IF screen.posted
       THEN Send(Ask("collect", ""), {"collecting"})
       ELSE Send(Ask("save", "collect"), {"saving", "collecting"})
    /\ UNCHANGED <<drafts, screen, world>>

-----------------------------------------------------------------------------
(* The answers *)

FlagOf == [op \in Ops |-> CASE op = "save" -> "saving"
                            [] op \in {"patch", "post", "unpost"} -> "posting"
                            [] op \in {"intent", "collect"} -> "collecting"
                            [] OTHER -> "none"]

(* The closure of r ends, or goes on with the requests next. *)
GoesOn(r, next) ==
    /\ requests' = (requests \ {r}) \cup next
    /\ busy' = IF ~r.mounted THEN busy
               ELSE (busy \ {FlagOf[r.op]}) \cup {FlagOf[n.op] : n \in next}

(* applyDetail, then discardDraft for the operations that end a draft.     *)
(* After the unmount only the draft is dropped.                            *)
Take(r, t) ==
    LET ends == r.op \in {"save", "post", "undo"}
    IN  IF r.mounted
        THEN /\ screen' = t
             /\ IF ends THEN Discard(r.drops, screen, t)
                ELSE hook' = Rendered(hook, rows, screen, t) /\ UNCHANGED rows
        ELSE /\ rows' \in {rows, IF ends THEN Without(r.drops) ELSE rows}
             /\ UNCHANGED <<screen, hook>>

After(r, d) == IF r.then \in {"", "new"} THEN {} ELSE {FollowedUp(r, r.then, d)}

(* Done and answered.  A payment of the whole may find nothing to pay. *)
Answered(r, d) ==
    /\ Done(r, d)
    /\ IF r.op = "patch"
       THEN GoesOn(r, After(r, d)) /\ UNCHANGED <<rows, hook, screen>>
       ELSE LET t == Applied(screen, d, invoices'[d])
            IN  /\ Take(r, IF r.then = "new" THEN Blank(t) ELSE t)
                /\ \/ GoesOn(r, After(r, d))
                   \/ r.then = "intent" /\ GoesOn(r, {})
    /\ UNCHANGED <<writes, typed, signedIn>>

(* Refused, or done and the answer lost *)
Unanswered(r) ==
    \/ UNCHANGED <<invoices, clock>>
    \/ ~Reads(r) /\ \E d \in Docs : Done(r, d)

FailedNoFinally(r) ==   \* mutant: a failure leaves the flags as they are
    /\ Unanswered(r)
    /\ requests' = requests \ {r}
    /\ UNCHANGED <<rows, writes, hook, screen, busy, typed, signedIn>>
FailedClean(r) ==   \* mutant: a save that fails leaves the form marked as saved
    /\ Unanswered(r)
    /\ GoesOn(r, {})
    /\ IF r.mounted THEN Show([screen EXCEPT !.dirty = FALSE]) ELSE UNCHANGED <<screen, hook>>
    /\ UNCHANGED <<rows, writes, typed, signedIn>>
(* The closure ends.  "Save, then new" starts the new invoice all the same; *)
(* an undo drops the draft.                                                *)
Failed(r) ==
    /\ Unanswered(r)
    /\ requests' = requests \ {r}
    /\ busy' = IF ~r.mounted THEN busy
               ELSE busy \ ({FlagOf[r.op]} \cup (IF r.then = "collect" THEN {"collecting"} ELSE {}))
    /\ CASE r.mounted /\ r.then = "new" -> Show(Blank(screen)) /\ UNCHANGED rows
         [] r.op = "undo" -> Take(r, screen)
         [] OTHER -> UNCHANGED <<rows, hook, screen>>
    /\ UNCHANGED <<writes, typed, signedIn>>

Ends(r) == (\E d \in Docs : Answered(r, d)) \/ Failed(r)

-----------------------------------------------------------------------------
(* The hook by itself *)

Others == <<screen, busy, requests, world>>

Debounce == screen.open /\ DebounceFires(screen) /\ UNCHANGED Others
Hidden == screen.open /\ TabHidden(screen) /\ UNCHANGED Others
WriteEnds == (WriteDone \/ WriteFails) /\ UNCHANGED Others
Read ==
    /\ screen.open
    /\ screen' = IF hook.coming.kind = "restore" THEN Restored(hook.coming.work) ELSE screen
    /\ ReadDone(screen, screen')
    /\ UNCHANGED <<busy, requests, world>>

-----------------------------------------------------------------------------
(* History: "apart", the making of an invoice was disturbed; "dropped", the *)
(* draft of the form was dropped while the form was not saved;             *)
(* "undoFailed", an undo could not read the invoice.                       *)

Creations(rs) == {r \in rs : r.op = "save" /\ New \in r.drops}
WorkOn(f) == UNION {f[d].work : d \in DOMAIN f}

(* A creation and something else at once, an answer lost, a draft that was *)
(* not dropped or a write that ends after it was, an orphan or a banner     *)
(* carried on too far                                                      *)
Disturbed ==
    \/ Cardinality(Creations(requests')) > 1
    \/ /\ Creations(requests) # {} /\ Creations(requests') # {}
       /\ DOMAIN invoices' = DOMAIN invoices
       /\ ~(screen'.open /\ screen'.doc = New /\ screen.work \subseteq screen'.work)
    \/ /\ Creations(requests) # {} /\ DOMAIN invoices' # DOMAIN invoices
       /\ \/ rows' = rows /\ DOMAIN rows' \cap {New, hook.adopted} # {}
          \/ screen'.dirty /\ screen'.doc = New
    \/ /\ rows' # rows /\ New \in DOMAIN rows'
       /\ rows'[New].work \cap WorkOn(invoices) # {}
    \/ /\ hook.adopted \in DOMAIN rows' /\ hook'.adopted # hook.adopted
       /\ Creations(requests) = {} \/ ~screen'.open \/ rows' = rows
    \/ screen'.doc # screen.doc /\ hook'.banner.kind = "stale"

Same == screen'.open /\ screen'.doc = screen.doc
Kept ==
    /\ writes # <<>> /\ writes' = Tail(writes) /\ Head(writes).key \in DOMAIN rows'
    /\ rows'[Head(writes).key] = Head(writes).row
Lost ==
    \/ writes # <<>> /\ writes' = Tail(writes) /\ ~Kept
    \/ screen.doc \in DOMAIN rows \ DOMAIN rows'
UndoFailed ==
    /\ ~screen'.dirty /\ screen'.work = screen.work /\ UNCHANGED invoices
    /\ \E r \in requests \ requests' : r.op = "undo" /\ r.mounted

Marked ==
    marks' =
        (IF Disturbed \/ "apart" \in marks THEN {"apart"} ELSE {})
        \cup (IF Same /\ screen'.dirty /\ (Lost \/ ("dropped" \in marks /\ ~Kept))
              THEN {"dropped"} ELSE {})
        \cup (IF Same /\ (UndoFailed \/ ("undoFailed" \in marks /\ ~screen'.dirty
                                            /\ screen'.work = screen.work))
              THEN {"undoFailed"} ELSE {})

-----------------------------------------------------------------------------

(* A browser that keeps, or does not keep, the draft of a tab that is gone, *)
(* and a company with, or without, an invoice.                             *)
Init ==
    /\ rows \in {<<>>, [k \in {Orphan} |-> [work |-> {1}, stamp |-> NoStamp]]}
    /\ typed = IF rows = <<>> THEN 0 ELSE 1
    /\ \/ invoices = <<>>
       \/ /\ typed = 0
          /\ invoices = [d \in {CHOOSE d \in Docs : TRUE} |->
                            [work |-> {}, posted |-> FALSE, stamp |-> 1]]
    /\ clock = IF invoices = <<>> THEN 0 ELSE 1
    /\ signedIn = TRUE
    /\ screen = [open |-> FALSE, doc |-> New, work |-> {}, dirty |-> FALSE,
                 posted |-> FALSE, view |-> FALSE, stamp |-> NoStamp]
    /\ hook = NoHook
    /\ writes = <<>> /\ busy = {} /\ requests = {} /\ marks = {}

UserStep ==
    \/ \E d \in DOMAIN invoices \cup {New} : OpenEditor(d)
    \/ \E d \in DOMAIN invoices : Navigate(d)
    \/ Edit \/ StartEditing \/ Reset \/ Close \/ ReloadPage \/ SignOut
    \/ Undo \/ ApplyStale \/ DiscardStale
    \/ \E k \in hook.orphans : OpenOrphan(k) \/ DeleteOrphan(k)
    \/ Save \/ SaveAndPost \/ SaveThenNew \/ Post \/ Unpost
    \/ PayFull \/ WriteIntent \/ Collect

HookStep == Debounce \/ Hidden \/ WriteEnds \/ Read

NetStep == \E r \in requests : Ends(r)

Next == (UserStep \/ HookStep \/ NetStep) /\ Marked

Spec == Init /\ [][Next]_vars

(* Timers fire, the database answers, and so does the network within the    *)
(* 30 seconds of apiFetch, whatever each kind of click asked for.          *)
Clicks == ({"save"} \X {"", "post", "intent", "collect", "new"})
          \cup {<<"patch", "post">>} \cup ({"post", "unpost", "intent", "collect"} \X {""})
Answers(c) ==
    /\ \E r \in requests : r.op = c[1] /\ r.then = c[2] /\ Ends(r)
    /\ Marked

FairSpec ==
    /\ Spec
    /\ WF_vars(Debounce /\ Marked) /\ WF_vars(WriteEnds /\ Marked)
    /\ WF_vars(Read /\ Marked)
    /\ \A c \in Clicks : WF_vars(Answers(c))

-----------------------------------------------------------------------------
(* Properties *)

(* Once the user has paused and no write is on its way, the draft in the    *)
(* database is the form, though restores, answers and other invoices have   *)
(* passed over it, unless the draft was dropped or could not be written.   *)
DraftFollowsForm ==
    screen.open /\ screen.dirty /\ ~hook.due /\ hook.coming = NoBanner /\ writes = <<>>
        /\ "dropped" \notin marks
        => screen.doc \in DOMAIN rows /\ rows[screen.doc].work = screen.work

(* No edit lands in two invoices, by a click that makes several requests,   *)
(* by a draft that comes back, or by an orphan that was opened, as long as  *)
(* nothing disturbed the making of an invoice.                             *)
SavedOnce ==
    "apart" \notin marks =>
        \A d, e \in DOMAIN invoices : d # e => invoices[d].work \cap invoices[e].work = {}

(* A form that is not marked as changed holds the work the server keeps,    *)
(* when it bears the stamp of what the server keeps: leaving it, or         *)
(* restoring a draft written under that stamp, loses nothing.  Whether the  *)
(* invoice is posted it may have missed, as the stamp does not tell.        *)
CleanMeansSaved ==
    /\ screen.open /\ ~screen.dirty /\ screen.doc # New
    /\ screen.stamp = invoices[screen.doc].stamp
    /\ "undoFailed" \notin marks /\ \A r \in requests : r.op = "undo" => ~r.mounted
    => screen.work = invoices[screen.doc].work

(* Work that is not saved comes to be kept in the browser, unless the user  *)
(* is told that it could not be.                                           *)
EditIsKept ==
    screen.open /\ screen.dirty ~>
        \/ ~screen.open \/ ~screen.dirty \/ "dropped" \in marks
        \/ screen.doc \in DOMAIN rows /\ rows[screen.doc].work = screen.work

(* A button that a request disabled comes back, whichever of the requests   *)
(* behind the click was the last.                                          *)
ButtonsComeBack == \A f \in Flags : f \in busy ~> f \notin busy

(* After the sign-out nothing of the invoices stays in the browser. *)
NothingLeftBehind == ~signedIn /\ writes = <<>> => rows = <<>>

=============================================================================
