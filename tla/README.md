# Verification of ktra2: the books, and the browser that keeps them

ktra2 is a multi-tenant ERP: Django applications over MySQL, and a React front
end.  Its books are kept by a handful of services that move several tables at
once: stock movements and their FIFO cost layers, invoices and their journals,
payments and their allocations.  Its front end keeps a good deal of state of its
own: the session and its timers, the company a tab works in, drafts of documents,
a queue of changes made offline.  This directory models both in TLA+,
model-checks them with TLC, and proves with TLAPS the invariants of the stock
ledger and that reversing a document undoes it, and the safety properties of
payments, of the session guard, of the company context, of the invoice editor and
of the offline queue.

Contents: 1 inventory, 2 modules, 3 the stock ledger, 4 invoices and payments,
5 the front end, 6 runs and bounds, 7 what the code does not keep, 8 what is
proved, 9 what is not modelled.

## 1. Inventory

The parts of the repository, what each keeps, and how it meets the others.
`PROJECT.json` lists every component with its sources and status, and every
hazard with its line.

| Component | State | Operations | Meets |
|---|---|---|---|
| FIFO cost ledger (`inventory/fifo.py`) | `StockLayer`, `StockLayerConsumption`, `StockLayerReconciliation` | `create_layer`, `backfill_opening_layer`, `trim_opening_layers`, `consume`, `reconcile_provisional`, `unreconcile`, `restore`, `restore_partial` | called only by the movements below |
| Stock movements and documents (`inventory/services.py`) | `StockMovement`, `Product.quantity_on_hand`, `Product.avg_cost`, transfers, stocktakes | `record_stock_movement`, `reverse_stock_movements`, `post_warehouse_transfer`, `post_stocktake` | sales, purchases, logistics, after-sales call it; it posts difference journals |
| Sales invoices and customer payments (`sales/services/flow.py`, `sales/views.py`) | `SalesInvoice.status`, `amount_paid`; `CustomerPayment`; `PaymentAllocation` | post, unpost, collect; create, edit, post, unpost, delete a payment; allocate, deallocate | journals, stock movements, cheques, serials |
| Session and idle timeout (`components/IdleTimeoutGuard.tsx`, `utils/idleSession.ts`, `services/authService.ts`, `contexts/AuthContext.tsx`) | token and last activity in `localStorage`; timers, `expired` and the timeout of each tab | sign in, work, hear of other tabs, expire, log out | every request (401, activity), the drafts (emptied at logout) |
| Company context (`contexts/CompanyContext.tsx`, `utils/tenantContext.ts`, `utils/officeShell.ts`, `utils/managedBooks.ts`) | memberships, company, books and office in React; `tenantId`, `branchId` in `localStorage`; the shell keys in `sessionStorage` | load, create, switch, open a client's book, return, recover | the headers of every request |
| Document drafts (`hooks/useDocumentDraft.ts`, `utils/documentDraft.ts`) | rows of `document_drafts` in IndexedDB; banner, orphans and stamp of the hook | write after a pause, on hiding and on leaving; restore; adopt, discard | every editor; the sign-out |
| Sales invoice editor (`components/sales/SalesInvoiceEditor.tsx`) | the form, its dirty mark and its flags | save, post, unpost, collect, new, navigate | drafts, invoices |
| Offline mutation queue (`services/offline/`) | `mutation_queue` in IndexedDB; runs; the conflict modal; the panel | enqueue, send, resolve, retry, delete | the API; the company in storage |
| Sales orders, supplier payments, journals and periods, cheques, opening balances and FX lots, serials, logistics, human resources, employee operations, accountant portal, after-sales, document sharing, CRM, partners, real estate, store, bridge, device registry, file import, tenants and access, platform operations | their own records | record keeping, with journals and stock through the services above | sales, stock and journals |
| Other screens of the front end | lists, reports, editors of other documents | | the API |

What is hard here:

* **Long histories.** Stock documents are posted and *unposted*; unposting
  deletes movements, restores layers, reopens fills, cascades.  Whether the
  ledger survives depends on the whole sequence: negative stock filled later,
  partial returns, products older than the layers.
* **Checks before locks.** Handlers are not wrapped in one transaction
  (`ATOMIC_REQUESTS` is off), MySQL runs READ COMMITTED, and statuses, sums and
  whole rows are read before the row lock that protects the write.
* **Ownership of payments.** A payment made by the posting of a cash sale belongs
  to that posting; one a user entered does not; unposting must tell them apart.
* **Copies of the truth.** `quantity_on_hand`, `avg_cost`, `amount_paid`,
  `is_posted` are stored beside the rows they summarise; the company a tab shows
  and the company in storage are two variables; a form, its draft and the invoice
  are three.
* **Late answers.** Every closure of the front end that awaits the network or
  IndexedDB goes on in a tab that may by then show another user, another
  company, another document, or nothing.
* **Several tabs, one storage.** Each tab has its own timers; the token and the
  last activity are shared, and storage events arrive late.
* **Lost answers and reloads.** A request may be done and its answer lost; a
  reload drops every closure and keeps every row.

What makes each part correct: for the cost ledger, that units and their cost are
neither created nor lost; for movements, that the balance is the replay; for
payments, that what an invoice counts as paid is what posted payments allocate
to it, that nothing is settled twice, and that journals follow the state of
documents; for the session, that idleness is measured on the user and not on the
tab, and that an abandoned browser stops showing the books; for the company
context, that requests go to the company shown and that nothing of one user
comes back under another; for drafts and the editor, that work not saved is kept,
that work saved is saved once, and that a clean form is what the server has; for
the queue, that a change marked as synced was made, once, in the company meant.

## 2. Modules

| Modules | What |
|---|---|
| `StockCard` | abstract specification: a stock card with a carried balance |
| `StockFifo`, `StockFifoCycle` | cost ledger of one product; posting and unposting in cycles; implements `StockCard` |
| `InvoicePayments` | invoices, payments, allocations, interleaved requests |
| `IdleSession` | token, shared activity, guards and timers of several tabs |
| `CompanyContext`, `MCCompanyContext` | the company of a tab; its instance |
| `DocumentDrafts`, `InvoiceEditor` | the hook `useDocumentDraft`, composed with the editor and the server |
| `OfflineQueue` | the queue, its runs, the conflict modal, the panel |
| `SumLemmas` | sums over finite sets, for all the proofs below |
| `StockFifoProofs` | the ledger for every constant: five properties, that it implements the card, its four ledgers, and that reversing the latest document undoes it |
| `StockCardProofs` | the balance of the card is never negative; the refinement carries it to the ledger |
| `IdleSessionProofs` | three properties of the guards for any number of tabs |
| `InvoicePaymentsProofs` | eight properties of invoices and payments, six of them for any number of clients |
| `CompanyContextProofs` | five properties of the company of a tab for any users and companies |
| `InvoiceEditorProofs` | the four safety properties of the editor for any number of invoices, edits, requests and writes |
| `OfflineQueueProofs` | the four safety properties of the queue for any number of tabs and runs |

`DocumentDrafts` declares the rows, the writes and the state of the hook and has
the steps of the hook alone; `InvoiceEditor` extends it with the form, the
buttons and the server, and passes the hook the rendering before and after each
step (`Rendered(hook, rows, screen, t)`), as React passes new props.

## 3. The stock ledger: `StockFifo`, `StockFifoCycle`, `StockCard`

One product of one tenant.  The rows of a table are a function from their key.

| Variable | Code |
|---|---|
| `onHand`, `avg` | `Product.quantity_on_hand`, `Product.avg_cost` |
| `moves` | `StockMovement`: type, kind of document, quantity, unit and total cost |
| `layers` | `StockLayer`: date, original, remaining, cost, provisional, reconciled |
| `cons`, `recs` | `StockLayerConsumption`, `StockLayerReconciliation`, by movement and layer |
| `diffs` | the `STOCK_PROVISIONAL_RECONCILE` journal of a receipt, in cents |
| `transfer` | the receiving half of a transfer in progress |

| Action | Code |
|---|---|
| `PostReceipt` | inbound branch of `record_stock_movement`: backfill, fill pending provisional layers oldest first, open a layer for the rest, difference journal |
| `PostIssue` | outbound branch: consume in FIFO order, provisional layer at the last known cost for what is missing |
| `PostReturn`, `PostReturnAtAverage` | a sales return with and without its original issue (`restore_partial`) |
| `PostStocktake` | `post_stocktake` |
| `TransferOut`, `TransferIn` | `post_warehouse_transfer`; its reversal moves stock the same way |
| `UnpostDocument` | `unpost_document`: the guards `find_stock_dependents` and `_assert_layers_not_consumed_elsewhere`, then `reverse_stock_movements` with `unreconcile`, `restore`, the cascades, `trim_opening_layers`, two backfills and the recomputed average |

The greedy loops of `fifo.py` are one operator, `Draw`: what a walk in a given
order takes from each item.  Decimal rounding is modelled as it is (half to
even, four places for costs, cents for totals).  Documents carry one line; a
document with several lines of a product is a sequence of actions.  A legacy
product (`LegacyIn`, `LegacyOut`) starts with up to two receipts and an issue, a
balance at their average and no layers, as products had when layers were introduced.
Reversing one of its receipts trims the opening layer that stands for them and gives
what is left another cost, so that its value falls by what the receipt was worth.

`StockFifoCycle` adds a memory of the stock before each of the latest documents,
to state that reversing the latest one restores every row.

The transactions of one product are taken as serial: each holds the product row
while it writes.  What the code reads before that lock (the guards and the
movement list of a reversal, the balance a stocktake compares) is read fresh in
this model; the interleavings that differ are listed as hazards.

`StockCard` is what the stock side of a product promises with the costs left
out: entries are made at the end of a card, a posting below zero is refused, and
an entry is struck out only while no issue follows it; the balance is carried by
one quantity per step.  `StockFifo!Card` maps the signed movements to the entries
and `quantity_on_hand` to the balance, and `ImplementsCard` says that every
posting, transfer half, stocktake and reversal is one such step or leaves the card
alone.  It is not evident: a reversal recomputes the balance by a replay of all
movements and not by one quantity, a transfer is two steps of which the second
enters after others, and the guard that protects the card
(`find_stock_dependents`) is an implementation of the card's only because of the
order of ids.

## 4. Invoices and payments: `InvoicePayments`

One customer, one currency, several clients.

| Variable | Code |
|---|---|
| `status`, `paid` | `SalesInvoice.status`, `SalesInvoice.amount_paid` |
| `journals` | the number of `SALES_INVOICE` journals of an invoice |
| `pays` | `CustomerPayment`: amount, `is_posted`, `auto_settled_invoice` |
| `allocs` | `PaymentAllocation`: payment, invoice, amount |
| `credits` | what the `CUSTOMER_PAYMENT` journals of a payment credit to receivables |
| `req` | what a client's request has read and not yet written |

A handler that reads under its locks is one action; one that reads first is a
chain, with what it read kept in `req`:

* `PostInvoiceBegin` (status without a lock) then `PostInvoiceCommit` (journal,
  status, automatic settlement of a cash sale) or `PostAndCollect`;
* `CollectBegin`, `CollectStatus` (a receipt that allocates reads the status again),
  `CollectCommit` for a posted invoice;
* `UnpostInvoiceBegin` (status without a lock), `UnpostInvoiceGuard` (release own
  settlements, refuse if a user's payment is posted), `UnpostInvoiceJournals` (find
  and delete the journals), `UnpostInvoiceCommit` (draft, unpaid); what was deleted
  is locked in between (`Locked`, `JournalLocked`), the invoice is not;
* `CreatePayment`; `PostPaymentTotal` (sum), `PostPaymentRows` (rows),
  `PostPaymentCommit` (locks, rechecks, journals, `amount_paid`); `UnpostPayment`;
* `DeleteBegin`, `DeleteUnpost`, `DeleteRow`; `EditBegin`, `EditCommit`;
* `Allocate`, `Deallocate`, each under its locks;
* `Abort`: a refusal, an exception or a lost server process rolls back what was
  not committed.  A client may go on to repeat the request.

Posting an invoice is serial per invoice although its status is read without a
lock: every line has a product, the products are locked first, and the journal is
looked up under that lock (`JournalOnce`).  Unposting is not: with a second client an
invoice may be posted again before an earlier unposting writes its status, and its
journal stays on the draft.  `PostedHasJournal` is what holds all the same.

`Next` has every step.  `OrderlyNext` leaves out what section 7 lists as breaking
the promises: editing, spending on another invoice what a posting collected in
excess, and changing the rows of a payment while its posting is under way.


## 5. The front end

### `IdleSession`

Several tabs of one browser, time in ticks.

| Variable | Code |
|---|---|
| `token`, `idle` | `token` and the age of `lastActivityAt` in `localStorage` |
| `valid` | the tokens the server accepts (`DeviceToken` rows) |
| `phase`, `limit`, `timer` | what a tab shows, its timeout, what is left on its expiry timer (`IdleTimeoutGuard`) |
| `pending` | storage events that have not reached a tab |
| `logouts` | `logoutUser` calls that await the answer, with the token they sent |

`Load` and `Enter` mount the guard, `Activity` is `onActivity` and every request
that writes, `ExpireTimer` is the timer itself, which does not look at the shared
record again, `OnActivityEvent` and `OnTokenGoneEvent` are `onStorage`, `Refused`
is the 401 hook.  `LogoutReturns` is the rest of `logoutUser`: it removes the token
that is in storage *then*.  A timeout is chosen when a tab opens (from the cache
or the server); the countdown is layout over the same timer.  The presence
heartbeat of platform staff is left out (section 7).

### `CompanyContext`

One tab.  `page` is the React state of `CompanyProvider` with the user of
`AuthContext`, `store` the keys in storage, `version` is `requestVersionRef`,
`loads` are the runs of `fetchCompanies` with what each read before it awaited,
`posts` the requests that create or save.  `Answered`, `Listed`, `Failed`,
`Confirmed` are what follows each `await` of `fetchCompanies`; `Listed` goes from
office to office.  `SwitchCompany`, `OpenManagedBook`, `ReturnToOffice`,
`EnterOfficeShell`, `EnterPlatformShell`, `AutoRecover`, `PickBranch` write the
storage and reload the page, which drops every closure.  A branch stands as the
company it belongs to, since only that relation is at stake.  `IdleExpires` is the
idle guard of the tab, which calls `logoutUser` alone: when it is answered
(`LoggedOut`), under whatever session the tab has by then, the storage is emptied and
the page keeps its user and company.  Requests then fall to tenant 1
(`tenantContext.ts:25`) without a token; `RequestsGoWhereShown` is about requests
with one.  `Refresh` is a reload by the user or by a new build.

### `DocumentDrafts` and `InvoiceEditor`

One tab, one form.  The work of a form is a *set of edits*, each edit new: two
invoices share an edit only if the program copied it.

| Variable | Code |
|---|---|
| `rows`, `writes` | `document_drafts`; runs of `writeNow` whose transaction is open |
| `hook` | `useDocumentDraft`: captured stamp, pending pause, answer on its way, banner, orphans, adopted orphan |
| `screen` | document, work, `dirty`, posted, view mode, `updated_at` of the form |
| `busy` | `saving`, `posting`, `collecting` |
| `requests` | closures that await an answer: what they ask, for which document, which draft keys they drop, what the same click asks next |
| `invoices`, `clock` | the server |

`Save`, `SaveAndPost`, `SaveThenNew`, `Post`, `Unpost`, `PayFull`, `WriteIntent`,
`Collect` are the buttons, each with the guard the code has and no other;
`Answered` and `Failed` continue the closure (`Take` is `applyDetail` and
`discardDraft`).  `Close` leaves the closures running without a form, `ReloadPage`
drops them while the server may still do what was asked.  The server does a
request and answers it in one step, or does it and the answer is lost.  Only a save
writes `updated_at`: posting, unposting and collecting save named fields without it
(`flow.py:1619`, 3042, `views.py:457`), so the stamp of a form does not tell whether
the invoice is posted, and `CleanMeansSaved` is about its work.  A deletion of a draft
that fails is passed over in silence (`rows' \in {Without(...), rows}`).  `Accepts`
lets a collection through always, which is more than the code does.  The database
answers in the order of the questions: the effect that reads the draft
(`useDocumentDraft.ts:260`) is asked before the one that lists the orphans (293), so
an orphan is listed when the draft of the form was read (`Listed`).  Left out:
a read of the database that fails, the warning about a second tab, the 30-day
sweep, the refund dialog, editing and removing a payment intent, the logout of the
idle guard, which empties the drafts under an open form.
`Forgotten` is the set of edits a restore loses; it is empty in the runs, section 7
says what it is in the code.

`marks` remembers that the user was disturbed in one of the ways section 7 lists;
`SavedOnce`, `DraftFollowsForm` and `CleanMeansSaved` promise nothing after that.

### `OfflineQueue`

`queue` is the table `mutation_queue` in order of `created_at`, `runs` the
executions of `processMutationQueue` with the entries each has fetched, `dialog`
the conflict modal of a tab, `shown` the panel, `direct` the requests of
`offlinePost`, `offlinePatch`, `offlineDelete` that are out.  `Start` asks nothing
about other runs, as `online`, page load and service worker do not.  `Answer` is
what `processMutationQueue` does with each outcome; `Lost` and `Reload` are the
requests the server may have done.  The runs of one tab interleave exactly like
those of two tabs and contend for one modal as well, so one tab is checked.  The
database is taken to answer: where a write to it fails after the server did a change
(`cachedApi.ts:144` and 146, caught at 205), the entry is pending again and the change
is made twice.

## 6. Runs and bounds

| Run | Specification | Checks | States |
|---|---|---|---|
| `fifo_ledger` | `Spec`, every operation, negative stock, legacy stock of up to two receipts | types and keys; balance is the replay; no unit twice; cost as taken; foreign rows survive reversals; the ledger implements the stock card | 88,938 |
| `fifo_cycle` | `CycleSpec`: all but three kinds of reversal, products with and without legacy stock | open − pending = balance; every unit of a layer accounted for; fills match their records; difference journals match; reversing the latest document restores every row | 59,129 |
| `payments_serial` | `OrderlySpec`, one client, a cash and a credit invoice | types and keys; draft invoices carry no posted payment; `amount_paid` is the sum of posted allocations; no payment overspent on the two | 167,922 |
| `payments_race` | `OrderlySpec`, two clients on one cash invoice | never settled above the total; a posted payment is credited once; a posted invoice keeps one journal | 2,126,553 |
| `payments_any` | `Spec`, with edits and excess | unposting an invoice takes its own settlements and no other payment | 1,791,795 |
| `idle_session` | `FairSpec`, two tabs | types; timers follow the user; a guard ends a session only when the user was idle everywhere; an abandoned browser stops showing the books | 497,424 |
| `companies` | `FairSpec`, two users, two offices, one client's book | types; nothing comes back after sign-out; requests with a token go to the company shown; a book opens under its owner; memberships are the user's; loading ends | 2,375,247 |
| `invoice_editor` | `Spec`, two invoices | types; the draft follows the form; a clean form holds the work that is saved; no edit in two invoices | 3,856,694 |
| `editor_live` | `FairSpec`, one edit | unsaved work comes to be kept; buttons come back | 137,988 |
| `offline_queue` | `FairSpec`, two runs at once | types; what is marked synced was made; made once; in the company meant; runs end | 363,602 |
| `filled_issue_unposted`, `logout_leaves_draft` | section 7 | `NetCoverage`, `NothingLeftBehind` | stop at the violation |

**Bounds of the books.**  `MaxId = 4` lets four rows with ids coexist and ids be
used again, so histories are unbounded in length: a short issue, two receipts that
fill it, a return and the reversal of any of them fit.  Quantities 1 and 2 make
partial fills, partial returns and draws over two layers; costs 100 and 300
differ and make averages that round; ids as tie-break order the queue within one
date.  In `fifo_ledger` legacy receipts of 1 and 2 units at either cost, with an issue
or without, give opening layers that are trimmed and recosted, and consumed later at
the new cost.  For payments, a total of 300 with amounts 100 and 301 gives partial, full
and cent-over settlements, with `DEC = 1` the tolerance of one cent; two payments
and two or three allocations are what two clients can dispute; two invoices let one
payment have several rows.

**Bounds of the front end.**  Two tabs and limits 1 and 2 let a tab time out before
the other, hear late, and disagree about the timeout; tokens are used again, so
sessions follow each other without end.  `MaxVersion = 3` lets two loads overtake a
third within one page; reloads start over, so the life of the browser is not
bounded.  In `invoice_editor` two edits are enough for one to be on the form and
one in a request or a draft; two stamps let a document change under its draft; one
request at a time is the number of *unanswered* closures, and an invoice saved,
posted and collected by one click makes three in a row.  In `offline_queue` two
changes and two runs let a run hold what the other sends.

**Deadlock** is checked for payments and for the offline queue.  Elsewhere a
bound (`MaxId`, tokens, `typed`, versions) or the world (a browser closed and
abandoned, negative stock refused with nothing to reverse) stops the model.

**Fairness.**  The books have only safety properties and assume none: every step
is a user's request.  In the front end, `apiFetch` aborts a request after 30
seconds, so each answer or failure comes (`authService` uses `apiFetch` under
the name `fetch`).  The 30 seconds are those of the headers: that a body which has
begun ends, or the connection breaks, is left to the browser.  Timers fire; IndexedDB transactions end; storage events are
delivered.  In `InvoiceEditor` the fairness is per kind of request
(`Answers(c)`), so that a chain of clicks cannot starve one answer.  The user owes
nothing, with one exception: in `OfflineQueue` a conflict on the screen is
resolved, because nobody can work on under a modal.

`UnpostUndoesPost` is about the latest document, since the layers depend on the
order of what remains; a posting that backfills an opening layer is not
remembered, for that layer stays (deliberately: it is stock that existed).  Nor is
one that replaces an average no layer supports: the first document of a legacy
product without stock.  Its reversal leaves the average at zero, whatever the product
carried from before (`LegacyOut` has such a product in the run).
`LoadingEnds` excludes company creation and `RunsEnd` a conflict pushed off the
screen: section 7.

## 7. What the code does not keep

With a run (`PROJECT.json`, findings, has the quotations):

* `filled_issue_unposted`: the reversal of an issue into negative stock, after a
  receipt has filled its provisional layer, deletes the fill and does not give the
  units back to the receipt.  While another issue is pending, open − pending is then
  less than the balance; with none, the backfill of the reversal covers the units by
  an opening layer, at the average and not at what they were received for.
* `logout_leaves_draft`: signing out empties the drafts and then unmounts the
  editor, whose cleanup writes the unsaved form once more.

Met while reading and modelling, without a run.  Each says what the
specifications leave out or what their properties except.

*Stock.*
The reversal of a sales return that gave units back to the layers of its original
issue deletes the movement and leaves the units (`inventory/services.py:1186`).
A partly returned issue reversed while provisional units are pending breaks open −
pending = balance.  A transfer issues at FIFO cost and receives at the average
(`services.py:2287`), so the average moves, against the docstring at 2269.

*Payments.*
Two unpostings of an invoice that both passed the unlocked check
(`sales/views.py:416`), with a posting between the first's end and the second's write
of the status, leave a draft with a journal (`views.py:451`), which the next posting
takes for its own.
A receipt collected between the guard of an unposting and its commit stays posted
on the draft (`sales/views.py:453`).
What a posting collected in excess, allocated by a user to a second invoice, is
deleted with the first; the second keeps counting it (`flow.py:591`, 1618).
An edit of a payment writes back the whole row it read, so a posting in between
loses `is_posted` and is journalled again (`views.py:1495`, `flow.py:2766`).
An allocation added while its payment is being posted is not counted; one dropped
between the two reads of a posting is journalled nowhere (`flow.py:2640`).
A payment read as unposted and deleted after another client posted it leaves its
journals (`views.py:1508`).  A payment may be edited to less than it settles.

*Session.*
An event about a token that was gone, delivered after a new sign-in, shows "the
session has ended" over a live token.  "Back to login" on a screen left from
before, or the late end of a logout, removes the token another tab has just
received, though `utils/idleSession.ts:4` promises one session for all tabs.
The heartbeat of platform staff is a POST every minute and a POST counts as
activity (`utils/idleSession.ts:58`, `hooks/usePlatformPresenceHeartbeat.ts:38`):
a visible staff tab never times out.

*Company context.*
The idle guard's logout empties token and company behind a page that goes on showing
its company, and a late one does so under the next session of the tab
(`IdleTimeoutGuard.tsx:52`, `authService.ts:96`): requests go to tenant 1 without a
token.
`utils/officeShell.ts:23` says a trip between shells belongs to one tab, yet
`tenantId` and `branchId` are in the shared storage and nobody listens to its
events: after a switch in one tab the requests of another go to a company it does
not show.  The fallback of a load (`CompanyContext.tsx:211`) and the automatic
recovery (`tenantContext.ts:151`) change the company and leave the branch, against
`tenantContext.ts:73`.  The way back from a book (line 326) can lead to the wrong
office when the stored one is missing.  The confirming read of a creation (267)
supersedes a load that is under way and does not end its waiting; if it fails, the
page waits for ever.  The list of books and the office survive sign-out; a
created book joins whatever list is on the page.  A refresh by a closure of a
former user supersedes the load of the new one.

*Drafts and editor.*
The stamp does not tell a posting, so after a lost answer a form shows as unposted,
unchanged and under the server's own stamp an invoice that is posted.
The stamp is captured once per document (`useDocumentDraft.ts:174`), so drafts
written after a save are "stale" at the next visit.  A write in flight puts a
draft back after it was dropped.  Restoring loses serials and the internal and
customer notes (`SalesInvoiceEditor.tsx:1472` against 1377).  Edits typed
during a save are overwritten by the answer and their draft is dropped.
"Save, then new" resets although the save failed (1821).  "New" or Escape while an
invoice is being created, or a retry after a lost answer, leads to a second
invoice, as do the payment panel and `submitCollect` on a new form, which do not
look at `saving` while `fillCollectFull` (2902) does.  An orphan opened in a tab
that is then closed or reloaded is saved twice, against `documentDraft.ts:191`.
Discarding a stale draft after new edits drops the draft of those edits;
navigating away drops the edits of the last half second; saving is possible while
a posting is under way; changing an intent overwrites unsaved lines (3125); the
banner of a document outlives it; Escape resets without asking (2242); an undo that
cannot read the invoice leaves unsaved work marked as clean with its draft gone.

*Offline queue.*
A reload between `syncing` and the answer leaves the entry `syncing` for ever: no
run takes it up again (`cachedApi.ts:135`), although the comment at 177 promises
that a failure of the network returns it.  A refusal (4xx) of a direct request
queues the change as if the server had not been reached.  Two runs at once send an
entry twice.  A second conflict replaces the modal of the first, whose run waits
for ever.  "Overwrite" sends the same request without a force flag.  The panel may
retry an entry that has meanwhile been synced.  Entries of one user are sent under
the token of the next.  Without a company named by the caller it is the one active
when the request *failed* that is recorded.  A later change may be made before an
earlier one that went back to pending.  No screen imports `mutationClient` in this
commit (`docs/research/document-editors-draft-audit.md:162`): the queue waits for
its callers.

## 8. What is proved

All theorems hold for every value of the constants that satisfies the
`ASSUME` of the module they are about, and each states the property a run checks,
except the two about the card.

| Module | Theorem | States |
|---|---|---|
| `StockFifoProofs` | `TypeCorrect`, `BalanceIsLedger`, `NoUnitTwice`, `CostsAsTaken`, `OthersSurviveReversal` | `TypeOK`, `LedgerBalance`, `NoOverdraw`, `SnapshotCost`, `ForeignRowsSurvive` |
| `StockFifoProofs` | `LedgerImplementsCard` | `ImplementsCard` |
| `StockCardProofs` | `CardNeverBelowZero` | the balance of the abstract card is never negative |
| `StockFifoProofs` | `BalanceNeverNegative` | with negative stock refused, `onHand >= 0` always |
| `StockFifoProofs` | `UnitsAreAccounted`, `FillsAreRecorded`, `DifferencesAreBooked`, `LayersCoverBalance` | of `CycleSpec`: `LayerLedger`, `FillLedger`, `DiffLedger`, `NetCoverage` |
| `StockFifoProofs` | `LastInFirstOut` | of `CycleSpec`: `UnpostUndoesPost` |
| `IdleSessionProofs` | `SessionTypes`, `TimersFollow`, `OnlyWhenIdle` | `TypeOK`, `TimersFollowUser`, `EndedOnlyWhenIdle` |
| `InvoicePaymentsProofs` | `PaymentTypes`, `OneJournal`, `OwnSettlementsOnly` | of `Spec`: `TypeOK`, `PostedHasJournal`, `UserMoneyStays` |
| `InvoicePaymentsProofs` | `NeverOverSettled`, `CreditsFollow`, `NeverOverspent` | of `OrderlySpec`: `NoOverAllocation`, `CreditsMatch`, `WithinPayment` |
| `InvoicePaymentsProofs` | `PaidFollowsRows`, `DraftsCarryNothing` | of `OrderlySpec`, one request at a time: `PaidIsAllocated`, `DraftUnpaid` |
| `CompanyContextProofs` | `SignedOutIsEmpty`, `RequestsFollowPage`, `BookUnderItsOffice`, `CompaniesAreOwn`, `ColumnsTyped` | `NothingRestored`, `RequestsGoWhereShown`, `OfficeOwnsBook`, `CompaniesOfTheUser`, `TypeOK` |
| `InvoiceEditorProofs` | `EditorTyped`, `DraftFollows`, `CleanIsSaved`, `SavedInOne` | `TypeOK`, `DraftFollowsForm`, `CleanMeansSaved`, `SavedOnce` |
| `OfflineQueueProofs` | `QueueIsTyped`, `SyncedWasMade`, `NothingIsMadeTwice`, `NothingGoesAstray` | `TypeOK`, `SyncedIsMade`, `MadeOnce`, `InItsCompany` |

**The ledger.**  The assumption is `ConstantsAssumption` of `StockFifo`: natural
numbers, quantities not zero, the legacy sets and bound as declared.  None of the
five is inductive alone.  The reversal of a movement gives back the units its
consumption rows hold; that this never exceeds what entered the layer needs
`NoOverdraw`, whose preservation needs rows to join live layers (`TypeOK`), whose
reversal step needs that a movement whose layer is deleted holds no row of
another movement (the guard `NotConsumedElsewhere`) and that opening layers have
ids no movement has.  The conjunction is `IInv`, proved inductive action by
action.  Trimming an opening layer changes its cost only while no row joins it,
which is what `SnapshotCost` needs (`find_stock_dependents` happens to refuse the
reversals that would meet such rows as well); `LedgerBalance` needs that adding or deleting
one movement changes the signed sum by that movement alone.

`SumLemmas` has the facts about `SumFunctionOnSet` everything rests on: a sum over
a finite set is a number, loses exactly its element's share when an element is
removed, and depends on the function's values on the set only.  The fold behind it
is recursive; its table is shown to exist on every finite set, and induction is
over the *set* of the sizes, or of the subsets, that have the property, down from
the least element of a well-founded order.  The first section of `StockFifoProofs`
has what each helper does to the books of a layer: `Draw` takes no more than there
is nor more than asked, `Consume` and `WithRows` move the same units, `Released`
gives back what it deletes, `Trimmed` keeps what is left within what entered.

**The card.**  That the balance of a card is never negative is not inductive: a
receipt struck out of the middle would lower every balance after it.  The
invariant is that the balance after *every line* is not negative; a posting looks
at the last balance only and a striking-out at later issues only, and both keep
it.  The third section of `StockFifoProofs` shows the initial ledger is an empty
card, or one with legacy entries, and that each action is one step of the card or a
stutter; the reversal rests on `LedgerBalance`, for it replays what the card
carries.

**The four ledgers.**  They hold in `CycleSpec`, whose reversals are the regular
ones (section 7 has the three that break them), and only together.  The units of a
layer split three ways, into what is open, what issues hold and what its receipt
spent on provisional layers (`Accounts`); a receipt's difference journal is a sum
over its fills (`DiffLedger`); and `Covered`, that open minus pending is the balance
or there is no layer yet, needs both, for a reversal replays the balance from the
movements while it moves units between layers.  `Draw` is the heart of it: it takes
what was asked or all there is, so what `OutboundTallies` consumes and what it finds
missing add up to the issue, and what a reversal trims from opening layers
(`TrimmedCovers`) is exactly the surplus the deleted movement leaves, because the
opening layers have enough (`OpeningsSuffice`).  `LedgerInv` is the conjunction of
these with `IInv`.

**Last in, first out.**  `UnpostUndoesPost` speaks of one reversal; the invariant is
about all that may come.  `Undoable(was, now, m)` says which rows of `now` the
document `m` owns and what is left without them; `Chain`, that each document
remembered is undoable from the state before the next.  A posting adds a link
(`PostUndoable`, one case per kind of document), a reversal of the latest removes
one, and the lemma `UnpostReverts` runs through the code's seven steps to show that
reversing what is undoable gives back the state before it.

**The guards.**  `TimersFollowUser` alone is not inductive: a timer counts down
with the shared idleness only if there is a record of activity, so the invariant
adds `Recorded` (a running tab implies a record) and the clause of `TypeOK` that
ties timers to the running application.  `EndedOnlyWhenIdle` follows from it at
the one step that expires.

**The payments.**  The assumption is `PaymentConstants`: finitely many invoices, and
amounts, total and tolerance that are positive.  An unposting lists the payments
it will delete under its guard and deletes them at its commit, so that it spares
everybody else's (`UserMoneyStays`) needs to be known in between: `HeldAlone` says
that what an unposting holds is still there, was made by the posting of its own
invoice, and is held by nobody else.  It holds because every handler that deletes,
edits or posts a payment waits for the lock (`Locked`) and because a new payment is
given an id that nobody names; with it, `TypeOK` and `PostedHasJournal` are
inductive for all of `Spec`.  A posting finds the journal of a draft or makes one, and
an unposting deletes only the journal it found and locked, for which a posting waits;
so a posted invoice keeps its journal although the status is written without a lock.

The amounts need more, and the code does not keep it for all of `Spec`:
`ReadCurrent`, that the sum and the rows a posting has read of its payment are
still those of the payment when it commits.  Rows that change meanwhile break it
(section 7), so these theorems are about `OrderlySpec`.  With it, `Fits` under the
locks bounds what is settled on each invoice by what was there and the rows that
come, and the amount credited is the one the rows say.  `SumUnion`, `SumPart`,
`SumAgree` and `SumMoved` of `SumLemmas` carry sums across a step; `SumMoved` is
needed where the rows of a new payment are numbered in the order of its invoices.

`PaidIsAllocated` and `DraftUnpaid` are proved under `OneAtATime`, that there is one
client, as they are checked, since section 7 says how two break them.  One client
still leaves a request's reads and its commit separate steps; `InTurn` is that
what it read holds at its commit: an unposting has all that settles its invoice in
hand, and a payment is posted on posted invoices.  With `OwnRows`, that what a
posting settled lies on its own invoice, an unposting that sets what is paid to
zero takes all rows of its invoice and none of another; and `PaidIsAllocated` itself
makes the cut-off at zero in `Reversed` exact.

**The company of a tab.**  The first four properties are about a page that works or is
signed out; what carries them while loads are under way is `LoadsInOrder` and
`PageMatches`.  Versions are unique among the loads (a reload of the page drops
every closure before it starts counting again), so the end of the newest load
leaves only loads that will be ignored.  The newest load, if its user is still at
the tab, was sent with his token, although a refresh may be started by the closure
of a former user: every change of the user starts a load of its own.  A load that
asks the offices one after the other was told its company by the storage, and
nothing writes that company meanwhile without a new version or a reload; so a book
it finds is the one in storage, or a logout has emptied that and taken the token too,
and the office that listed it owns it.  `TypeOK`
has an invariant of its own (`LoadsTyped`): what a load carries from one office to
the next is typed, and it asks offices only when it has read a membership, so that
there is a first one to choose.

**The editor.**  `DraftFollowsForm` is about a moment without a write under way, and
writes land in their order while the user goes on typing; the invariant `DraftInv`
speaks of the *last* write under way, or of the row when there is none: it is the
form, if the form is touched and no pause is due.  Every change of a touched form
makes a pause due (`Rendered`), and nothing but a write changes a row.
`CleanMeansSaved` is inductive with the types and with `StampsOK`, that no form has a
stamp the server has not given yet: a save of a closure without a form, or one
whose answer is lost, changes the work of an invoice under a stamp that no form bears.  Only an
undo clears the mark before it has the server's answer, and while its request is
under way, or after it failed (`undoFailed`), nothing is claimed.

**One edit, one invoice.**  `SavedOnce` speaks of the server; its invariant
(`OwnersInv`) follows every copy of an edit, on the form, in an answer of the
database, in a banner, in requests, drafts and writes.  All copies are of one invoice,
or all of the invoice not saved yet, in its draft or in an orphan (`OneOwner`).  One
kind of copy may break this: a draft of the new invoice whose write lands after the
invoice was made.  `Overtaken` says what is true then: the invoice has the edit
wherever it has anything, no draft of its own, and any write of such a draft comes
later (`Carries`, `LateFor`), so the landing is the moment `marks` can see.  While an
invoice is made, the form goes on holding what was sent, and there is no second
creation (`OneCreation`); an orphan nobody opened shares nothing with the form
(`OrphanApart`); and what the database is about to restore is not on the form yet
(`ComingApart`), which is where the order of its answers is needed: were the orphans
listed first, an orphan could be opened under a restore still to come, whose draft
outlives the saving of the other.  The steps are proved in three kinds, by what they
do to the copies: those that only move copies (`Quiet`), the edit, and the end of a
write; the making of an invoice is a move with a new owner (`Made`).  The proof also
needs an undo that fails to leave the mark of the form alone (`handleUndoDraft`
clears it when it starts, line 1520): edits typed while the undo is under way are
unsaved.

**The queue.**  `MadeOnce` is about the moment a request is made, so the invariant is
about everything that may still become one: an entry in the hands of a run, a
pending or failed entry, a direct request.  None of these was made, or it is
doubtful; and what two runs hold at once is doubtful from the moment the second
takes it up (`Doubts`).  A run that ends an entry as `pending` or `failed` after the
server did it makes it doubtful, and only `Lost`, `Reload` and a failed direct
request do so.  `SyncedIsMade` is then inductive, because a second run that marks an
entry of the first as synced has made it itself.  A retry from an old panel needs the
keys of the table (`Keyed`): the entry that failed is the one retried.
`InItsCompany` needs `Named`, that an entry or request carries the company its
caller named.  What a run takes up is a recursion along the table (`Only`); its
table of results is shown to exist by induction over the set of the lengths that
have one.

Every invariant and every action property that a passing run checks is stated by a
theorem.  Only model-checked are the five liveness properties, `SessionEnds`,
`LoadingEnds`, `EditIsKept`, `ButtonsComeBack` and `RunsEnd`, and the two claims that
fail (section 7).  The provers at
hand have no liveness under fairness, no `ENABLED`, and no induction theorem with an
operator as a parameter, so the sums above are reasoned about as sets, and no
module declares a RECURSIVE operator.

## 9. What is not modelled

*Stock*: warehouses (layers are per company and product), serial units, partner
and branch columns, several products (they share no row), purchase prices
suggested from movements, revaluation journals other than the difference journal.
A shipment's receipt is a receipt.  Reads before the product lock and the flags and
numbers of transfer and stocktake documents (hazards in `PROJECT.json`).

*Payments*: cheques and their return to the wallet, refunds of sales returns,
currencies and their differences, intents attached to a draft, on-account rows
inside a collection, deletion of a draft invoice, edits of a draft's total, the
credit limit, the legacy automatic settlements recognised by their note text.

*Services without a module*: journals and fiscal periods (journals appear as
counts), sales orders, sales returns, supplier payments and VAT statements,
cheques, opening balances and FX lots.  They move fewer rows at once and mostly
reuse the services above; they are the next candidates, in that order.

*Front end*: other tabs in the company context; the prices, pickers, printing and
layout of the invoice editor, which are most of its lines; the editors of other
documents, which share the draft hook; lists, reports, settings and imports, which
keep no state across requests.  The front end has some 200,000 lines, nearly all of
them layout and rendering: the modules map the few thousand that carry state.

The other components of section 1, with the reason, are in `PROJECT.json`.
