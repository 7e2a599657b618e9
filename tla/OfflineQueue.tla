---------------------------- MODULE OfflineQueue ----------------------------
(***************************************************************************)
(* The queue of changes made while the server could not be reached: a      *)
(* table of the browser's database that every tab adds to and every tab    *)
(* sends from, on each return of the connection, at the same time as the   *)
(* others if it so happens.  Tabs are reloaded, answers are lost, the user *)
(* settles conflicts and retries or deletes what failed, from a panel that *)
(* may be some seconds old.                                                *)
(*                                                                         *)
(* A change is a number, in the order the user made them.  What the server *)
(* does for a request and the answer to it are one step, so is the choice  *)
(* not to do it.                                                           *)
(***************************************************************************)
EXTENDS Integers, Sequences, SequencesExt

CONSTANTS
    Tabs, Companies,
    Runs,           \* runs of processMutationQueue that there may be at once
    Unnamed,        \* {0} if some callers name no company, {} if all do
    MaxChanges      \* bound: changes the user makes

ASSUME QueueAssumption ==
    /\ Tabs # {} /\ Companies \subseteq Nat \ {0} /\ Companies # {}
    /\ Runs \subseteq Nat \ {0} /\ Unnamed \subseteq {0} /\ MaxChanges \in Nat

VARIABLES
    queue,      \* mutation_queue, by created_at
    runs,       \* of each run: its tab, what it still has to send, where it is
    dialog,     \* of each tab: the run whose conflict the modal shows
    shown,      \* of each tab: the failed entries its panel shows
    direct,     \* requests of offlinePost, offlinePatch and offlineDelete
    company,    \* the active company, in localStorage
    asked,      \* for each change: the company the caller named, if it did
    made,       \* the server: the changes it made
    astray,     \* history: changes of the queue made in a company not named for them
    again,      \* history: changes made again, with nothing doubtful about them
    doubtful    \* history: changes that may be made twice, see MadeOnce

vars == <<queue, runs, dialog, shown, direct, company, asked, made, astray,
          again, doubtful>>
server == <<made, astray, again>>

-----------------------------------------------------------------------------

NoRun == 0
NoCompany == 0
Changes == 1..Len(asked)
Statuses == {"pending", "syncing", "failed", "synced"}
Entry == [id: 1..MaxChanges, tenant: Companies, status: Statuses, error: {"", "server-wins"}]
Run == [tab: Tabs, todo: Seq(Entry),
        at: {"idle", "mark", "answer", "conflict", "unheard"}]
Idle == [tab |-> CHOOSE t \in Tabs : TRUE, todo |-> <<>>, at |-> "idle"]

(* A modal shows the conflict of a run of its tab; no change is twice in    *)
(* the queue, or in the hands of a request and in the queue.               *)
TypeOK ==
    /\ queue \in Seq(Entry) /\ runs \in [Runs -> Run]
    /\ dialog \in [Tabs -> Runs \cup {NoRun}]
    /\ shown \in [Tabs -> SUBSET Changes]
    /\ direct \subseteq [id: Changes, tenant: Companies \cup {NoCompany}]
    /\ company \in Companies /\ asked \in Seq(Companies \cup {NoCompany})
    /\ UNION {made, astray, again, doubtful} \subseteq Changes
    /\ \A i, j \in DOMAIN queue : i # j => queue[i].id # queue[j].id
    /\ \A d \in direct : \A i \in DOMAIN queue : queue[i].id # d.id
    /\ \A t \in Tabs : dialog[t] # NoRun =>
          runs[dialog[t]].at = "conflict" /\ runs[dialog[t]].tab = t

-----------------------------------------------------------------------------
(* The table *)

(* The rows of a table that are in a set, in their order. *)
Only(rows, kept) ==
    LET of[i \in 0..Len(rows)] ==
          IF i = 0 THEN <<>>
          ELSE IF rows[i] \in kept THEN Append(of[i - 1], rows[i]) ELSE of[i - 1]
    IN  of[Len(rows)]

(* db.mutation_queue.update: nothing happens to an entry that is gone. *)
Updated(m, status, error) ==
    [i \in DOMAIN queue |->
        IF queue[i].id = m THEN [queue[i] EXCEPT !.status = status, !.error = error]
        ELSE queue[i]]

(* enqueueMutation: the company is the one named, or the active one now. *)
Enqueued(m, tenant) ==
    Append(queue, [id |-> m, status |-> "pending", error |-> "",
                   tenant |-> IF tenant = NoCompany THEN company ELSE tenant])

(* What a run takes up, the oldest first *)
Pending == Only(queue, {e \in ToSet(queue) : e.status = "pending" /\ e.tenant = company})

Held(r) == {e.id : e \in ToSet(runs[r].todo)}
Waiting(t) == {r \in Runs : runs[r].tab = t /\ runs[r].at = "answer"}
HeadOf(r) == Head(runs[r].todo)

(* The server makes these changes, those of the queue in these companies,   *)
(* while these are doubtful.                                               *)
Made(ids, places, doubts) ==
    /\ made' = made \cup ids
    /\ astray' = astray \cup {m \in DOMAIN places \cap ids : asked[m] \notin {NoCompany, places[m]}}
    /\ again' = again \cup ((made \cap ids) \ doubts)

-----------------------------------------------------------------------------
(* The editors: offlinePost, offlinePatch, offlineDelete *)

Change(tenant) ==
    /\ Len(asked) < MaxChanges
    /\ asked' = Append(asked, tenant)
    /\ LET m == Len(asked')
       IN  \/ /\ queue' = Enqueued(m, tenant)       \* navigator says offline
              /\ UNCHANGED direct
           \/ /\ direct' = direct \cup {[id |-> m, tenant |-> tenant]}
              /\ UNCHANGED queue
    /\ UNCHANGED <<runs, dialog, shown, company, server, doubtful>>

DirectDone(d) ==
    /\ d \in direct /\ direct' = direct \ {d}
    /\ Made({d.id}, <<>>, doubtful)
    /\ UNCHANGED <<queue, runs, dialog, shown, company, asked, doubtful>>

(* Whatever is thrown, a refusal included, the change goes to the queue. *)
DirectFailed(d) ==
    /\ d \in direct /\ direct' = direct \ {d}
    /\ queue' = Enqueued(d.id, d.tenant)
    /\ \/ UNCHANGED <<server, doubtful>>
       \/ doubtful' = doubtful \cup {d.id} /\ Made({d.id}, <<>>, doubtful)
    /\ UNCHANGED <<runs, dialog, shown, company, asked>>

-----------------------------------------------------------------------------
(* processMutationQueue *)

(* The connection is back, a page is loaded, the service worker calls: each *)
(* may come at any time and does not ask whether a run is under way.       *)
Start(r, t) ==
    /\ runs[r].at = "idle" /\ \A q \in Runs : runs[q].at = "idle" => r <= q
    /\ Pending # <<>>
    /\ runs' = [runs EXCEPT ![r] = [tab |-> t, todo |-> Pending, at |-> "mark"]]
    /\ doubtful' = doubtful \cup {m \in UNION {Held(q) : q \in Runs} :
                                    \E e \in ToSet(Pending) : e.id = m}
    /\ UNCHANGED <<queue, dialog, shown, direct, company, asked, server>>

Mark(r) ==
    /\ runs[r].at = "mark"
    /\ queue' = Updated(HeadOf(r).id, "syncing", "")
    /\ runs' = [runs EXCEPT ![r].at = "answer"]
    /\ UNCHANGED <<dialog, shown, direct, company, asked, server, doubtful>>

(* The loop takes the next entry. *)
GoesOn(r, status, error) ==
    LET rest == Tail(runs[r].todo)
    IN  /\ queue' = Updated(HeadOf(r).id, status, error)
        /\ runs' = [runs EXCEPT ![r] =
                      IF rest = <<>> THEN Idle ELSE [@ EXCEPT !.todo = rest, !.at = "mark"]]

(* The company of the request is the one recorded in the entry. *)
SentToActive(r) == [m \in {HeadOf(r).id} |-> company]   \* mutant: the header of every other request
SentTo(r) == [m \in {HeadOf(r).id} |-> HeadOf(r).tenant]

OkUnparsed(r) ==   \* mutant: an answer without a body to parse counts as a failure
    /\ Made({HeadOf(r).id}, SentTo(r), doubtful)
    /\ GoesOn(r, "pending", "")
    /\ UNCHANGED <<dialog, doubtful>>
Ok(r) ==
    /\ Made({HeadOf(r).id}, SentTo(r), doubtful)
    /\ GoesOn(r, "synced", "")
    /\ UNCHANGED <<dialog, doubtful>>

OkBeforeAnswer(r) ==   \* mutant: any answer counts as done
    /\ GoesOn(r, "synced", "")
    /\ UNCHANGED <<dialog, server, doubtful>>
Refused(r) ==
    /\ GoesOn(r, "failed", "")
    /\ UNCHANGED <<dialog, server, doubtful>>

(* The server is down, or is not reached. *)
Unreached(r) ==
    /\ GoesOn(r, "pending", "")
    /\ UNCHANGED <<dialog, server, doubtful>>

Lost(r) ==
    /\ Made({HeadOf(r).id}, SentTo(r), doubtful)
    /\ GoesOn(r, "pending", "")
    /\ doubtful' = doubtful \cup {HeadOf(r).id}
    /\ UNCHANGED dialog

(* 409: the modal of the tab shows this conflict; the run whose conflict it *)
(* showed will not hear of it again.                                       *)
Conflict(r) ==
    /\ runs' = [q \in Runs |->
                  CASE q = r -> [runs[q] EXCEPT !.at = "conflict"]
                    [] q = dialog[runs[r].tab] -> [runs[q] EXCEPT !.at = "unheard"]
                    [] OTHER -> runs[q]]
    /\ dialog' = [dialog EXCEPT ![runs[r].tab] = r]
    /\ UNCHANGED <<queue, server, doubtful>>

Answer(r) ==
    /\ runs[r].at = "answer"
    /\ Ok(r) \/ Refused(r) \/ Unreached(r) \/ Lost(r) \/ Conflict(r)
    /\ UNCHANGED <<shown, direct, company, asked>>

ResolveUnheard(t) ==   \* mutant: the modal closes without an answer to the run
    /\ dialog[t] # NoRun
    /\ dialog' = [dialog EXCEPT ![t] = NoRun]
    /\ UNCHANGED <<queue, runs, shown, direct, company, asked, server, doubtful>>
ResolveOpen(t) ==   \* mutant: the modal stays on the screen
    /\ dialog[t] # NoRun
    /\ UNCHANGED dialog
    /\ \/ GoesOn(dialog[t], "pending", "")
       \/ GoesOn(dialog[t], "synced", "server-wins")
       \/ GoesOn(dialog[t], "failed", "")
    /\ UNCHANGED <<shown, direct, company, asked, server, doubtful>>
(* The user overwrites, takes what the server has, or merges by hand later. *)
Resolve(t) ==
    /\ dialog[t] # NoRun
    /\ dialog' = [dialog EXCEPT ![t] = NoRun]
    /\ \/ GoesOn(dialog[t], "pending", "")
       \/ GoesOn(dialog[t], "synced", "server-wins")
       \/ GoesOn(dialog[t], "failed", "")
    /\ UNCHANGED <<shown, direct, company, asked, server, doubtful>>

-----------------------------------------------------------------------------
(* The panel *)

Failed == {e.id : e \in {f \in ToSet(queue) : f.status = "failed" /\ f.tenant = company}}

Refresh(t) ==
    /\ shown' = [shown EXCEPT ![t] = Failed]
    /\ UNCHANGED <<queue, runs, dialog, direct, company, asked, server, doubtful>>

(* retryMutation: the entry may have changed since the panel was filled. *)
Retry(t, m) ==
    /\ m \in shown[t]
    /\ queue' = Updated(m, "pending", "")
    /\ shown' = [shown EXCEPT ![t] = @ \ {m}]
    /\ doubtful' = doubtful \cup {n \in {m} : n \notin Failed}
    /\ UNCHANGED <<runs, dialog, direct, company, asked, server>>

Delete(t, m) ==
    /\ m \in shown[t]
    /\ queue' = Only(queue, {e \in ToSet(queue) : e.id # m})
    /\ shown' = [shown EXCEPT ![t] = @ \ {m}]
    /\ UNCHANGED <<runs, dialog, direct, company, asked, server, doubtful>>

-----------------------------------------------------------------------------
(* The rest of the world *)

SwitchCompany ==
    /\ company' \in Companies \ {company}
    /\ UNCHANGED <<queue, runs, dialog, shown, direct, asked, server, doubtful>>

(* The page is reloaded, or closed: its runs and its requests are gone; of  *)
(* the requests that were out the server may have done any.                *)
Reload(t) ==
    LET out == {HeadOf(r) : r \in Waiting(t)}
        places == [m \in {e.id : e \in out} |-> (CHOOSE e \in out : e.id = m).tenant]
    IN  /\ runs' = [r \in Runs |-> IF runs[r].tab = t THEN Idle ELSE runs[r]]
        /\ dialog' = [dialog EXCEPT ![t] = NoRun]
        /\ shown' = [shown EXCEPT ![t] = {}]
        /\ \E gone \in SUBSET direct :
              /\ direct' = direct \ gone
              /\ \E done \in SUBSET (DOMAIN places \cup {d.id : d \in gone}) :
                    Made(done, places, doubtful) /\ doubtful' = doubtful \cup done
    /\ UNCHANGED <<queue, company, asked>>

-----------------------------------------------------------------------------

Init ==
    /\ queue = <<>> /\ runs = [r \in Runs |-> Idle]
    /\ dialog = [t \in Tabs |-> NoRun] /\ shown = [t \in Tabs |-> {}]
    /\ direct = {} /\ company = CHOOSE c \in Companies : TRUE   \* they are alike
    /\ asked = <<>> /\ made = {} /\ astray = {} /\ again = {} /\ doubtful = {}

Next ==
    \/ \E c \in {company} \cup Unnamed : Change(c)
    \/ \E d \in direct : DirectDone(d) \/ DirectFailed(d)
    \/ \E r \in Runs, t \in Tabs : Start(r, t)
    \/ \E r \in Runs : Mark(r) \/ Answer(r)
    \/ \E t \in Tabs : Resolve(t) \/ Refresh(t) \/ Reload(t)
    \/ \E t \in Tabs : \E m \in shown[t] : Retry(t, m) \/ Delete(t, m)
    \/ SwitchCompany

Spec == Init /\ [][Next]_vars

(* A run awaits the database, or the network for 30 seconds at most; a user *)
(* cannot work on under a modal.                                           *)
FairSpec ==
    /\ Spec
    /\ \A r \in Runs : WF_vars(Mark(r)) /\ WF_vars(Answer(r))
    /\ \A t \in Tabs : WF_vars(Resolve(t))

-----------------------------------------------------------------------------
(* Properties *)

(* An entry that is marked as synced, and that the user did not give up for *)
(* the server's version, was made by the server, whichever run marked it.  *)
SyncedIsMade ==
    \A e \in ToSet(queue) : e.status = "synced" /\ e.error = "" => e.id \in made

(* The server makes a change once, unless an answer was lost, two runs had  *)
(* the entry at once, or an old panel put back an entry that went through: *)
(* no other way leads through a change, a retry or an overwrite twice.     *)
MadeOnce == again = {}

(* A change goes to the company its caller named, though the user has       *)
(* turned to another one between the call, the failure and the sending.    *)
InItsCompany == astray = {}

(* A run ends, unless the conflict it asks about is pushed off the screen   *)
(* by one of another run.                                                  *)
RunsEnd ==
    \A r \in Runs :
        runs[r].at \notin {"idle", "unheard"} ~> runs[r].at \in {"idle", "unheard"}

=============================================================================
