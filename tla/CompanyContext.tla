--------------------------- MODULE CompanyContext ---------------------------
(***************************************************************************)
(* The company a browser tab works in: the memberships the tab has loaded, *)
(* the company it shows, and the keys in storage from which every request  *)
(* takes its X-Tenant-Id and X-Branch-Id, while loads, creations and       *)
(* refreshes are answered late, fail, or overtake each other, and while    *)
(* users sign in and out and the server ends memberships.                  *)
(*                                                                         *)
(* One tab has the storage to itself: what other tabs write is left out.   *)
(* A branch stands as the company it belongs to.                           *)
(***************************************************************************)
EXTENDS Integers, FiniteSets

CONSTANTS
    Users,          \* users of this browser
    Companies,      \* companies that exist or may be created, by TenantID
    Books,          \* books of an office's clients, by TenantID
    Offices,        \* companies made from the accounting_firm template
    Founding,       \* Founding[u]: companies u is a member of at first
    Employed,       \* pairs of a user and a company he does not manage
    Owner,          \* Owner[b]: the office that may open book b
    MaxVersion,     \* bound: loads of memberships in the life of a page
    MaxPosts        \* bound: requests that change something, not yet answered

ASSUME ConstantsAssumption ==
    /\ "nobody" \notin Users
    /\ Companies \subseteq Nat \ {0} /\ Books \subseteq Nat \ {0}
    /\ Companies \cap Books = {}
    /\ Offices \subseteq Companies
    /\ Founding \in [Users -> SUBSET Companies]
    /\ Owner \in [Books -> Offices]
    /\ MaxVersion \in Nat \ {0} /\ MaxPosts \in Nat

VARIABLES
    page,       \* the React state of the tab
    store,      \* localStorage and sessionStorage
    version,    \* requestVersionRef
    loads,      \* runs of fetchCompanies that have not come back
    posts,      \* requests of the tab that change something, not yet answered
    member,     \* the server: companies of each user
    default,    \* the server: the default company of each user
    opened      \* the server: the books that were opened

vars == <<page, store, version, loads, posts, member, default, opened>>
server == <<member, default, opened>>

-----------------------------------------------------------------------------
(* Types *)

Nobody == "nobody"
None == 0
Tenants == Companies \cup Books
Page == [user: Users \cup {Nobody}, booting: BOOLEAN, checked: BOOLEAN,
         companies: SUBSET Companies, current: Tenants \cup {None},
         books: SUBSET Books, office: Companies \cup {None},
         loading: BOOLEAN, error: BOOLEAN]
Store == [token: Users \cup {Nobody}, tenantId: Tenants \cup {None},
          branch: Tenants \cup {None}, bookOffice: Tenants \cup {None},
          stash: Tenants \cup {None}]

TypeOK ==
    /\ page \in Page /\ store \in Store
    /\ version \in 0..MaxVersion
    /\ \A f \in loads : f.ver \in 1..version /\ f.user \in Users
    /\ \A p \in posts : p.kind \in {"company", "book", "slug", "logout"} /\ p.user \in Users
    /\ member \in [Users -> SUBSET Companies]
    /\ default \in [Users -> Companies \cup {None}]
    /\ opened \subseteq Books

-----------------------------------------------------------------------------
(* Helpers *)

Manages(u, c) == c \in member[u] /\ <<u, c>> \notin Employed

(* What a full reload leaves of the tab *)
NewPage ==
    [user |-> Nobody, booting |-> TRUE, checked |-> FALSE, companies |-> {},
     current |-> None, books |-> {}, office |-> None,
     loading |-> TRUE, error |-> FALSE]

ReloadHalf ==   \* mutant: the reads of the former page are still answered
    /\ page' = NewPage
    /\ version' = 0
    /\ posts' = {} /\ UNCHANGED loads
Reload ==
    /\ page' = NewPage
    /\ version' = 0
    /\ loads' = {} /\ posts' = {}

WithinSameBranch(s, tenant) == [s EXCEPT !.tenantId = tenant]   \* mutant: the branch stays
Within(s, tenant) == [s EXCEPT !.tenantId = tenant, !.branch = None]

(* One of S: the first choice, else the second, else the least id. *)
Foremost(S, first, second) ==
    IF first \in S THEN first
    ELSE IF second \in S THEN second
    ELSE CHOOSE c \in S : \A d \in S : c <= d

(* orderOfficesByPreference: the offices that a load may ask for books; the *)
(* one we came from comes first, then the active one, then the others by id. *)
OfficesToAsk(u, data, bookOffice) ==
    {c \in data : Manages(u, c) /\ (c \in Offices \/ c = bookOffice)}
NextOffice(f) == Foremost(f.todo, f.from, f.explicit)

(* pickActiveMembership; the server lists memberships by id. *)
ActiveMembership(data, explicit, preferred) == Foremost(data, explicit, preferred)

ListedBooks(office) == {b \in opened : Owner[b] = office}

(* logoutUser, when its request has come back or failed *)
Emptied(s) == Within([s EXCEPT !.token = Nobody], None)

(* The tab shows the application of a company. *)
Working == ~page.loading /\ ~page.error /\ page.user # Nobody /\ page.current # None

(* Where the button "return to the office" leads *)
Destination == IF store.bookOffice # None THEN store.bookOffice ELSE page.office

InsideManagedBook == page.current \in Books /\ Destination # None

(* A request as it leaves the tab *)
Request(kind) ==
    [kind |-> kind, user |-> page.user, token |-> store.token, office |-> page.office]

(* The start of fetchCompanies on behalf of u: without a session a          *)
(* committing load empties the tab and the storage at once.                *)
Fetch(u, p, s, commit, made) ==
    /\ version < MaxVersion
    /\ version' = version + 1
    /\ IF u = Nobody \/ s.token = Nobody
       THEN /\ page' = IF commit
                       THEN [p EXCEPT !.companies = {}, !.current = None,
                                      !.loading = FALSE, !.error = FALSE]
                       ELSE p
            /\ store' = IF commit THEN Within(s, None) ELSE s
            /\ UNCHANGED loads
       ELSE /\ page' = IF commit THEN [p EXCEPT !.loading = TRUE, !.error = FALSE] ELSE p
            /\ store' = s
            /\ loads' = loads \cup {[ver |-> version + 1, user |-> u, token |-> s.token,
                                     commit |-> commit, made |-> made,
                                     data |-> {}, preferred |-> None, explicit |-> None,
                                     todo |-> {}, from |-> None, first |-> TRUE,
                                     office |-> None, books |-> {}]}

FreshAlways(f) == f.user \in Users   \* mutant: any answer is taken
(* The answer is of the newest load, and its user still uses the tab. *)
Fresh(f) == f.ver = version /\ f.user = page.user

SettledOnSuccess(f, p) ==   \* mutant: no finally, a failure ends nothing
    IF f.ver = version /\ f.commit /\ ~p.error THEN [p EXCEPT !.loading = FALSE] ELSE p
(* finally: only the newest load ends the waiting. *)
Settled(f, p) == IF f.ver = version /\ f.commit THEN [p EXCEPT !.loading = FALSE] ELSE p

(* The load f is over: p is what it did to the page, s to the storage. *)
Over(f, p, s) ==
    /\ page' = Settled(f, p)
    /\ store' = s
    /\ loads' = loads \ {f}

(* The load goes on as g, the page is p meanwhile. *)
GoesOn(f, g, p) ==
    /\ page' = p
    /\ loads' = (loads \ {f}) \cup {g}
    /\ UNCHANGED store

ResolveUnwritten(f, p, office, books, found) ==   \* mutant: the choice is not stored
    Over(f, [p EXCEPT !.office = office, !.books = books,
                !.current = IF found THEN f.explicit
                            ELSE ActiveMembership(f.data, f.explicit, f.preferred)], store)
ResolveFirst(f, p, office, books, found) ==   \* mutant: the first office, not the owner
    LET active == IF found THEN f.explicit
                  ELSE ActiveMembership(f.data, f.explicit, f.preferred)
    IN  Over(f, [p EXCEPT !.office = f.office, !.books = books, !.current = active],
                IF found THEN store ELSE [store EXCEPT !.tenantId = active])
(* The end of a load: the client's book that was asked for and found, else  *)
(* one of the user's own companies, which is written to the storage.       *)
Resolve(f, p, office, books, found) ==
    LET active == IF found THEN f.explicit
                  ELSE ActiveMembership(f.data, f.explicit, f.preferred)
    IN  Over(f, [p EXCEPT !.office = office, !.books = books, !.current = active],
                IF found THEN store ELSE [store EXCEPT !.tenantId = active])

-----------------------------------------------------------------------------
(* Loading the memberships *)

(* my-companies was answered to a committing load. *)
Answered(f) ==
    /\ f.commit /\ f.todo = {}
    /\ LET data == member[f.token]
           todo == OfficesToAsk(f.token, data, store.bookOffice)
           active == ActiveMembership(data, store.tenantId, default[f.token])
           g == [f EXCEPT !.data = data, !.preferred = default[f.token],
                          !.explicit = store.tenantId,
                          !.todo = todo, !.from = store.bookOffice]
           kept == [page EXCEPT !.companies = data]
       IN  \/ ~Fresh(f) /\ Over(f, page, store)
           \/ /\ Fresh(f) /\ data = {}
              /\ Over(f, [kept EXCEPT !.current = None], Within(store, None))
           \/ /\ Fresh(f) /\ data # {} /\ todo = {}
              /\ Over(f, [kept EXCEPT !.office = None, !.books = {}, !.current = active],
                         [store EXCEPT !.tenantId = active])
           \/ /\ Fresh(f) /\ data # {} /\ todo # {}
              /\ GoesOn(f, [g EXCEPT !.office = NextOffice(g)], kept)
    /\ UNCHANGED <<version, posts, server>>

(* The books of the next office were listed; a failure lists none. *)
Listed(f) ==
    /\ f.todo # {}
    /\ \E list \in {ListedBooks(NextOffice(f)), {}} :
          LET found == f.explicit \notin f.data \cup {None} /\ f.explicit \in list
              last == f.explicit \in f.data \cup {None} \/ f.todo = {NextOffice(f)}
              books == IF f.first \/ found THEN list ELSE f.books
              office == IF found THEN NextOffice(f) ELSE f.office
          IN  \/ ~Fresh(f) /\ Over(f, page, store)
              \/ Fresh(f) /\ (found \/ last) /\ Resolve(f, page, office, books, found)
              \/ /\ Fresh(f) /\ ~found /\ ~last
                 /\ GoesOn(f, [f EXCEPT !.todo = @ \ {NextOffice(f)}, !.first = FALSE,
                                         !.books = books], page)
    /\ UNCHANGED <<version, posts, server>>

(* my-companies failed. *)
Failed(f) ==
    /\ f.todo = {}
    /\ Over(f, IF Fresh(f) /\ f.commit
               THEN [page EXCEPT !.error = TRUE, !.companies = {}, !.current = None]
               ELSE page,
            store)
    /\ UNCHANGED <<version, posts, server>>

(* The membership of a company just created is confirmed: the tab goes     *)
(* there with a full reload.  Otherwise the form shows an error.           *)
Confirmed(f) ==
    /\ ~f.commit
    /\ IF Fresh(f) /\ f.made \in member[f.token] /\ Manages(f.token, f.made)
       THEN /\ store' = Within(store, f.made)
            /\ Reload
       ELSE /\ loads' = loads \ {f}
            /\ UNCHANGED <<page, store, version, posts>>
    /\ UNCHANGED server

(* Any refresh of the memberships: "try again", and the store's settings    *)
(* when their own request has been answered.                                *)
Retry ==
    /\ ~page.loading /\ page.error
    /\ Fetch(page.user, page, store, TRUE, None)
    /\ UNCHANGED <<posts, server>>

-----------------------------------------------------------------------------
(* The session *)

(* initAuth; the profile may fail to load.  The effect on the user loads. *)
Boot ==
    /\ page.booting
    /\ \E u \in {store.token, Nobody} :
          Fetch(u, [page EXCEPT !.booting = FALSE, !.user = u], store, TRUE, None)
    /\ UNCHANGED <<posts, server>>

SignIn(u) ==
    /\ ~page.booting /\ page.user = Nobody
    /\ Fetch(u, [page EXCEPT !.user = u], [store EXCEPT !.token = u], TRUE, None)
    /\ UNCHANGED <<posts, server>>

(* The request to log out has come back, whatever the tab does by then. *)
SignOut ==
    /\ ~page.booting /\ page.user # Nobody
    /\ Fetch(Nobody, [page EXCEPT !.user = Nobody], Emptied(store), TRUE, None)
    /\ UNCHANGED <<posts, server>>

(* The idle guard of the tab gives up the session: logoutUser alone, under  *)
(* a dialog whose button signs out.                                        *)
IdleExpires ==
    /\ Working /\ \A p \in posts : p.kind # "logout"
    /\ Cardinality(posts) < MaxPosts
    /\ posts' = posts \cup {Request("logout")}
    /\ UNCHANGED <<page, store, version, loads, server>>

(* Its answer empties the storage, under whatever session the tab has now.  *)
(* The page keeps its user and its company.                                *)
LoggedOut(p) ==
    /\ p.kind = "logout"
    /\ store' = Emptied(store)
    /\ posts' = posts \ {p}
    /\ UNCHANGED <<page, version, loads, server>>

(* The user reloads the tab, or a new build does (index.tsx).  Bound: not   *)
(* while the page waits, which it could do for ever.                       *)
Refresh == ~page.loading /\ Reload /\ UNCHANGED <<store, server>>

-----------------------------------------------------------------------------
(* Moving between companies: each of these ends in a full reload. *)

SwitchCompany(c) ==
    /\ Working /\ c \in page.companies /\ c # page.current
    /\ store' = Within(store, c)
    /\ Reload /\ UNCHANGED server

PickBranch ==
    /\ Working
    /\ \E b \in {page.current, None} : store' = [store EXCEPT !.branch = b]
    /\ store' # store
    /\ Reload /\ UNCHANGED server

(* From the list of books, or from the file of a client, which knows its   *)
(* book whatever office the tab has in hand.                               *)
OpenManagedBook(b) ==
    /\ Working /\ b \in opened /\ Manages(page.user, Owner[b]) /\ b # page.current
    /\ store' = [Within(store, b) EXCEPT !.bookOffice =
                    IF page.office # None THEN page.office ELSE page.current]
    /\ Reload /\ UNCHANGED server

ReturnToOffice ==
    /\ Working /\ InsideManagedBook
    /\ store' = [Within(store, Destination) EXCEPT !.bookOffice = None]
    /\ Reload /\ UNCHANGED server

(* To the accountant's own shell and back; /office ends the visit to a book. *)
EnterOfficeShell ==
    /\ Working /\ store.tenantId # None
    /\ store' = [store EXCEPT !.stash = store.tenantId, !.bookOffice = None]
    /\ Reload /\ UNCHANGED server

EnterPlatformShell ==
    /\ Working /\ store.stash # None
    /\ store' = [Within(store, store.stash) EXCEPT !.stash = None]
    /\ Reload /\ UNCHANGED server

(* The check made once per page finds that the server rejects the company. *)
AutoRecover ==
    /\ Working /\ ~page.checked
    /\ \/ /\ page' = [page EXCEPT !.checked = TRUE]
          /\ UNCHANGED <<store, version, loads, posts>>
       \/ /\ store.tenantId \notin member[page.user] \cup opened
          /\ store' = [store EXCEPT !.tenantId = None]
          /\ Reload
    /\ UNCHANGED server

-----------------------------------------------------------------------------
(* Requests that write *)

(* A form is sent: a new company (also the first one), a new book, or the   *)
(* settings of the store.  Bound: one request of each kind.                *)
Send(kind) ==
    /\ Cardinality(posts) < MaxPosts /\ \A p \in posts : p.kind # kind
    /\ ~page.loading /\ ~page.error /\ page.user # Nobody
    /\ kind = "company" => page.current # None \/ page.companies = {}
    /\ kind = "slug" => page.current # None
    /\ kind = "book" => page.current # None /\ page.office # None
    /\ posts' = posts \cup {Request(kind)}
    /\ UNCHANGED <<page, store, version, loads, server>>

(* createCompany: the answer alone activates nothing. *)
CompanyCreated(p) ==
    /\ p.kind = "company" /\ p.token # Nobody
    /\ \E c \in Companies \ UNION {member[u] : u \in Users} :
          /\ member' = [member EXCEPT ![p.token] = @ \cup {c}]
          /\ default' = [default EXCEPT ![p.token] = IF @ = None THEN c ELSE @]
          /\ Fetch(p.user, page, store, FALSE, c)
    /\ posts' = posts \ {p}
    /\ UNCHANGED opened

(* createManagedBook: the new book joins whatever list the tab holds. *)
BookCreated(p) ==
    /\ p.kind = "book" /\ p.token # Nobody
    /\ \E b \in Books \ opened :
          /\ Owner[b] = p.office
          /\ opened' = opened \cup {b}
          /\ page' = [page EXCEPT !.books = @ \cup {b}]
    /\ posts' = posts \ {p}
    /\ UNCHANGED <<store, version, loads, member, default>>

(* The store's settings were saved: refreshCompanies, as the form knew it. *)
SlugSaved(p) ==
    /\ p.kind = "slug" /\ p.token # Nobody
    /\ Fetch(p.user, page, store, TRUE, None)
    /\ posts' = posts \ {p}
    /\ UNCHANGED server

(* A request failed, or its answer was lost after the server did the work. *)
PostFails(p) ==
    /\ p.kind # "logout"
    /\ posts' = posts \ {p}
    /\ \/ UNCHANGED member
       \/ /\ p.kind = "company" /\ p.token # Nobody
          /\ \E c \in Companies \ UNION {member[u] : u \in Users} :
                member' = [member EXCEPT ![p.token] = @ \cup {c}]
    /\ UNCHANGED <<page, store, version, loads, default, opened>>

(* setDefaultCompany; the mark in the tab's list is display. *)
SetDefault(c) ==
    /\ Working /\ store.token # Nobody
    /\ c \in page.companies \cap member[store.token]
    /\ default' = [default EXCEPT ![store.token] = c]
    /\ UNCHANGED <<page, store, version, loads, posts, member, opened>>

-----------------------------------------------------------------------------
(* The world: a membership ends. *)

MembershipEnds(u, c) ==
    /\ c \in member[u]
    /\ member' = [member EXCEPT ![u] = @ \ {c}]
    /\ default' = [default EXCEPT ![u] = IF @ = c THEN None ELSE @]
    /\ UNCHANGED <<page, store, version, loads, posts, opened>>

-----------------------------------------------------------------------------

Init ==
    /\ page = NewPage
    /\ \E u \in Users \cup {Nobody} :
          store = [token |-> u, tenantId |-> None, branch |-> None,
                   bookOffice |-> None, stash |-> None]
    /\ version = 0 /\ loads = {} /\ posts = {}
    /\ member = Founding
    /\ default = [u \in Users |-> None]
    /\ opened \in {{}, Books}

Reads == \E f \in loads : Answered(f) \/ Listed(f) \/ Failed(f) \/ Confirmed(f)
Writes == \E p \in posts : CompanyCreated(p) \/ BookCreated(p) \/ SlugSaved(p) \/ PostFails(p)
Session ==
    \/ Retry \/ Boot \/ SignOut \/ IdleExpires \/ Refresh
    \/ \E u \in Users : SignIn(u)
    \/ \E p \in posts : LoggedOut(p)

Next ==
    \/ Reads \/ Writes \/ Session
    \/ \E c \in Companies : SwitchCompany(c) \/ SetDefault(c)
    \/ \E b \in Books : OpenManagedBook(b)
    \/ PickBranch \/ ReturnToOffice \/ EnterOfficeShell \/ EnterPlatformShell \/ AutoRecover
    \/ \E kind \in {"company", "book", "slug"} : Send(kind)
    \/ \E u \in Users, c \in Companies : MembershipEnds(u, c)

Spec == Init /\ [][Next]_vars

(* Every read ends within the 30 seconds of apiFetch, and so does the boot. *)
FairSpec ==
    /\ Spec
    /\ WF_vars(Boot)
    /\ WF_vars(Reads)

-----------------------------------------------------------------------------
(* Properties *)

(* A load that started for an earlier session never restores companies or  *)
(* the active company after its user has signed out.                       *)
NothingRestored ==
    page.user = Nobody /\ ~page.booting =>
        page.companies = {} /\ page.current = None /\ store.tenantId = None /\ store.branch = None

(* The memberships a tab takes up are those of the user who is using it,   *)
(* although the load began, and went on from office to office, before.     *)
CompaniesOfTheUser ==
    [][page'.companies # page.companies /\ page'.companies # {} =>
            page'.user \in Users /\ page'.companies \subseteq member[page'.user]]_vars

(* While a tab shows a company, what it asks in the name of a user goes to  *)
(* that company.  A logout that empties the storage behind the page leaves *)
(* it no tenant, but no token either: what it asks then is nobody's.       *)
RequestsGoWhereShown ==
    Working /\ store.token # Nobody => store.tenantId = page.current

(* A client's book that opens belongs to the office the tab has in hand,   *)
(* whichever of the user's offices that is.                                *)
OfficeOwnsBook == Working /\ page.current \in Books => Owner[page.current] = page.office

(* A tab does not wait for ever for its companies, unless a company is      *)
(* being created meanwhile.                                                *)
LoadingEnds ==
    [](\A p \in posts : p.kind # "company") /\ [](\A f \in loads : f.commit)
        => (page.loading ~> ~page.loading)

=============================================================================
