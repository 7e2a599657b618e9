------------------------- MODULE CompanyContextProofs -------------------------
(***************************************************************************)
(* For any users, companies, offices and books, and however many loads     *)
(* overtake each other: nothing comes back after sign-out, the companies a *)
(* tab takes up are its user's, requests go to the company shown, and a    *)
(* client's book opens under the office that owns it; last, the types.     *)
(***************************************************************************)
EXTENDS CompanyContext, SumLemmas

PageFields == {"user", "booting", "checked", "companies", "current", "books", "office",
               "loading", "error"}
StoreFields == {"token", "tenantId", "branch", "bookOffice", "stash"}
LoadFields == {"ver", "user", "token", "commit", "made", "data", "preferred", "explicit",
               "todo", "from", "first", "office", "books"}

\* A load carries the user it was started for; if he is still at the tab when
\* it is the newest, it is in his name, and goes on for the company in storage.
LoadOK(f) ==
    /\ DOMAIN f = LoadFields
    /\ f.user \in Users /\ f.ver \in Nat /\ f.ver <= version
    /\ f.ver = version /\ f.user = page.user => f.token = f.user
    /\ f.todo # {} => f.data \in SUBSET Companies /\ f.data # {}
    /\ f.ver = version /\ f.todo # {} /\ store.token # Nobody =>
         f.explicit = store.tenantId

LoadsInOrder ==
    /\ version \in Nat
    /\ \A f \in loads : LoadOK(f)
    /\ \A f, g \in loads : g.ver = f.ver => g = f

\* The session of the page is the one in storage, and so is its company, until
\* the answer to a logout empties the storage behind the page.
PageMatches ==
    /\ DOMAIN page = PageFields /\ DOMAIN store = StoreFields
    /\ page.user \in Users \cup {Nobody} /\ store.token \in Users \cup {Nobody}
    /\ page.user # Nobody => store.token \in {page.user, Nobody}
    /\ page.current # None /\ store.token # Nobody => store.tenantId = page.current
    /\ page.current \in Books => Owner[page.current] = page.office

ServerKnown ==
    /\ member \in [Users -> SUBSET Companies]
    /\ \A p \in posts : p.user \in Users

IInv == LoadsInOrder /\ PageMatches /\ ServerKnown /\ NothingRestored

\* What a step may do to the companies a tab holds.
TakesOwn ==
    page'.companies # page.companies /\ page'.companies # {} =>
        page'.user \in Users /\ page'.companies \subseteq member[page'.user]

Kept == IInv' /\ TakesOwn

-----------------------------------------------------------------------------
\* A full reload leaves nothing to keep but the server.
LEMMA ReloadKeeps ==
    ASSUME IInv, Reload, UNCHANGED server, DOMAIN store' = StoreFields,
           store'.token = store.token
    PROVE  Kept
<1>1. /\ page'.user = Nobody /\ page'.booting /\ page'.current = None
      /\ page'.companies = {} /\ DOMAIN page' = PageFields
  BY DEF Reload, NewPage, PageFields
<1>2. None \notin Books
  BY ConstantsAssumption DEF None
<1>3. LoadsInOrder'
  BY DEF Reload, LoadsInOrder
<1>4. PageMatches'
  BY <1>1, <1>2 DEF IInv, PageMatches
<1>5. ServerKnown'
  BY DEF IInv, ServerKnown, Reload, server
<1>6. NothingRestored' /\ TakesOwn
  BY <1>1 DEF NothingRestored, TakesOwn
<1> QED
  BY <1>3, <1>4, <1>5, <1>6 DEF Kept, IInv

\* Nothing is left of a session that has no user.
LEMMA WithinFields ==
    ASSUME NEW s, DOMAIN s = StoreFields, NEW t
    PROVE  /\ DOMAIN Within(s, t) = StoreFields /\ Within(s, t).token = s.token
           /\ Within(s, t).tenantId = t /\ Within(s, t).branch = None
  BY DEF Within, StoreFields

\* A load starts, at once over where there is no session.
LEMMA FetchKeeps ==
    ASSUME IInv, NEW u \in Users \cup {Nobody}, NEW p, NEW s, NEW commit \in BOOLEAN, NEW made,
           Fetch(u, p, s, commit, made),
           DOMAIN p = PageFields, DOMAIN s = StoreFields,
           p.user \in Users \cup {Nobody}, s.token \in Users \cup {Nobody},
           p.user # Nobody => s.token \in {p.user, Nobody},
           p.current # None /\ s.token # Nobody =>
             s.tenantId = p.current \/ (commit /\ u = Nobody),
           p.current = page.current, p.office = page.office, p.companies = page.companies,
           p.user = Nobody /\ ~p.booting =>
             (u = Nobody /\ commit) \/ (NothingRestored /\ p = page /\ s = store),
           member' \in [Users -> SUBSET Companies], \A q \in posts' : q.user \in Users
    PROVE  Kept
<1>0. /\ LoadsInOrder /\ PageMatches /\ ServerKnown /\ NothingRestored
      /\ version' = version + 1
  BY DEF IInv, Fetch
<1>1. ServerKnown'
  BY DEF ServerKnown
<1>2. CASE u = Nobody \/ s.token = Nobody
  <2>1. /\ page' = IF commit
                   THEN [p EXCEPT !.companies = {}, !.current = None,
                                  !.loading = FALSE, !.error = FALSE]
                   ELSE p
        /\ store' = IF commit THEN Within(s, None) ELSE s
        /\ loads' = loads
    BY <1>2 DEF Fetch
  <2>2. LoadsInOrder'
    <3>1. version' \in Nat /\ \A f \in loads : f.ver # version'
      BY <1>0 DEF LoadsInOrder, LoadOK
    <3> QED
      BY <1>0, <2>1, <3>1 DEF LoadsInOrder, LoadOK
  <2>3. /\ page'.user = p.user /\ page'.office = p.office /\ page'.booting = p.booting
        /\ DOMAIN page' = PageFields
        /\ commit => page'.current = None /\ page'.companies = {}
        /\ ~commit => page'.current = p.current /\ page'.companies = p.companies
    BY <2>1 DEF PageFields
  <2>4. /\ DOMAIN store' = StoreFields /\ store'.token = s.token
        /\ commit => store'.tenantId = None /\ store'.branch = None
        /\ ~commit => store' = s
    BY <2>1, WithinFields
  <2>5. PageMatches'
    BY <1>0, <2>3, <2>4, ConstantsAssumption DEF PageMatches, None
  <2>6. NothingRestored' /\ TakesOwn
    BY <1>0, <2>1, <2>3, <2>4 DEF NothingRestored, TakesOwn
  <2> QED
    BY <1>1, <2>2, <2>5, <2>6 DEF Kept, IInv
<1>3. CASE u # Nobody /\ s.token # Nobody
  <2>0. PICK f0 : f0 = [ver |-> version + 1, user |-> u, token |-> s.token,
                        commit |-> commit, made |-> made,
                        data |-> {}, preferred |-> None, explicit |-> None,
                        todo |-> {}, from |-> None, first |-> TRUE,
                        office |-> None, books |-> {}]
    OBVIOUS
  <2>1. /\ page' = IF commit THEN [p EXCEPT !.loading = TRUE, !.error = FALSE] ELSE p
        /\ store' = s /\ loads' = loads \cup {f0}
    BY <1>3, <2>0 DEF Fetch
  <2>2. /\ page'.user = p.user /\ page'.office = p.office /\ page'.booting = p.booting
        /\ page'.current = p.current /\ page'.companies = p.companies
        /\ DOMAIN page' = PageFields
    BY <2>1 DEF PageFields
  <2>3. LoadsInOrder'
    <3>1. version' \in Nat /\ \A f \in loads : f.ver # version' /\ f.ver <= version'
      BY <1>0 DEF LoadsInOrder, LoadOK
    <3>2. /\ f0.ver = version' /\ f0.user = u /\ f0.token = s.token /\ f0.todo = {}
          /\ DOMAIN f0 = LoadFields
      BY <1>0, <2>0 DEF LoadFields
    <3>3. LoadOK(f0)'
      BY <1>3, <2>2, <3>1, <3>2 DEF LoadOK
    <3>4. \A f \in loads : LoadOK(f)'
      BY <1>0, <3>1 DEF LoadsInOrder, LoadOK
    <3> QED
      BY <1>0, <2>1, <3>1, <3>2, <3>3, <3>4 DEF LoadsInOrder
  <2>4. PageMatches'
    BY <1>0, <1>3, <2>1, <2>2 DEF PageMatches
  <2>5. NothingRestored' /\ TakesOwn
    BY <1>0, <1>3, <2>1, <2>2 DEF NothingRestored, TakesOwn
  <2> QED
    BY <1>1, <2>3, <2>4, <2>5 DEF Kept, IInv
<1> QED
  BY <1>2, <1>3

-----------------------------------------------------------------------------
\* A load that is over leaves the page p and the storage s.
LEMMA OverKeeps ==
    ASSUME IInv, NEW f \in loads, NEW p, NEW s, Over(f, p, s),
           UNCHANGED <<version, posts, server>>,
           DOMAIN p = PageFields, DOMAIN s = StoreFields,
           p.user = page.user, p.booting = page.booting, s.token = store.token,
           p.current # None /\ store.token # Nobody => s.tenantId = p.current,
           p.current \in Books => Owner[p.current] = p.office,
           s = store \/ f.ver = version,
           page.user = Nobody => (p = page /\ s = store)
                              \/ (p.companies = {} /\ p.current = None
                                  /\ s.tenantId = None /\ s.branch = None),
           \/ p.companies = page.companies \/ p.companies = {}
           \/ page.user \in Users /\ p.companies \subseteq member[page.user]
    PROVE  Kept
<1>0. LoadsInOrder /\ PageMatches /\ ServerKnown /\ NothingRestored
  BY DEF IInv
<1>1. /\ page'.user = page.user /\ page'.booting = page.booting
      /\ page'.current = p.current /\ page'.office = p.office /\ page'.companies = p.companies
      /\ DOMAIN page' = PageFields /\ store' = s /\ loads' = loads \ {f}
  BY DEF Over, Settled, PageFields
<1>2. UNCHANGED <<version, posts, member>>
  BY DEF server
<1>3. LoadsInOrder'
  BY <1>0, <1>1, <1>2 DEF LoadsInOrder, LoadOK
<1>4. PageMatches'
  BY <1>0, <1>1 DEF PageMatches
<1>5. ServerKnown'
  BY <1>0, <1>2 DEF ServerKnown
<1>6. NothingRestored' /\ TakesOwn
  BY <1>0, <1>1, <1>2 DEF NothingRestored, TakesOwn
<1> QED
  BY <1>3, <1>4, <1>5, <1>6 DEF Kept, IInv

\* A load goes on with the next office, for the company in storage.
LEMMA GoesOnKeeps ==
    ASSUME IInv, NEW f \in loads, Fresh(f), NEW g, NEW p, GoesOn(f, g, p),
           UNCHANGED <<version, posts, server>>,
           DOMAIN g = LoadFields, g.ver = f.ver, g.user = f.user, g.token = f.token,
           store.token # Nobody => g.explicit = store.tenantId,
           g.data \in SUBSET Companies, g.data # {},
           DOMAIN p = PageFields,
           p.user = page.user, p.booting = page.booting,
           p.current = page.current, p.office = page.office,
           p.companies = page.companies \/ p.companies \subseteq member[page.user]
    PROVE  Kept
<1>0. LoadsInOrder /\ PageMatches /\ ServerKnown /\ NothingRestored
  BY DEF IInv
<1>1. page' = p /\ store' = store /\ loads' = (loads \ {f}) \cup {g}
  BY DEF GoesOn
<1>2. UNCHANGED <<version, posts, member>>
  BY DEF server
<1>3. page.user \in Users /\ page.user # Nobody
  BY <1>0, ConstantsAssumption DEF LoadsInOrder, LoadOK, Fresh, Nobody
<1>4. LoadsInOrder'
  <2>1. LoadOK(g)'
    BY <1>0, <1>1, <1>2 DEF LoadsInOrder, LoadOK
  <2>2. \A h \in loads : LoadOK(h)'
    BY <1>0, <1>1, <1>2 DEF LoadsInOrder, LoadOK
  <2>3. \A h \in loads \ {f} : h.ver # g.ver
    BY <1>0 DEF LoadsInOrder
  <2> QED
    BY <1>0, <1>1, <1>2, <2>1, <2>2, <2>3 DEF LoadsInOrder
<1>5. PageMatches' /\ ServerKnown'
  BY <1>0, <1>1, <1>2 DEF PageMatches, ServerKnown
<1>6. NothingRestored' /\ TakesOwn
  BY <1>1, <1>2, <1>3 DEF NothingRestored, TakesOwn
<1> QED
  BY <1>4, <1>5, <1>6 DEF Kept, IInv

\* The company of a load is one of the memberships it has read.
LEMMA ActiveIsMember ==
    ASSUME NEW data \in SUBSET Companies, data # {}, NEW explicit, NEW preferred
    PROVE  ActiveMembership(data, explicit, preferred) \in data
<1>1. data \in SUBSET Nat
  BY ConstantsAssumption
<1>2. \E c \in data : \A d \in data : c <= d
  BY <1>1, LeastElement
<1> QED
  BY <1>2 DEF ActiveMembership, Foremost

LEMMA NotABook ==
    ASSUME NEW data \in SUBSET Companies, NEW c \in data
    PROVE  c \notin Books /\ c # None
  BY ConstantsAssumption DEF None

LEMMA AnsweredKeeps ==
    ASSUME IInv, NEW f \in loads, Answered(f)
    PROVE  Kept
<1>0. LoadsInOrder /\ PageMatches /\ ServerKnown /\ NothingRestored
  BY DEF IInv
<1> DEFINE data == member[f.token]
           todo == OfficesToAsk(f.token, data, store.bookOffice)
           g0 == [f EXCEPT !.data = data, !.preferred = default[f.token],
                           !.explicit = store.tenantId,
                           !.todo = todo, !.from = store.bookOffice]
           g == [g0 EXCEPT !.office = NextOffice(g0)]
           kept == [page EXCEPT !.companies = data]
           active == ActiveMembership(data, store.tenantId, default[f.token])
           there == [kept EXCEPT !.office = None, !.books = {}, !.current = active]
           s == [store EXCEPT !.tenantId = active]
<1>1. /\ UNCHANGED <<version, posts, server>>
      /\ \/ ~Fresh(f) /\ Over(f, page, store)
         \/ /\ Fresh(f) /\ data = {}
            /\ Over(f, [kept EXCEPT !.current = None], Within(store, None))
         \/ Fresh(f) /\ data # {} /\ Over(f, there, s)
         \/ Fresh(f) /\ data # {} /\ GoesOn(f, g, kept)
  BY DEF Answered
<1> HIDE DEF todo
<1>2. ASSUME Fresh(f)
      PROVE  /\ f.ver = version /\ page.user \in Users /\ page.user # Nobody
             /\ f.token = page.user /\ data = member[page.user] /\ data \in SUBSET Companies
  BY <1>0, <1>2, ConstantsAssumption
     DEF LoadsInOrder, LoadOK, Fresh, Nobody, ServerKnown
<1>3. /\ DOMAIN kept = PageFields /\ kept.companies = data /\ kept.user = page.user
      /\ kept.booting = page.booting /\ kept.current = page.current
      /\ kept.office = page.office
  BY <1>0 DEF PageMatches, PageFields
<1>4. DOMAIN f = LoadFields
  BY <1>0 DEF LoadsInOrder, LoadOK
<1>5. /\ DOMAIN g = LoadFields /\ g.ver = f.ver /\ g.user = f.user /\ g.token = f.token
      /\ g.explicit = store.tenantId /\ g.data = data
  BY <1>4 DEF LoadFields
<1> HIDE DEF g, kept, data, active
<1>6. CASE ~Fresh(f) /\ Over(f, page, store)
  BY <1>0, <1>1, <1>6, OverKeeps DEF PageMatches
<1>7. CASE Fresh(f) /\ data = {} /\ Over(f, [kept EXCEPT !.current = None], Within(store, None))
  <2> DEFINE p == [kept EXCEPT !.current = None]
  <2>1. /\ DOMAIN p = PageFields /\ p.companies = {} /\ p.user = page.user
        /\ p.booting = page.booting /\ p.current = None /\ p.office = page.office
    BY <1>3, <1>7 DEF PageFields
  <2>2. /\ DOMAIN Within(store, None) = StoreFields
        /\ Within(store, None).token = store.token
    BY <1>0, WithinFields DEF PageMatches
  <2>3. None \notin Books
    BY ConstantsAssumption DEF None
  <2> HIDE DEF p
  <2>4. Over(f, p, Within(store, None))
    BY <1>7 DEF p
  <2> QED
    BY <1>1, <1>2, <1>7, <2>1, <2>2, <2>3, <2>4, OverKeeps
<1>8. CASE Fresh(f) /\ data # {} /\ Over(f, there, s)
  <2>1. active \in data /\ active \notin Books /\ active # None
    BY <1>2, <1>8, ActiveIsMember, NotABook DEF active
  <2>2. /\ DOMAIN there = PageFields /\ there.companies = data /\ there.user = page.user
        /\ there.booting = page.booting /\ there.current = active
    BY <1>3 DEF PageFields
  <2>3. DOMAIN s = StoreFields /\ s.token = store.token /\ s.tenantId = active
    BY <1>0 DEF PageMatches, StoreFields
  <2> HIDE DEF there, s
  <2> QED
    BY <1>1, <1>2, <1>8, <2>1, <2>2, <2>3, OverKeeps
<1>9. CASE Fresh(f) /\ data # {} /\ GoesOn(f, g, kept)
  BY <1>1, <1>2, <1>3, <1>5, <1>9, GoesOnKeeps
<1> QED
  BY <1>1, <1>6, <1>7, <1>8, <1>9

LEMMA ListedKeeps ==
    ASSUME IInv, NEW f \in loads, Listed(f)
    PROVE  Kept
<1>0. LoadsInOrder /\ PageMatches /\ ServerKnown /\ NothingRestored
  BY DEF IInv
<1>1. PICK list \in {ListedBooks(NextOffice(f)), {}} :
        LET found == f.explicit \notin f.data \cup {None} /\ f.explicit \in list
            last == f.explicit \in f.data \cup {None} \/ f.todo = {NextOffice(f)}
            books == IF f.first \/ found THEN list ELSE f.books
            office == IF found THEN NextOffice(f) ELSE f.office
        IN  \/ ~Fresh(f) /\ Over(f, page, store)
            \/ Fresh(f) /\ (found \/ last) /\ Resolve(f, page, office, books, found)
            \/ /\ Fresh(f) /\ ~found /\ ~last
               /\ GoesOn(f, [f EXCEPT !.todo = @ \ {NextOffice(f)}, !.first = FALSE,
                                       !.books = books], page)
  BY DEF Listed
<1> DEFINE found == f.explicit \notin f.data \cup {None} /\ f.explicit \in list
           books == IF f.first \/ found THEN list ELSE f.books
           office == IF found THEN NextOffice(f) ELSE f.office
           g == [f EXCEPT !.todo = @ \ {NextOffice(f)}, !.first = FALSE, !.books = books]
<1>2. UNCHANGED <<version, posts, server>> /\ f.todo # {}
  BY DEF Listed
<1>3. ASSUME Fresh(f)
      PROVE  /\ f.ver = version /\ page.user \in Users /\ page.user # Nobody
             /\ f.data \in SUBSET Companies /\ f.data # {}
             /\ store.token # Nobody => f.explicit = store.tenantId
  BY <1>0, <1>2, <1>3, ConstantsAssumption DEF LoadsInOrder, LoadOK, Fresh, Nobody
<1>4. CASE ~Fresh(f) /\ Over(f, page, store)
  BY <1>0, <1>2, <1>4, OverKeeps DEF PageMatches
<1>5. CASE Fresh(f) /\ Resolve(f, page, office, books, found)
  <2> DEFINE active == IF found THEN f.explicit
                       ELSE ActiveMembership(f.data, f.explicit, f.preferred)
             p == [page EXCEPT !.office = office, !.books = books, !.current = active]
             s == IF found THEN store ELSE [store EXCEPT !.tenantId = active]
  <2>1. Over(f, p, s)
    BY <1>5 DEF Resolve
  <2>2. found => /\ store.token # Nobody => active = store.tenantId
                 /\ Owner[active] = office
    BY <1>3, <1>5 DEF ListedBooks
  <2>3. ~found => active \notin Books
    <3>1. ActiveMembership(f.data, f.explicit, f.preferred) \in f.data
      BY <1>3, <1>5, ActiveIsMember
    <3> QED
      BY <1>3, <1>5, <3>1, NotABook
  <2> HIDE DEF found, active, office, books
  <2>4. /\ DOMAIN p = PageFields /\ p.companies = page.companies /\ p.user = page.user
        /\ p.booting = page.booting /\ p.current = active /\ p.office = office
    BY <1>0 DEF PageMatches, PageFields
  <2>5. /\ DOMAIN s = StoreFields /\ s.token = store.token
        /\ store.token # Nobody => s.tenantId = active
        /\ ~found => s.tenantId = active
    BY <1>0, <2>2 DEF PageMatches, StoreFields
  <2> HIDE DEF p, s
  <2> QED
    BY <1>2, <1>3, <1>5, <2>1, <2>2, <2>3, <2>4, <2>5, OverKeeps
<1>6. CASE Fresh(f) /\ GoesOn(f, g, page)
  <2>1. DOMAIN f = LoadFields
    BY <1>0 DEF LoadsInOrder, LoadOK
  <2>2. /\ DOMAIN g = LoadFields /\ g.ver = f.ver /\ g.user = f.user /\ g.token = f.token
        /\ g.explicit = f.explicit /\ g.data = f.data
    BY <2>1 DEF LoadFields
  <2> HIDE DEF g
  <2> QED
    BY <1>0, <1>2, <1>3, <1>6, <2>2, GoesOnKeeps DEF PageMatches
<1> QED
  BY <1>1, <1>4, <1>5, <1>6

LEMMA FailedKeeps ==
    ASSUME IInv, NEW f \in loads, Failed(f)
    PROVE  Kept
<1>0. PageMatches
  BY DEF IInv
<1> DEFINE p == IF Fresh(f) /\ f.commit
                THEN [page EXCEPT !.error = TRUE, !.companies = {}, !.current = None]
                ELSE page
<1>1. Over(f, p, store) /\ UNCHANGED <<version, posts, server>>
  BY DEF Failed
<1>2. /\ DOMAIN p = PageFields /\ p.user = page.user /\ p.booting = page.booting
      /\ p.office = page.office
      /\ p = page \/ (p.companies = {} /\ p.current = None /\ Fresh(f))
  BY <1>0 DEF PageMatches, PageFields
<1>3. Fresh(f) => page.user # Nobody
  BY ConstantsAssumption DEF IInv, LoadsInOrder, LoadOK, Fresh, Nobody
<1>4. None \notin Books
  BY ConstantsAssumption DEF None
<1> HIDE DEF p
<1> QED
  BY <1>0, <1>1, <1>2, <1>3, <1>4, OverKeeps DEF PageMatches

LEMMA ConfirmedKeeps ==
    ASSUME IInv, NEW f \in loads, Confirmed(f)
    PROVE  Kept
<1>0. PageMatches /\ LoadsInOrder
  BY DEF IInv
<1>1. CASE store' = Within(store, f.made) /\ Reload /\ UNCHANGED server
  BY <1>0, <1>1, WithinFields, ReloadKeeps DEF PageMatches
<1>2. CASE loads' = loads \ {f} /\ UNCHANGED <<page, store, version, posts, member>>
  <2>1. LoadsInOrder'
    BY <1>0, <1>2 DEF LoadsInOrder, LoadOK
  <2> QED
    BY <1>2, <2>1
       DEF Kept, IInv, PageMatches, ServerKnown, NothingRestored, TakesOwn
<1> QED
  BY <1>1, <1>2 DEF Confirmed, server

-----------------------------------------------------------------------------
\* The user comes, goes, or asks again, or is taken for gone.
LEMMA SessionKeeps ==
    ASSUME IInv, Session
    PROVE  Kept
<1>0. /\ LoadsInOrder /\ PageMatches /\ ServerKnown /\ NothingRestored
  BY DEF IInv
<1>1. ASSUME UNCHANGED <<posts, server>>
      PROVE  member' \in [Users -> SUBSET Companies] /\ \A q \in posts' : q.user \in Users
  BY <1>0, <1>1 DEF ServerKnown, server
<1>2. \A u : LET p == [page EXCEPT !.booting = FALSE, !.user = u]
                 q == [page EXCEPT !.user = u]
             IN  /\ DOMAIN p = PageFields /\ p.user = u /\ p.current = page.current
                 /\ p.office = page.office /\ p.companies = page.companies
                 /\ DOMAIN q = PageFields /\ q.user = u /\ q.current = page.current
                 /\ q.office = page.office /\ q.companies = page.companies
                 /\ q.booting = page.booting
  BY <1>0 DEF PageMatches, PageFields
<1>3. \A u : LET s == [store EXCEPT !.token = u]
             IN  DOMAIN s = StoreFields /\ s.token = u /\ s.tenantId = store.tenantId
  BY <1>0 DEF PageMatches, StoreFields
<1>4. ASSUME NEW u \in {store.token, Nobody}, UNCHANGED <<posts, server>>,
             Fetch(u, [page EXCEPT !.booting = FALSE, !.user = u], store, TRUE, None)
      PROVE  Kept
  <2>1. PICK p : p = [page EXCEPT !.booting = FALSE, !.user = u]
    OBVIOUS
  <2>2. /\ DOMAIN p = PageFields /\ p.user = u /\ p.current = page.current
        /\ p.office = page.office /\ p.companies = page.companies
    BY <1>2, <2>1
  <2>3. Fetch(u, p, store, TRUE, None)
    BY <1>4, <2>1
  <2>4. u \in Users \cup {Nobody} /\ DOMAIN store = StoreFields
        /\ store.token \in Users \cup {Nobody}
        /\ (page.current # None /\ store.token # Nobody => store.tenantId = page.current)
    BY <1>0 DEF PageMatches
  <2> QED
    BY <1>1, <1>4, <2>2, <2>3, <2>4, FetchKeeps
<1>5. ASSUME NEW u \in Users, UNCHANGED <<posts, server>>, ~page.booting, page.user = Nobody,
             Fetch(u, [page EXCEPT !.user = u], [store EXCEPT !.token = u], TRUE, None)
      PROVE  Kept
  <2>1. PICK p, s : p = [page EXCEPT !.user = u] /\ s = [store EXCEPT !.token = u]
    OBVIOUS
  <2>2. /\ DOMAIN p = PageFields /\ p.user = u /\ p.current = page.current
        /\ p.office = page.office /\ p.companies = page.companies
        /\ DOMAIN s = StoreFields /\ s.token = u /\ s.tenantId = store.tenantId
    BY <1>2, <1>3, <2>1
  <2>3. Fetch(u, p, s, TRUE, None)
    BY <1>5, <2>1
  <2>4. u # Nobody /\ page.current = None
    BY <1>0, <1>5, ConstantsAssumption DEF NothingRestored, Nobody
  <2> QED
    BY <1>1, <1>5, <2>2, <2>3, <2>4, FetchKeeps
<1>6. CASE SignOut
  <2>1. PICK p, s0, s : /\ p = [page EXCEPT !.user = Nobody]
                        /\ s0 = [store EXCEPT !.token = Nobody] /\ s = Within(s0, None)
    OBVIOUS
  <2>2. /\ DOMAIN p = PageFields /\ p.user = Nobody /\ p.current = page.current
        /\ p.office = page.office /\ p.companies = page.companies
        /\ DOMAIN s0 = StoreFields /\ s0.token = Nobody
    BY <1>2, <1>3, <2>1
  <2>3. DOMAIN s = StoreFields /\ s.token = Nobody
    BY <2>1, <2>2, WithinFields
  <2>4. Fetch(Nobody, p, s, TRUE, None) /\ UNCHANGED <<posts, server>>
    BY <1>6, <2>1 DEF SignOut, Emptied
  <2> QED
    BY <1>1, <2>2, <2>3, <2>4, FetchKeeps
<1>7. CASE Retry
  <2>1. Fetch(page.user, page, store, TRUE, None) /\ UNCHANGED <<posts, server>>
    BY <1>7 DEF Retry
  <2> QED
    BY <1>0, <1>1, <2>1, FetchKeeps DEF PageMatches
<1>8. ASSUME NEW p \in posts, LoggedOut(p) PROVE Kept
  <2>1. PICK s : s = [store EXCEPT !.token = Nobody]
    OBVIOUS
  <2>2. DOMAIN s = StoreFields /\ s.token = Nobody
    BY <1>3, <2>1
  <2>3. /\ DOMAIN store' = StoreFields /\ store'.token = Nobody
        /\ store'.tenantId = None /\ store'.branch = None
    BY <1>8, <2>1, <2>2, WithinFields DEF LoggedOut, Emptied
  <2>4. UNCHANGED <<page, version, loads, member>> /\ posts' \subseteq posts
    BY <1>8 DEF LoggedOut, server
  <2>5. LoadsInOrder'
    BY <1>0, <2>3, <2>4 DEF LoadsInOrder, LoadOK
  <2>6. PageMatches' /\ ServerKnown'
    BY <1>0, <2>3, <2>4 DEF PageMatches, ServerKnown
  <2>7. NothingRestored' /\ TakesOwn
    BY <1>0, <2>3, <2>4 DEF NothingRestored, TakesOwn
  <2> QED
    BY <2>5, <2>6, <2>7 DEF Kept, IInv
<1>9. CASE IdleExpires
  <2>1. UNCHANGED <<page, store, version, loads, member>>
    BY <1>9 DEF IdleExpires, server
  <2>2. page.user \in Users
    BY <1>0, <1>9 DEF IdleExpires, Working, PageMatches
  <2>3. \A q \in posts' : q.user \in Users
    BY <1>0, <1>9, <2>2 DEF IdleExpires, Request, ServerKnown
  <2> QED
    BY <1>0, <2>1, <2>3
       DEF Kept, IInv, LoadsInOrder, LoadOK, PageMatches, ServerKnown, NothingRestored, TakesOwn
<1>10. CASE Refresh
  BY <1>0, <1>10, ReloadKeeps DEF Refresh, PageMatches
<1> QED
  BY <1>4, <1>5, <1>6, <1>7, <1>8, <1>9, <1>10 DEF Session, Boot, SignIn

\* Every move to another company ends in a full reload.
LEMMA MoveKeeps ==
    ASSUME IInv,
           \/ \E c \in Companies : SwitchCompany(c)
           \/ \E b \in Books : OpenManagedBook(b)
           \/ PickBranch \/ ReturnToOffice \/ EnterOfficeShell \/ EnterPlatformShell
           \/ AutoRecover
    PROVE  Kept
<1>0. /\ PageMatches /\ LoadsInOrder /\ ServerKnown /\ NothingRestored
      /\ DOMAIN store = StoreFields
  BY DEF IInv, PageMatches
<1>1. \A t : DOMAIN Within(store, t) = StoreFields /\ Within(store, t).token = store.token
  BY <1>0, WithinFields
<1>2. ASSUME NEW c \in Companies, SwitchCompany(c) PROVE Kept
  BY <1>1, <1>2, ReloadKeeps DEF SwitchCompany
<1>3. ASSUME NEW b \in Books, OpenManagedBook(b) PROVE Kept
  <2>1. PICK s : s = Within(store, b)
    OBVIOUS
  <2>2. /\ store' = [s EXCEPT !.bookOffice =
                         IF page.office # None THEN page.office ELSE page.current]
        /\ DOMAIN s = StoreFields /\ s.token = store.token
    BY <1>1, <1>3, <2>1 DEF OpenManagedBook
  <2>3. DOMAIN store' = StoreFields /\ store'.token = store.token
    BY <2>2 DEF StoreFields
  <2> QED
    BY <1>3, <2>3, ReloadKeeps DEF OpenManagedBook
<1>4. CASE PickBranch
  <2>1. DOMAIN store' = StoreFields /\ store'.token = store.token
    BY <1>0, <1>4 DEF PickBranch, StoreFields
  <2> QED
    BY <1>4, <2>1, ReloadKeeps DEF PickBranch
<1>5. CASE ReturnToOffice
  <2>1. PICK s : s = Within(store, Destination)
    OBVIOUS
  <2>2. /\ store' = [s EXCEPT !.bookOffice = None]
        /\ DOMAIN s = StoreFields /\ s.token = store.token
    BY <1>1, <1>5, <2>1 DEF ReturnToOffice
  <2>3. DOMAIN store' = StoreFields /\ store'.token = store.token
    BY <2>2 DEF StoreFields
  <2> QED
    BY <1>5, <2>3, ReloadKeeps DEF ReturnToOffice
<1>6. CASE EnterOfficeShell
  <2>1. DOMAIN store' = StoreFields /\ store'.token = store.token
    BY <1>0, <1>6 DEF EnterOfficeShell, StoreFields
  <2> QED
    BY <1>6, <2>1, ReloadKeeps DEF EnterOfficeShell
<1>7. CASE EnterPlatformShell
  <2>1. PICK s : s = Within(store, store.stash)
    OBVIOUS
  <2>2. /\ store' = [s EXCEPT !.stash = None]
        /\ DOMAIN s = StoreFields /\ s.token = store.token
    BY <1>1, <1>7, <2>1 DEF EnterPlatformShell
  <2>3. DOMAIN store' = StoreFields /\ store'.token = store.token
    BY <2>2 DEF StoreFields
  <2> QED
    BY <1>7, <2>3, ReloadKeeps DEF EnterPlatformShell
<1>8. CASE AutoRecover
  <2>1. CASE store' = [store EXCEPT !.tenantId = None] /\ Reload
    <3>1. DOMAIN store' = StoreFields /\ store'.token = store.token
      BY <1>0, <2>1 DEF StoreFields
    <3> QED
      BY <1>8, <2>1, <3>1, ReloadKeeps DEF AutoRecover
  <2>2. CASE page' = [page EXCEPT !.checked = TRUE] /\ UNCHANGED <<store, version, loads, posts>>
    <3>1. /\ DOMAIN page' = PageFields /\ page'.user = page.user
          /\ page'.booting = page.booting /\ page'.companies = page.companies
          /\ page'.current = page.current /\ page'.office = page.office
      BY <1>0, <2>2 DEF PageMatches, PageFields
    <3>2. member' = member
      BY <1>8 DEF AutoRecover, server
    <3> QED
      BY <1>0, <2>2, <3>1, <3>2
         DEF Kept, IInv, LoadsInOrder, LoadOK, PageMatches, ServerKnown, NothingRestored, TakesOwn
  <2> QED
    BY <1>8, <2>1, <2>2 DEF AutoRecover
<1> QED
  BY <1>2, <1>3, <1>4, <1>5, <1>6, <1>7, <1>8

\* Requests that write, and what others do on the server.
LEMMA QuietKeeps ==
    ASSUME IInv, UNCHANGED <<store, version, loads>>,
           DOMAIN page' = PageFields, page'.user = page.user, page'.booting = page.booting,
           page'.companies = page.companies, page'.current = page.current,
           page'.office = page.office,
           member' \in [Users -> SUBSET Companies], \A q \in posts' : q.user \in Users
    PROVE  Kept
  BY DEF Kept, IInv, LoadsInOrder, LoadOK, PageMatches, ServerKnown, NothingRestored, TakesOwn

LEMMA WritesKeep ==
    ASSUME IInv, NEW p \in posts,
           CompanyCreated(p) \/ BookCreated(p) \/ SlugSaved(p) \/ PostFails(p)
    PROVE  Kept
<1>0. PageMatches /\ ServerKnown /\ NothingRestored /\ p.user \in Users
  BY DEF IInv, ServerKnown
<1>1. \A c \in Companies : \A u :
        [member EXCEPT ![u] = @ \cup {c}] \in [Users -> SUBSET Companies]
  BY <1>0 DEF ServerKnown
<1>2. \A q \in posts \ {p} : q.user \in Users
  BY <1>0 DEF ServerKnown
<1>3. ASSUME NEW made, NEW commit \in BOOLEAN, Fetch(p.user, page, store, commit, made),
             member' \in [Users -> SUBSET Companies], posts' = posts \ {p}
      PROVE  Kept
  BY <1>0, <1>2, <1>3, FetchKeeps DEF PageMatches
<1>4. CASE CompanyCreated(p)
  <2>1. PICK c \in Companies : /\ member' = [member EXCEPT ![p.token] = @ \cup {c}]
                               /\ Fetch(p.user, page, store, FALSE, c)
    BY <1>4 DEF CompanyCreated
  <2>2. member' \in [Users -> SUBSET Companies] /\ posts' = posts \ {p}
    BY <1>1, <1>4, <2>1 DEF CompanyCreated
  <2> QED
    BY <1>3, <2>1, <2>2
<1>5. CASE SlugSaved(p)
  BY <1>0, <1>3, <1>5 DEF SlugSaved, server, ServerKnown
<1>6. CASE BookCreated(p)
  <2>1. /\ DOMAIN page' = PageFields /\ page'.user = page.user
        /\ page'.booting = page.booting /\ page'.companies = page.companies
        /\ page'.current = page.current /\ page'.office = page.office
    BY <1>0, <1>6 DEF BookCreated, PageMatches, PageFields
  <2> QED
    BY <1>0, <1>2, <1>6, <2>1, QuietKeeps DEF BookCreated, ServerKnown
<1>7. CASE PostFails(p)
  <2>1. member' \in [Users -> SUBSET Companies]
    BY <1>0, <1>1, <1>7 DEF PostFails, ServerKnown
  <2> QED
    BY <1>0, <1>2, <1>7, <2>1, QuietKeeps DEF PostFails, PageMatches
<1> QED
  BY <1>4, <1>5, <1>6, <1>7

LEMMA ServerKeeps ==
    ASSUME IInv,
           \/ \E kind \in {"company", "book", "slug"} : Send(kind)
           \/ \E c \in Companies : SetDefault(c)
           \/ \E u \in Users, c \in Companies : MembershipEnds(u, c)
    PROVE  Kept
<1>0. PageMatches /\ ServerKnown
  BY DEF IInv
<1>1. ASSUME NEW kind, Send(kind) PROVE Kept
  <2>1. page.user \in Users
    BY <1>0, <1>1 DEF Send, PageMatches
  <2>2. \A q \in posts' : q.user \in Users
    BY <1>0, <1>1, <2>1 DEF Send, Request, ServerKnown
  <2> QED
    BY <1>0, <1>1, <2>2, QuietKeeps DEF Send, server, PageMatches, ServerKnown
<1>2. ASSUME NEW c \in Companies, SetDefault(c) PROVE Kept
  BY <1>0, <1>2, QuietKeeps DEF SetDefault, PageMatches, ServerKnown
<1>3. ASSUME NEW u \in Users, NEW c \in Companies, MembershipEnds(u, c) PROVE Kept
  <2>1. member' \in [Users -> SUBSET Companies]
    BY <1>0, <1>3 DEF MembershipEnds, ServerKnown
  <2> QED
    BY <1>0, <1>3, <2>1, QuietKeeps DEF MembershipEnds, PageMatches, ServerKnown
<1> QED
  BY <1>1, <1>2, <1>3

-----------------------------------------------------------------------------
LEMMA InitInvariant == Init => IInv
<1> SUFFICES ASSUME Init PROVE IInv
  OBVIOUS
<1>1. /\ page.user = Nobody /\ page.booting /\ page.current = None
      /\ DOMAIN page = PageFields
  BY DEF Init, NewPage, PageFields
<1>2. DOMAIN store = StoreFields /\ store.token \in Users \cup {Nobody}
  BY DEF Init, StoreFields
<1>3. None \notin Books
  BY ConstantsAssumption DEF None
<1>4. PageMatches
  BY <1>1, <1>2, <1>3 DEF PageMatches
<1>5. LoadsInOrder /\ ServerKnown /\ NothingRestored
  BY <1>1, ConstantsAssumption DEF Init, LoadsInOrder, ServerKnown, NothingRestored
<1> QED
  BY <1>4, <1>5 DEF IInv

LEMMA StepKeeps == IInv /\ [Next]_vars => Kept
<1> SUFFICES ASSUME IInv, [Next]_vars PROVE Kept
  OBVIOUS
<1>1. CASE Reads
  BY <1>1, AnsweredKeeps, ListedKeeps, FailedKeeps, ConfirmedKeeps DEF Reads
<1>2. CASE Writes
  BY <1>2, WritesKeep DEF Writes
<1>3. CASE UNCHANGED vars
  BY <1>3, QuietKeeps DEF vars, IInv, PageMatches, ServerKnown
<1> QED
  BY <1>1, <1>2, <1>3, SessionKeeps, MoveKeeps, ServerKeeps DEF Next

LEMMA Invariant == Spec => []IInv
<1>1. IInv /\ [Next]_vars => IInv'
  BY StepKeeps DEF Kept
<1> QED
  BY <1>1, InitInvariant, PTL DEF Spec

\* However late the answers of an earlier session come, nothing of it is on the
\* page or in the storage while nobody is signed in.
THEOREM SignedOutIsEmpty == Spec => []NothingRestored
<1>1. IInv => NothingRestored
  BY DEF IInv
<1> QED
  BY <1>1, Invariant, PTL

\* While a tab shows a company and its storage has the token of a user, the
\* storage names that company, from which every request takes its tenant, although
\* logouts of this and of earlier sessions empty it under the page.
THEOREM RequestsFollowPage == Spec => []RequestsGoWhereShown
<1>1. IInv => RequestsGoWhereShown
  BY DEF IInv, PageMatches, RequestsGoWhereShown, Working
<1> QED
  BY <1>1, Invariant, PTL

\* A client's book that opens belongs to the office the tab has in hand, in
\* whatever order the offices were asked and whichever of them failed.
THEOREM BookUnderItsOffice == Spec => []OfficeOwnsBook
<1>1. IInv => OfficeOwnsBook
  BY DEF IInv, PageMatches, OfficeOwnsBook
<1> QED
  BY <1>1, Invariant, PTL

\* The companies a tab takes up are memberships of the user who is at it.
THEOREM CompaniesAreOwn == Spec => CompaniesOfTheUser
<1>1. IInv /\ [Next]_vars => TakesOwn
  BY StepKeeps DEF Kept
<1> HIDE DEF TakesOwn
<1>2. Spec => [][TakesOwn]_vars
  BY <1>1, Invariant, PTL DEF Spec
<1> QED
  BY <1>2 DEF TakesOwn, CompaniesOfTheUser
-----------------------------------------------------------------------------
(* Types *)

\* A load keeps the memberships it has read while it goes from office to office.
Load == [ver : Nat, user : Users, token : Users, commit : BOOLEAN,
         made : Companies \cup {None}, data : SUBSET Companies,
         preferred : Companies \cup {None}, explicit : Tenants \cup {None},
         todo : SUBSET Companies, from : Tenants \cup {None}, first : BOOLEAN,
         office : Companies \cup {None}, books : SUBSET Books]

LoadsTyped ==
    /\ loads \subseteq Load
    /\ \A f \in loads : f.todo # {} => f.data # {}

TypeInv == TypeOK /\ LoadsTyped

\* What the server keeps, and the requests on their way to it.
ServerTyped ==
    /\ \A p \in posts : p.kind \in {"company", "book", "slug", "logout"} /\ p.user \in Users
    /\ member \in [Users -> SUBSET Companies]
    /\ default \in [Users -> Companies \cup {None}]
    /\ opened \subseteq Books

LEMMA ReloadTyped ==
    ASSUME TypeInv, Reload, UNCHANGED server, store' \in Store
    PROVE  TypeInv'
<1>1. page' \in Page
  BY DEF Reload, NewPage, Page, Nobody, None
<1>2. loads' = {} /\ posts' = {} /\ version' = 0
  BY DEF Reload
<1>3. 0 \in 0..MaxVersion
  BY ConstantsAssumption
<1> QED
  BY <1>1, <1>2, <1>3 DEF TypeInv, TypeOK, LoadsTyped, server

LEMMA WithinTyped ==
    ASSUME NEW s \in Store, NEW t \in Tenants \cup {None}
    PROVE  Within(s, t) \in Store
  BY DEF Within, Store

LEMMA FetchTyped ==
    ASSUME TypeInv, NEW u \in Users \cup {Nobody}, NEW p \in Page, NEW s \in Store,
           NEW commit \in BOOLEAN, NEW made \in Companies \cup {None},
           Fetch(u, p, s, commit, made), ServerTyped'
    PROVE  TypeInv'
<1>1. version \in 0..MaxVersion /\ version < MaxVersion /\ MaxVersion \in Nat
      /\ version' = version + 1
  BY ConstantsAssumption DEF Fetch, TypeInv, TypeOK
<1>2. version' \in 0..MaxVersion /\ version + 1 \in Nat /\ version + 1 \in 1..version'
      /\ \A f \in loads : f.ver \in 1..version'
  BY <1>1 DEF TypeInv, TypeOK
<1>3. CASE u = Nobody \/ s.token = Nobody
  <2>1. page' \in Page
    BY <1>3 DEF Fetch, Page, None
  <2>2. store' \in Store /\ loads' = loads
    BY <1>3, WithinTyped DEF Fetch
  <2> QED
    BY <1>2, <2>1, <2>2 DEF TypeInv, TypeOK, LoadsTyped, ServerTyped
<1>4. CASE u # Nobody /\ s.token # Nobody
  <2>0. PICK f : f = [ver |-> version + 1, user |-> u, token |-> s.token,
                      commit |-> commit, made |-> made,
                      data |-> {}, preferred |-> None, explicit |-> None,
                      todo |-> {}, from |-> None, first |-> TRUE,
                      office |-> None, books |-> {}]
    OBVIOUS
  <2>1. /\ page' = IF commit THEN [p EXCEPT !.loading = TRUE, !.error = FALSE] ELSE p
        /\ store' = s /\ loads' = loads \cup {f}
    BY <1>4, <2>0 DEF Fetch
  <2>2. page' \in Page
    BY <2>1 DEF Page
  <2>3. u \in Users /\ s.token \in Users
    BY <1>4 DEF Store
  <2>4. f \in Load /\ f.todo = {} /\ f.ver = version + 1 /\ f.user = u
    BY <1>2, <2>0, <2>3 DEF Load
  <2>5. LoadsTyped'
    BY <2>1, <2>4 DEF TypeInv, LoadsTyped
  <2>6. \A g \in loads' : g.ver \in 1..version' /\ g.user \in Users
    BY <1>2, <2>1, <2>3, <2>4 DEF TypeInv, TypeOK
  <2> QED
    BY <1>2, <2>1, <2>2, <2>5, <2>6 DEF TypeInv, TypeOK, ServerTyped
<1> QED
  BY <1>3, <1>4

LEMMA OverTyped ==
    ASSUME TypeInv, NEW f \in loads, NEW p \in Page, NEW s \in Store, Over(f, p, s),
           UNCHANGED <<version, posts, server>>
    PROVE  TypeInv'
<1>1. page' \in Page /\ store' = s /\ loads' = loads \ {f}
  BY DEF Over, Settled, Page
<1> QED
  BY <1>1 DEF TypeInv, TypeOK, LoadsTyped, server

LEMMA GoesOnTyped ==
    ASSUME TypeInv, NEW f \in loads, NEW g \in Load, g.ver = f.ver, g.user = f.user,
           g.data # {}, NEW p \in Page, GoesOn(f, g, p), UNCHANGED <<version, posts, server>>
    PROVE  TypeInv'
<1>1. page' = p /\ store' = store /\ loads' = (loads \ {f}) \cup {g}
  BY DEF GoesOn
<1> QED
  BY <1>1 DEF TypeInv, TypeOK, LoadsTyped, server

\* The next office to ask is one of those to ask.
LEMMA NextOfficeListed ==
    ASSUME NEW f \in Load, f.todo # {}
    PROVE  NextOffice(f) \in f.todo /\ NextOffice(f) \in Companies
<1>1. f.todo \in SUBSET Companies
  BY DEF Load
<1> QED
  BY <1>1, ActiveIsMember DEF NextOffice, ActiveMembership

LEMMA AnsweredTyped ==
    ASSUME TypeInv, NEW f \in loads, Answered(f)
    PROVE  TypeInv'
<1>0. f \in Load /\ page \in Page /\ store \in Store /\ member \in [Users -> SUBSET Companies]
      /\ default \in [Users -> Companies \cup {None}]
  BY DEF TypeInv, TypeOK, LoadsTyped
<1> DEFINE data == member[f.token]
           todo == OfficesToAsk(f.token, data, store.bookOffice)
           g0 == [f EXCEPT !.data = data, !.preferred = default[f.token],
                           !.explicit = store.tenantId,
                           !.todo = todo, !.from = store.bookOffice]
           g == [g0 EXCEPT !.office = NextOffice(g0)]
           kept == [page EXCEPT !.companies = data]
           active == ActiveMembership(data, store.tenantId, default[f.token])
<1>1. /\ UNCHANGED <<version, posts, server>>
      /\ \/ Over(f, page, store)
         \/ Over(f, [kept EXCEPT !.current = None], Within(store, None))
         \/ data # {} /\ Over(f, [kept EXCEPT !.office = None, !.books = {}, !.current = active],
                                 [store EXCEPT !.tenantId = active])
         \/ data # {} /\ todo # {} /\ GoesOn(f, g, kept)
  BY DEF Answered
<1>2. data \in SUBSET Companies /\ default[f.token] \in Companies \cup {None}
  BY <1>0 DEF Load
<1>3. todo \in SUBSET Companies
  BY <1>2 DEF OfficesToAsk
<1>4. data # {} => active \in Companies
  BY <1>2, ActiveIsMember
<1>5. store.tenantId \in Tenants \cup {None} /\ store.bookOffice \in Tenants \cup {None}
  BY <1>0 DEF Store
<1> HIDE DEF data, todo, active
<1>6. /\ g0 \in Load /\ g0.ver = f.ver /\ g0.user = f.user /\ g0.data = data
      /\ g0.todo = todo
  BY <1>0, <1>2, <1>3, <1>5 DEF Load
<1> HIDE DEF g0
<1>7. ASSUME todo # {}
      PROVE  g \in Load /\ g.ver = f.ver /\ g.user = f.user /\ g.data = data
  <2>1. NextOffice(g0) \in Companies
    BY <1>6, <1>7, NextOfficeListed
  <2> QED
    BY <1>6, <2>1 DEF Load
<1>8. kept \in Page
  BY <1>0, <1>2 DEF Page
<1> HIDE DEF g, kept
<1>9. CASE Over(f, [kept EXCEPT !.current = None], Within(store, None))
  <2>1. [kept EXCEPT !.current = None] \in Page
    BY <1>8 DEF Page
  <2> QED
    BY <1>0, <1>1, <1>9, <2>1, WithinTyped, OverTyped
<1>10. CASE /\ data # {}
            /\ Over(f, [kept EXCEPT !.office = None, !.books = {}, !.current = active],
                       [store EXCEPT !.tenantId = active])
  <2>1. [kept EXCEPT !.office = None, !.books = {}, !.current = active] \in Page
    BY <1>4, <1>8, <1>10 DEF Page, Tenants
  <2>2. [store EXCEPT !.tenantId = active] \in Store
    BY <1>0, <1>4, <1>10 DEF Store, Tenants
  <2> QED
    BY <1>1, <1>10, <2>1, <2>2, OverTyped
<1> QED
  BY <1>0, <1>1, <1>7, <1>8, <1>9, <1>10, OverTyped, GoesOnTyped

LEMMA ListedTyped ==
    ASSUME TypeInv, NEW f \in loads, Listed(f)
    PROVE  TypeInv'
<1>0. f \in Load /\ page \in Page /\ store \in Store /\ f.todo # {} /\ f.data # {}
      /\ opened \subseteq Books
  BY DEF TypeInv, TypeOK, LoadsTyped, Listed
<1>1. NextOffice(f) \in Companies
  BY <1>0, NextOfficeListed
<1>2. PICK list \in {ListedBooks(NextOffice(f)), {}} :
        LET found == f.explicit \notin f.data \cup {None} /\ f.explicit \in list
            last == f.explicit \in f.data \cup {None} \/ f.todo = {NextOffice(f)}
            books == IF f.first \/ found THEN list ELSE f.books
            office == IF found THEN NextOffice(f) ELSE f.office
        IN  \/ ~Fresh(f) /\ Over(f, page, store)
            \/ Fresh(f) /\ (found \/ last) /\ Resolve(f, page, office, books, found)
            \/ /\ Fresh(f) /\ ~found /\ ~last
               /\ GoesOn(f, [f EXCEPT !.todo = @ \ {NextOffice(f)}, !.first = FALSE,
                                       !.books = books], page)
  BY DEF Listed
<1> DEFINE found == f.explicit \notin f.data \cup {None} /\ f.explicit \in list
           books == IF f.first \/ found THEN list ELSE f.books
           office == IF found THEN NextOffice(f) ELSE f.office
           g == [f EXCEPT !.todo = @ \ {NextOffice(f)}, !.first = FALSE, !.books = books]
<1>3. UNCHANGED <<version, posts, server>>
  BY DEF Listed
<1>4. list \in SUBSET Books /\ books \in SUBSET Books /\ office \in Companies \cup {None}
  BY <1>0, <1>1 DEF ListedBooks, Load
<1>5. f.data \in SUBSET Companies /\ found => f.explicit \in Tenants
  BY <1>4 DEF Tenants
<1>6. CASE Resolve(f, page, office, books, found)
  <2> DEFINE active == IF found THEN f.explicit
                       ELSE ActiveMembership(f.data, f.explicit, f.preferred)
             p == [page EXCEPT !.office = office, !.books = books, !.current = active]
             s == IF found THEN store ELSE [store EXCEPT !.tenantId = active]
  <2>1. Over(f, p, s)
    BY <1>6 DEF Resolve
  <2>2. f.data \in SUBSET Companies
    BY <1>0 DEF Load
  <2>3. active \in Tenants
    BY <1>0, <1>4, <1>5, <2>2, ActiveIsMember DEF Tenants
  <2> HIDE DEF found, active, office, books
  <2>4. p \in Page
    BY <1>0, <1>4, <2>3 DEF Page
  <2>5. s \in Store
    BY <1>0, <2>3 DEF Store
  <2> QED
    BY <1>3, <2>1, <2>4, <2>5, OverTyped
<1>7. CASE GoesOn(f, g, page)
  <2> HIDE DEF found, office, books
  <2>1. g \in Load /\ g.ver = f.ver /\ g.user = f.user /\ g.data = f.data
    BY <1>0, <1>4 DEF Load
  <2> QED
    BY <1>0, <1>3, <1>7, <2>1, GoesOnTyped
<1> QED
  BY <1>0, <1>2, <1>3, <1>6, <1>7, OverTyped

LEMMA ReadsTyped ==
    ASSUME TypeInv, Reads
    PROVE  TypeInv'
<1>0. page \in Page /\ store \in Store
  BY DEF TypeInv, TypeOK
<1>1. ASSUME NEW f \in loads, Failed(f) PROVE TypeInv'
  <2>1. PICK p : p = IF Fresh(f) /\ f.commit
                     THEN [page EXCEPT !.error = TRUE, !.companies = {}, !.current = None]
                     ELSE page
    OBVIOUS
  <2>2. p \in Page
    BY <1>0, <2>1 DEF Page
  <2>3. Over(f, p, store) /\ UNCHANGED <<version, posts, server>>
    BY <1>1, <2>1 DEF Failed
  <2> QED
    BY <1>0, <2>2, <2>3, OverTyped
<1>2. ASSUME NEW f \in loads, Confirmed(f) PROVE TypeInv'
  <2>1. CASE store' = Within(store, f.made) /\ Reload
    <3>1. f.made \in Tenants \cup {None}
      BY DEF TypeInv, LoadsTyped, Load, Tenants
    <3>2. store' \in Store
      BY <1>0, <2>1, <3>1, WithinTyped
    <3> QED
      BY <1>2, <2>1, <3>2, ReloadTyped DEF Confirmed
  <2>2. CASE loads' = loads \ {f} /\ UNCHANGED <<page, store, version, posts>>
    BY <1>2, <2>2 DEF Confirmed, TypeInv, TypeOK, LoadsTyped, server
  <2> QED
    BY <1>2, <2>1, <2>2 DEF Confirmed
<1> QED
  BY <1>1, <1>2, AnsweredTyped, ListedTyped DEF Reads

LEMMA SessionTyped ==
    ASSUME TypeInv, Session
    PROVE  TypeInv'
<1>0. page \in Page /\ store \in Store
  BY DEF TypeInv, TypeOK
<1>1. UNCHANGED <<posts, server>> => ServerTyped'
  BY DEF TypeInv, TypeOK, ServerTyped, server
<1>2. CASE Boot
  <2>1. PICK u \in {store.token, Nobody} :
               Fetch(u, [page EXCEPT !.booting = FALSE, !.user = u], store, TRUE, None)
    BY <1>2 DEF Boot
  <2>2. u \in Users \cup {Nobody}
    BY <1>0 DEF Store
  <2>3. PICK p : p = [page EXCEPT !.booting = FALSE, !.user = u]
    OBVIOUS
  <2>4. p \in Page
    BY <1>0, <2>2, <2>3 DEF Page
  <2> QED
    BY <1>0, <1>1, <1>2, <2>1, <2>2, <2>3, <2>4, FetchTyped DEF Boot
<1>3. ASSUME NEW u \in Users, SignIn(u) PROVE TypeInv'
  <2>1. PICK p, s : p = [page EXCEPT !.user = u] /\ s = [store EXCEPT !.token = u]
    OBVIOUS
  <2>2. p \in Page /\ s \in Store
    BY <1>0, <2>1 DEF Page, Store
  <2>3. Fetch(u, p, s, TRUE, None) /\ UNCHANGED <<posts, server>>
    BY <1>3, <2>1 DEF SignIn
  <2> QED
    BY <1>1, <2>2, <2>3, FetchTyped
<1>4. CASE SignOut
  <2>1. PICK p, s0, s : /\ p = [page EXCEPT !.user = Nobody]
                        /\ s0 = [store EXCEPT !.token = Nobody] /\ s = Within(s0, None)
    OBVIOUS
  <2>2. p \in Page /\ s0 \in Store
    BY <1>0, <2>1 DEF Page, Store
  <2>3. s \in Store
    BY <2>1, <2>2, WithinTyped
  <2>4. Fetch(Nobody, p, s, TRUE, None) /\ UNCHANGED <<posts, server>>
    BY <1>4, <2>1 DEF SignOut, Emptied
  <2> QED
    BY <1>1, <2>2, <2>3, <2>4, FetchTyped
<1>5. CASE Retry
  <2>1. page.user \in Users \cup {Nobody}
    BY <1>0 DEF Page
  <2> QED
    BY <1>0, <1>1, <1>5, <2>1, FetchTyped DEF Retry
<1>6. ASSUME NEW p \in posts, LoggedOut(p) PROVE TypeInv'
  <2>1. PICK s : s = [store EXCEPT !.token = Nobody]
    OBVIOUS
  <2>2. s \in Store
    BY <1>0, <2>1 DEF Store
  <2>3. store' \in Store
    BY <1>6, <2>1, <2>2, WithinTyped DEF LoggedOut, Emptied
  <2> QED
    BY <1>6, <2>3 DEF LoggedOut, TypeInv, TypeOK, LoadsTyped, server
<1>7. CASE IdleExpires
  <2>1. page.user \in Users
    BY <1>0, <1>7 DEF IdleExpires, Working, Page
  <2> QED
    BY <1>7, <2>1 DEF IdleExpires, Request, TypeInv, TypeOK, LoadsTyped, server
<1>8. CASE Refresh
  BY <1>0, <1>8, ReloadTyped DEF Refresh
<1> QED
  BY <1>2, <1>3, <1>4, <1>5, <1>6, <1>7, <1>8 DEF Session

LEMMA MoveTyped ==
    ASSUME TypeInv,
           \/ \E c \in Companies : SwitchCompany(c)
           \/ \E b \in Books : OpenManagedBook(b)
           \/ PickBranch \/ ReturnToOffice \/ EnterOfficeShell \/ EnterPlatformShell
           \/ AutoRecover
    PROVE  TypeInv'
<1>0. /\ page \in Page /\ store \in Store
      /\ page.current \in Tenants \cup {None} /\ page.office \in Tenants \cup {None}
      /\ store.tenantId \in Tenants \cup {None} /\ store.bookOffice \in Tenants \cup {None}
      /\ store.stash \in Tenants \cup {None}
  BY DEF TypeInv, TypeOK, Page, Store, Tenants
<1>1. ASSUME NEW c \in Companies, SwitchCompany(c) PROVE TypeInv'
  BY <1>0, <1>1, WithinTyped, ReloadTyped DEF SwitchCompany, Tenants
<1>2. ASSUME NEW b \in Books, OpenManagedBook(b) PROVE TypeInv'
  <2>1. PICK s : s = Within(store, b)
    OBVIOUS
  <2>2. s \in Store
    BY <1>0, <2>1, WithinTyped DEF Tenants
  <2>3. store' \in Store
    BY <1>0, <1>2, <2>1, <2>2 DEF OpenManagedBook, Store
  <2> QED
    BY <1>2, <2>3, ReloadTyped DEF OpenManagedBook
<1>3. CASE PickBranch
  <2>1. store' \in Store
    BY <1>0, <1>3 DEF PickBranch, Store
  <2> QED
    BY <1>3, <2>1, ReloadTyped DEF PickBranch
<1>4. CASE ReturnToOffice
  <2>1. PICK s : s = Within(store, Destination)
    OBVIOUS
  <2>2. s \in Store
    BY <1>0, <2>1, WithinTyped DEF Destination
  <2>3. store' \in Store
    BY <1>4, <2>1, <2>2 DEF ReturnToOffice, Store
  <2> QED
    BY <1>4, <2>3, ReloadTyped DEF ReturnToOffice
<1>5. CASE EnterOfficeShell
  <2>1. store' \in Store
    BY <1>0, <1>5 DEF EnterOfficeShell, Store
  <2> QED
    BY <1>5, <2>1, ReloadTyped DEF EnterOfficeShell
<1>6. CASE EnterPlatformShell
  <2>1. PICK s : s = Within(store, store.stash)
    OBVIOUS
  <2>2. s \in Store
    BY <1>0, <2>1, WithinTyped
  <2>3. store' \in Store
    BY <1>6, <2>1, <2>2 DEF EnterPlatformShell, Store
  <2> QED
    BY <1>6, <2>3, ReloadTyped DEF EnterPlatformShell
<1>7. CASE AutoRecover
  <2>1. CASE store' = [store EXCEPT !.tenantId = None] /\ Reload
    <3>1. store' \in Store
      BY <1>0, <2>1 DEF Store
    <3> QED
      BY <1>7, <2>1, <3>1, ReloadTyped DEF AutoRecover
  <2>2. CASE page' = [page EXCEPT !.checked = TRUE] /\ UNCHANGED <<store, version, loads, posts>>
    <3>1. page' \in Page
      BY <1>0, <2>2 DEF Page
    <3> QED
      BY <1>7, <2>2, <3>1 DEF AutoRecover, TypeInv, TypeOK, LoadsTyped, server
  <2> QED
    BY <1>7, <2>1, <2>2 DEF AutoRecover
<1> QED
  BY <1>1, <1>2, <1>3, <1>4, <1>5, <1>6, <1>7

LEMMA WritesTyped ==
    ASSUME TypeInv, Writes
    PROVE  TypeInv'
<1>0. page \in Page /\ store \in Store /\ ServerTyped
  BY DEF TypeInv, TypeOK, ServerTyped
<1>1. PICK p \in posts : CompanyCreated(p) \/ BookCreated(p) \/ SlugSaved(p) \/ PostFails(p)
  BY DEF Writes
<1>2. p.user \in Users
  BY DEF TypeInv, TypeOK
<1>3. \A c \in Companies : \A u :
        [member EXCEPT ![u] = @ \cup {c}] \in [Users -> SUBSET Companies]
  BY <1>0 DEF ServerTyped
<1>4. CASE CompanyCreated(p)
  <2>1. PICK c \in Companies :
               /\ member' = [member EXCEPT ![p.token] = @ \cup {c}]
               /\ default' = [default EXCEPT ![p.token] = IF @ = None THEN c ELSE @]
               /\ Fetch(p.user, page, store, FALSE, c)
    BY <1>4 DEF CompanyCreated
  <2>2. default' \in [Users -> Companies \cup {None}]
    BY <1>0, <2>1 DEF ServerTyped
  <2>3. ServerTyped'
    BY <1>0, <1>3, <1>4, <2>1, <2>2 DEF CompanyCreated, ServerTyped
  <2> QED
    BY <1>0, <1>2, <2>1, <2>3, FetchTyped
<1>5. CASE BookCreated(p)
  <2>1. page' \in Page /\ opened' \subseteq Books
    BY <1>0, <1>5 DEF BookCreated, Page, ServerTyped
  <2> QED
    BY <1>5, <2>1 DEF BookCreated, TypeInv, TypeOK, LoadsTyped
<1>6. CASE SlugSaved(p)
  <2>1. ServerTyped'
    BY <1>0, <1>6 DEF SlugSaved, ServerTyped, server
  <2> QED
    BY <1>0, <1>2, <1>6, <2>1, FetchTyped DEF SlugSaved
<1>7. CASE PostFails(p)
  <2>1. member' \in [Users -> SUBSET Companies]
    BY <1>0, <1>3, <1>7 DEF PostFails, ServerTyped
  <2> QED
    BY <1>7, <2>1 DEF PostFails, TypeInv, TypeOK, LoadsTyped
<1> QED
  BY <1>1, <1>4, <1>5, <1>6, <1>7

LEMMA TypesStep == TypeInv /\ [Next]_vars => TypeInv'
<1> SUFFICES ASSUME TypeInv, [Next]_vars PROVE TypeInv'
  OBVIOUS
<1>1. ASSUME NEW kind \in {"company", "book", "slug"}, Send(kind) PROVE TypeInv'
  <2>1. page.user \in Users
    BY <1>1 DEF Send, TypeInv, TypeOK, Page
  <2> QED
    BY <1>1, <2>1 DEF Send, Request, TypeInv, TypeOK, LoadsTyped, server
<1>2. ASSUME NEW c \in Companies, SetDefault(c) PROVE TypeInv'
  <2>1. default' \in [Users -> Companies \cup {None}]
    BY <1>2 DEF SetDefault, TypeInv, TypeOK
  <2> QED
    BY <1>2, <2>1 DEF SetDefault, TypeInv, TypeOK, LoadsTyped
<1>3. ASSUME NEW u \in Users, NEW c \in Companies, MembershipEnds(u, c) PROVE TypeInv'
  <2>1. member' \in [Users -> SUBSET Companies] /\ default' \in [Users -> Companies \cup {None}]
    BY <1>3 DEF MembershipEnds, TypeInv, TypeOK
  <2> QED
    BY <1>3, <2>1 DEF MembershipEnds, TypeInv, TypeOK, LoadsTyped
<1>4. CASE UNCHANGED vars
  BY <1>4 DEF vars, TypeInv, TypeOK, LoadsTyped
<1> QED
  BY <1>1, <1>2, <1>3, <1>4, ReadsTyped, WritesTyped, SessionTyped, MoveTyped DEF Next

\* Each column of the page, the storage, the loads and the server keeps its type:
\* no load is of an older page or of nobody, and the office and the company shown
\* are always companies, whatever was listed, ended or created meanwhile.
THEOREM ColumnsTyped == Spec => []TypeOK
<1>1. Init => TypeInv
  <2> SUFFICES ASSUME Init PROVE TypeInv
    OBVIOUS
  <2>1. page \in Page
    BY DEF Init, NewPage, Page, Nobody, None
  <2>2. store \in Store
    BY DEF Init, Store
  <2> QED
    BY <2>1, <2>2, ConstantsAssumption DEF Init, TypeInv, TypeOK, LoadsTyped
<1>2. TypeInv => TypeOK
  BY DEF TypeInv
<1> QED
  BY <1>1, <1>2, TypesStep, PTL DEF Spec
=============================================================================
