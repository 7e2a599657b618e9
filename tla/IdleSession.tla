----------------------------- MODULE IdleSession -----------------------------
(***************************************************************************)
(* The session of one user in the tabs of one browser: the token and the   *)
(* last activity in localStorage, the guard of each tab with its timers,   *)
(* the storage events between tabs, and the requests that sign in and out. *)
(*                                                                         *)
(* Durations are in ticks.  The countdown shown before the end is layout    *)
(* over the same timer and is left out.                                    *)
(***************************************************************************)
EXTENDS Integers, FiniteSets

CONSTANTS
    Tabs,           \* tabs of the browser
    Limits,         \* idle timeouts a company may choose, in ticks
    MaxToken,       \* bound: tokens the server has in issue
    MaxLogouts      \* bound: logout requests under way

ASSUME ConstantsAssumption ==
    /\ Limits \subseteq Nat \ {0}
    /\ \E l \in Limits : \A m \in Limits : m <= l
    /\ MaxToken \in Nat \ {0}
    /\ MaxLogouts \in Nat \ {0}

VARIABLES
    token,      \* localStorage "token"
    idle,       \* time since localStorage "lastActivityAt"
    valid,      \* tokens the server accepts
    phase,      \* what a tab shows
    limit,      \* the idle timeout a tab works with
    timer,      \* time left on the expiry timer of a tab
    pending,    \* storage events that have not reached a tab
    logouts,    \* logout requests that have not come back
    present     \* the user is at the machine

vars == <<token, idle, valid, phase, limit, timer, pending,
          logouts, present>>

(* What the user's steps leave alone, as a rule *)
session == <<token, valid, limit, present>>

-----------------------------------------------------------------------------
(* Types *)

NoToken == 0
Tokens == 1..MaxToken
Absent == -1
Off == -1
Phases == {"closed", "login", "signing", "entering", "loading", "app", "expired"}
Events == {"activity", "tokenGone"}
Logouts == [tab: Tabs, by: {"guard", "user"}, tok: Tokens \cup {NoToken}]

TypeOK ==
    /\ token \in Tokens \cup {NoToken}
    /\ idle \in Nat \cup {Absent}
    /\ valid \subseteq Tokens
    /\ phase \in [Tabs -> Phases]
    /\ limit \in [Tabs -> Limits]
    /\ timer \in [Tabs -> Nat \cup {Off}]
    /\ pending \in [Tabs -> SUBSET Events]
    /\ logouts \subseteq Logouts
    /\ present \in BOOLEAN
    /\ \A t \in Tabs : phase[t] = "app" <=> timer[t] # Off

-----------------------------------------------------------------------------
(* Helpers *)

Longest == CHOOSE l \in Limits : \A m \in Limits : m <= l

RemainingUnclamped(age, lim) ==   \* mutant: no Math.max(0, ...)
    IF age = Absent THEN lim ELSE lim - age
(* idleRemainingMs: no record of activity leaves the whole timeout. *)
Remaining(age, lim) ==
    IF age = Absent THEN lim
    ELSE IF age >= lim THEN 0 ELSE lim - age

(* A storage event goes to every open tab but the one that wrote. *)
Announced(box, t, e) ==
    [u \in Tabs |-> IF u # t /\ phase[u] # "closed" THEN box[u] \cup {e} ELSE box[u]]

Received(t, e) == [pending EXCEPT ![t] = @ \ {e}]

(* A tab shows something else than the running application: no timers. *)
Show(t, p) ==
    /\ phase' = [phase EXCEPT ![t] = p]
    /\ timer' = [timer EXCEPT ![t] = Off]

ArmedNearEnd(t, age, lim) ==   \* mutant: no expiry timer for the last moment
    /\ phase' = [phase EXCEPT ![t] = "app"]
    /\ timer' = [timer EXCEPT ![t] = IF Remaining(age, lim) = 1 THEN Off ELSE Remaining(age, lim)]
    /\ idle' = age
(* The application runs, its timers set to what is left. *)
Armed(t, age, lim) ==
    /\ phase' = [phase EXCEPT ![t] = "app"]
    /\ timer' = [timer EXCEPT ![t] = Remaining(age, lim)]
    /\ idle' = age

(* logoutUser: the request goes out with the token then in storage. *)
Leaving(t, by) ==
    /\ Cardinality(logouts) < MaxLogouts
    /\ logouts' = logouts \cup {[tab |-> t, by |-> by, tok |-> token]}

(* handleExpire; its request to log out is a write, recorded as activity. *)
Expiring(t, box) ==
    /\ Show(t, "expired")
    /\ Leaving(t, "guard")
    /\ idle' = 0
    /\ pending' = Announced(box, t, "activity")

(* rearm, in a tab whose guard has not ended *)
Rearm(t, age, lim, box) ==
    IF Remaining(age, lim) = 0
    THEN Expiring(t, box)
    ELSE /\ Armed(t, age, lim)
         /\ pending' = box
         /\ UNCHANGED logouts

ActiveNotRearmed(t, lim) ==   \* mutant: recorded for the others only
    /\ idle' = 0
    /\ pending' = Announced(pending, t, "activity")
    /\ UNCHANGED <<phase, timer>>
(* reset, and writeLastActivity with emitUserActivity: record, then rearm. *)
Active(t, lim) ==
    /\ Armed(t, 0, lim)
    /\ pending' = Announced(pending, t, "activity")

-----------------------------------------------------------------------------
(* Opening a tab, signing in *)

(* initAuth tries a stored token; the timeout is what the company chose,   *)
(* as the cache or the server says, perhaps on another device meanwhile.   *)
OpenTab(t) ==
    /\ present /\ phase[t] = "closed"
    /\ Show(t, IF token = NoToken THEN "login" ELSE "loading")
    /\ \E l \in Limits : limit' = [limit EXCEPT ![t] = l]
    /\ UNCHANGED <<token, idle, valid, pending, logouts, present>>

(* The guard mounts: activity is recorded if there was none, timers set. *)
Mount(t) ==
    /\ Rearm(t, IF idle = Absent THEN 0 ELSE idle, limit[t], pending)
    /\ UNCHANGED session

Load(t) ==
    /\ phase[t] = "loading" /\ token \in valid
    /\ Mount(t)

LoadRefused(t) ==
    /\ phase[t] = "loading"
    /\ Show(t, "login")
    /\ UNCHANGED <<idle, pending, logouts, session>>

(* loginUser: the request is a write, hence activity, ... *)
SignIn(t) ==
    /\ present /\ phase[t] = "login"
    /\ Show(t, "signing")
    /\ idle' = 0
    /\ pending' = Announced(pending, t, "activity")
    /\ UNCHANGED <<logouts, session>>

(* ... its answer is a new token, ... *)
SignedIn(t) ==
    /\ phase[t] = "signing"
    /\ \E k \in Tokens \ (valid \cup {token} \cup {r.tok : r \in logouts}) :
          token' = k /\ valid' = valid \cup {k}
    /\ Show(t, "entering")
    /\ UNCHANGED <<idle, limit, pending, logouts, present>>

(* ... and the profile is read before the application shows. *)
Enter(t) ==
    /\ phase[t] = "entering"
    /\ Mount(t)

SignInFails(t) ==
    /\ phase[t] = "signing"
    /\ Show(t, "login")
    /\ UNCHANGED <<idle, pending, logouts, session>>

(* Closing a tab drops what it was waiting for. *)
CloseTab(t) ==
    /\ present /\ phase[t] # "closed"
    /\ Show(t, "closed")
    /\ logouts' = {r \in logouts : r.tab # t}
    /\ pending' = [pending EXCEPT ![t] = {}]
    /\ limit' = [limit EXCEPT ![t] = Longest]
    /\ UNCHANGED <<token, idle, valid, present>>

-----------------------------------------------------------------------------
(* The guard *)

(* onActivity, the button of the warning, and every write request *)
Activity(t) ==
    /\ present /\ phase[t] = "app"
    /\ Active(t, limit[t])
    /\ UNCHANGED <<logouts, session>>

(* expireTimer; it does not look at the shared activity again. *)
ExpireTimer(t) ==
    /\ timer[t] = 0
    /\ Expiring(t, pending)
    /\ UNCHANGED session

OnActivityIgnored(t) ==   \* mutant: word of activity re-arms nothing
    /\ "activity" \in pending[t]
    /\ pending' = Received(t, "activity")
    /\ UNCHANGED <<idle, phase, timer, logouts, session>>
(* onStorage, another tab recorded activity *)
OnActivityEvent(t) ==
    /\ "activity" \in pending[t]
    /\ IF phase[t] = "app"
       THEN Rearm(t, idle, limit[t], Received(t, "activity"))
       ELSE /\ pending' = Received(t, "activity")
            /\ UNCHANGED <<idle, phase, timer, logouts>>
    /\ UNCHANGED session

(* onStorage, another tab removed the token: showExpiredOnly *)
OnTokenGoneEvent(t) ==
    /\ "tokenGone" \in pending[t]
    /\ pending' = Received(t, "tokenGone")
    /\ IF phase[t] = "app"
       THEN Show(t, "expired")
       ELSE UNCHANGED <<phase, timer>>
    /\ UNCHANGED <<idle, logouts, session>>

(* A request is answered 401: showExpiredOnly *)
Refused(t) ==
    /\ phase[t] = "app" /\ token \notin valid
    /\ Show(t, "expired")
    /\ UNCHANGED <<idle, pending, logouts, session>>

(* setIdleTimeoutMinutes; saving it is a write. *)
SetIdleTimeout(t) ==
    /\ present /\ phase[t] = "app"
    /\ \E l \in Limits :
          /\ limit' = [limit EXCEPT ![t] = l]
          /\ Active(t, l)
    /\ UNCHANGED <<token, valid, logouts, present>>

-----------------------------------------------------------------------------
(* Logging out.  Bound: a tab has one logout of its user under way. *)

Asked(t) == \E r \in logouts : r.tab = t /\ r.by = "user"

(* The user logs out of a working tab; the request is a write. *)
LogOut(t) ==
    /\ present /\ phase[t] = "app" /\ ~Asked(t)
    /\ Leaving(t, "user")
    /\ Active(t, limit[t])
    /\ UNCHANGED session

(* The button of the screen that says the session has ended. *)
BackToLogin(t) ==
    /\ present /\ phase[t] = "expired" /\ ~Asked(t)
    /\ Leaving(t, "user")
    /\ idle' = 0
    /\ pending' = Announced(pending, t, "activity")
    /\ UNCHANGED <<phase, timer, session>>

(* logout_view deletes the device of the token it was sent. *)
LogoutReaches ==
    /\ \E r \in logouts : r.tok \in valid /\ valid' = valid \ {r.tok}
    /\ UNCHANGED <<token, idle, phase, limit, timer, pending,
                   logouts, present>>

(* Answered, failed or timed out, logoutUser goes on to empty the storage; *)
(* AuthContext.logout then forgets the user of the tab.                    *)
LogoutReturns(r) ==
    /\ r \in logouts
    /\ logouts' = logouts \ {r}
    /\ token' = NoToken
    /\ pending' = IF token = NoToken THEN pending
                  ELSE Announced(pending, r.tab, "tokenGone")
    /\ IF r.by = "user"
       THEN Show(r.tab, "login")
       ELSE UNCHANGED <<phase, timer>>
    /\ UNCHANGED <<idle, valid, limit, present>>

(* A device is signed out from elsewhere. *)
RevokeDevice ==
    /\ \E k \in valid : valid' = valid \ {k}
    /\ UNCHANGED <<token, idle, phase, limit, timer, pending,
                   logouts, present>>

-----------------------------------------------------------------------------
(* Time and the user *)

Tick ==
    /\ idle' = IF idle = Absent \/ idle = Longest THEN idle ELSE idle + 1
    /\ timer' = [t \in Tabs |-> IF timer[t] \in {Off, 0} THEN timer[t] ELSE timer[t] - 1]
    /\ <<idle', timer'>> # <<idle, timer>>
    /\ UNCHANGED <<phase, pending, logouts, session>>

(* The user leaves the machine for good. *)
UserLeaves ==
    /\ present
    /\ present' = FALSE
    /\ UNCHANGED <<token, idle, valid, phase, limit, timer,
                   pending, logouts>>

-----------------------------------------------------------------------------

(* A browser opened with what an earlier visit left in storage. *)
Init ==
    /\ token \in {NoToken, 1}
    /\ idle \in 0..Longest \cup {Absent}
    /\ valid \in SUBSET {1}
    /\ phase = [t \in Tabs |-> "closed"]
    /\ limit = [t \in Tabs |-> Longest]
    /\ timer = [t \in Tabs |-> Off]
    /\ pending = [t \in Tabs |-> {}]
    /\ logouts = {}
    /\ present = TRUE

TabStep(t) ==
    \/ OpenTab(t) \/ Load(t) \/ LoadRefused(t) \/ CloseTab(t)
    \/ SignIn(t) \/ SignedIn(t) \/ Enter(t) \/ SignInFails(t)
    \/ Activity(t) \/ ExpireTimer(t)
    \/ OnActivityEvent(t) \/ OnTokenGoneEvent(t) \/ Refused(t)
    \/ SetIdleTimeout(t)
    \/ LogOut(t) \/ BackToLogin(t)

Next ==
    \/ \E t \in Tabs : TabStep(t)
    \/ \E r \in logouts : LogoutReturns(r)
    \/ LogoutReaches \/ RevokeDevice
    \/ Tick \/ UserLeaves

(* Time passes, timers fire, events arrive, and every request ends within  *)
(* the 30 seconds of apiFetch.  The user owes nothing.                     *)
Fairness ==
    /\ WF_vars(Tick)
    /\ \A t \in Tabs :
          /\ WF_vars(ExpireTimer(t))
          /\ WF_vars(OnActivityEvent(t)) /\ WF_vars(OnTokenGoneEvent(t))
          /\ WF_vars(Enter(t)) /\ WF_vars(LoadRefused(t)) /\ WF_vars(SignInFails(t))
    /\ \A r \in Logouts : WF_vars(LogoutReturns(r))

Spec == Init /\ [][Next]_vars
FairSpec == Spec /\ Fairness

-----------------------------------------------------------------------------
(* Properties *)

(* The timer of a tab is what the shared record of activity leaves, unless *)
(* word of newer activity is still on its way to the tab: idleness is      *)
(* measured on the user although every tab keeps a timer of its own.       *)
TimersFollowUser ==
    \A t \in Tabs : phase[t] = "app" =>
        \/ timer[t] = Remaining(idle, limit[t])
        \/ "activity" \in pending[t]

(* The guard of a tab ends the session only when the user has been idle in *)
(* every tab for the whole timeout, or was active in another tab the very  *)
(* moment before.                                                          *)
EndedOnlyWhenIdle ==
    [][\A t \in Tabs : \A r \in logouts' \ logouts :
          r.by = "guard" /\ r.tab = t =>
              Remaining(idle, limit'[t]) = 0 \/ "activity" \in pending[t]]_vars

(* When the user walks away, every tab stops showing the books and none    *)
(* comes back, whatever tabs were signing in or hearing of each other.     *)
SessionEnds == ~present ~> [](\A t \in Tabs : phase[t] # "app")

=============================================================================
