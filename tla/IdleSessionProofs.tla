-------------------------- MODULE IdleSessionProofs --------------------------
(***************************************************************************)
(* For any number of tabs and any timeouts: the timers of the tabs follow  *)
(* the shared record of activity, and a guard ends the session only of a   *)
(* user who was idle.  The inductive invariant adds to the two that a tab  *)
(* shows the application only once activity is on record: without a record *)
(* a timer would run down with nothing to follow.                          *)
(***************************************************************************)
EXTENDS IdleSession, TLAPS

Recorded == \A t \in Tabs : phase[t] = "app" => idle # Absent

IInv == TypeOK /\ TimersFollowUser /\ Recorded

\* There is a longest timeout, and it is one of them.
LEMMA LongestTimeout ==
  Longest \in Limits /\ Longest \in Nat /\ \A l \in Limits : l \in Nat \ {0} /\ l <= Longest
  BY ConstantsAssumption DEF Longest

\* What is left of a timeout is a duration, and nothing once idle for so long.
LEMMA RemainingNat ==
  ASSUME NEW age \in Nat \cup {Absent}, NEW lim \in Limits
  PROVE  /\ Remaining(age, lim) \in Nat
         /\ age = Absent => Remaining(age, lim) = lim
         /\ age # Absent => (Remaining(age, lim) = 0 <=> age >= lim)
  BY LongestTimeout DEF Remaining, Absent

-----------------------------------------------------------------------------
\* A tab that ends the session, or rearms its timer at an age that is not
\* below the record, keeps the invariant.
LEMMA ShowKeeps ==
  ASSUME IInv, NEW t \in Tabs, NEW p \in Phases \ {"app"}, Show(t, p)
  PROVE  /\ phase' \in [Tabs -> Phases] /\ timer' \in [Tabs -> Nat \cup {Off}]
         /\ \A u \in Tabs : phase'[u] = "app" <=> timer'[u] # Off
         /\ \A u \in Tabs : phase'[u] = "app" =>
              u # t /\ phase[u] = "app" /\ timer'[u] = timer[u]
  BY DEF IInv, TypeOK, Show

LEMMA ArmedKeeps ==
  ASSUME IInv, NEW t \in Tabs, NEW age \in Nat, NEW lim \in Limits, Armed(t, age, lim)
  PROVE  /\ phase' \in [Tabs -> Phases] /\ timer' \in [Tabs -> Nat \cup {Off}]
         /\ \A u \in Tabs : phase'[u] = "app" <=> timer'[u] # Off
         /\ \A u \in Tabs : phase'[u] = "app" /\ u # t =>
              phase[u] = "app" /\ timer'[u] = timer[u]
         /\ phase'[t] = "app" /\ timer'[t] = Remaining(age, lim) /\ idle' = age
<1>1. Remaining(age, lim) \in Nat
  BY RemainingNat
<1> QED
  BY <1>1 DEF IInv, TypeOK, Armed, Phases, Off

\* An announcement reaches the boxes of all other open tabs.
LEMMA AnnouncedBoxes ==
  ASSUME IInv, NEW box \in [Tabs -> SUBSET Events], NEW t \in Tabs, NEW e \in Events
  PROVE  /\ Announced(box, t, e) \in [Tabs -> SUBSET Events]
         /\ \A u \in Tabs : u # t /\ phase[u] # "closed" => e \in Announced(box, t, e)[u]
         /\ \A u \in Tabs : box[u] \subseteq Announced(box, t, e)[u]
  BY DEF Announced

\* A logout request carries a token, or none.
LEMMA LeavingKeeps ==
  ASSUME IInv, NEW t \in Tabs, NEW by \in {"guard", "user"}, Leaving(t, by)
  PROVE  logouts' \subseteq Logouts
  BY DEF IInv, TypeOK, Leaving, Logouts

\* User activity in a tab: its timer starts again, every other tab is told.
LEMMA ActiveKeeps ==
  ASSUME IInv, NEW t \in Tabs, NEW lim \in Limits, Active(t, lim),
         limit' = [limit EXCEPT ![t] = lim], UNCHANGED <<token, valid, present>>,
         logouts' \subseteq Logouts
  PROVE  IInv'
<1>1. /\ phase' \in [Tabs -> Phases] /\ timer' \in [Tabs -> Nat \cup {Off}]
      /\ \A u \in Tabs : phase'[u] = "app" <=> timer'[u] # Off
      /\ \A u \in Tabs : phase'[u] = "app" /\ u # t =>
           phase[u] = "app" /\ timer'[u] = timer[u]
      /\ phase'[t] = "app" /\ timer'[t] = Remaining(0, lim) /\ idle' = 0
  BY ArmedKeeps DEF Active
<1>2. /\ pending' \in [Tabs -> SUBSET Events]
      /\ \A u \in Tabs : u # t /\ phase[u] # "closed" => "activity" \in pending'[u]
  BY AnnouncedBoxes DEF Active, IInv, TypeOK, Events
<1>3. limit' \in [Tabs -> Limits] /\ limit'[t] = lim
  BY DEF IInv, TypeOK
<1>4. TypeOK'
  BY <1>1, <1>2, <1>3 DEF IInv, TypeOK
<1>5. TimersFollowUser'
  BY <1>1, <1>2, <1>3 DEF TimersFollowUser
<1>6. Recorded'
  BY <1>1 DEF Recorded, Absent
<1> QED
  BY <1>4, <1>5, <1>6 DEF IInv

\* The end of a session, seen by a guard.
LEMMA ExpiringKeeps ==
  ASSUME IInv, NEW t \in Tabs, NEW box \in [Tabs -> SUBSET Events],
         Expiring(t, box), UNCHANGED session
  PROVE  IInv'
<1>1. /\ phase' \in [Tabs -> Phases] /\ timer' \in [Tabs -> Nat \cup {Off}]
      /\ \A u \in Tabs : phase'[u] = "app" <=> timer'[u] # Off
      /\ \A u \in Tabs : phase'[u] = "app" =>
           u # t /\ phase[u] = "app" /\ timer'[u] = timer[u]
  BY ShowKeeps DEF Expiring, Phases
<1>2. /\ pending' \in [Tabs -> SUBSET Events]
      /\ \A u \in Tabs : u # t /\ phase[u] # "closed" => "activity" \in pending'[u]
  BY AnnouncedBoxes DEF Expiring, Events
<1>3. logouts' \subseteq Logouts /\ idle' = 0
  BY LeavingKeeps DEF Expiring
<1>4. TypeOK'
  BY <1>1, <1>2, <1>3 DEF IInv, TypeOK, session
<1>5. TimersFollowUser'
  BY <1>1, <1>2 DEF TimersFollowUser
<1>6. Recorded'
  BY <1>3 DEF Recorded, Absent
<1> QED
  BY <1>4, <1>5, <1>6 DEF IInv

\* Arming a tab at the shared record, its word of activity taken or not.
LEMMA RearmKeeps ==
  ASSUME IInv, NEW t \in Tabs, NEW age \in Nat, NEW box \in [Tabs -> SUBSET Events],
         idle # Absent => age = idle,
         \A u \in Tabs : u # t => box[u] = pending[u],
         Rearm(t, age, limit[t], box), UNCHANGED session
  PROVE  IInv'
<1>1. CASE Remaining(age, limit[t]) = 0
  BY <1>1, ExpiringKeeps DEF Rearm
<1>2. CASE Remaining(age, limit[t]) # 0
  <2>1. Armed(t, age, limit[t]) /\ pending' = box /\ UNCHANGED logouts
    BY <1>2 DEF Rearm
  <2>2. limit[t] \in Limits
    BY DEF IInv, TypeOK
  <2>3. /\ phase' \in [Tabs -> Phases] /\ timer' \in [Tabs -> Nat \cup {Off}]
        /\ \A u \in Tabs : phase'[u] = "app" <=> timer'[u] # Off
        /\ \A u \in Tabs : phase'[u] = "app" /\ u # t =>
             phase[u] = "app" /\ timer'[u] = timer[u]
        /\ phase'[t] = "app" /\ timer'[t] = Remaining(age, limit[t]) /\ idle' = age
    BY <2>1, <2>2, ArmedKeeps
  <2>4. TypeOK'
    BY <2>1, <2>3 DEF IInv, TypeOK, session
  <2>5. ASSUME NEW u \in Tabs, phase'[u] = "app", u # t
        PROVE  timer'[u] = Remaining(idle', limit'[u]) \/ "activity" \in pending'[u]
    <3>1. /\ phase[u] = "app" /\ timer'[u] = timer[u] /\ pending'[u] = pending[u]
          /\ limit' = limit
      BY <2>1, <2>3, <2>5 DEF session
    <3>2. idle' = idle
      BY <2>3, <3>1 DEF IInv, Recorded
    <3> QED
      BY <3>1, <3>2 DEF IInv, TimersFollowUser
  <2>6. TimersFollowUser'
    BY <2>3, <2>5 DEF TimersFollowUser, session
  <2>7. Recorded'
    BY <2>3 DEF Recorded, Absent
  <2> QED
    BY <2>4, <2>6, <2>7 DEF IInv
<1> QED
  BY <1>1, <1>2

\* A tab that leaves the application, or never was in it, with the record of
\* activity left alone and nothing taken from the boxes of the others.
LEMMA AwayKeeps ==
  ASSUME IInv, NEW t \in Tabs, NEW p \in Phases \ {"app"}, Show(t, p),
         idle' = idle, \A u \in Tabs : u # t => limit'[u] = limit[u],
         limit' \in [Tabs -> Limits], pending' \in [Tabs -> SUBSET Events],
         \A u \in Tabs : u # t => pending[u] \subseteq pending'[u],
         logouts' \subseteq Logouts, token' \in Tokens \cup {NoToken},
         valid' \subseteq Tokens, present' \in BOOLEAN
  PROVE  IInv'
<1>1. /\ phase' \in [Tabs -> Phases] /\ timer' \in [Tabs -> Nat \cup {Off}]
      /\ \A u \in Tabs : phase'[u] = "app" <=> timer'[u] # Off
      /\ \A u \in Tabs : phase'[u] = "app" =>
           u # t /\ phase[u] = "app" /\ timer'[u] = timer[u]
  BY ShowKeeps
<1>2. TypeOK'
  BY <1>1 DEF IInv, TypeOK
<1>3. TimersFollowUser'
  BY <1>1 DEF IInv, TimersFollowUser
<1>4. Recorded'
  BY <1>1 DEF IInv, Recorded
<1> QED
  BY <1>2, <1>3, <1>4 DEF IInv

\* Nothing a timer depends on changes, and no box loses word of activity.
LEMMA StillKeeps ==
  ASSUME IInv, UNCHANGED <<idle, phase, limit, timer>>,
         pending' \in [Tabs -> SUBSET Events],
         \A u \in Tabs : phase[u] = "app" /\ "activity" \in pending[u]
                            => "activity" \in pending'[u],
         logouts' \subseteq Logouts, token' \in Tokens \cup {NoToken},
         valid' \subseteq Tokens, present' \in BOOLEAN
  PROVE  IInv'
<1>1. TypeOK'
  BY DEF IInv, TypeOK
<1>2. TimersFollowUser'
  BY DEF IInv, TimersFollowUser
<1>3. Recorded'
  BY DEF IInv, Recorded
<1> QED
  BY <1>1, <1>2, <1>3 DEF IInv

-----------------------------------------------------------------------------
\* A mounting guard arms its tab by the record, or starts one.
LEMMA MountKeeps ==
  ASSUME IInv, NEW t \in Tabs, Mount(t)
  PROVE  IInv'
<1> DEFINE age == IF idle = Absent THEN 0 ELSE idle
<1>1. age \in Nat /\ (idle # Absent => age = idle)
  BY DEF IInv, TypeOK
<1>2. Rearm(t, age, limit[t], pending) /\ UNCHANGED session
  BY DEF Mount
<1>3. pending \in [Tabs -> SUBSET Events]
  BY DEF IInv, TypeOK
<1> HIDE DEF age
<1> QED
  BY <1>1, <1>2, <1>3, RearmKeeps

\* One tick of the clock takes one from what is left on both sides.
LEMMA TickKeeps ==
  ASSUME IInv, Tick
  PROVE  IInv'
<1>1. /\ idle' = IF idle = Absent \/ idle = Longest THEN idle ELSE idle + 1
      /\ timer' = [t \in Tabs |-> IF timer[t] \in {Off, 0} THEN timer[t] ELSE timer[t] - 1]
      /\ UNCHANGED <<phase, limit, pending, logouts, token, valid, present>>
  BY DEF Tick, session
<1>2. /\ idle \in Nat \cup {Absent} /\ timer \in [Tabs -> Nat \cup {Off}]
      /\ limit \in [Tabs -> Limits]
      /\ \A t \in Tabs : phase[t] = "app" <=> timer[t] # Off
  BY DEF IInv, TypeOK
<1>3. /\ timer' \in [Tabs -> Nat \cup {Off}]
      /\ \A t \in Tabs : timer'[t] # Off <=> timer[t] # Off
  BY <1>1, <1>2 DEF Off
<1>4. idle' \in Nat \cup {Absent} /\ (idle' = Absent <=> idle = Absent)
  BY <1>1, <1>2 DEF Absent
<1>5. TypeOK'
  BY <1>1, <1>2, <1>3, <1>4 DEF IInv, TypeOK
<1>6. ASSUME NEW t \in Tabs, phase[t] = "app", timer[t] = Remaining(idle, limit[t])
      PROVE  timer'[t] = Remaining(idle', limit[t])
  <2>1. /\ idle \in Nat /\ idle # Absent /\ idle' # Absent
        /\ idle' = IF idle = Longest THEN idle ELSE idle + 1
    BY <1>1, <1>2, <1>6 DEF IInv, Recorded, Absent
  <2>2. limit[t] \in Nat \ {0} /\ limit[t] <= Longest /\ Longest \in Nat
    BY <1>2, LongestTimeout
  <2>3. timer[t] \in Nat /\ timer'[t] = IF timer[t] = 0 THEN 0 ELSE timer[t] - 1
    BY <1>1, <1>2, <1>6 DEF Off
  <2> QED
    BY <1>6, <2>1, <2>2, <2>3 DEF Remaining
<1>7. TimersFollowUser'
  BY <1>1, <1>6 DEF IInv, TimersFollowUser
<1>8. Recorded'
  BY <1>1, <1>4 DEF IInv, Recorded
<1> QED
  BY <1>5, <1>7, <1>8 DEF IInv

\* The steps of one tab keep the invariant.
LEMMA TabStepKeeps ==
  ASSUME IInv, NEW t \in Tabs, TabStep(t)
  PROVE  IInv'
<1>0. /\ token \in Tokens \cup {NoToken} /\ valid \subseteq Tokens /\ present \in BOOLEAN
      /\ limit \in [Tabs -> Limits] /\ pending \in [Tabs -> SUBSET Events]
      /\ logouts \subseteq Logouts /\ phase \in [Tabs -> Phases]
      /\ timer \in [Tabs -> Nat \cup {Off}]
      /\ \A u \in Tabs : phase[u] = "app" <=> timer[u] # Off
  BY DEF IInv, TypeOK
<1>a. {"login", "loading", "signing", "entering", "expired", "closed"} \subseteq Phases \ {"app"}
  BY DEF Phases
<1>1. CASE OpenTab(t)
  <2>1. PICK p \in {"login", "loading"} : Show(t, p)
    BY <1>1 DEF OpenTab
  <2> QED
    BY <1>0, <1>a, <1>1, <2>1, AwayKeeps DEF OpenTab
<1>2. CASE Load(t) \/ Enter(t)
  BY <1>2, MountKeeps DEF Load, Enter
<1>3. CASE LoadRefused(t) \/ SignInFails(t)
  BY <1>0, <1>a, <1>3, AwayKeeps DEF LoadRefused, SignInFails, session
<1>4. CASE CloseTab(t)
  <2>1. /\ limit' \in [Tabs -> Limits] /\ \A u \in Tabs : u # t => limit'[u] = limit[u]
    BY <1>0, <1>4, LongestTimeout DEF CloseTab
  <2>2. /\ pending' \in [Tabs -> SUBSET Events]
        /\ \A u \in Tabs : u # t => pending[u] \subseteq pending'[u]
    BY <1>0, <1>4 DEF CloseTab
  <2>3. logouts' \subseteq Logouts
    BY <1>0, <1>4 DEF CloseTab
  <2> QED
    BY <1>0, <1>a, <1>4, <2>1, <2>2, <2>3, AwayKeeps DEF CloseTab
<1>5. CASE SignIn(t)
  <2>1. /\ phase' \in [Tabs -> Phases] /\ timer' \in [Tabs -> Nat \cup {Off}]
        /\ \A u \in Tabs : phase'[u] = "app" <=> timer'[u] # Off
        /\ \A u \in Tabs : phase'[u] = "app" =>
             u # t /\ phase[u] = "app" /\ timer'[u] = timer[u]
    BY <1>a, <1>5, ShowKeeps DEF SignIn
  <2>2. /\ pending' \in [Tabs -> SUBSET Events]
        /\ \A u \in Tabs : u # t /\ phase[u] # "closed" => "activity" \in pending'[u]
    BY <1>0, <1>5, AnnouncedBoxes DEF SignIn, Events
  <2>3. idle' = 0 /\ UNCHANGED <<logouts, token, valid, limit, present>>
    BY <1>5 DEF SignIn, session
  <2>4. TypeOK'
    BY <2>1, <2>2, <2>3 DEF IInv, TypeOK
  <2>5. TimersFollowUser' /\ Recorded'
    BY <2>1, <2>2, <2>3 DEF TimersFollowUser, Recorded, Absent
  <2> QED
    BY <2>4, <2>5 DEF IInv
<1>6. CASE SignedIn(t)
  <2>1. token' \in Tokens \cup {NoToken} /\ valid' \subseteq Tokens
    BY <1>0, <1>6 DEF SignedIn
  <2> QED
    BY <1>0, <1>a, <1>6, <2>1, AwayKeeps DEF SignedIn
<1>7. CASE Activity(t)
  <2>1. limit' = [limit EXCEPT ![t] = limit[t]] /\ limit[t] \in Limits
    BY <1>0, <1>7 DEF Activity, session
  <2> QED
    BY <1>0, <1>7, <2>1, ActiveKeeps DEF Activity, session
<1>8. CASE ExpireTimer(t)
  BY <1>0, <1>8, ExpiringKeeps DEF ExpireTimer
<1>9. CASE OnActivityEvent(t)
  <2>1. /\ Received(t, "activity") \in [Tabs -> SUBSET Events]
        /\ \A u \in Tabs : u # t => Received(t, "activity")[u] = pending[u]
    BY <1>0 DEF Received
  <2>2. CASE phase[t] = "app"
    <3>1. idle \in Nat
      BY <2>2 DEF IInv, TypeOK, Recorded
    <3> QED
      BY <1>9, <2>1, <2>2, <3>1, RearmKeeps DEF OnActivityEvent
  <2>3. CASE phase[t] # "app"
    <3>1. /\ pending' = Received(t, "activity")
          /\ UNCHANGED <<idle, phase, timer, logouts, token, valid, limit, present>>
      BY <1>9, <2>3 DEF OnActivityEvent, session
    <3>2. \A u \in Tabs : phase[u] = "app" /\ "activity" \in pending[u]
                             => "activity" \in pending'[u]
      BY <2>1, <2>3, <3>1
    <3> QED
      BY <1>0, <2>1, <3>1, <3>2, StillKeeps
  <2> QED
    BY <2>2, <2>3
<1>10. CASE OnTokenGoneEvent(t)
  <2>1. /\ pending' = Received(t, "tokenGone")
        /\ UNCHANGED <<idle, logouts, token, valid, limit, present>>
    BY <1>10 DEF OnTokenGoneEvent, session
  <2>2. /\ pending' \in [Tabs -> SUBSET Events]
        /\ \A u \in Tabs : u # t => pending[u] \subseteq pending'[u]
        /\ \A u \in Tabs : "activity" \in pending[u] => "activity" \in pending'[u]
    BY <1>0, <2>1 DEF Received
  <2>3. CASE Show(t, "expired")
    BY <1>0, <1>a, <2>1, <2>2, <2>3, AwayKeeps
  <2>4. CASE UNCHANGED <<phase, timer>>
    BY <1>0, <2>1, <2>2, <2>4, StillKeeps
  <2> QED
    BY <1>10, <2>3, <2>4 DEF OnTokenGoneEvent
<1>11. CASE Refused(t)
  BY <1>0, <1>a, <1>11, AwayKeeps DEF Refused, session
<1>12. CASE SetIdleTimeout(t)
  <2>1. PICK l \in Limits : limit' = [limit EXCEPT ![t] = l] /\ Active(t, l)
    BY <1>12 DEF SetIdleTimeout
  <2> QED
    BY <1>0, <1>12, <2>1, ActiveKeeps DEF SetIdleTimeout
<1>13. CASE LogOut(t)
  <2>1. limit' = [limit EXCEPT ![t] = limit[t]] /\ limit[t] \in Limits
    BY <1>0, <1>13 DEF LogOut, session
  <2>2. logouts' \subseteq Logouts
    BY <1>13, LeavingKeeps DEF LogOut
  <2> QED
    BY <1>0, <1>13, <2>1, <2>2, ActiveKeeps DEF LogOut, session
<1>14. CASE BackToLogin(t)
  <2>1. /\ pending' \in [Tabs -> SUBSET Events]
        /\ \A u \in Tabs : u # t /\ phase[u] # "closed" => "activity" \in pending'[u]
    BY <1>0, <1>14, AnnouncedBoxes DEF BackToLogin, Events
  <2>2. logouts' \subseteq Logouts
    BY <1>14, LeavingKeeps DEF BackToLogin
  <2>3. /\ idle' = 0 /\ phase[t] # "app"
        /\ UNCHANGED <<phase, timer, token, valid, limit, present>>
    BY <1>14 DEF BackToLogin, session
  <2>4. TypeOK'
    BY <2>1, <2>2, <2>3 DEF IInv, TypeOK
  <2>5. TimersFollowUser' /\ Recorded'
    BY <2>1, <2>3 DEF TimersFollowUser, Recorded, Absent
  <2> QED
    BY <2>4, <2>5 DEF IInv
<1> QED
  BY <1>1, <1>2, <1>3, <1>4, <1>5, <1>6, <1>7, <1>8, <1>9, <1>10, <1>11, <1>12,
     <1>13, <1>14 DEF TabStep

\* So do the answers to a logout, the server, the clock and the user.
LEMMA NextKeeps ==
  ASSUME IInv, [Next]_vars
  PROVE  IInv'
<1>0. /\ token \in Tokens \cup {NoToken} /\ valid \subseteq Tokens /\ present \in BOOLEAN
      /\ limit \in [Tabs -> Limits] /\ pending \in [Tabs -> SUBSET Events]
      /\ logouts \subseteq Logouts
  BY DEF IInv, TypeOK
<1>1. ASSUME NEW t \in Tabs, TabStep(t) PROVE IInv'
  BY <1>1, TabStepKeeps
<1>2. ASSUME NEW r \in logouts, LogoutReturns(r) PROVE IInv'
  <2>1. r.tab \in Tabs
    BY <1>0 DEF Logouts
  <2>2. /\ pending' \in [Tabs -> SUBSET Events]
        /\ \A u \in Tabs : pending[u] \subseteq pending'[u]
    <3>1. "tokenGone" \in Events
      BY DEF Events
    <3> QED
      BY <1>0, <1>2, <2>1, <3>1, AnnouncedBoxes DEF LogoutReturns
  <2>3. /\ logouts' \subseteq Logouts /\ token' \in Tokens \cup {NoToken}
        /\ UNCHANGED <<idle, valid, limit, present>>
    BY <1>0, <1>2 DEF LogoutReturns
  <2>4. CASE Show(r.tab, "login")
    <3>1. "login" \in Phases \ {"app"}
      BY DEF Phases
    <3> QED
      BY <1>0, <2>1, <2>2, <2>3, <2>4, <3>1, AwayKeeps
  <2>5. CASE UNCHANGED <<phase, timer>>
    BY <1>0, <2>2, <2>3, <2>5, StillKeeps
  <2> QED
    BY <1>2, <2>4, <2>5 DEF LogoutReturns
<1>3. CASE LogoutReaches \/ RevokeDevice
  <2>1. /\ valid' \subseteq Tokens
        /\ UNCHANGED <<token, idle, phase, limit, timer, pending, logouts, present>>
    BY <1>0, <1>3 DEF LogoutReaches, RevokeDevice
  <2> QED
    BY <1>0, <2>1, StillKeeps
<1>4. CASE Tick
  BY <1>4, TickKeeps
<1>5. CASE UserLeaves
  BY <1>0, <1>5, StillKeeps DEF UserLeaves
<1>6. CASE UNCHANGED vars
  BY <1>0, <1>6, StillKeeps DEF vars
<1> QED
  BY <1>1, <1>2, <1>3, <1>4, <1>5, <1>6 DEF Next

\* The invariant holds in every state of every run.
LEMMA Invariant == Spec => []IInv
<1>1. ASSUME Init PROVE IInv
  <2>1. token \in Tokens \cup {NoToken} /\ valid \subseteq Tokens
    <3>1. 1 \in Tokens
      BY ConstantsAssumption DEF Tokens
    <3> QED
      BY <1>1, <3>1 DEF Init
  <2>2. idle \in Nat \cup {Absent}
    BY <1>1, LongestTimeout DEF Init
  <2>3. /\ phase = [t \in Tabs |-> "closed"] /\ limit = [t \in Tabs |-> Longest]
        /\ timer = [t \in Tabs |-> Off] /\ pending = [t \in Tabs |-> {}]
        /\ logouts = {} /\ present = TRUE
    BY <1>1 DEF Init
  <2>4. TypeOK
    BY <2>1, <2>2, <2>3, LongestTimeout DEF TypeOK, Phases
  <2>5. TimersFollowUser /\ Recorded
    BY <2>3 DEF TimersFollowUser, Recorded
  <2> QED
    BY <2>4, <2>5 DEF IInv
<1>2. IInv /\ [Next]_vars => IInv'
  BY NextKeeps
<1> QED
  BY <1>1, <1>2, PTL DEF Spec

-----------------------------------------------------------------------------
\* Every part of the session keeps its type, and a tab has an expiry timer
\* exactly while it shows the application.
THEOREM SessionTypes == Spec => []TypeOK
<1>1. IInv => TypeOK
  BY DEF IInv
<1> QED
  BY <1>1, Invariant, PTL

\* Each tab measures idleness on the user, not on itself: its timer is what
\* the shared record leaves, unless word of activity is still on its way.
THEOREM TimersFollow == Spec => []TimersFollowUser
<1>1. IInv => TimersFollowUser
  BY DEF IInv
<1> QED
  BY <1>1, Invariant, PTL

\* A guard asks to log out only in a step that ends the session of its tab.
LEMMA GuardAsks ==
  ASSUME IInv, Next, NEW t \in Tabs, NEW r \in logouts' \ logouts,
         r.by = "guard", r.tab = t
  PROVE  Remaining(idle, limit'[t]) = 0 \/ "activity" \in pending[t]
<1>1. ASSUME NEW u \in Tabs, NEW by, Leaving(u, by) PROVE by = "guard" /\ u = t
  BY <1>1 DEF Leaving
<1>2. ASSUME NEW u \in Tabs, NEW age, NEW lim, NEW box, Rearm(u, age, lim, box)
      PROVE  Remaining(age, lim) = 0 /\ u = t
  BY <1>1, <1>2 DEF Rearm, Expiring
<1>3. ASSUME NEW u \in Tabs, Mount(u) PROVE Remaining(idle, limit'[t]) = 0
  <2>1. /\ Remaining(IF idle = Absent THEN 0 ELSE idle, limit[u]) = 0 /\ u = t
        /\ limit' = limit
    BY <1>2, <1>3 DEF Mount, session
  <2>2. limit[u] \in Limits
    BY DEF IInv, TypeOK
  <2>3. idle # Absent
    <3>1. Remaining(0, limit[u]) # 0
      <4>1. limit[u] \in Nat \ {0}
        BY <2>2, LongestTimeout
      <4>2. \A l \in Nat \ {0} : Remaining(0, l) = l
        BY DEF Remaining, Absent
      <4> QED
        BY <4>1, <4>2
    <3> QED
      BY <2>1, <3>1
  <2> QED
    BY <2>1, <2>3
<1>4. ASSUME NEW u \in Tabs, ExpireTimer(u)
      PROVE  Remaining(idle, limit'[t]) = 0 \/ "activity" \in pending[t]
  <2>1. timer[u] = 0 /\ u = t /\ limit' = limit
    BY <1>1, <1>4 DEF ExpireTimer, Expiring, session
  <2>2. phase[u] = "app"
    BY <2>1 DEF IInv, TypeOK, Off
  <2> QED
    BY <2>1, <2>2 DEF IInv, TimersFollowUser
<1>5. ASSUME NEW u \in Tabs, OnActivityEvent(u) PROVE Remaining(idle, limit'[t]) = 0
  <2>1. limit' = limit
    BY <1>5 DEF OnActivityEvent, session
  <2> QED
    BY <1>2, <1>5, <2>1 DEF OnActivityEvent
<1>6. ASSUME NEW u \in Tabs, LogOut(u) \/ BackToLogin(u) PROVE FALSE
  BY <1>1, <1>6 DEF LogOut, BackToLogin
<1>7. PICK u \in Tabs : TabStep(u)
  BY DEF Next, LogoutReturns, LogoutReaches, RevokeDevice, Tick, UserLeaves
<1> QED
  BY <1>3, <1>4, <1>5, <1>6, <1>7
     DEF TabStep, OpenTab, Load, LoadRefused, CloseTab, SignIn, SignedIn, Enter,
         SignInFails, Activity, OnTokenGoneEvent, Refused, SetIdleTimeout, session

\* No guard ends the session of a user who was active within the timeout, in
\* whatever tab, unless that activity is the very moment's and not yet heard of.
THEOREM OnlyWhenIdle == Spec => EndedOnlyWhenIdle
<1> DEFINE Idle == \A t \in Tabs : \A r \in logouts' \ logouts :
                     r.by = "guard" /\ r.tab = t =>
                        Remaining(idle, limit'[t]) = 0 \/ "activity" \in pending[t]
<1>1. IInv /\ [Next]_vars => Idle
  <2>1. ASSUME IInv, Next PROVE Idle
    BY <2>1, GuardAsks
  <2>2. ASSUME UNCHANGED vars PROVE Idle
    BY <2>2 DEF vars
  <2> QED
    BY <2>1, <2>2
<1> HIDE DEF Idle
<1>2. Spec => [][Idle]_vars
  BY <1>1, Invariant, PTL DEF Spec
<1> QED
  BY <1>2 DEF EndedOnlyWhenIdle, Idle
=============================================================================
