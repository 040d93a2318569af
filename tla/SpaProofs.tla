----------------------------- MODULE SpaProofs -----------------------------
(* Proofs about Spa: for any accounts, pages, roles, sockets and bound on timers,  *)
(* the view is admitted, the indicator is honest and a signed-in page keeps a feed. *)
EXTENDS Spa, TLAPS

\* A socket the client holds is alive, and it holds none after disconnect().
SocketAlive ==
    socket # NoSocket => conn[socket] \in {"connecting", "open"} /\ ~destroyed

\* A timer the client knows of is armed.
TimerArmed == tracked => timers > 0

\* Once the watcher has seen a session, the client is not shut down and has a socket
\* on its way or a timer.
FeedKept == seen = "in" => ~destroyed /\ (Live # {} \/ timers > 0)

IInv == TypeOK /\ SocketAlive /\ TimerArmed /\ FeedKept
----------------------------------------------------------------------------
\* The session's own steps keep the types of the session.
LEMMA LandingIsRoute ==
    ASSUME NEW u, NEW to \in Routes
    PROVE  Landing(u, to) \in Routes
BY DEF Landing, Routes

LEMMA SessionStepTyped ==
    ASSUME SessionTypeOK,
           \/ BootProbed \/ Land \/ LandFails \/ Submit \/ LoginAnswered
           \/ LoginProbed \/ SignOut \/ LogoutAnswered \/ Ask \/ AskAnswered \/ CookieChanges
           \/ \E to \in Routes : Navigate(to)
           \/ AskForbidden \/ RestRefused
    PROVE  SessionTypeOK'
<1>0. "blank" \notin Routes
  BY RolesAssumption DEF Routes
<1>1. CASE BootProbed
  <2>1. user' \in Accounts \cup {NoUser}
    BY <1>1 DEF SessionTypeOK, BootProbed, Refreshed
  <2>2. Landing(user', bound) \in Routes
    BY <1>1, LandingIsRoute DEF SessionTypeOK, BootProbed
  <2>3. view' \in Routes \cup {"empty"} /\ bound' \in {"none", "lost"}
    BY <1>1, <2>2 DEF BootProbed
  <2> QED
    BY <1>0, <1>1, <2>1, <2>3 DEF SessionTypeOK, BootProbed
<1>2. CASE Submit \/ LoginAnswered \/ SignOut \/ LogoutAnswered
  BY <1>2 DEF SessionTypeOK, Submit, LoginAnswered, SignOut, LogoutAnswered, Routes
<1>3. CASE LoginProbed
  <2>1. PICK next \in Routes : bound' = Landing(user', next)
    BY <1>3, RolesAssumption DEF LoginProbed, Routes
  <2>2. bound' \in Routes
    BY <2>1, LandingIsRoute
  <2> QED
    BY <1>3, <2>2 DEF SessionTypeOK, LoginProbed, Refreshed, Routes
<1>4. CASE Ask \/ AskAnswered \/ CookieChanges
  BY <1>4 DEF SessionTypeOK, Ask, AskAnswered, CookieChanges, Routes
<1>5. CASE \E to \in Routes : Navigate(to)
  <2>1. bound' \in Routes \cup {"lost"}
    BY <1>5, LandingIsRoute DEF Navigate
  <2> QED
    BY <1>5, <2>1 DEF SessionTypeOK, Navigate, Routes
<1>6. CASE AskForbidden \/ RestRefused
  BY <1>6 DEF SessionTypeOK, AskForbidden, RestRefused, Load, Routes
<1>7. CASE Land \/ LandFails
  BY <1>0, <1>7 DEF SessionTypeOK, Land, LandFails
<1> QED
  BY <1>1, <1>2, <1>3, <1>4, <1>5, <1>6, <1>7

LEMMA InitInvariant == Init => IInv
<1> SUFFICES ASSUME Init PROVE IInv
  OBVIOUS
<1>1. WsTypeOK
  BY DEF Init, WsInit, WsTypeOK, States
<1>2. SessionTypeOK
  BY DEF Init, SessionInit, SessionTypeOK, Routes
<1> QED
  BY <1>1, <1>2 DEF Init, WsInit, IInv, TypeOK, SocketAlive, TimerArmed, FeedKept

\* connect() leaves a live socket: the one it keeps or the one it makes.
LEMMA ConnectLeavesSocket ==
    ASSUME WsTypeOK, SocketAlive, Connect
    PROVE  /\ socket' \in Sockets \cup {NoSocket}
           /\ state' \in States
           /\ destroyed' \in BOOLEAN
           /\ conn' \in [Sockets -> {"closed", "connecting", "open", "closing"}]
           /\ socket' # NoSocket
           /\ conn'[socket'] \in {"connecting", "open"}
           /\ ~destroyed'
           /\ Live' # {}
<1>1. CASE Connected /\ UNCHANGED <<socket, state, destroyed, conn>>
  <2>1. socket \in Live
    BY <1>1 DEF WsTypeOK, SocketAlive, Connected, Live
  <2>2. Live' = Live
    BY <1>1 DEF Live
  <2> QED
    BY <1>1, <2>1, <2>2 DEF WsTypeOK, SocketAlive, Connected
<1>2. CASE NewSocket
  <2>1. PICK s \in Sockets :
          /\ socket' = s
          /\ conn' = [conn EXCEPT ![s] = "connecting"]
          /\ state' = "connecting"
          /\ destroyed' = FALSE
    BY <1>2 DEF NewSocket
  <2>2. conn'[s] = "connecting"
    BY <2>1 DEF WsTypeOK
  <2>3. s \in Live'
    BY <2>2 DEF Live
  <2> QED
    BY <2>1, <2>2, <2>3, NoSocketAssumption DEF WsTypeOK, States
<1> QED
  BY <1>1, <1>2 DEF Connect

LEMMA StepInvariant == IInv /\ [Next]_vars => IInv'
<1> SUFFICES ASSUME IInv, [Next]_vars PROVE IInv'
  OBVIOUS
<1> USE DEF IInv
<1>1. CASE Watch
  <2>1. SessionTypeOK' /\ seen' \in {"unset", "in", "out"} /\ up' \in BOOLEAN
    BY <1>1 DEF Watch, TypeOK, sessionVars, SessionTypeOK, Authenticated, Routes
  <2>2. CASE Connect /\ UNCHANGED <<tracked, timers>>
    BY <2>1, <2>2, ConnectLeavesSocket
       DEF TypeOK, WsTypeOK, SocketAlive, TimerArmed, FeedKept
  <2>3. CASE Authenticated = "out" /\ Disconnect
    <3>1. timers' \in Nat
      BY <2>3 DEF Disconnect, TypeOK, WsTypeOK, TimerArmed
    <3>2. conn' \in [Sockets -> {"closed", "connecting", "open", "closing"}]
      BY <2>3 DEF Disconnect, TypeOK, WsTypeOK
    <3> QED
      BY <1>1, <2>1, <2>3, <3>1, <3>2
         DEF Watch, Disconnect, TypeOK, WsTypeOK, States, SocketAlive, TimerArmed,
             FeedKept
  <2> QED
    BY <1>1, <2>2, <2>3 DEF Watch
<1>2. CASE Stay
  <2>1. SessionTypeOK'
    BY <1>2, SessionStepTyped DEF Stay, TypeOK
  <2>2. UNCHANGED <<wsVars, seen, up>>
    BY <1>2 DEF Stay
  <2> QED
    BY <2>1, <2>2
       DEF wsVars, TypeOK, WsTypeOK, SocketAlive, TimerArmed, FeedKept, Live
<1>3. CASE Reload
  <2>1. SessionTypeOK'
    BY <1>3, SessionStepTyped DEF Reload, TypeOK
  <2> QED
    BY <1>3, <2>1
       DEF Reload, WsReset, TypeOK, WsTypeOK, States, SocketAlive, TimerArmed, FeedKept
<1>4. CASE Reconnect
  <2>1. Connect /\ timers > 0 /\ timers' = timers - 1 /\ tracked' = FALSE
    BY <1>4 DEF Reconnect, TimerFires
  <2>2. timers' \in Nat
    BY <2>1 DEF TypeOK, WsTypeOK
  <2>3. SessionTypeOK' /\ UNCHANGED <<seen, up>>
    BY <1>4 DEF Reconnect, TypeOK, sessionVars, SessionTypeOK, Routes
  <2> QED
    BY <2>1, <2>2, <2>3, ConnectLeavesSocket
       DEF TypeOK, WsTypeOK, SocketAlive, TimerArmed, FeedKept
<1>5. CASE BackendChanges
  BY <1>5 DEF BackendChanges, wsVars, sessionVars, TypeOK, WsTypeOK, SessionTypeOK,
              SocketAlive, TimerArmed, FeedKept, Live, Routes
<1>6. ASSUME NEW s \in Sockets, Handshake(s) PROVE IInv'
  <2>1. conn[s] = "connecting" /\ conn' = [conn EXCEPT ![s] = "open"] /\ state' = "open"
        /\ UNCHANGED <<socket, destroyed, tracked, timers, seen, up, sessionVars>>
    BY <1>6 DEF Handshake, Opened
  <2>2. WsTypeOK' /\ s \in Live'
    BY <2>1 DEF TypeOK, WsTypeOK, States, Live
  <2>3. SessionTypeOK'
    BY <2>1 DEF TypeOK, sessionVars, SessionTypeOK, Routes
  <2>4. SocketAlive'
    BY <2>1 DEF SocketAlive, TypeOK, WsTypeOK
  <2> QED
    BY <2>1, <2>2, <2>3, <2>4 DEF TypeOK, TimerArmed, FeedKept
<1>7. ASSUME NEW s \in Sockets, SocketEnds(s) PROVE IInv'
  <2>1. Closed(s) /\ UNCHANGED <<seen, up, sessionVars>>
    BY <1>7 DEF SocketEnds
  <2>2. /\ timers' \in Nat
        /\ TimerArmed'
        /\ tracked' \in BOOLEAN
        /\ ~destroyed => timers' > 0
    <3>1. CASE destroyed
      <4>1. timers' = timers /\ tracked' = tracked
        BY <2>1, <3>1 DEF Closed
      <4> QED
        BY <3>1, <4>1 DEF TypeOK, WsTypeOK, TimerArmed
    <3>2. CASE ~destroyed
      <4>1. timers' = timers + 1 /\ tracked' = TRUE
        BY <2>1, <3>2 DEF Closed, ScheduleReconnect
      <4>2. timers' \in Nat /\ timers' > 0
        BY <4>1 DEF TypeOK, WsTypeOK
      <4> QED
        BY <4>1, <4>2 DEF TimerArmed
    <3> QED
      BY <3>1, <3>2
  <2>3. WsTypeOK'
    BY <2>1, <2>2 DEF Closed, ScheduleReconnect, TypeOK, WsTypeOK, States
  <2>4. SessionTypeOK'
    BY <2>1 DEF TypeOK, sessionVars, SessionTypeOK, Routes
  <2>5. socket' = NoSocket /\ destroyed' = destroyed
    BY <2>1 DEF Closed
  <2> QED
    BY <2>1, <2>2, <2>3, <2>4, <2>5 DEF TypeOK, SocketAlive, TimerArmed, FeedKept
<1>8. CASE UNCHANGED vars
  BY <1>8 DEF vars, wsVars, sessionVars, TypeOK, WsTypeOK, SessionTypeOK, SocketAlive,
              TimerArmed, FeedKept, Live, Routes
<1> QED
  BY <1>1, <1>2, <1>3, <1>4, <1>5, <1>6, <1>7, <1>8 DEF Next

\* The invariant behind the feed: sockets that are held are alive, timers that are
\* known are armed, and a session that was seen keeps a socket or a timer, whatever
\* late close events and overwritten timers do (ws/client.ts, main.ts).
THEOREM FeedInvariant == Spec => []IInv
<1> QED
  BY InitInvariant, StepInvariant, PTL DEF Spec

\* Every variable of the shell keeps its type; no timer is cleared that is not armed
\* (client.ts, disconnect).
THEOREM TypeCorrect == Spec => []TypeOK
<1>1. IInv => TypeOK
  BY DEF IInv
<1> QED
  BY <1>1, FeedInvariant, PTL

\* A page the watcher knows as signed in has a socket open or opening, or a timer
\* that will make one (client.ts, connect and the close listener).
THEOREM FeedStays == Spec => []FeedPending
<1>1. IInv => FeedPending
  BY DEF IInv, FeedKept, FeedPending
<1> QED
  BY <1>1, FeedInvariant, PTL
----------------------------------------------------------------------------
LEMMA IndicatorStep == TypeOK /\ IndicatorHonest /\ [Next]_vars => IndicatorHonest'
<1> SUFFICES ASSUME TypeOK, IndicatorHonest, [Next]_vars, state' = "open"
             PROVE  \E s \in Sockets : conn'[s] = "open"
  BY DEF IndicatorHonest, OpenSockets
<1>0. state = "open" => \E s \in Sockets : conn[s] = "open"
  BY DEF IndicatorHonest, OpenSockets
<1>1. CASE UNCHANGED <<state, conn>>
  BY <1>0, <1>1
<1>2. CASE Connect
  BY <1>0, <1>2 DEF Connect, NewSocket
<1>3. CASE Disconnect \/ WsReset
  BY <1>3 DEF Disconnect, WsReset
<1>4. ASSUME NEW s \in Sockets, Opened(s) PROVE \E k \in Sockets : conn'[k] = "open"
  BY <1>4 DEF Opened, TypeOK, WsTypeOK
<1>5. ASSUME NEW s \in Sockets, Closed(s) PROVE FALSE
  BY <1>5 DEF Closed, ScheduleReconnect
<1>6. CASE Watch \/ Reconnect
  BY <1>2, <1>3, <1>6 DEF Watch, Reconnect, TimerFires
<1>7. CASE Stay \/ BackendChanges \/ UNCHANGED vars
  BY <1>1, <1>7 DEF Stay, BackendChanges, vars, wsVars
<1>8. CASE Reload
  BY <1>3, <1>8 DEF Reload
<1>9. CASE \E s \in Sockets : Handshake(s) \/ SocketEnds(s)
  BY <1>4, <1>5, <1>9 DEF Handshake, SocketEnds
<1> QED
  BY <1>6, <1>7, <1>8, <1>9 DEF Next

\* The indicator says open only while a socket is, though close events of sockets
\* let go of and handshakes of late ones all write the same state (client.ts).
THEOREM IndicatorIsHonest == Spec => []IndicatorHonest
<1>1. Init => IndicatorHonest
  BY DEF Init, WsInit, IndicatorHonest
<1> QED
  BY <1>1, IndicatorStep, TypeCorrect, PTL DEF Spec
----------------------------------------------------------------------------
\* Where the guard of the router lands on a page, the role of the session admits it.
LEMMA LandingAdmits ==
    ASSUME NEW u, NEW to \in Routes
    PROVE  Landing(u, to) \in Pages => HasRole(u, Required[Landing(u, to)])
<1>1. "login" \notin Pages /\ "forbidden" \notin Pages
  BY RolesAssumption
<1> QED
  BY <1>1 DEF Landing, HasRole

LEMMA AdmittedStep == TypeOK /\ AdmittedView /\ [Next]_vars => AdmittedView'
<1> SUFFICES ASSUME TypeOK, AdmittedView, [Next]_vars PROVE AdmittedView'
  OBVIOUS
<1>0. Pages \cap {"blank", "empty", "login", "forbidden", "none", "lost"} = {}
  BY RolesAssumption
<1>1. CASE UNCHANGED <<user, view, bound>>
  BY <1>1 DEF AdmittedView, HasRole
<1>2. ASSUME NEW to \in Routes, bound' = Landing(user', to) PROVE AdmittedView'
  <2>1. bound' \in Pages => HasRole(user', Required[bound'])
    BY <1>2, LandingAdmits
  <2>2. bound' # "none"
    BY <1>0, <1>2, LandingIsRoute DEF Routes
  <2> QED
    BY <2>1, <2>2 DEF AdmittedView
<1>3. CASE Stay
  <2>1. CASE BootProbed
    <3>1. bound \in Routes
      BY <2>1 DEF BootProbed, TypeOK, SessionTypeOK
    <3>2. view' \in Pages => HasRole(user', Required[view'])
      BY <1>0, <2>1, <3>1, LandingAdmits DEF BootProbed
    <3>3. bound' \notin Pages
      BY <1>0, <2>1 DEF BootProbed
    <3> QED
      BY <3>2, <3>3 DEF AdmittedView
  <2>2. CASE LoginProbed
    BY <1>2, <2>2, RolesAssumption DEF LoginProbed, Routes
  <2>3. CASE \E to \in Routes : Navigate(to)
    <3>1. CASE UNCHANGED <<user, view>> /\ bound' = "lost"
      BY <1>0, <3>1 DEF AdmittedView
    <3> QED
      BY <1>2, <2>3, <3>1 DEF Navigate
  <2>4. CASE LogoutAnswered
    BY <1>0, <2>4 DEF LogoutAnswered, AdmittedView
  <2>5. CASE Submit \/ LoginAnswered \/ SignOut \/ Ask \/ AskAnswered \/ CookieChanges
    BY <1>1, <2>5 DEF Submit, LoginAnswered, SignOut, Ask, AskAnswered, CookieChanges
  <2>6. CASE Land
    BY <1>0, <2>6 DEF Land, AdmittedView, HasRole
  <2>7. CASE LandFails
    BY <1>0, <2>7 DEF LandFails, AdmittedView
  <2> QED
    BY <1>3, <2>1, <2>2, <2>3, <2>4, <2>5, <2>6, <2>7 DEF Stay
<1>4. CASE Reload
  BY <1>0, <1>4 DEF Reload, AskForbidden, RestRefused, Load, Routes, AdmittedView
<1>5. CASE Watch \/ Reconnect \/ BackendChanges \/ UNCHANGED vars
  BY <1>1, <1>5 DEF Watch, Reconnect, BackendChanges, vars, sessionVars
<1>6. CASE \E s \in Sockets : Handshake(s) \/ SocketEnds(s)
  BY <1>1, <1>6 DEF Handshake, SocketEnds, sessionVars
<1> QED
  BY <1>3, <1>4, <1>5, <1>6 DEF Next

\* Through every probe, login, logout, redirect and page that comes late or never, a
\* navigation past the guard leads to a page only if the session of now admits it,
\* and a page on show that the session does not admit is being left, or could not be
\* (router/index.ts, beforeEach; TopBar.vue, onLogout; LoginForm.vue, submit).
THEOREM ViewsAreAdmitted == Spec => []AdmittedView
<1>1. Init => AdmittedView
  BY RolesAssumption DEF Init, SessionInit, AdmittedView
<1> QED
  BY <1>1, AdmittedStep, TypeCorrect, PTL DEF Spec
============================================================================
