-------------------------------- MODULE Spa --------------------------------
(* The shell of the SPA (app/main.ts): the WebSocket singleton follows the        *)
(* session through a watcher that runs after the change, not with it.             *)
EXTENDS WsClient, Session

VARIABLES
    seen,     \* what the watcher last saw of isAuthenticated: "unset", "in", "out"
    up        \* the backend answers

vars == <<wsVars, sessionVars, seen, up>>

Init == WsInit /\ SessionInit /\ seen = "unset" /\ up \in BOOLEAN

Authenticated == IF Nobody THEN "out" ELSE "in"

\* Mutant: the watcher is not immediate.
DueLater == seen # Authenticated /\ (seen # "unset" \/ Authenticated = "out")

\* The watcher is made when the first navigation has settled, and runs at once.
Due == seen # Authenticated

Watch ==
    /\ view # "blank"
    /\ Due
    /\ seen' = Authenticated
    /\ \/ Authenticated = "in" /\ Connect /\ UNCHANGED <<tracked, timers>>
       \/ Authenticated = "out" /\ Disconnect
    /\ UNCHANGED <<sessionVars, up>>

\* What the user and the REST and GraphQL answers do to the session.
Stay ==
    /\ \/ BootProbed \/ Land \/ LandFails \/ Submit \/ LoginAnswered \/ LoginProbed
       \/ SignOut \/ LogoutAnswered \/ Ask \/ AskAnswered \/ CookieChanges
       \/ \E to \in Routes : Navigate(to)
    /\ UNCHANGED <<wsVars, seen, up>>

\* window.location = ...: the page is loaded anew and its sockets are gone.
Reload ==
    /\ AskForbidden \/ RestRefused
    /\ WsReset
    /\ seen' = "unset"
    /\ UNCHANGED up

\* The handshake asks for a session cookie.
Accepted == up /\ cookie # NoUser

Handshake(s) == Accepted /\ Opened(s) /\ UNCHANGED <<sessionVars, seen, up>>

\* A socket ends because the client closed it, or because the backend refuses it,
\* drops it or is gone.
SocketEnds(s) ==
    /\ conn[s] = "closing" \/ ~Accepted
    /\ Closed(s)
    /\ UNCHANGED <<sessionVars, seen, up>>

Reconnect == TimerFires /\ UNCHANGED <<sessionVars, seen, up>>

BackendChanges == up' = ~up /\ UNCHANGED <<wsVars, sessionVars, seen>>

Next ==
    \/ Watch \/ Stay \/ Reload \/ Reconnect \/ BackendChanges
    \/ \E s \in Sockets : Handshake(s) \/ SocketEnds(s)

Spec == Init /\ [][Next]_vars

\* Watchers, timers and the browser's events run; a query of the shown page is
\* asked again and again (every push and every poll does) and is answered.
Fairness ==
    /\ WF_vars(Watch)
    /\ WF_vars(Reconnect)
    /\ \A s \in Sockets : WF_vars(Handshake(s)) /\ WF_vars(SocketEnds(s))
    /\ WF_vars(Ask /\ Stay)
    /\ WF_vars(AskAnswered /\ Stay)

FairSpec == Spec /\ Fairness
----------------------------------------------------------------------------
TypeOK ==
    /\ WsTypeOK
    /\ SessionTypeOK
    /\ seen \in {"unset", "in", "out"}
    /\ up \in BOOLEAN

\* A signed-in page is never left without a feed: once the watcher has run, there
\* is a socket that is open or opening, or a timer that will make one, through
\* any order of logins, logouts, late close events and overwritten timers
\* (ws/client.ts, connect, scheduleReconnect and the close listener).
FeedPending ==
    (seen = "in" /\ Authenticated = "in") => (Live # {} \/ timers > 0)

\* The live indicator does not lie: it says open only while some socket is.
IndicatorHonest ==
    state = "open" => OpenSockets # {}

\* When the session and the backend hold, the feed comes back for good.
FeedReturns ==
    <>[](~Nobody /\ Accepted) => []<>(OpenSockets # {})
============================================================================
