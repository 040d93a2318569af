------------------------------ MODULE WsClient ------------------------------
(* The WebSocket singleton of the SPA (shared/api/ws/client.ts): connect and     *)
(* disconnect, the listeners of each socket it has made, and the reconnect timer. *)
(* A socket lives on in the browser after the client has let go of it: its close  *)
(* event still comes, and its listeners still act on the client.                  *)
EXTENDS Naturals

CONSTANTS
    Sockets,      \* WebSocket objects; one whose close event was delivered is made anew
    NoSocket,
    MaxTimers     \* bound: reconnect timers armed at a time

ASSUME NoSocketAssumption == NoSocket \notin Sockets

VARIABLES
    socket,       \* this.socket
    state,        \* this.state
    destroyed,    \* this.destroyed
    tracked,      \* this.reconnectTimer # null
    timers,       \* reconnect timers armed, the tracked one included
    conn          \* the browser's state of each socket

wsVars == <<socket, state, destroyed, tracked, timers, conn>>

States == {"idle", "connecting", "open", "closed", "reconnecting"}
Live == {s \in Sockets : conn[s] \in {"connecting", "open"}}
OpenSockets == {s \in Sockets : conn[s] = "open"}

WsInit ==
    /\ socket = NoSocket
    /\ state = "idle"
    /\ destroyed = FALSE
    /\ tracked = FALSE
    /\ timers = 0
    /\ conn = [s \in Sockets |-> "closed"]

\* The module is loaded anew with the page.
WsReset ==
    /\ socket' = NoSocket
    /\ state' = "idle"
    /\ destroyed' = FALSE
    /\ tracked' = FALSE
    /\ timers' = 0
    /\ conn' = [s \in Sockets |-> "closed"]

\* connect(): kept when a socket is there and thought to be alive.
Connected == socket # NoSocket /\ state \in {"open", "connecting"}

NewSocket ==
    \E s \in Sockets :
        /\ conn[s] = "closed"
        /\ socket' = s
        /\ conn' = [conn EXCEPT ![s] = "connecting"]
        /\ state' = "connecting"
        /\ destroyed' = FALSE

Connect ==
    \/ Connected /\ UNCHANGED <<socket, state, destroyed, conn>>
    \/ ~Connected /\ NewSocket

\* Mutant: a timer is taken to be there when none is tracked.
DisconnectBlind ==
    /\ destroyed' = TRUE
    /\ tracked' = FALSE
    /\ timers' = timers - 1
    /\ conn' = [s \in Sockets |-> IF s = socket THEN "closing" ELSE conn[s]]
    /\ socket' = NoSocket
    /\ state' = "closed"

\* disconnect(): clears the timer it knows, closes the socket it knows.
Disconnect ==
    /\ destroyed' = TRUE
    /\ tracked' = FALSE
    /\ timers' = IF tracked THEN timers - 1 ELSE timers
    /\ conn' = [s \in Sockets |-> IF s = socket THEN "closing" ELSE conn[s]]
    /\ socket' = NoSocket
    /\ state' = "closed"

\* Mutant: the state is left as it was.
ScheduleSilently ==
    /\ timers' = timers + 1
    /\ tracked' = TRUE
    /\ UNCHANGED state

\* The timer just armed takes the place of a timer that may still be running.
ScheduleReconnect ==
    /\ timers' = timers + 1
    /\ tracked' = TRUE
    /\ state' = "reconnecting"

\* The handshake of s succeeds: whatever socket the client holds by now.
Opened(s) ==
    /\ conn[s] = "connecting"
    /\ conn' = [conn EXCEPT ![s] = "open"]
    /\ state' = "open"
    /\ UNCHANGED <<socket, destroyed, tracked, timers>>

\* Mutant: a socket that never opened is not tried again.
ClosedForGood(s) ==
    /\ conn[s] # "closed"
    /\ conn' = [conn EXCEPT ![s] = "closed"]
    /\ socket' = NoSocket
    /\ destroyed' = destroyed
    /\ IF destroyed \/ state = "connecting"
       THEN state' = "closed" /\ UNCHANGED <<tracked, timers>>
       ELSE timers < MaxTimers /\ ScheduleReconnect

\* The close event of s: whatever socket the client holds by now.
Closed(s) ==
    /\ conn[s] # "closed"
    /\ conn' = [conn EXCEPT ![s] = "closed"]
    /\ socket' = NoSocket
    /\ destroyed' = destroyed
    /\ IF destroyed
       THEN state' = "closed" /\ UNCHANGED <<tracked, timers>>
       ELSE timers < MaxTimers /\ ScheduleReconnect

\* A reconnect timer fires, tracked or not.
TimerFires ==
    /\ timers > 0
    /\ timers' = timers - 1
    /\ tracked' = FALSE
    /\ Connect
----------------------------------------------------------------------------
WsTypeOK ==
    /\ socket \in Sockets \cup {NoSocket}
    /\ state \in States
    /\ destroyed \in BOOLEAN
    /\ tracked \in BOOLEAN
    /\ timers \in Nat
    /\ conn \in [Sockets -> {"closed", "connecting", "open", "closing"}]
============================================================================
