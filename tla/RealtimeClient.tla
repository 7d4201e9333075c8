---------------------------- MODULE RealtimeClient ----------------------------
(***************************************************************************)
(* The WebSocket client of a page (services/websocket.ts): one object, one *)
(* connection id, one WebSocket after the other.                           *)
(*                                                                         *)
(* The handlers are bound to the client and do not ask which socket an     *)
(* event is of, so the events of an earlier socket act on the state of the *)
(* client.  Every handler is one action.  The browser delivers no message  *)
(* once close() was called, and fires onerror just before the onclose of a *)
(* lost connection: the two are one action here.  Statistics and latency   *)
(* are left out, and exponential delays are a timer that fires.            *)
(***************************************************************************)
EXTENDS Naturals, Sequences, FiniteSets

CONSTANTS
    Sockets,                \* the sockets the page may create
    NoSocket,
    MaxReconnectAttempts    \* maxReconnectAttempts, 10

ASSUME ClientAssumption ==
    /\ NoSocket \notin Sockets
    /\ MaxReconnectAttempts \in Nat

VARIABLES
    state,              \* ConnectionState
    websocket,          \* the socket of the client
    ready,              \* the browser's view of each socket
    up,                 \* messages sent on each socket
    timers,             \* pending timeouts of attemptReconnect
    reconnectAttempts,
    heartbeat           \* heartbeatInterval is set

connection == <<state, websocket, ready, up>>

reconnecting == <<timers, reconnectAttempts>>

clientvars == <<connection, reconnecting, heartbeat>>

Shown == {"connecting", "authenticating", "authenticated"}

ClientTypeOK ==
    /\ state \in {"disconnected", "error"} \cup Shown
    /\ websocket \in Sockets \cup {NoSocket}
    /\ ready \in [Sockets -> {"none", "connecting", "open", "aborted", "closing", "closed"}]
    /\ up \in [Sockets -> Seq({"auth", "ping"})]
    /\ timers \in Nat
    /\ reconnectAttempts \in Nat
    /\ heartbeat \in BOOLEAN

ClientInit ==
    /\ state = "disconnected"
    /\ websocket = NoSocket
    /\ ready = [s \in Sockets |-> "none"]
    /\ up = [s \in Sockets |-> <<>>]
    /\ timers = 0
    /\ reconnectAttempts = 0
    /\ heartbeat = FALSE

Live(s) == ready[s] \in {"connecting", "open"}

CanSend == websocket # NoSocket /\ ready[websocket] = "open"

MayConnect == state \in {"disconnected", "error"}

-------------------------------------------------------------------------------
\* new WebSocket(url); what was in websocket is forgotten, not closed.
Open(s) ==
    /\ ready[s] = "none"
    /\ ready' = [ready EXCEPT ![s] = "connecting"]
    /\ websocket' = s
    /\ state' = "connecting"
    /\ UNCHANGED up

\* connect(), by the page or at the end of reconnect(); else it returns early.
Connect(s) ==
    /\ MayConnect
    /\ Open(s)
    /\ UNCHANGED <<reconnecting, heartbeat>>

Closed(s) == ready' = [ready EXCEPT ![s] = IF @ = "open" THEN "closing"
                                           ELSE IF @ = "connecting" THEN "aborted" ELSE @]

\* Mutant: the state is left to the close event.
Disconnect_Silent ==
    /\ timers' = 0
    /\ heartbeat' = FALSE
    /\ websocket' = NoSocket
    /\ IF websocket = NoSocket THEN UNCHANGED ready ELSE Closed(websocket)
    /\ UNCHANGED <<state, up, reconnectAttempts>>

\* disconnect(), by the page or at the start of reconnect().
Disconnect ==
    /\ timers' = 0
    /\ heartbeat' = FALSE
    /\ websocket' = NoSocket
    /\ IF websocket = NoSocket THEN UNCHANGED ready ELSE Closed(websocket)
    /\ state' = "disconnected"
    /\ UNCHANGED <<up, reconnectAttempts>>

\* handleOpen and authenticate: the token goes to the client's socket, which
\* need not be the one that opened.
OnOpen(s) ==
    /\ ready[s] = "connecting"
    /\ ready' = [ready EXCEPT ![s] = "open"]
    /\ \/ /\ websocket = s \/ CanSend
          /\ state' = "authenticating"
          /\ up' = [up EXCEPT ![websocket] = Append(@, "auth")]
       \/ ~(websocket = s \/ CanSend) /\ state' = "error" /\ UNCHANGED up
    /\ UNCHANGED <<websocket, reconnecting, heartbeat>>

\* handleMessage, of which handleBuiltInMessage changes the client.
OnMessage(s, m) ==
    /\ ready[s] = "open"
    /\ \/ m = "auth_success" /\ state' = "authenticated" /\ heartbeat' = TRUE
       \/ m \in {"auth_failed", "error"} /\ state' = "error" /\ UNCHANGED heartbeat
       \/ m \in {"connect", "pong", "event"} /\ UNCHANGED <<state, heartbeat>>
    /\ UNCHANGED <<websocket, ready, up, reconnecting>>

\* attemptReconnect clears the timeout that is pending, if it sets one.
AttemptReconnect ==
    timers' = IF reconnectAttempts < MaxReconnectAttempts THEN 1 ELSE timers

ClosedState(s) == ready' = [ready EXCEPT ![s] = "closed"]

\* handleClose with code 1000: no reconnection.
OnCleanClose(s) ==
    /\ ready[s] = "closing"
    /\ ClosedState(s)
    /\ state' = "disconnected"
    /\ heartbeat' = FALSE
    /\ UNCHANGED <<websocket, up, reconnecting>>

\* Mutant: a lost connection is reported, and not repaired.
OnLost_Stays(s) ==
    /\ ready[s] \in {"connecting", "open", "aborted", "closing"}
    /\ ClosedState(s)
    /\ state' = "error"
    /\ heartbeat' = FALSE
    /\ UNCHANGED <<websocket, up, reconnecting>>

\* handleError and handleClose with any other code.
OnLost(s) ==
    /\ ready[s] \in {"connecting", "open", "aborted", "closing"}
    /\ ClosedState(s)
    /\ state' = "error"
    /\ AttemptReconnect
    /\ heartbeat' = FALSE
    /\ UNCHANGED <<websocket, up, reconnectAttempts>>

\* The timeout fires: connect() returns early unless the state allows it.
ReconnectTimer ==
    /\ timers > 0
    /\ timers' = timers - 1
    /\ reconnectAttempts' = reconnectAttempts + 1
    /\ \/ MayConnect /\ \E s \in Sockets : Open(s)
       \/ ~MayConnect /\ UNCHANGED connection
    /\ UNCHANGED heartbeat

\* The interval fires; a ping on a socket that is not open is rejected.
SendPing ==
    /\ heartbeat /\ state = "authenticated" /\ CanSend
    /\ up' = [up EXCEPT ![websocket] = Append(@, "ping")]
    /\ UNCHANGED <<state, websocket, ready, reconnecting, heartbeat>>

-------------------------------------------------------------------------------
(* A page that shows a connection has one: whatever events of earlier      *)
(* sockets arrive late, with none left alive the state says so.            *)
ShownIsReal == state \in Shown => \E s \in Sockets : Live(s)

(* With no socket alive and attempts left, a lost connection has a timeout *)
(* pending that will connect again: no order of closes, manual connects    *)
(* and early returns uses up the only timeout.                             *)
AllClosed == \A s \in Sockets : ready[s] \in {"none", "closed"}

LossIsRepaired ==
    state = "error" /\ AllClosed /\ reconnectAttempts < MaxReconnectAttempts => timers > 0

(* The client never connects by itself more often than                     *)
(* maxReconnectAttempts in the life of the page: the count is never reset. *)
AttemptsBounded == reconnectAttempts + timers <= MaxReconnectAttempts
===============================================================================
