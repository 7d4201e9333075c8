------------------------------- MODULE Realtime -------------------------------
(***************************************************************************)
(* A page and the WebSocket server: RealtimeClient and ConnectionPool      *)
(* joined by the two directions of each socket.                            *)
(*                                                                         *)
(* Both ends learn of the end of a socket on their own: the browser        *)
(* reports a clean close once the two WebSocket libraries have shaken      *)
(* hands, the endpoint task when it receives next; a broken link is lost   *)
(* by the browser and noticed by the server's keep-alive, in any order.    *)
(* Messages on one socket arrive in order, or not at all once it is over.  *)
(***************************************************************************)
EXTENDS RealtimeClient

CONSTANTS
    Page,           \* the connection id of the page
    Class, User,    \* those of its token
    MaxPerClass,
    MaxInFlight     \* bound: messages on a socket when a ping or event is sent

VARIABLES
    connections, class_connections, user_connections, endpoint, reply, casts, joined,
    down,           \* messages on their way to the page
    broken          \* sockets whose link is interrupted

Server == INSTANCE ConnectionPool
            WITH Ids <- {Page}, Id <- [s \in Sockets |-> Page], Classes <- {Class},
                 Users <- {User}, None <- NoSocket, MaxConnections <- Cardinality(Sockets)

ASSUME ServerAssumption ==
    /\ NoSocket \notin {Page, Class, User} \cup Server!Entry \cup Server!Reply
    /\ MaxPerClass \in Nat /\ MaxInFlight \in Nat

server == <<connections, class_connections, user_connections, endpoint, reply, casts, joined>>

network == <<down, broken>>

vars == <<clientvars, server, network>>

TypeOK ==
    /\ ClientTypeOK
    /\ Server!TypeOK
    /\ down \in [Sockets -> Seq(Server!Replies)]
    /\ broken \in SUBSET Sockets

Init ==
    /\ ClientInit
    /\ Server!Init
    /\ down = [s \in Sockets |-> <<>>]
    /\ broken = {}

\* The other end can no longer be reached from the server.
Over(s) == s \in broken \/ ~Live(s)

InFlight(s) == Len(up[s]) + Len(down[s])

-------------------------------------------------------------------------------
(* The page.                                                               *)

UserConnects == (\E s \in Sockets : Connect(s)) /\ UNCHANGED <<server, network>>

UserDisconnects ==
    /\ state # "disconnected" \/ websocket # NoSocket
    /\ Disconnect
    /\ UNCHANGED <<server, network>>

Opened(s) ==
    /\ endpoint[s] = "running" /\ s \notin broken
    /\ OnOpen(s)
    /\ UNCHANGED <<server, network>>

Delivered(s) ==
    /\ down[s] # <<>>
    /\ OnMessage(s, Head(down[s]))
    /\ down' = [down EXCEPT ![s] = Tail(@)]
    /\ UNCHANGED <<server, broken>>

\* What was still on its way to the page is lost.
SocketEnds(s) ==
    /\ down' = [down EXCEPT ![s] = <<>>]
    /\ broken' = broken \ {s}
    /\ UNCHANGED server

CleanClose(s) == s \notin broken /\ OnCleanClose(s) /\ SocketEnds(s)

Lost(s) == (s \in broken \/ ready[s] = "aborted") /\ OnLost(s) /\ SocketEnds(s)

TimerFires == ReconnectTimer /\ UNCHANGED <<server, network>>

PingSent ==
    /\ CanSend /\ InFlight(websocket) < MaxInFlight
    /\ SendPing
    /\ UNCHANGED <<server, network>>

-------------------------------------------------------------------------------
(* The server.                                                             *)

Accepted(s) ==
    /\ ready[s] \in {"connecting", "aborted"} /\ s \notin broken
    /\ Server!Accept(s)
    /\ UNCHANGED <<clientvars, network>>

\* The token may have run out; the id may have no entry.
Received(s) ==
    /\ up[s] # <<>>
    /\ \/ Server!Unknown(s)
       \/ /\ Head(up[s]) = "auth"
          /\ \/ Server!Authenticate(s, Class, User)
             \/ Server!ClassFull(s, Class) \/ Server!BadToken(s)
       \/ Head(up[s]) = "ping" /\ Server!Ping(s)
    /\ up' = [up EXCEPT ![s] = Tail(@)]
    /\ UNCHANGED <<state, websocket, ready, reconnecting, heartbeat, network>>

\* A message to a socket that is over is lost, or its send fails.
Carry(s, m) == down' = IF Over(s) THEN down ELSE [down EXCEPT ![s] = Append(@, m)]

Replied(s) ==
    /\ Server!ReplySent(s)
    /\ Carry(reply[s].to, reply[s].msg)
    /\ UNCHANGED <<clientvars, broken>>

ReplyFailed(s) ==
    /\ Server!ReplyFails(s)
    /\ Over(reply[s].to)
    /\ UNCHANGED <<clientvars, network>>

CastDone(s) ==
    /\ Server!CastSent(s)
    /\ Carry(s, "event")
    /\ UNCHANGED <<clientvars, broken>>

CastFailed(s) ==
    /\ Server!CastFails(s)
    /\ Over(s)
    /\ UNCHANGED <<clientvars, network>>

Broadcast ==
    /\ Server!Members({Page}) # {}
    /\ \A s \in Server!Members({Page}) : InFlight(s) < MaxInFlight
    /\ Server!BroadcastToClass(Class)
    /\ UNCHANGED <<clientvars, network>>

\* The receive of the endpoint raises, the messages before it handled or lost.
Noticed(s) ==
    /\ Over(s)
    /\ Server!Disconnect(s)
    /\ up' = [up EXCEPT ![s] = <<>>]
    /\ UNCHANGED <<state, websocket, ready, reconnecting, heartbeat, network>>

\* A page that pings or authenticates is not silent for 300 seconds, and
\* nothing takes that long to be answered or to arrive.
Swept ==
    /\ state \notin Shown \/ ~CanSend
    /\ \A s \in Sockets : reply[s] = NoSocket /\ InFlight(s) = 0
    /\ Server!Sweep({Page})
    /\ UNCHANGED <<clientvars, network>>

Breaks(s) ==
    /\ ready[s] \in {"connecting", "open", "closing"} /\ s \notin broken
    /\ broken' = broken \cup {s}
    /\ UNCHANGED <<clientvars, server, down>>

Restarts ==
    /\ Server!Restart
    /\ broken' = broken \cup {s \in Sockets : ready[s] \in {"connecting", "open", "closing"}}
    /\ UNCHANGED <<clientvars, down>>

-------------------------------------------------------------------------------
PageStep(s) == Opened(s) \/ Delivered(s) \/ CleanClose(s) \/ Lost(s)

TaskStep(s) == Accepted(s) \/ Received(s) \/ Replied(s) \/ ReplyFailed(s) \/ Noticed(s)

CastStep(s) == CastDone(s) \/ CastFailed(s)

Next ==
    \/ UserConnects \/ UserDisconnects \/ TimerFires \/ PingSent
    \/ \E s \in Sockets : PageStep(s) \/ TaskStep(s) \/ CastStep(s) \/ Breaks(s)
    \/ Broadcast \/ Swept \/ Restarts

Spec == Init /\ [][Next]_vars

(* Browser and event loop run their handlers, sends end, timers fire, and  *)
(* keep-alives find a broken link.  Nobody has to connect, ping or sweep.  *)
Fairness ==
    /\ WF_vars(TimerFires)
    /\ \A s \in Sockets : WF_vars(PageStep(s)) /\ WF_vars(TaskStep(s)) /\ WF_vars(CastStep(s))

FairSpec == Spec /\ Fairness

-------------------------------------------------------------------------------
Served(s) == Server!Authenticated(Page) /\ connections[Page].socket = s

(* A page that shows "authenticated" on its first socket is served by it,  *)
(* unless that socket is over: only a second socket under the id can take  *)
(* its entry away, whatever is swept, lost or answered late.               *)
FirstSocketServed ==
    \A s \in Sockets :
        state = "authenticated" /\ ~Over(s) /\ (\A t \in Sockets \ {s} : ready[t] = "none")
            => Served(s)

(* The pool forgets a page whose sockets are all closed.                   *)
PageForgotten == AllClosed ~> (~AllClosed \/ connections[Page] = NoSocket)
===============================================================================
