---------------------------- MODULE RealtimeProofs ----------------------------
(***************************************************************************)
(* Proofs about Realtime, for any sockets, numbers of attempts and limits. *)
(***************************************************************************)
EXTENDS Realtime, FiniteSetTheorems, TLAPS

\* The invariant of the client alone, whatever the server does.
ClientInv == ClientTypeOK /\ ShownIsReal /\ LossIsRepaired /\ AttemptsBounded

-------------------------------------------------------------------------------
(* The client                                                              *)

\* The steps of the client, in any order, by any cause.
ClientNext ==
    \/ \E s \in Sockets : Connect(s) \/ OnOpen(s) \/ OnCleanClose(s) \/ OnLost(s)
    \/ \E s \in Sockets, m \in Server!Replies : OnMessage(s, m)
    \/ Disconnect \/ ReconnectTimer \/ SendPing

LEMMA OpenClient ==
    ASSUME ClientTypeOK, NEW s \in Sockets, Open(s)
    PROVE  /\ state' = "connecting" /\ websocket' \in Sockets
           /\ ready' \in [Sockets -> {"none", "connecting", "open", "aborted", "closing", "closed"}]
           /\ up' = up
           /\ Live(s)'
BY DEF Open, Live, ClientTypeOK

LEMMA ClosedType ==
    ASSUME ClientTypeOK, NEW s \in Sockets, Closed(s)
    PROVE  ready' \in [Sockets -> {"none", "connecting", "open", "aborted", "closing", "closed"}]
BY DEF Closed, ClientTypeOK

\* An event of a socket that is open shows that not all are closed; a lost
\* connection sets the timeout, and the timeout is used up only by a new
\* socket or by a client that is about to have one.
LEMMA ClientStep ==
    ASSUME ClientInv, ClientNext
    PROVE  ClientInv'
<1> USE ClientAssumption DEF ClientInv
<1>1. ASSUME NEW s \in Sockets, Connect(s)
      PROVE  ClientInv'
  BY <1>1, OpenClient DEF Connect, reconnecting, ClientTypeOK, Shown, ShownIsReal, LossIsRepaired,
                          AttemptsBounded
<1>2. ASSUME NEW s \in Sockets, OnOpen(s)
      PROVE  ClientInv'
  <2>1. ready' = [ready EXCEPT ![s] = "open"] /\ ready'[s] = "open"
    BY <1>2 DEF OnOpen, ClientTypeOK
  <2>2. Live(s)' /\ ~AllClosed'
    BY <2>1 DEF Live, AllClosed
  <2>3. state' \in {"disconnected", "error"} \cup Shown
    BY <1>2 DEF OnOpen, Shown
  <2>4. up' \in [Sockets -> Seq({"auth", "ping"})]
    <3>1. CASE websocket = s \/ CanSend
      <4>1. websocket \in Sockets
        BY <3>1 DEF CanSend, ClientTypeOK
      <4>2. up[websocket] \in Seq({"auth", "ping"})
        BY <4>1 DEF ClientTypeOK
      <4>3. Append(up[websocket], "auth") \in Seq({"auth", "ping"})
        BY <4>2
      <4>4. up' = [up EXCEPT ![websocket] = Append(up[websocket], "auth")]
        BY <1>2, <3>1 DEF OnOpen
      <4> QED
        BY <4>3, <4>4 DEF ClientTypeOK
    <3>2. CASE ~(websocket = s \/ CanSend)
      BY <1>2, <3>2 DEF OnOpen, ClientTypeOK
    <3> QED
      BY <3>1, <3>2
  <2>5. ClientTypeOK'
    BY <1>2, <2>1, <2>3, <2>4 DEF OnOpen, reconnecting, ClientTypeOK
  <2> QED
    BY <1>2, <2>2, <2>5 DEF OnOpen, reconnecting, ShownIsReal, LossIsRepaired, AttemptsBounded
<1>3. ASSUME NEW s \in Sockets, OnCleanClose(s)
      PROVE  ClientInv'
  BY <1>3 DEF OnCleanClose, ClosedState, reconnecting, ClientTypeOK, Shown, ShownIsReal,
              LossIsRepaired, AttemptsBounded
<1>4. ASSUME NEW s \in Sockets, OnLost(s)
      PROVE  ClientInv'
  <2>1. /\ state' = "error" /\ heartbeat' = FALSE
        /\ ready' = [ready EXCEPT ![s] = "closed"]
        /\ UNCHANGED <<websocket, up, reconnectAttempts>>
    BY <1>4 DEF OnLost, ClosedState
  <2>2. /\ reconnectAttempts < MaxReconnectAttempts => timers' = 1
        /\ ~(reconnectAttempts < MaxReconnectAttempts) => timers' = timers
    BY <1>4 DEF OnLost, AttemptReconnect
  <2>3. timers' \in Nat
    BY <2>2 DEF ClientTypeOK
  <2>4. ready' \in [Sockets -> {"none", "connecting", "open", "aborted", "closing", "closed"}]
    BY <2>1 DEF ClientTypeOK
  <2>5. ClientTypeOK'
    BY <2>1, <2>3, <2>4 DEF ClientTypeOK
  <2>6. AttemptsBounded'
    BY <2>1, <2>2 DEF AttemptsBounded, ClientTypeOK
  <2> QED
    BY <2>1, <2>2, <2>5, <2>6 DEF Shown, ShownIsReal, LossIsRepaired
<1>5. ASSUME NEW s \in Sockets, NEW m \in Server!Replies, OnMessage(s, m)
      PROVE  ClientInv'
  <2>1. Live(s)' /\ ~AllClosed'
    BY <1>5 DEF OnMessage, Live, AllClosed
  <2> QED
    BY <1>5, <2>1 DEF OnMessage, reconnecting, ClientTypeOK, Shown, ShownIsReal,
                      LossIsRepaired, AttemptsBounded
<1>6. CASE Disconnect
  <2>1. /\ state' = "disconnected" /\ websocket' = NoSocket /\ timers' = 0
        /\ heartbeat' = FALSE
        /\ UNCHANGED <<up, reconnectAttempts>>
    BY <1>6 DEF Disconnect
  <2>2. ready' \in [Sockets -> {"none", "connecting", "open", "aborted", "closing", "closed"}]
    BY <1>6, ClosedType DEF Disconnect, ClientTypeOK
  <2>3. ClientTypeOK'
    BY <2>1, <2>2 DEF ClientTypeOK
  <2>4. AttemptsBounded'
    BY <2>1 DEF AttemptsBounded, ClientTypeOK
  <2> QED
    BY <2>1, <2>3, <2>4 DEF Shown, ShownIsReal, LossIsRepaired
<1>7. CASE ReconnectTimer
  <2>1. timers' = timers - 1 /\ timers' \in Nat
    BY <1>7 DEF ReconnectTimer, ClientTypeOK
  <2>2. reconnectAttempts' = reconnectAttempts + 1 /\ reconnectAttempts' \in Nat
    BY <1>7 DEF ReconnectTimer, ClientTypeOK
  <2>3. AttemptsBounded'
    BY <2>1, <2>2 DEF AttemptsBounded, ClientTypeOK
  <2>4. CASE MayConnect
    <3>1. PICK s \in Sockets : Open(s)
      BY <1>7, <2>4 DEF ReconnectTimer
    <3> QED
      BY <1>7, <2>1, <2>2, <2>3, <3>1, OpenClient
         DEF ReconnectTimer, ClientTypeOK, Shown, ShownIsReal, LossIsRepaired
  <2>5. CASE ~MayConnect
    BY <1>7, <2>1, <2>2, <2>3, <2>5
       DEF ReconnectTimer, MayConnect, connection, ClientTypeOK, ShownIsReal, Live, LossIsRepaired
  <2> QED
    BY <2>4, <2>5
<1>8. CASE SendPing
  BY <1>8 DEF SendPing, CanSend, reconnecting, ClientTypeOK, Shown, ShownIsReal, Live,
              LossIsRepaired, AllClosed, AttemptsBounded
<1> QED
  BY <1>1, <1>2, <1>3, <1>4, <1>5, <1>6, <1>7, <1>8 DEF ClientNext

\* Every step of the composition is one of the client or leaves it alone, but
\* for the messages the server takes off a socket.
LEMMA ClientSteps ==
    ASSUME [Next]_vars
    PROVE  \/ ClientNext
           \/ UNCHANGED <<state, websocket, ready, reconnecting, heartbeat>>
<1>1. CASE UserConnects \/ UserDisconnects \/ TimerFires \/ PingSent
  BY <1>1 DEF UserConnects, UserDisconnects, TimerFires, PingSent, ClientNext
<1>2. ASSUME NEW s \in Sockets, Opened(s) \/ CleanClose(s) \/ Lost(s)
      PROVE  ClientNext
  BY <1>2 DEF Opened, CleanClose, Lost, ClientNext
<1>3. ASSUME NEW s \in Sockets, Delivered(s)
      PROVE  ClientNext
  BY <1>3 DEF Delivered, OnMessage, ClientNext, Server!Replies
<1>4. ASSUME NEW s \in Sockets, TaskStep(s) \/ CastStep(s) \/ Breaks(s)
      PROVE  UNCHANGED <<state, websocket, ready, reconnecting, heartbeat>>
  BY <1>4 DEF TaskStep, CastStep, Accepted, Received, Replied, ReplyFailed, Noticed, CastDone,
              CastFailed, Breaks, clientvars, connection, reconnecting
<1>5. CASE Broadcast \/ Swept \/ Restarts
  BY <1>5 DEF Broadcast, Swept, Restarts, clientvars, connection, reconnecting
<1>6. CASE UNCHANGED vars
  BY <1>6 DEF vars, clientvars, connection, reconnecting
<1> QED
  BY <1>1, <1>2, <1>3, <1>4, <1>5, <1>6 DEF Next, PageStep

\* Taking the first message off a socket, or all, leaves messages.
LEMMA UpType ==
    ASSUME ClientTypeOK, [Next]_vars, ~ClientNext
    PROVE  up' \in [Sockets -> Seq({"auth", "ping"})]
<1>1. CASE UserConnects \/ UserDisconnects \/ TimerFires \/ PingSent
  BY <1>1 DEF UserConnects, UserDisconnects, TimerFires, PingSent, ClientNext
<1>2. ASSUME NEW s \in Sockets, PageStep(s)
      PROVE  FALSE
  BY <1>2 DEF PageStep, Opened, CleanClose, Lost, Delivered, OnMessage, ClientNext, Server!Replies
<1>3. ASSUME NEW s \in Sockets, Received(s)
      PROVE  up' \in [Sockets -> Seq({"auth", "ping"})]
  <2>1. up[s] \in Seq({"auth", "ping"}) /\ up[s] # <<>>
    BY <1>3 DEF Received, ClientTypeOK
  <2>2. Tail(up[s]) \in Seq({"auth", "ping"})
    BY <2>1
  <2>3. up' = [up EXCEPT ![s] = Tail(up[s])]
    BY <1>3 DEF Received
  <2> QED
    BY <2>2, <2>3 DEF ClientTypeOK
<1>4. ASSUME NEW s \in Sockets, Noticed(s)
      PROVE  up' \in [Sockets -> Seq({"auth", "ping"})]
  <2>1. up' = [up EXCEPT ![s] = <<>>]
    BY <1>4 DEF Noticed
  <2>2. <<>> \in Seq({"auth", "ping"})
    OBVIOUS
  <2> QED
    BY <2>1, <2>2 DEF ClientTypeOK
<1>5. ASSUME NEW s \in Sockets, Accepted(s) \/ Replied(s) \/ ReplyFailed(s) \/ CastStep(s) \/ Breaks(s)
      PROVE  up' = up
  BY <1>5 DEF CastStep, Accepted, Replied, ReplyFailed, CastDone, CastFailed, Breaks, clientvars,
              connection
<1>6. CASE Broadcast \/ Swept \/ Restarts \/ UNCHANGED vars
  BY <1>6 DEF Broadcast, Swept, Restarts, vars, clientvars, connection, ClientTypeOK
<1> QED
  BY <1>1, <1>2, <1>3, <1>4, <1>5, <1>6 DEF Next, TaskStep, ClientTypeOK

LEMMA ClientInvStep ==
    ASSUME ClientInv, [Next]_vars
    PROVE  ClientInv'
<1>1. CASE ClientNext
  BY <1>1, ClientStep
<1>2. CASE ~ClientNext
  <2>1. UNCHANGED <<state, websocket, ready, reconnecting, heartbeat>>
    BY <1>2, ClientSteps
  <2>2. up' \in [Sockets -> Seq({"auth", "ping"})]
    BY <1>2, UpType DEF ClientInv
  <2>3. ClientTypeOK'
    BY <2>1, <2>2 DEF ClientInv, ClientTypeOK, reconnecting
  <2>4. ShownIsReal' /\ LossIsRepaired' /\ AttemptsBounded'
    BY <2>1 DEF ClientInv, reconnecting, ShownIsReal, Live, LossIsRepaired, AllClosed,
                AttemptsBounded
  <2> QED
    BY <2>3, <2>4 DEF ClientInv
<1> QED
  BY <1>1, <1>2

LEMMA ClientInitInv == Init => ClientInv
<1> SUFFICES ASSUME Init PROVE ClientInv
  OBVIOUS
<1>1. ClientInit
  BY DEF Init
<1>2. <<>> \in Seq({"auth", "ping"})
  OBVIOUS
<1>3. ClientTypeOK
  BY <1>1, <1>2 DEF ClientInit, ClientTypeOK
<1>4. ShownIsReal /\ LossIsRepaired
  BY <1>1 DEF ClientInit, Shown, ShownIsReal, LossIsRepaired
<1>5. AttemptsBounded
  BY <1>1, ClientAssumption DEF ClientInit, AttemptsBounded
<1> QED
  BY <1>3, <1>4, <1>5 DEF ClientInv

-------------------------------------------------------------------------------
(* Types of the server and the network                                     *)

\* The part of a step that is the server's.
ServerStep ==
    \/ UNCHANGED server
    \/ \E s \in Sockets :
         \/ Server!Accept(s) \/ Server!Unknown(s) \/ Server!Authenticate(s, Class, User)
         \/ Server!ClassFull(s, Class) \/ Server!BadToken(s) \/ Server!Ping(s)
         \/ Server!ReplySent(s) \/ Server!ReplyFails(s) \/ Server!Disconnect(s)
         \/ Server!CastSent(s) \/ Server!CastFails(s)
    \/ Server!BroadcastToClass(Class) \/ Server!Sweep({Page}) \/ Server!Restart

LEMMA ServerSteps == [Next]_vars => ServerStep
BY DEF Next, vars, ServerStep, UserConnects, UserDisconnects, TimerFires, PingSent, PageStep,
       Opened, Delivered, CleanClose, Lost, SocketEnds, TaskStep, Accepted, Received, Replied,
       ReplyFailed, Noticed, CastStep, CastDone, CastFailed, Breaks, Broadcast, Swept, Restarts

LEMMA EntryRemoved ==
    ASSUME Server!TypeOK, Server!RemoveAll({Page})
    PROVE  /\ connections' = [i \in {Page} |-> NoSocket]
           /\ class_connections' \in [{Class} -> SUBSET {Page}]
           /\ user_connections' \in [{User} -> SUBSET {Page}]
           /\ joined' = joined
BY DEF Server!RemoveAll, Server!TypeOK

\* An answer goes to the socket of the entry of the page.
LEMMA AnswerGiven ==
    ASSUME Server!TypeOK, NEW s \in Sockets, NEW m \in Server!Replies, Server!AnswerMessage(s, m)
    PROVE  /\ endpoint[s] = "running" /\ reply[s] = NoSocket
           /\ UNCHANGED <<endpoint, casts>>
           /\ connections[Page] \in Server!Entry /\ connections[Page] # NoSocket
           /\ connections[Page].socket \in Sockets
           /\ reply' = [reply EXCEPT ![s] = [to |-> connections[Page].socket, msg |-> m]]
           /\ [to |-> connections[Page].socket, msg |-> m] \in Server!Reply
<1>1. /\ endpoint[s] = "running" /\ reply[s] = NoSocket
      /\ UNCHANGED <<endpoint, casts>>
      /\ connections[Page] # NoSocket
      /\ reply' = [reply EXCEPT ![s] = [to |-> connections[Page].socket, msg |-> m]]
  BY DEF Server!AnswerMessage, Server!Receiving, Server!Pooled, Server!Answer
<1>2. connections[Page] \in Server!Entry
  BY <1>1 DEF Server!TypeOK
<1>3. connections[Page].socket \in Sockets
  BY <1>2 DEF Server!Entry
<1>4. [to |-> connections[Page].socket, msg |-> m] \in Server!Reply
  BY <1>3 DEF Server!Reply
<1> QED
  BY <1>1, <1>2, <1>3, <1>4

\* An authentication, of the only id, by the only class and user.
LEMMA Authenticates ==
    ASSUME Server!TypeOK, NEW s \in Sockets, Server!Authenticate(s, Class, User)
    PROVE  /\ Server!AnswerMessage(s, "auth_success")
           /\ connections'[Page] = [socket |-> connections[Page].socket, class |-> Class,
                                    user |-> User, state |-> "authenticated"]
           /\ connections'[Page] \in Server!Entry /\ connections'[Page] # NoSocket
           /\ Server!TypeOK'
<1>1. Server!AnswerMessage(s, "auth_success") /\ "auth_success" \in Server!Replies
  BY DEF Server!Authenticate, Server!Replies
<1> DEFINE e == [socket |-> connections[Page].socket, class |-> Class, user |-> User,
                 state |-> "authenticated"]
<1>2. e \in Server!Entry
  BY <1>1, AnswerGiven DEF Server!Entry
<1>3. connections' = [connections EXCEPT ![Page] = e]
  BY DEF Server!Authenticate
<1>4. connections'[Page] = e /\ connections' \in [{Page} -> Server!Entry \cup {NoSocket}]
  BY <1>2, <1>3 DEF Server!TypeOK
<1>5. /\ class_connections' \in [{Class} -> SUBSET {Page}]
      /\ user_connections' \in [{User} -> SUBSET {Page}]
      /\ joined' \in [{Page} -> SUBSET {Class}]
  BY DEF Server!Authenticate, Server!TypeOK
<1>6. /\ endpoint' \in [Sockets -> {"none", "running", "gone"}]
      /\ reply' \in [Sockets -> Server!Reply \cup {NoSocket}]
      /\ casts' \in SUBSET Sockets
  BY <1>1, AnswerGiven DEF Server!TypeOK
<1> QED
  BY <1>1, <1>2, <1>4, <1>5, <1>6, ServerAssumption DEF Server!TypeOK

LEMMA ServerTypeStep ==
    ASSUME Server!TypeOK, ServerStep
    PROVE  Server!TypeOK'
<1>1. CASE UNCHANGED server
  BY <1>1 DEF server, Server!TypeOK
<1>2. ASSUME NEW s \in Sockets, Server!Accept(s)
      PROVE  Server!TypeOK'
  <2>1. [socket |-> s, class |-> NoSocket, user |-> NoSocket, state |-> "connected"] \in Server!Entry
    BY DEF Server!Entry
  <2>2. [to |-> s, msg |-> "connect"] \in Server!Reply
    BY DEF Server!Reply, Server!Replies
  <2> QED
    BY <1>2, <2>1, <2>2 DEF Server!Accept, Server!Answer, Server!TypeOK
<1>3. ASSUME NEW s \in Sockets,
             Server!ClassFull(s, Class) \/ Server!BadToken(s) \/ Server!Ping(s)
      PROVE  Server!TypeOK'
  <2>1. PICK m \in Server!Replies : Server!AnswerMessage(s, m)
    BY <1>3 DEF Server!ClassFull, Server!BadToken, Server!Ping, Server!Replies
  <2>2. UNCHANGED <<connections, class_connections, user_connections, joined>>
    BY <1>3 DEF Server!ClassFull, Server!BadToken, Server!Ping, Server!pool
  <2> QED
    BY <2>1, <2>2, AnswerGiven DEF Server!TypeOK
<1>4. ASSUME NEW s \in Sockets, Server!Unknown(s) \/ Server!ReplySent(s) \/ Server!CastSent(s)
      PROVE  Server!TypeOK'
  BY <1>4 DEF Server!Unknown, Server!ReplySent, Server!CastSent, Server!poolvars, Server!pool,
              Server!TypeOK
<1>5. ASSUME NEW s \in Sockets,
             Server!ReplyFails(s) \/ Server!Disconnect(s) \/ Server!CastFails(s)
      PROVE  Server!TypeOK'
  <2>1. Server!RemoveAll({Page})
    BY <1>5 DEF Server!ReplyFails, Server!Disconnect, Server!CastFails, Server!Remove
  <2>2. /\ endpoint' \in [Sockets -> {"none", "running", "gone"}]
        /\ reply' \in [Sockets -> Server!Reply \cup {NoSocket}]
        /\ casts' \in SUBSET Sockets
    BY <1>5 DEF Server!ReplyFails, Server!Disconnect, Server!CastFails, Server!TypeOK
  <2> QED
    BY <2>1, <2>2, EntryRemoved DEF Server!TypeOK
<1>6. CASE Server!BroadcastToClass(Class)
  <2>1. Server!Members(class_connections[Class]) \in SUBSET Sockets
    BY DEF Server!Members, Server!Authenticated, Server!Pooled, Server!Entry, Server!TypeOK
  <2> QED
    BY <1>6, <2>1 DEF Server!BroadcastToClass, Server!pool, Server!TypeOK
<1>7. CASE Server!Sweep({Page})
  BY <1>7, EntryRemoved DEF Server!Sweep, Server!TypeOK
<1>8. CASE Server!Restart
  BY <1>8 DEF Server!Restart, Server!TypeOK
<1> QED
  BY <1>1, <1>2, <1>3, <1>4, <1>5, <1>6, <1>7, <1>8, Authenticates DEF ServerStep

NetworkOK == down \in [Sockets -> Seq(Server!Replies)] /\ broken \in SUBSET Sockets

LEMMA CarryType ==
    ASSUME NetworkOK, NEW s \in Sockets, NEW m \in Server!Replies, Carry(s, m)
    PROVE  /\ down' \in [Sockets -> Seq(Server!Replies)]
           /\ \A t \in Sockets : down'[t] = down[t] \/ (t = s /\ ~Over(s) /\ down'[t] = Append(down[t], m))
<1>1. Append(down[s], m) \in Seq(Server!Replies)
  BY DEF NetworkOK
<1> QED
  BY <1>1 DEF Carry, NetworkOK

LEMMA NetworkStep ==
    ASSUME NetworkOK, Server!TypeOK, [Next]_vars
    PROVE  NetworkOK'
<1>1. CASE UserConnects \/ UserDisconnects \/ TimerFires \/ PingSent \/ Broadcast \/ Swept
  BY <1>1 DEF UserConnects, UserDisconnects, TimerFires, PingSent, Broadcast, Swept, network, NetworkOK
<1>2. ASSUME NEW s \in Sockets, Opened(s) \/ Accepted(s) \/ Received(s) \/ ReplyFailed(s)
                                \/ CastFailed(s) \/ Noticed(s)
      PROVE  NetworkOK'
  BY <1>2 DEF Opened, Accepted, Received, ReplyFailed, CastFailed, Noticed, network, NetworkOK
<1>3. ASSUME NEW s \in Sockets, Delivered(s)
      PROVE  NetworkOK'
  <2>1. down' = [down EXCEPT ![s] = Tail(down[s])] /\ broken' = broken
    BY <1>3 DEF Delivered
  <2>2. down[s] \in Seq(Server!Replies) /\ down[s] # <<>>
    BY <1>3 DEF Delivered, NetworkOK
  <2>3. Tail(down[s]) \in Seq(Server!Replies)
    BY <2>2
  <2> QED
    BY <2>1, <2>3 DEF NetworkOK
<1>4. ASSUME NEW s \in Sockets, CleanClose(s) \/ Lost(s)
      PROVE  NetworkOK'
  <2>1. <<>> \in Seq(Server!Replies)
    OBVIOUS
  <2> QED
    BY <1>4, <2>1 DEF CleanClose, Lost, SocketEnds, NetworkOK
<1>5. ASSUME NEW s \in Sockets, Replied(s)
      PROVE  NetworkOK'
  <2>1. reply[s] \in Server!Reply
    BY <1>5 DEF Replied, Server!ReplySent, Server!TypeOK
  <2>2. reply[s].to \in Sockets /\ reply[s].msg \in Server!Replies
    BY <2>1 DEF Server!Reply
  <2>3. Carry(reply[s].to, reply[s].msg) /\ broken' = broken
    BY <1>5 DEF Replied
  <2> QED
    BY <2>2, <2>3, CarryType DEF NetworkOK
<1>6. ASSUME NEW s \in Sockets, CastDone(s)
      PROVE  NetworkOK'
  <2>1. Carry(s, "event") /\ "event" \in Server!Replies /\ broken' = broken
    BY <1>6 DEF CastDone, Server!Replies
  <2> QED
    BY <2>1, CarryType DEF NetworkOK
<1>7. ASSUME NEW s \in Sockets, Breaks(s)
      PROVE  NetworkOK'
  BY <1>7 DEF Breaks, NetworkOK
<1>8. CASE Restarts \/ UNCHANGED vars
  BY <1>8 DEF Restarts, vars, network, NetworkOK
<1> QED
  BY <1>1, <1>2, <1>3, <1>4, <1>5, <1>6, <1>7, <1>8 DEF Next, PageStep, TaskStep, CastStep

-------------------------------------------------------------------------------
(* What the server holds is of sockets it has accepted, and those it has   *)
(* accepted the page has opened.                                           *)

Known(s) == s \in Sockets /\ endpoint[s] # "none"

HeldKnown ==
    /\ \A s \in Sockets : reply[s] # NoSocket => Known(s) /\ Known(reply[s].to)
    /\ \A s \in casts : Known(s)
    /\ connections[Page] # NoSocket =>
         Known(connections[Page].socket) /\ endpoint[connections[Page].socket] = "running"

KnownOpened ==
    \A s \in Sockets : ready[s] = "none" => endpoint[s] = "none" /\ down[s] = <<>>

\* A socket that was accepted stays known.
LEMMA KnownGrows ==
    ASSUME Server!TypeOK, ServerStep
    PROVE  \A s \in Sockets : Known(s) => Known(s)'
BY DEF ServerStep, server, Known, Server!Accept, Server!Unknown, Server!Authenticate,
       Server!ClassFull, Server!BadToken, Server!Ping, Server!AnswerMessage, Server!ReplySent,
       Server!ReplyFails, Server!Disconnect, Server!CastSent, Server!CastFails,
       Server!BroadcastToClass, Server!Sweep, Server!Restart, Server!poolvars, Server!TypeOK

\* A failed or ended socket takes the only entry with it, so what is left in
\* the pool is of a task that runs.
LEMMA HeldKnownStep ==
    ASSUME Server!TypeOK, HeldKnown, ServerStep
    PROVE  HeldKnown'
<1>1. \A s \in Sockets : Known(s) => Known(s)'
  BY KnownGrows
<1>2. CASE UNCHANGED server
  BY <1>2 DEF server, HeldKnown, Known
<1>3. ASSUME NEW s \in Sockets, Server!Accept(s)
      PROVE  HeldKnown'
  <2>1. /\ endpoint'[s] = "running" /\ casts' = casts
        /\ connections'[Page].socket = s
        /\ reply'[s] = [to |-> s, msg |-> "connect"]
        /\ \A t \in Sockets \ {s} : reply'[t] = reply[t]
    BY <1>3 DEF Server!Accept, Server!Answer, Server!TypeOK
  <2>2. Known(s)'
    BY <2>1 DEF Known
  <2> QED
    BY <1>1, <2>1, <2>2 DEF HeldKnown, Known
<1>4. ASSUME NEW s \in Sockets, NEW m \in Server!Replies, Server!AnswerMessage(s, m),
             connections'[Page] # NoSocket => connections'[Page].socket = connections[Page].socket
      PROVE  HeldKnown'
  <2>1. /\ endpoint[s] = "running" /\ UNCHANGED <<endpoint, casts>>
        /\ connections[Page] # NoSocket
        /\ reply'[s] = [to |-> connections[Page].socket, msg |-> m]
        /\ \A t \in Sockets \ {s} : reply'[t] = reply[t]
    BY <1>4, AnswerGiven DEF Server!TypeOK
  <2> QED
    BY <1>4, <2>1 DEF HeldKnown, Known
<1>5. ASSUME NEW s \in Sockets,
             Server!ClassFull(s, Class) \/ Server!BadToken(s) \/ Server!Ping(s)
      PROVE  HeldKnown'
  BY <1>4, <1>5 DEF Server!ClassFull, Server!BadToken, Server!Ping, Server!pool, Server!Replies
<1>6. ASSUME NEW s \in Sockets, Server!Authenticate(s, Class, User)
      PROVE  HeldKnown'
  BY <1>4, <1>6, Authenticates DEF Server!Replies
<1>7. ASSUME NEW s \in Sockets, Server!Unknown(s) \/ Server!ReplySent(s) \/ Server!CastSent(s)
      PROVE  HeldKnown'
  BY <1>7 DEF Server!Unknown, Server!ReplySent, Server!CastSent, Server!poolvars, Server!pool,
              Server!TypeOK, HeldKnown, Known
<1>8. ASSUME NEW s \in Sockets,
             Server!ReplyFails(s) \/ Server!Disconnect(s) \/ Server!CastFails(s)
      PROVE  HeldKnown'
  <2>1. Server!RemoveAll({Page})
    BY <1>8 DEF Server!ReplyFails, Server!Disconnect, Server!CastFails, Server!Remove
  <2>2. connections'[Page] = NoSocket
    BY <2>1, EntryRemoved
  <2>3. casts' \subseteq casts
    BY <1>8 DEF Server!ReplyFails, Server!Disconnect, Server!CastFails
  <2>4. \A t \in Sockets : reply'[t] # NoSocket => reply'[t] = reply[t]
    BY <1>8 DEF Server!ReplyFails, Server!Disconnect, Server!CastFails, Server!TypeOK
  <2> QED
    BY <1>1, <2>2, <2>3, <2>4 DEF HeldKnown, Known
<1>9. CASE Server!BroadcastToClass(Class)
  <2>1. \A t \in Server!Members(class_connections[Class]) : Known(t)
    BY DEF Server!Members, Server!Authenticated, Server!Pooled, HeldKnown
  <2> QED
    BY <1>9, <2>1 DEF Server!BroadcastToClass, Server!pool, HeldKnown, Known
<1>10. CASE Server!Sweep({Page})
  BY <1>10, EntryRemoved DEF Server!Sweep, HeldKnown, Known
<1>11. CASE Server!Restart
  BY <1>11 DEF Server!Restart, HeldKnown
<1> QED
  BY <1>2, <1>3, <1>5, <1>6, <1>7, <1>8, <1>9, <1>10, <1>11 DEF ServerStep

\* Only an opened socket is accepted, or carries anything to the page.
LEMMA KnownOpenedStep ==
    ASSUME ClientTypeOK, Server!TypeOK, NetworkOK, HeldKnown, KnownOpened, [Next]_vars
    PROVE  KnownOpened'
<1>1. \A s \in Sockets : ready'[s] = "none" => ready[s] = "none"
  <2>1. CASE ClientNext
    BY <2>1 DEF ClientNext, Connect, Open, OnOpen, OnCleanClose, OnLost, ClosedState, OnMessage,
                Disconnect, Closed, ReconnectTimer, connection, SendPing, ClientTypeOK
  <2>2. CASE ready' = ready
    BY <2>2
  <2> QED
    BY <2>1, <2>2, ClientSteps
<1>2. CASE /\ endpoint' = endpoint
           /\ \A s \in Sockets : down[s] = <<>> => down'[s] = <<>>
  BY <1>1, <1>2 DEF KnownOpened
<1>3. ASSUME NEW s \in Sockets, Accepted(s)
      PROVE  KnownOpened'
  BY <1>3 DEF Accepted, Server!Accept, network, clientvars, connection, KnownOpened, Server!TypeOK
<1>4. ASSUME NEW s \in Sockets, Noticed(s)
      PROVE  KnownOpened'
  BY <1>1, <1>4 DEF Noticed, Server!Disconnect, Server!Receiving, network, KnownOpened,
                    Server!TypeOK
<1>5. ASSUME NEW s \in Sockets, Replied(s) \/ CastDone(s)
      PROVE  KnownOpened'
  <2>1. endpoint' = endpoint
    BY <1>5 DEF Replied, CastDone, Server!ReplySent, Server!CastSent
  <2>2. PICK t \in Sockets, m \in Server!Replies : Carry(t, m)
    <3>1. CASE Replied(s)
      <4>1. reply[s] \in Server!Reply
        BY <3>1 DEF Replied, Server!ReplySent, Server!TypeOK
      <4> QED
        BY <3>1, <4>1 DEF Replied, Server!Reply
    <3>2. CASE CastDone(s)
      BY <3>2 DEF CastDone, Server!Replies
    <3> QED
      BY <1>5, <3>1, <3>2
  <2>3. \A u \in Sockets : down'[u] = down[u] \/ (u = t /\ ~Over(t))
    BY <2>2, CarryType
  <2> QED
    BY <1>1, <2>1, <2>3 DEF KnownOpened, Over, Live
<1>6. CASE Restarts
  BY <1>1, <1>6 DEF Restarts, Server!Restart, KnownOpened
<1>7. CASE UserConnects \/ UserDisconnects \/ TimerFires \/ PingSent \/ Broadcast \/ Swept
           \/ UNCHANGED vars
  BY <1>2, <1>7 DEF UserConnects, UserDisconnects, TimerFires, PingSent, Broadcast, Swept,
                    Server!BroadcastToClass, Server!Sweep, server, network, vars
<1>8. ASSUME NEW s \in Sockets, PageStep(s) \/ Breaks(s)
      PROVE  KnownOpened'
  <2>1. endpoint' = endpoint
    BY <1>8 DEF PageStep, Opened, Delivered, CleanClose, Lost, SocketEnds, Breaks, server
  <2>2. \A t \in Sockets : down[t] = <<>> => down'[t] = <<>>
    BY <1>8 DEF PageStep, Opened, Delivered, CleanClose, Lost, SocketEnds, Breaks, network, NetworkOK
  <2> QED
    BY <1>2, <2>1, <2>2
<1>9. ASSUME NEW s \in Sockets, Received(s) \/ ReplyFailed(s) \/ CastFailed(s)
      PROVE  KnownOpened'
  <2>1. down' = down
    BY <1>9 DEF Received, ReplyFailed, CastFailed, network
  <2>2. endpoint' = endpoint
    BY <1>9 DEF Received, ReplyFailed, CastFailed, Server!Unknown, Server!poolvars, Server!Authenticate,
                Server!ClassFull, Server!BadToken, Server!Ping, Server!AnswerMessage,
                Server!ReplyFails, Server!CastFails
  <2> QED
    BY <1>2, <2>1, <2>2
<1> QED
  BY <1>3, <1>4, <1>5, <1>6, <1>7, <1>8, <1>9 DEF Next, TaskStep, CastStep

-------------------------------------------------------------------------------
(* The first socket of a page                                              *)

Only(s) == (\A t \in Sockets \ {s} : ready[t] = "none") /\ ~Over(s)

\* The page is authenticated, or will be by an answer on its way.
Promised(s) ==
    \/ state = "authenticated"
    \/ \E k \in DOMAIN down[s] : down[s][k] = "auth_success"
    \/ reply[s] # NoSocket /\ reply[s].msg = "auth_success"

First(s) ==
    /\ websocket = s
    /\ state \in {"authenticating", "authenticated"} => ready[s] = "open"
    /\ Promised(s) => Served(s)

FirstOK == \A s \in Sockets : Only(s) => First(s)

IInv ==
    /\ ClientInv /\ Server!TypeOK /\ NetworkOK
    /\ HeldKnown /\ KnownOpened
    /\ FirstOK

\* Nothing of the server is about any other socket.
LEMMA OthersUnknown ==
    ASSUME IInv, NEW s \in Sockets, Only(s)
    PROVE  /\ \A t \in Sockets : Known(t) => t = s
           /\ \A t \in Sockets : reply[t] # NoSocket => t = s /\ reply[t].to = s
           /\ \A t \in casts : t = s
           /\ connections[Page] # NoSocket => connections[Page].socket = s /\ endpoint[s] = "running"
BY DEF IInv, Only, HeldKnown, KnownOpened, Known

\* What is promised to the page is kept if no new promise is made and the
\* entry is left alone.
LEMMA Kept ==
    ASSUME NEW s \in Sockets, First(s), connections' = connections,
           UNCHANGED websocket,
           state' \in {"authenticating", "authenticated"} => ready'[s] = "open",
           Promised(s)' => Promised(s)
    PROVE  First(s)'
BY DEF First, Served, Server!Authenticated, Server!Pooled

\* A socket that is the only one now was so before, or was opened just now.
LEMMA OnlyBefore ==
    ASSUME IInv, [Next]_vars, NEW s \in Sockets, Only(s)'
    PROVE  Only(s) \/ (Open(s) /\ ready[s] = "none" /\ UNCHANGED <<server, network>>)
<1> USE DEF IInv, ClientInv, ClientTypeOK
<1>1. \A t \in Sockets : ready'[t] = "none" => ready[t] = "none"
  <2>1. CASE ClientNext
    BY <2>1 DEF ClientNext, Connect, Open, OnOpen, OnCleanClose, OnLost, ClosedState, OnMessage,
                Disconnect, Closed, ReconnectTimer, connection, SendPing
  <2> QED
    BY <2>1, ClientSteps
<1>2. Live(s)' => Live(s) \/ Open(s)
  <2>1. CASE ClientNext
    BY <2>1 DEF ClientNext, Connect, Open, OnOpen, OnCleanClose, OnLost, ClosedState, OnMessage,
                Disconnect, Closed, ReconnectTimer, connection, SendPing, Live
  <2>2. CASE ready' = ready
    BY <2>2 DEF Live
  <2> QED
    BY <2>1, <2>2, ClientSteps
<1>3. Live(s)' /\ s \in broken => s \in broken'
  <2>1. ASSUME NEW t \in Sockets, CleanClose(t) \/ Lost(t)
        PROVE  Live(s)' /\ s \in broken => s \in broken'
    BY <2>1 DEF CleanClose, Lost, OnCleanClose, OnLost, ClosedState, SocketEnds, Live
  <2> QED
    BY <2>1 DEF Next, vars, UserConnects, UserDisconnects, TimerFires, PingSent, PageStep,
                Opened, Delivered, TaskStep, Accepted, Received, Replied,
                ReplyFailed, Noticed, CastStep, CastDone, CastFailed, Breaks, Broadcast, Swept,
                Restarts, network
<1>4. CASE Open(s)
  <2>1. ready[s] = "none"
    BY <1>4 DEF Open
  <2>2. UNCHANGED <<server, network>>
    <3>1. ready' # ready
      BY <1>4 DEF Open
    <3>2. ASSUME NEW t \in Sockets, PageStep(t)
          PROVE  FALSE
      BY <1>4, <3>2 DEF Open, PageStep, Opened, OnOpen, Delivered, OnMessage, CleanClose, OnCleanClose,
                  Lost, OnLost, ClosedState
    <3> QED
      BY <3>1, <3>2 DEF Next, vars, UserConnects, UserDisconnects, TimerFires, PingSent, SendPing,
                  TaskStep, Accepted, Received, Replied, ReplyFailed, Noticed, CastStep, CastDone,
                  CastFailed, Breaks, Broadcast, Swept, Restarts, clientvars, connection
  <2> QED
    BY <1>4, <2>1, <2>2
<1>5. CASE ~Open(s)
  BY <1>1, <1>2, <1>3, <1>5 DEF Only, Over
<1> QED
  BY <1>4, <1>5

\* A socket that opens is promised nothing yet.
LEMMA OpenFirst ==
    ASSUME IInv, NEW s \in Sockets, Open(s), UNCHANGED <<server, network>>
    PROVE  First(s)'
<1>1. endpoint[s] = "none" /\ down[s] = <<>>
  BY DEF Open, IInv, KnownOpened
<1>2. reply[s] = NoSocket
  BY <1>1 DEF IInv, HeldKnown, Known
<1>3. ~Promised(s)'
  BY <1>1, <1>2 DEF Open, server, network, Promised
<1> QED
  BY <1>3 DEF First, Open

\* Every step keeps the promise to the only socket.
LEMMA FirstStep ==
    ASSUME IInv, [Next]_vars, NEW s \in Sockets, Only(s), First(s), Only(s)'
    PROVE  First(s)'
<1> USE DEF IInv, ClientInv
<1>1. CASE UserConnects \/ UserDisconnects \/ TimerFires \/ PingSent
  <2>1. ASSUME NEW t \in Sockets, Open(t)
        PROVE  FALSE
    BY <2>1 DEF Open, Only, Over, Live, ClientTypeOK
  <2>2. CASE UserDisconnects
    <3>1. Closed(s)
      BY <2>2, ClientAssumption DEF UserDisconnects, Disconnect, First
    <3>2. ~Live(s)'
      BY <3>1 DEF Closed, Live, ClientTypeOK
    <3> QED
      BY <3>2 DEF Only, Over
  <2> QED
    BY <1>1, <2>1, <2>2, Kept DEF UserConnects, Connect, TimerFires, ReconnectTimer, connection,
         PingSent, SendPing, server, network, First, Promised
<1>2. ASSUME NEW t \in Sockets, Opened(t)
      PROVE  First(s)'
  <2>1. t = s
    BY <1>2 DEF Opened, OnOpen, Only
  <2>2. ready'[s] = "open" /\ state' # "authenticated"
    BY <1>2, <2>1 DEF Opened, OnOpen, ClientTypeOK
  <2> QED
    BY <1>2, <2>2, Kept DEF Opened, OnOpen, server, network, Promised
<1>3. ASSUME NEW t \in Sockets, Delivered(t)
      PROVE  First(s)'
  <2>1. t = s
    BY <1>3 DEF Delivered, OnMessage, Only
  <2>2. /\ ready[s] = "open" /\ UNCHANGED <<server, websocket, ready>>
        /\ state' = "authenticated" => state = "authenticated" \/ Head(down[s]) = "auth_success"
        /\ down'[s] = Tail(down[s]) /\ down[s] # <<>>
    BY <1>3, <2>1 DEF Delivered, OnMessage, NetworkOK
  <2>3. Promised(s)' => Promised(s)
    <3>1. down[s] \in Seq(Server!Replies)
      BY DEF NetworkOK
    <3>2. \A k \in DOMAIN Tail(down[s]) : k + 1 \in DOMAIN down[s] /\ Tail(down[s])[k] = down[s][k + 1]
      BY <2>2, <3>1
    <3>3. 1 \in DOMAIN down[s] /\ Head(down[s]) = down[s][1]
      BY <2>2, <3>1
    <3> QED
      BY <2>2, <3>2, <3>3 DEF Promised, server
  <2> QED
    BY <2>2, <2>3, Kept DEF server
<1>4. ASSUME NEW t \in Sockets, CleanClose(t) \/ Lost(t)
      PROVE  First(s)'
  <2>1. t = s
    BY <1>4 DEF CleanClose, OnCleanClose, Lost, OnLost, Only
  <2>2. ~Live(s)'
    BY <1>4, <2>1 DEF CleanClose, OnCleanClose, Lost, OnLost, ClosedState, Live, ClientTypeOK
  <2> QED
    BY <2>2 DEF Only, Over
<1>5. ASSUME NEW t \in Sockets, Accepted(t)
      PROVE  First(s)'
  <2>1. t = s
    BY <1>5 DEF Accepted, Only
  <2>2. endpoint[s] = "none"
    BY <1>5, <2>1 DEF Accepted, Server!Accept
  <2>3. ~Promised(s)
    BY <2>2, OthersUnknown DEF First, Served, Server!Authenticated, Server!Pooled
  <2>4. reply'[s] = [to |-> s, msg |-> "connect"]
    BY <1>5, <2>1 DEF Accepted, Server!Accept, Server!Answer, Server!TypeOK
  <2>5. ~Promised(s)'
    BY <1>5, <2>3, <2>4 DEF Accepted, network, clientvars, connection, Promised
  <2> QED
    BY <1>5, <2>5 DEF Accepted, clientvars, connection, First
<1>6. ASSUME NEW t \in Sockets, Received(t)
      PROVE  First(s)'
  <2>1. /\ UNCHANGED <<state, websocket, ready, network>>
    BY <1>6 DEF Received
  <2>2. endpoint[t] = "running"
    BY <1>6 DEF Received, Server!Unknown, Server!Authenticate, Server!ClassFull, Server!BadToken,
                Server!Ping, Server!AnswerMessage, Server!Receiving
  <2>3. t = s
    BY <2>2, OthersUnknown DEF Known
  <2>4. CASE Server!Authenticate(s, Class, User)
    <3>1. connections'[Page].socket = connections[Page].socket /\ connections[Page] # NoSocket
      BY <2>4, Authenticates, AnswerGiven DEF Server!Replies
    <3>2. Served(s)'
      BY <2>4, <3>1, Authenticates, OthersUnknown DEF Served, Server!Authenticated, Server!Pooled
    <3> QED
      BY <2>1, <3>2 DEF First
  <2>5. ASSUME NEW m \in Server!Replies \ {"auth_success"}, Server!AnswerMessage(s, m),
               UNCHANGED connections
        PROVE  First(s)'
    <3>1. reply'[s] = [to |-> connections[Page].socket, msg |-> m]
      BY <2>5, AnswerGiven DEF Server!TypeOK
    <3> QED
      BY <2>1, <2>5, <3>1, Kept DEF network, Promised, First
  <2>6. CASE Server!Unknown(s)
    BY <2>1, <2>6, Kept DEF Server!Unknown, Server!poolvars, Server!pool, network, Promised, First
  <2> QED
    BY <1>6, <2>3, <2>4, <2>5, <2>6
       DEF Received, Server!ClassFull, Server!BadToken, Server!Ping, Server!pool, Server!Replies
<1>7. ASSUME NEW t \in Sockets, Replied(t)
      PROVE  First(s)'
  <2>1. t = s /\ reply[s].to = s
    BY <1>7, OthersUnknown DEF Replied, Server!ReplySent
  <2>2. reply[s].msg \in Server!Replies /\ reply[s] # NoSocket
    BY <1>7, <2>1 DEF Replied, Server!ReplySent, Server!Reply, Server!TypeOK
  <2>3. down'[s] = down[s] \/ down'[s] = Append(down[s], reply[s].msg)
    BY <1>7, <2>1, <2>2, CarryType DEF Replied
  <2>4. Promised(s)' => Promised(s)
    <3>1. reply'[s] = NoSocket /\ state' = state
      BY <1>7, <2>1 DEF Replied, Server!ReplySent, clientvars, connection, Server!TypeOK
    <3>2. down[s] \in Seq(Server!Replies)
      BY DEF NetworkOK
    <3> QED
      BY <2>2, <2>3, <3>1, <3>2 DEF Promised
  <2> QED
    BY <1>7, <2>4, Kept DEF Replied, Server!ReplySent, Server!pool, clientvars, connection, First
<1>8. ASSUME NEW t \in Sockets, CastDone(t)
      PROVE  First(s)'
  <2>1. down'[s] = down[s] \/ down'[s] = Append(down[s], "event")
    BY <1>8, CarryType DEF CastDone, Server!Replies
  <2>2. down[s] \in Seq(Server!Replies)
    BY DEF NetworkOK
  <2>3. Promised(s)' => Promised(s)
    BY <1>8, <2>1, <2>2 DEF CastDone, Server!CastSent, clientvars, connection, Promised
  <2> QED
    BY <1>8, <2>3, Kept DEF CastDone, Server!CastSent, Server!pool, clientvars, connection, First
<1>9. ASSUME NEW t \in Sockets, ReplyFailed(t) \/ CastFailed(t) \/ Noticed(t)
      PROVE  FALSE
  <2>1. CASE ReplyFailed(t)
    BY <2>1, OthersUnknown DEF ReplyFailed, Server!ReplyFails, Only
  <2>2. CASE CastFailed(t)
    BY <2>2, OthersUnknown DEF CastFailed, Server!CastFails, Only
  <2>3. CASE Noticed(t)
    BY <2>3, OthersUnknown DEF Noticed, Server!Disconnect, Server!Receiving, Known, Only
  <2> QED
    BY <1>9, <2>1, <2>2, <2>3
<1>10. ASSUME NEW t \in Sockets, Breaks(t)
       PROVE  First(s)'
  BY <1>10, Kept DEF Breaks, server, clientvars, connection, First, Promised
<1>11. CASE Broadcast \/ UNCHANGED vars
  BY <1>11, Kept DEF Broadcast, Server!BroadcastToClass, Server!pool, vars, server, network,
                     clientvars, connection, First, Promised
<1>12. CASE Swept
  <2>1. state # "authenticated"
    BY <1>12, ClientAssumption DEF Swept, Shown, CanSend, First
  <2>2. down[s] = <<>> /\ reply[s] = NoSocket
    BY <1>12 DEF Swept, InFlight, NetworkOK, ClientTypeOK
  <2>3. ~Promised(s)'
    BY <1>12, <2>1, <2>2 DEF Swept, Server!Sweep, network, clientvars, connection, Promised
  <2> QED
    BY <1>12, <2>3 DEF Swept, clientvars, connection, First
<1>13. CASE Restarts
  BY <1>13 DEF Restarts, clientvars, connection, Only, Over, Live
<1> QED
  BY <1>1, <1>2, <1>3, <1>4, <1>5, <1>6, <1>7, <1>8, <1>9, <1>10, <1>11, <1>12, <1>13
     DEF Next, PageStep, TaskStep, CastStep

-------------------------------------------------------------------------------
(* The theorems                                                            *)

LEMMA InitIInv == Init => IInv
<1> SUFFICES ASSUME Init PROVE IInv
  OBVIOUS
<1>1. ClientInv
  BY ClientInitInv
<1>2. Server!TypeOK
  BY DEF Init, Server!Init, Server!TypeOK
<1>3. NetworkOK
  <2>1. <<>> \in Seq(Server!Replies)
    OBVIOUS
  <2> QED
    BY <2>1 DEF Init, NetworkOK
<1>4. HeldKnown /\ KnownOpened
  BY DEF Init, Server!Init, HeldKnown, KnownOpened
<1>5. FirstOK
  BY DEF Init, ClientInit, FirstOK, Only, Over, Live
<1> QED
  BY <1>1, <1>2, <1>3, <1>4, <1>5 DEF IInv

LEMMA NextIInv == IInv /\ [Next]_vars => IInv'
<1> SUFFICES ASSUME IInv, [Next]_vars PROVE IInv'
  OBVIOUS
<1>1. ServerStep
  BY ServerSteps
<1>2. ClientInv' /\ Server!TypeOK' /\ NetworkOK'
  BY <1>1, ClientInvStep, ServerTypeStep, NetworkStep DEF IInv
<1>3. HeldKnown'
  BY <1>1, HeldKnownStep DEF IInv
<1>4. KnownOpened'
  BY KnownOpenedStep DEF IInv, ClientInv
<1>5. FirstOK'
  <2> SUFFICES ASSUME NEW s \in Sockets, Only(s)'
               PROVE  First(s)'
    BY DEF FirstOK
  <2>1. CASE Only(s)
    BY <2>1, FirstStep DEF IInv, FirstOK
  <2>2. CASE Open(s) /\ UNCHANGED <<server, network>>
    BY <2>2, OpenFirst
  <2> QED
    BY <2>1, <2>2, OnlyBefore
<1> QED
  BY <1>2, <1>3, <1>4, <1>5 DEF IInv

LEMMA RealtimeInvariant == Spec => []IInv
BY InitIInv, NextIInv, PTL DEF Spec

(* Types of page, server and network (services/websocket.ts,               *)
(* core/websocket.py).                                                     *)
THEOREM TypeCorrect == Spec => []TypeOK
<1>1. IInv => TypeOK
  BY DEF IInv, ClientInv, NetworkOK, TypeOK
<1> QED
  BY <1>1, RealtimeInvariant, PTL

(* A page that shows a connection has a socket alive.                      *)
THEOREM AlwaysShownIsReal == Spec => []ShownIsReal
<1>1. IInv => ShownIsReal
  BY DEF IInv, ClientInv
<1> QED
  BY <1>1, RealtimeInvariant, PTL

(* A lost connection has its timeout, while there are attempts left.       *)
THEOREM AlwaysLossIsRepaired == Spec => []LossIsRepaired
<1>1. IInv => LossIsRepaired
  BY DEF IInv, ClientInv
<1> QED
  BY <1>1, RealtimeInvariant, PTL

(* The client connects by itself maxReconnectAttempts times at most.       *)
THEOREM AlwaysAttemptsBounded == Spec => []AttemptsBounded
<1>1. IInv => AttemptsBounded
  BY DEF IInv, ClientInv
<1> QED
  BY <1>1, RealtimeInvariant, PTL

(* The first socket of a page that shows "authenticated" is served.        *)
THEOREM AlwaysFirstSocketServed == Spec => []FirstSocketServed
<1>1. IInv => FirstSocketServed
  BY DEF IInv, FirstOK, First, Only, Promised, FirstSocketServed
<1> QED
  BY <1>1, RealtimeInvariant, PTL
-------------------------------------------------------------------------------
(* The server of the composition is a pool as ConnectionPool has it        *)

\* The constants of the instance are such as ConnectionPool assumes.
LEMMA PoolConstants ==
    ASSUME IsFiniteSet(Sockets)
    PROVE  /\ [s \in Sockets |-> Page] \in [Sockets -> {Page}]
           /\ NoSocket \notin Sockets \cup {Page} \cup {Class} \cup {User} \cup Server!Entry
           /\ Cardinality(Sockets) \in Nat /\ MaxPerClass \in Nat
           /\ IsFiniteSet({Page})
BY ClientAssumption, ServerAssumption, FS_CardinalityType, FS_Singleton

LEMMA ServerImplements == ServerStep => [Server!Next]_(Server!poolvars)
<1>1. CASE UNCHANGED server
  BY <1>1 DEF server, Server!poolvars, Server!pool
<1>2. ASSUME NEW s \in Sockets,
             \/ Server!Accept(s) \/ Server!Unknown(s) \/ Server!Authenticate(s, Class, User)
             \/ Server!ClassFull(s, Class) \/ Server!BadToken(s) \/ Server!Ping(s)
             \/ Server!ReplySent(s) \/ Server!ReplyFails(s) \/ Server!Disconnect(s)
      PROVE  Server!Next
  <2>1. Server!EndpointStep(s)
    BY <1>2 DEF Server!EndpointStep, Server!Receive
  <2> QED
    BY <2>1 DEF Server!Next
<1>3. ASSUME NEW s \in Sockets, Server!CastSent(s) \/ Server!CastFails(s)
      PROVE  Server!Next
  BY <1>3 DEF Server!Next
<1>4. CASE Server!BroadcastToClass(Class) \/ Server!Sweep({Page}) \/ Server!Restart
  BY <1>4 DEF Server!Next
<1> QED
  BY <1>1, <1>2, <1>3, <1>4 DEF ServerStep

(* In the company of the page and the network the server does nothing that *)
(* ConnectionPool does not (core/websocket.py): what BackendProofs shows of *)
(* the pool holds here, with the page's id for all ids.                    *)
THEOREM ServerIsPool == Spec => Server!Spec
<1>1. Init => Server!Init
  BY DEF Init
<1>2. [Next]_vars => [Server!Next]_(Server!poolvars)
  BY ServerSteps, ServerImplements
<1> QED
  BY <1>1, <1>2, PTL DEF Spec, Server!Spec
===============================================================================
