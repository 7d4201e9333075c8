---------------------------- MODULE ConnectionPool ----------------------------
(***************************************************************************)
(* The WebSocket server (core/websocket.py) and its v2 endpoint (main.py): *)
(* the pool of connections by id, its indexes by class and by user, the    *)
(* endpoint task of each socket, replies and broadcasts.                   *)
(*                                                                         *)
(* The client chooses the id of its socket, and uses it again for the next *)
(* one.  Code between two suspension points is one action; only sends      *)
(* suspend.  Any entry may have been silent for 300 seconds, and any send  *)
(* may find its socket closed.  Concurrent broadcasts to one socket are    *)
(* one member of casts.                                                    *)
(***************************************************************************)
EXTENDS Naturals, FiniteSets

CONSTANTS
    Sockets,
    Ids,
    Id,             \* the connection_id in the URL of each socket
    Classes, Users,
    None,           \* no entry, no class, no user, no reply
    MaxConnections, \* the global limit, 10000
    MaxPerClass     \* max_connections_per_class

Entry == [socket : Sockets, class : Classes \cup {None}, user : Users \cup {None},
          state : {"connected", "authenticated"}]

ASSUME PoolAssumption ==
    /\ Id \in [Sockets -> Ids]
    /\ None \notin Sockets \cup Ids \cup Classes \cup Users \cup Entry
    /\ MaxConnections \in Nat /\ MaxPerClass \in Nat
    /\ IsFiniteSet(Ids)

VARIABLES
    connections,        \* _connections: the entry of each id
    class_connections,  \* _class_connections: ids of each class
    user_connections,   \* _user_connections: ids of each user
    endpoint,           \* the task that serves each socket
    reply,              \* the send this task waits for
    casts,              \* sockets a broadcast is being sent to
    joined              \* history: classes each id was authenticated for

pool == <<connections, class_connections, user_connections, joined>>

poolvars == <<pool, endpoint, reply, casts>>

Replies == {"connect", "auth_success", "auth_failed", "pong", "event", "error"}

Reply == [to : Sockets, msg : Replies]

TypeOK ==
    /\ connections \in [Ids -> Entry \cup {None}]
    /\ class_connections \in [Classes -> SUBSET Ids]
    /\ user_connections \in [Users -> SUBSET Ids]
    /\ endpoint \in [Sockets -> {"none", "running", "gone"}]
    /\ reply \in [Sockets -> Reply \cup {None}]
    /\ casts \in SUBSET Sockets
    /\ joined \in [Ids -> SUBSET Classes]

Init ==
    /\ connections = [i \in Ids |-> None]
    /\ class_connections = [c \in Classes |-> {}]
    /\ user_connections = [u \in Users |-> {}]
    /\ endpoint = [s \in Sockets |-> "none"]
    /\ reply = [s \in Sockets |-> None]
    /\ casts = {}
    /\ joined = [i \in Ids |-> {}]

Pooled == {i \in Ids : connections[i] # None}

Authenticated(i) == i \in Pooled /\ connections[i].state = "authenticated"

-------------------------------------------------------------------------------
(* _remove_connection never suspends.                                      *)

\* Mutant: the index by class keeps the id.
RemoveAll_KeepsSeat(S) ==
    /\ connections' = [i \in Ids |-> IF i \in S THEN None ELSE connections[i]]
    /\ UNCHANGED <<class_connections, joined>>
    /\ user_connections' =
         [u \in Users |-> user_connections[u] \ {i \in S \cap Pooled : connections[i].user = u}]

\* Each entry of S goes, and its id leaves the indexes the entry names.
RemoveAll(S) ==
    /\ connections' = [i \in Ids |-> IF i \in S THEN None ELSE connections[i]]
    /\ class_connections' =
         [c \in Classes |-> class_connections[c] \ {i \in S \cap Pooled : connections[i].class = c}]
    /\ user_connections' =
         [u \in Users |-> user_connections[u] \ {i \in S \cap Pooled : connections[i].user = u}]
    /\ UNCHANGED joined

Remove(i) == RemoveAll({i})

-------------------------------------------------------------------------------
(* The endpoint of a socket.                                               *)

Answer(s, t, m) == reply' = [reply EXCEPT ![s] = [to |-> t, msg |-> m]]

Receiving(s) == endpoint[s] = "running" /\ reply[s] = None

\* add_connection puts the new socket in the place of one with the same id.
Accept(s) ==
    /\ endpoint[s] = "none"
    /\ Cardinality(Pooled) < MaxConnections
    /\ endpoint' = [endpoint EXCEPT ![s] = "running"]
    /\ connections' = [connections EXCEPT ![Id[s]] =
         [socket |-> s, class |-> None, user |-> None, state |-> "connected"]]
    /\ Answer(s, s, "connect")
    /\ UNCHANGED <<class_connections, user_connections, joined, casts>>

Refuse(s) ==
    /\ endpoint[s] = "none"
    /\ Cardinality(Pooled) >= MaxConnections
    /\ endpoint' = [endpoint EXCEPT ![s] = "gone"]
    /\ UNCHANGED <<pool, reply, casts>>

\* handle_message finds the entry by id, whatever socket it is of, and
\* drops the message of an id that has none.
Unknown(s) ==
    /\ Receiving(s)
    /\ connections[Id[s]] = None
    /\ UNCHANGED poolvars

AnswerMessage(s, m) ==
    /\ Receiving(s)
    /\ Id[s] \in Pooled
    /\ Answer(s, connections[Id[s]].socket, m)
    /\ UNCHANGED <<endpoint, casts>>

\* A valid token for class c.  The indexes of an earlier class stay.
Authenticate(s, c, u) ==
    /\ AnswerMessage(s, "auth_success")
    /\ Cardinality(class_connections[c]) < MaxPerClass
    /\ connections' = [connections EXCEPT ![Id[s]] =
         [socket |-> @.socket, class |-> c, user |-> u, state |-> "authenticated"]]
    /\ joined' = [joined EXCEPT ![Id[s]] = @ \cup {c}]
    /\ class_connections' = [class_connections EXCEPT ![c] = @ \cup {Id[s]}]
    /\ user_connections' = [user_connections EXCEPT ![u] = @ \cup {Id[s]}]

ClassFull(s, c) ==
    /\ AnswerMessage(s, "auth_failed")
    /\ Cardinality(class_connections[c]) >= MaxPerClass
    /\ UNCHANGED pool

\* Mutant: a token that cannot be decoded is let through.
BadToken_LetIn(s) == AnswerMessage(s, "auth_success") /\ UNCHANGED pool

BadToken(s) == AnswerMessage(s, "auth_failed") /\ UNCHANGED pool

Ping(s) == AnswerMessage(s, "pong") /\ UNCHANGED pool

\* A message that does not parse, or that _auth_middleware blocks.
Complain(s) == AnswerMessage(s, "error") /\ UNCHANGED pool

\* _handle_stats_request; the other handlers of events only acknowledge.
StatsRequest(s) ==
    /\ Authenticated(Id[s])
    /\ AnswerMessage(s, "event")
    /\ UNCHANGED pool

ReplySent(s) ==
    /\ reply[s] # None
    /\ reply' = [reply EXCEPT ![s] = None]
    /\ UNCHANGED <<pool, endpoint, casts>>

\* _send_raw_message removes the id, whatever socket its entry is of by now.
ReplyFails(s) ==
    /\ reply[s] # None
    /\ reply' = [reply EXCEPT ![s] = None]
    /\ Remove(Id[s])
    /\ UNCHANGED <<endpoint, casts>>

\* Mutant: an exception of the receive loop ends the task without disconnect.
Disconnect_Leaks(s) ==
    /\ Receiving(s)
    /\ endpoint' = [endpoint EXCEPT ![s] = "gone"]
    /\ UNCHANGED <<pool, reply, casts>>

\* The receive loop ends and disconnect removes the id.
Disconnect(s) ==
    /\ Receiving(s)
    /\ endpoint' = [endpoint EXCEPT ![s] = "gone"]
    /\ Remove(Id[s])
    /\ UNCHANGED <<reply, casts>>

-------------------------------------------------------------------------------
(* Broadcasts, the periodic clean-up and the end of the process.           *)

Members(S) == {connections[i].socket : i \in {j \in S : Authenticated(j)}}

BroadcastToClass(c) ==
    /\ casts' = casts \cup Members(class_connections[c])
    /\ UNCHANGED <<pool, endpoint, reply>>

SendToUser(u) ==
    /\ casts' = casts \cup Members(user_connections[u])
    /\ UNCHANGED <<pool, endpoint, reply>>

CastSent(s) ==
    /\ s \in casts
    /\ casts' = casts \ {s}
    /\ UNCHANGED <<pool, endpoint, reply>>

CastFails(s) ==
    /\ s \in casts
    /\ casts' = casts \ {s}
    /\ Remove(Id[s])
    /\ UNCHANGED <<endpoint, reply>>

\* _cleanup_stale_connections leaves the sockets open.
Sweep(S) ==
    /\ S # {} /\ S \subseteq Pooled
    /\ RemoveAll(S)
    /\ UNCHANGED <<endpoint, reply, casts>>

\* The process ends, by shutdown or a crash, and another one starts.
Restart ==
    /\ connections' = [i \in Ids |-> None]
    /\ class_connections' = [c \in Classes |-> {}]
    /\ user_connections' = [u \in Users |-> {}]
    /\ endpoint' = [s \in Sockets |-> IF endpoint[s] = "none" THEN "none" ELSE "gone"]
    /\ reply' = [s \in Sockets |-> None]
    /\ casts' = {}
    /\ joined' = [i \in Ids |-> {}]

-------------------------------------------------------------------------------
Receive(s) ==
    \/ Unknown(s) \/ BadToken(s) \/ Ping(s) \/ Complain(s) \/ StatsRequest(s)
    \/ \E c \in Classes : ClassFull(s, c) \/ \E u \in Users : Authenticate(s, c, u)

EndpointStep(s) ==
    \/ Accept(s) \/ Refuse(s) \/ Receive(s)
    \/ ReplySent(s) \/ ReplyFails(s) \/ Disconnect(s)

Next ==
    \/ \E s \in Sockets : EndpointStep(s) \/ CastSent(s) \/ CastFails(s)
    \/ \E c \in Classes : BroadcastToClass(c)
    \/ \E u \in Users : SendToUser(u)
    \/ \E S \in SUBSET Ids : Sweep(S)
    \/ Restart

Spec == Init /\ [][Next]_poolvars

-------------------------------------------------------------------------------
(* The pool leaks no entry: the task of the socket an entry names still    *)
(* runs, and will remove it when it ends, in any order of reconnections    *)
(* under one id, failed sends and clean-ups.                               *)
NoGhosts == \A i \in Pooled : endpoint[connections[i].socket] = "running"

(* Broadcasts reach everyone authenticated: both indexes hold the id.      *)
Reachable ==
    \A i \in Ids : Authenticated(i) =>
        /\ i \in class_connections[connections[i].class]
        /\ i \in user_connections[connections[i].user]

(* A class never serves more than max_connections_per_class connections.   *)
WithinLimit ==
    \A c \in Classes :
        Cardinality({i \in Ids : Authenticated(i) /\ connections[i].class = c}) <= MaxPerClass

(* A seat, an id in the index of a class, is lost only in two ways: by an  *)
(* id that a second socket has used, or that was authenticated for a       *)
(* second class.  Any other seat belongs to an entry authenticated for the *)
(* class, so the legacy endpoint, with an id per socket, loses none.       *)
Accepted(i) == {s \in Sockets : Id[s] = i /\ endpoint[s] # "none"}

SeatsKept ==
    \A c \in Classes : \A i \in class_connections[c] :
        \/ Authenticated(i) /\ connections[i].class = c
        \/ \E s, t \in Accepted(i) : s # t
        \/ joined[i] # {c}
===============================================================================
