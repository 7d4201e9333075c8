----------------------------- MODULE BackendProofs -----------------------------
(***************************************************************************)
(* Proofs about four parts of the backend that share no state, one section *)
(* each: the pool of WebSocket connections (ConnectionPool), the           *)
(* attendance records of a session (AttendanceRecords), the retention of   *)
(* records (Retention) and the batches of notifications                    *)
(* (NotificationBatching).  Each section proves its specification's        *)
(* invariant from that specification and the assumption on its own         *)
(* constants, for any values of these, and no section uses another.        *)
(***************************************************************************)
EXTENDS ConnectionPool, AttendanceRecords, Retention, NotificationBatching,
        FiniteSetTheorems, SequenceTheorems, TLAPS

-------------------------------------------------------------------------------
(* The connection pool: the invariant                                      *)

\* An entry is of a socket with its id: the end of the socket finds it.
OwnId == \A i \in Pooled : connections[i].socket \in Sockets /\ Id[connections[i].socket] = i

\* Whoever is authenticated is so for a class and a user.
Placed ==
    \A i \in Ids :
        Authenticated(i) => connections[i].class \in Classes /\ connections[i].user \in Users

\* A seat is only taken by authenticating for the class.
SeatsJoined == \A c \in Classes : \A i \in class_connections[c] : c \in joined[i]

\* The check of the limit counts the seats, whoever has left them.
SeatsLimited == \A c \in Classes : Cardinality(class_connections[c]) <= MaxPerClass

\* The inductive invariant.
IInv ==
    /\ TypeOK
    /\ OwnId /\ NoGhosts
    /\ Placed /\ Reachable
    /\ SeatsJoined /\ SeatsKept
    /\ SeatsLimited

-------------------------------------------------------------------------------
(* What a step does to the pool and to the endpoints                       *)

Quiet == UNCHANGED <<pool, endpoint>>

Accepts == \E s \in Sockets : Accept(s)

Refuses == \E s \in Sockets : Refuse(s)

Authenticates ==
    \E s \in Sockets, c \in Classes, u \in Users : Authenticate(s, c, u)

\* Entries go: a send failed, or a sweep.
Removes == (\E S \in SUBSET Ids : RemoveAll(S)) /\ UNCHANGED endpoint

Disconnects == \E s \in Sockets : Disconnect(s)

\* Every step is one of these.
LEMMA Effects ==
    ASSUME [Next]_poolvars
    PROVE  Quiet \/ Accepts \/ Refuses \/ Authenticates \/ Removes \/ Disconnects \/ Restart
<1>1. ASSUME NEW s \in Sockets, EndpointStep(s)
      PROVE  Quiet \/ Accepts \/ Refuses \/ Authenticates \/ Removes \/ Disconnects
  <2>1. CASE Receive(s)
    BY <2>1 DEF Receive, Unknown, BadToken, Ping, Complain, StatsRequest, ClassFull,
                AnswerMessage, Quiet, Authenticates, poolvars
  <2>2. CASE ReplySent(s)
    BY <2>2 DEF ReplySent, Quiet
  <2>3. CASE ReplyFails(s)
    BY <2>3, PoolAssumption DEF ReplyFails, Remove, Removes
  <2>4. CASE Accept(s) \/ Refuse(s) \/ Disconnect(s)
    BY <2>4 DEF Accepts, Refuses, Disconnects
  <2> QED
    BY <1>1, <2>1, <2>2, <2>3, <2>4 DEF EndpointStep
<1>2. ASSUME NEW s \in Sockets, CastSent(s) \/ CastFails(s)
      PROVE  Quiet \/ Removes
  BY <1>2, PoolAssumption DEF CastSent, CastFails, Remove, Removes, Quiet
<1>3. ASSUME NEW c \in Classes, BroadcastToClass(c)
      PROVE  Quiet
  BY <1>3 DEF BroadcastToClass, Quiet
<1>4. ASSUME NEW u \in Users, SendToUser(u)
      PROVE  Quiet
  BY <1>4 DEF SendToUser, Quiet
<1>5. ASSUME NEW S \in SUBSET Ids, Sweep(S)
      PROVE  Removes
  BY <1>5 DEF Sweep, Removes
<1>6. CASE UNCHANGED poolvars
  BY <1>6 DEF Quiet, poolvars
<1> QED
  BY <1>1, <1>2, <1>3, <1>4, <1>5, <1>6 DEF Next

-------------------------------------------------------------------------------
(* Types                                                                   *)

LEMMA TypeStep ==
    ASSUME TypeOK, [Next]_poolvars
    PROVE  TypeOK'
<1> USE PoolAssumption
<1>1. ASSUME NEW s \in Sockets, Accept(s)
      PROVE  TypeOK'
  <2>1. [socket |-> s, class |-> None, user |-> None, state |-> "connected"] \in Entry
    BY DEF Entry
  <2> QED
    BY <1>1, <2>1 DEF Accept, Answer, Reply, Replies, TypeOK
<1>2. ASSUME NEW s \in Sockets, NEW c \in Classes, NEW u \in Users, Authenticate(s, c, u)
      PROVE  TypeOK'
  <2>1. connections[Id[s]] \in Entry
    BY <1>2 DEF Authenticate, AnswerMessage, Pooled, TypeOK
  <2>2. connections[Id[s]].socket \in Sockets
    BY <2>1 DEF Entry
  <2>3. [socket |-> connections[Id[s]].socket, class |-> c, user |-> u,
         state |-> "authenticated"] \in Entry
    BY <2>2 DEF Entry
  <2>4. [to |-> connections[Id[s]].socket, msg |-> "auth_success"] \in Reply
    BY <2>2 DEF Reply, Replies
  <2> QED
    BY <1>2, <2>3, <2>4 DEF Authenticate, AnswerMessage, Answer, TypeOK
<1>3. ASSUME NEW S \in SUBSET Ids, RemoveAll(S)
      PROVE  /\ connections' \in [Ids -> Entry \cup {None}]
             /\ class_connections' \in [Classes -> SUBSET Ids]
             /\ user_connections' \in [Users -> SUBSET Ids]
             /\ joined' \in [Ids -> SUBSET Classes]
  BY <1>3 DEF RemoveAll, TypeOK
<1>4. ASSUME NEW s \in Sockets, NEW m \in Replies, AnswerMessage(s, m), UNCHANGED pool
      PROVE  TypeOK'
  <2>1. connections[Id[s]] \in Entry
    BY <1>4 DEF AnswerMessage, Pooled, TypeOK
  <2>2. [to |-> connections[Id[s]].socket, msg |-> m] \in Reply
    BY <2>1 DEF Entry, Reply
  <2> QED
    BY <1>4, <2>2 DEF AnswerMessage, Answer, pool, TypeOK
<1>5. ASSUME NEW s \in Sockets, EndpointStep(s)
      PROVE  TypeOK'
  <2>1. CASE BadToken(s) \/ Ping(s) \/ Complain(s) \/ StatsRequest(s)
             \/ \E c \in Classes : ClassFull(s, c)
    BY <1>4, <2>1 DEF BadToken, Ping, Complain, StatsRequest, ClassFull, Replies
  <2>2. CASE Unknown(s) \/ Refuse(s) \/ ReplySent(s)
    BY <2>2 DEF Unknown, Refuse, ReplySent, poolvars, pool, TypeOK
  <2>3. CASE ReplyFails(s) \/ Disconnect(s)
    <3>1. RemoveAll({Id[s]})
      BY <2>3 DEF ReplyFails, Disconnect, Remove
    <3> QED
      BY <1>3, <2>3, <3>1 DEF ReplyFails, Disconnect, TypeOK
  <2> QED
    BY <1>1, <1>2, <1>5, <2>1, <2>2, <2>3 DEF EndpointStep, Receive
<1>6. ASSUME NEW s \in Sockets, CastSent(s)
      PROVE  TypeOK'
  BY <1>6 DEF CastSent, pool, TypeOK
<1>7. ASSUME NEW s \in Sockets, CastFails(s)
      PROVE  TypeOK'
  <2>1. RemoveAll({Id[s]})
    BY <1>7 DEF CastFails, Remove
  <2> QED
    BY <1>3, <1>7, <2>1 DEF CastFails, TypeOK
<1>8. ASSUME NEW S \in SUBSET Ids
      PROVE  Members(S) \in SUBSET Sockets
  BY DEF Members, Authenticated, Pooled, Entry, TypeOK
<1>9. ASSUME NEW c \in Classes, BroadcastToClass(c)
      PROVE  TypeOK'
  <2>1. Members(class_connections[c]) \in SUBSET Sockets
    BY <1>8 DEF TypeOK
  <2> QED
    BY <1>9, <2>1 DEF BroadcastToClass, pool, TypeOK
<1>10. ASSUME NEW u \in Users, SendToUser(u)
       PROVE  TypeOK'
  <2>1. Members(user_connections[u]) \in SUBSET Sockets
    BY <1>8 DEF TypeOK
  <2> QED
    BY <1>10, <2>1 DEF SendToUser, pool, TypeOK
<1>11. ASSUME NEW S \in SUBSET Ids, Sweep(S)
       PROVE  TypeOK'
  BY <1>3, <1>11 DEF Sweep, TypeOK
<1>12. CASE Restart
  BY <1>12 DEF Restart, TypeOK
<1>13. CASE UNCHANGED poolvars
  BY <1>13 DEF poolvars, pool, TypeOK
<1> QED
  BY <1>5, <1>6, <1>7, <1>9, <1>10, <1>11, <1>12, <1>13 DEF Next

-------------------------------------------------------------------------------
(* The entries and the tasks that serve them                               *)

\* The end of a task takes the entry of its socket with it, as the id of the
\* socket is the entry's.
LEMMA NoGhostsStep ==
    ASSUME TypeOK, OwnId, NoGhosts, [Next]_poolvars
    PROVE  OwnId' /\ NoGhosts'
<1> USE PoolAssumption
<1>1. CASE Quiet
  BY <1>1 DEF Quiet, pool, OwnId, NoGhosts, Pooled
<1>2. ASSUME NEW s \in Sockets, Accept(s)
      PROVE  OwnId' /\ NoGhosts'
  <2>1. \A i \in Ids : connections'[i] =
          IF i = Id[s] THEN [socket |-> s, class |-> None, user |-> None, state |-> "connected"]
          ELSE connections[i]
    BY <1>2 DEF Accept, TypeOK
  <2>2. \A t \in Sockets : endpoint[t] = "running" => endpoint'[t] = "running"
    BY <1>2 DEF Accept, TypeOK
  <2>3. endpoint'[s] = "running"
    BY <1>2 DEF Accept, TypeOK
  <2> QED
    BY <2>1, <2>2, <2>3 DEF OwnId, NoGhosts, Pooled
<1>3. ASSUME NEW s \in Sockets, Refuse(s)
      PROVE  OwnId' /\ NoGhosts'
  BY <1>3 DEF Refuse, pool, OwnId, NoGhosts, Pooled, TypeOK
<1>4. ASSUME NEW s \in Sockets, NEW c \in Classes, NEW u \in Users, Authenticate(s, c, u)
      PROVE  OwnId' /\ NoGhosts'
  BY <1>4 DEF Authenticate, AnswerMessage, OwnId, NoGhosts, Pooled, TypeOK
<1>5. CASE Removes
  BY <1>5 DEF Removes, RemoveAll, OwnId, NoGhosts, Pooled, TypeOK
<1>6. ASSUME NEW s \in Sockets, Disconnect(s)
      PROVE  OwnId' /\ NoGhosts'
  <2>1. \A i \in Ids : connections'[i] = IF i = Id[s] THEN None ELSE connections[i]
    BY <1>6 DEF Disconnect, Remove, RemoveAll
  <2>2. \A t \in Sockets \ {s} : endpoint'[t] = endpoint[t]
    BY <1>6 DEF Disconnect, TypeOK
  <2> QED
    BY <2>1, <2>2 DEF OwnId, NoGhosts, Pooled
<1>7. CASE Restart
  BY <1>7 DEF Restart, OwnId, NoGhosts, Pooled
<1> QED
  BY Effects, <1>1, <1>2, <1>3, <1>4, <1>5, <1>6, <1>7
     DEF Accepts, Refuses, Authenticates, Disconnects

-------------------------------------------------------------------------------
(* The indexes                                                             *)

\* Who is authenticated after an authentication.
LEMMA AuthenticateEntry ==
    ASSUME TypeOK, NEW s \in Sockets, NEW c \in Classes, NEW u \in Users, Authenticate(s, c, u)
    PROVE  /\ Id[s] \in Pooled
           /\ Authenticated(Id[s])' /\ connections'[Id[s]].class = c
           /\ connections'[Id[s]].user = u
           /\ \A i \in Ids \ {Id[s]} : connections'[i] = connections[i]
<1> DEFINE e == [socket |-> connections[Id[s]].socket, class |-> c, user |-> u,
                 state |-> "authenticated"]
<1>1. Id[s] \in Pooled /\ Id[s] \in Ids
  BY DEF Authenticate, AnswerMessage, Pooled
<1>2. connections[Id[s]] \in Entry
  BY <1>1 DEF Pooled, TypeOK
<1>3. e \in Entry
  BY <1>2 DEF Entry
<1>4. e # None
  BY <1>3, PoolAssumption
<1>5. connections' = [connections EXCEPT ![Id[s]] = e]
  BY DEF Authenticate
<1>6. connections'[Id[s]] = e /\ \A i \in Ids \ {Id[s]} : connections'[i] = connections[i]
  BY <1>1, <1>5 DEF TypeOK
<1>7. Authenticated(Id[s])'
  BY <1>1, <1>4, <1>6 DEF Authenticated, Pooled
<1> QED
  BY <1>1, <1>6, <1>7

\* What an authentication adds to the index of each class.
LEMMA AuthenticateSeats ==
    ASSUME TypeOK, NEW s \in Sockets, NEW c \in Classes, NEW u \in Users, Authenticate(s, c, u)
    PROVE  /\ class_connections'[c] = class_connections[c] \cup {Id[s]}
           /\ \A d \in Classes \ {c} : class_connections'[d] = class_connections[d]
           /\ user_connections'[u] = user_connections[u] \cup {Id[s]}
           /\ \A v \in Users \ {u} : user_connections'[v] = user_connections[v]
BY DEF Authenticate, TypeOK

LEMMA ReachableStep ==
    ASSUME TypeOK, Placed, Reachable, [Next]_poolvars
    PROVE  Placed' /\ Reachable'
<1> USE PoolAssumption
<1>1. CASE Quiet \/ Refuses
  BY <1>1 DEF Quiet, Refuses, Refuse, pool, Placed, Reachable, Authenticated, Pooled
<1>2. CASE Accepts
  BY <1>2 DEF Accepts, Accept, Placed, Reachable, Authenticated, Pooled, TypeOK
<1>3. ASSUME NEW s \in Sockets, NEW c \in Classes, NEW u \in Users, Authenticate(s, c, u)
      PROVE  Placed' /\ Reachable'
  <2> SUFFICES ASSUME NEW i \in Ids, Authenticated(i)'
               PROVE  /\ connections'[i].class \in Classes /\ connections'[i].user \in Users
                      /\ i \in class_connections'[connections'[i].class]
                      /\ i \in user_connections'[connections'[i].user]
    BY DEF Placed, Reachable
  <2>1. CASE i = Id[s]
    BY <1>3, <2>1, AuthenticateEntry, AuthenticateSeats
  <2>2. CASE i # Id[s]
    <3>1. connections'[i] = connections[i]
      BY <1>3, <2>2, AuthenticateEntry
    <3>2. Authenticated(i)
      BY <3>1 DEF Authenticated, Pooled
    <3>3. \A d \in Classes : class_connections[d] \subseteq class_connections'[d]
      BY <1>3, AuthenticateSeats
    <3>4. \A v \in Users : user_connections[v] \subseteq user_connections'[v]
      BY <1>3, AuthenticateSeats
    <3> QED
      BY <3>1, <3>2, <3>3, <3>4 DEF Placed, Reachable
  <2> QED
    BY <2>1, <2>2
<1>4. ASSUME NEW S \in SUBSET Ids, RemoveAll(S)
      PROVE  Placed' /\ Reachable'
  <2> SUFFICES ASSUME NEW i \in Ids, Authenticated(i)'
               PROVE  /\ connections'[i].class \in Classes /\ connections'[i].user \in Users
                      /\ i \in class_connections'[connections'[i].class]
                      /\ i \in user_connections'[connections'[i].user]
    BY DEF Placed, Reachable
  <2>1. i \notin S /\ connections'[i] = connections[i]
    BY <1>4 DEF RemoveAll, Authenticated, Pooled
  <2>2. Authenticated(i)
    BY <2>1 DEF Authenticated, Pooled
  <2> QED
    BY <1>4, <2>1, <2>2 DEF RemoveAll, Placed, Reachable
<1>5. CASE Disconnects
  BY <1>4, <1>5 DEF Disconnects, Disconnect, Remove
<1>6. CASE Restart
  BY <1>6 DEF Restart, Placed, Reachable, Authenticated, Pooled
<1> QED
  BY Effects, <1>1, <1>2, <1>3, <1>4, <1>5, <1>6 DEF Authenticates, Removes

-------------------------------------------------------------------------------
(* Seats                                                                   *)

\* A class has a finite number of seats taken.
LEMMA SeatsFinite ==
    ASSUME TypeOK, NEW c \in Classes
    PROVE  IsFiniteSet(class_connections[c]) /\ Cardinality(class_connections[c]) \in Nat
<1>1. class_connections[c] \in SUBSET Ids
  BY DEF TypeOK
<1> QED
  BY <1>1, PoolAssumption, FS_Subset, FS_CardinalityType

LEMMA SeatsLimitedStep ==
    ASSUME TypeOK, SeatsLimited, [Next]_poolvars
    PROVE  SeatsLimited'
<1> USE PoolAssumption
<1>1. CASE Quiet \/ Refuses \/ Accepts
  BY <1>1 DEF Quiet, Refuses, Refuse, Accepts, Accept, pool, SeatsLimited
<1>2. ASSUME NEW s \in Sockets, NEW c \in Classes, NEW u \in Users, Authenticate(s, c, u)
      PROVE  SeatsLimited'
  <2>1. Cardinality(class_connections[c]) < MaxPerClass
    BY <1>2 DEF Authenticate
  <2>2. IsFiniteSet(class_connections[c]) /\ Cardinality(class_connections[c]) \in Nat
    BY SeatsFinite
  <2>3. Cardinality(class_connections[c] \cup {Id[s]}) <= Cardinality(class_connections[c]) + 1
    <3>1. CASE Id[s] \in class_connections[c]
      <4>1. class_connections[c] \cup {Id[s]} = class_connections[c]
        BY <3>1
      <4>2. Cardinality(class_connections[c] \cup {Id[s]}) = Cardinality(class_connections[c])
        BY <4>1, Zenon
      <4> QED
        BY <2>2, <4>2
    <3>2. CASE Id[s] \notin class_connections[c]
      <4>1. Cardinality(class_connections[c] \cup {Id[s]}) = Cardinality(class_connections[c]) + 1
        BY <2>2, <3>2, FS_AddElement
      <4> QED
        BY <2>2, <4>1
    <3> QED
      BY <3>1, <3>2
  <2>4. Cardinality(class_connections[c] \cup {Id[s]}) \in Nat
    BY <2>2, FS_AddElement, FS_CardinalityType
  <2>5. Cardinality(class_connections'[c]) <= MaxPerClass
    <3>1. class_connections'[c] = class_connections[c] \cup {Id[s]}
      BY <1>2, AuthenticateSeats
    <3> QED
      BY <2>1, <2>2, <2>3, <2>4, <3>1
  <2>6. \A d \in Classes \ {c} : class_connections'[d] = class_connections[d]
    BY <1>2, AuthenticateSeats
  <2> QED
    BY <2>5, <2>6 DEF SeatsLimited
<1>3. ASSUME NEW S \in SUBSET Ids, RemoveAll(S)
      PROVE  SeatsLimited'
  <2> SUFFICES ASSUME NEW c \in Classes
               PROVE  Cardinality(class_connections'[c]) <= MaxPerClass
    BY DEF SeatsLimited
  <2>1. class_connections'[c] \in SUBSET class_connections[c]
    BY <1>3 DEF RemoveAll
  <2>2. Cardinality(class_connections'[c]) <= Cardinality(class_connections[c])
    BY <2>1, SeatsFinite, FS_Subset
  <2>3. Cardinality(class_connections'[c]) \in Nat
    BY <2>1, SeatsFinite, FS_Subset, FS_CardinalityType
  <2> QED
    BY <2>2, <2>3, SeatsFinite DEF SeatsLimited
<1>4. CASE Disconnects
  BY <1>3, <1>4 DEF Disconnects, Disconnect, Remove
<1>5. CASE Restart
  BY <1>5, FS_EmptySet DEF Restart, SeatsLimited
<1> QED
  BY Effects, <1>1, <1>2, <1>3, <1>4, <1>5 DEF Authenticates, Removes

LEMMA SeatsJoinedStep ==
    ASSUME TypeOK, SeatsJoined, [Next]_poolvars
    PROVE  SeatsJoined'
<1> USE PoolAssumption
<1>1. CASE Quiet \/ Refuses \/ Accepts
  BY <1>1 DEF Quiet, Refuses, Refuse, Accepts, Accept, pool, SeatsJoined
<1>2. ASSUME NEW s \in Sockets, NEW c \in Classes, NEW u \in Users, Authenticate(s, c, u)
      PROVE  SeatsJoined'
  <2>1. \A i \in Ids : joined'[i] = IF i = Id[s] THEN joined[i] \cup {c} ELSE joined[i]
    BY <1>2 DEF Authenticate, TypeOK
  <2>2. \A d \in Classes : class_connections[d] \subseteq Ids
    BY DEF TypeOK
  <2>3. ASSUME NEW d \in Classes, NEW i \in class_connections'[d]
        PROVE  d \in joined'[i]
    <3>1. CASE d = c
      <4>1. i \in class_connections[c] \cup {Id[s]} /\ Id[s] \in Ids
        BY <1>2, <2>3, <3>1, AuthenticateSeats
      <4> QED
        BY <2>1, <2>2, <3>1, <4>1 DEF SeatsJoined
    <3>2. CASE d # c
      <4>1. i \in class_connections[d]
        BY <1>2, <2>3, <3>2, AuthenticateSeats
      <4> QED
        BY <2>1, <2>2, <4>1 DEF SeatsJoined
    <3> QED
      BY <3>1, <3>2
  <2> QED
    BY <2>3 DEF SeatsJoined
<1>3. CASE Removes \/ Disconnects
  BY <1>3 DEF Removes, Disconnects, Disconnect, Remove, RemoveAll, SeatsJoined
<1>4. CASE Restart
  BY <1>4 DEF Restart, SeatsJoined
<1> QED
  BY Effects, <1>1, <1>2, <1>3, <1>4 DEF Authenticates

\* A socket that was accepted has been so for good.
LEMMA AcceptedGrows ==
    ASSUME TypeOK, [Next]_poolvars, NEW i \in Ids
    PROVE  Accepted(i) \subseteq Accepted(i)'
<1>1. \A s \in Sockets : endpoint[s] # "none" => endpoint'[s] # "none"
  BY Effects DEF Quiet, Accepts, Accept, Refuses, Refuse, Authenticates, Authenticate,
                 AnswerMessage, Removes, Disconnects, Disconnect, Restart, TypeOK
<1> QED
  BY <1>1 DEF Accepted

\* A seat without its entry is either one of two sockets', or of two classes',
\* and stays so; a new socket under a seated id is the second one.
LEMMA SeatsKeptStep ==
    ASSUME TypeOK, OwnId, NoGhosts, SeatsJoined, SeatsKept, [Next]_poolvars
    PROVE  SeatsKept'
<1> USE PoolAssumption
<1> DEFINE Seated(c, i) == Authenticated(i) /\ connections[i].class = c
           Shared(i) == \E s, t \in Accepted(i) : s # t
<1>1. \A i \in Ids : Shared(i) => Shared(i)'
  BY AcceptedGrows
<1>2. CASE Quiet \/ Refuses
  BY <1>1, <1>2 DEF Quiet, Refuses, Refuse, pool, SeatsKept, Authenticated, Pooled, TypeOK
<1>3. ASSUME NEW s \in Sockets, Accept(s)
      PROVE  SeatsKept'
  <2> SUFFICES ASSUME NEW c \in Classes, NEW i \in class_connections[c], i \in Ids
               PROVE  Seated(c, i)' \/ Shared(i)' \/ joined[i] # {c}
    BY <1>3 DEF Accept, SeatsKept, TypeOK
  <2>1. CASE Shared(i) \/ joined[i] # {c}
    BY <1>1, <2>1
  <2>2. CASE Seated(c, i) /\ i = Id[s]
    <3>1. connections[i].socket \in Accepted(i)
      BY <2>2 DEF OwnId, NoGhosts, Accepted, Authenticated
    <3>2. s \notin Accepted(i) /\ s \in Accepted(i)'
      BY <1>3, <2>2 DEF Accept, Accepted, TypeOK
    <3>3. connections[i].socket \in Accepted(i)'
      BY <3>1, AcceptedGrows
    <3> QED
      BY <3>1, <3>2, <3>3
  <2>3. CASE Seated(c, i) /\ i # Id[s]
    BY <1>3, <2>3 DEF Accept, Authenticated, Pooled, TypeOK
  <2> QED
    BY <2>1, <2>2, <2>3 DEF SeatsKept
<1>4. ASSUME NEW s \in Sockets, NEW c \in Classes, NEW u \in Users, Authenticate(s, c, u)
      PROVE  SeatsKept'
  <2> SUFFICES ASSUME NEW d \in Classes, NEW i \in class_connections'[d], i \in Ids
               PROVE  Seated(d, i)' \/ Shared(i)' \/ joined'[i] # {d}
    <3>1. \A d \in Classes : class_connections'[d] \subseteq Ids
      BY <1>4, AuthenticateSeats DEF TypeOK
    <3> QED
      BY <3>1 DEF SeatsKept
  <2>1. \A j \in Ids : joined'[j] = IF j = Id[s] THEN joined[j] \cup {c} ELSE joined[j]
    BY <1>4 DEF Authenticate, TypeOK
  <2>2. CASE i = Id[s] /\ d = c
    BY <1>4, <2>2, AuthenticateEntry
  <2>3. CASE i = Id[s] /\ d # c
    BY <2>1, <2>3
  <2>4. CASE i # Id[s]
    <3>1. i \in class_connections[d]
      BY <1>4, <2>4, AuthenticateSeats
    <3>2. Seated(d, i) \/ Shared(i) \/ joined[i] # {d}
      BY <3>1 DEF SeatsKept
    <3>3. Seated(d, i) => Seated(d, i)'
      BY <1>4, <2>4, AuthenticateEntry DEF Authenticated, Pooled
    <3> QED
      BY <1>1, <2>1, <2>4, <3>2, <3>3
  <2> QED
    BY <2>2, <2>3, <2>4
<1>5. ASSUME NEW S \in SUBSET Ids, RemoveAll(S)
      PROVE  SeatsKept'
  <2> SUFFICES ASSUME NEW c \in Classes, NEW i \in class_connections'[c], i \in Ids
               PROVE  Seated(c, i)' \/ Shared(i)' \/ joined'[i] # {c}
    BY <1>5 DEF SeatsKept, RemoveAll, TypeOK
  <2>1. i \in class_connections[c] /\ joined' = joined
    BY <1>5 DEF RemoveAll
  <2>2. Seated(c, i) \/ Shared(i) \/ joined[i] # {c}
    BY <2>1 DEF SeatsKept
  <2>3. Seated(c, i) => Seated(c, i)'
    BY <1>5 DEF RemoveAll, Authenticated, Pooled
  <2> QED
    BY <1>1, <2>1, <2>2, <2>3
<1>6. CASE Disconnects
  BY <1>5, <1>6 DEF Disconnects, Disconnect, Remove
<1>7. CASE Restart
  BY <1>7 DEF Restart, SeatsKept
<1> QED
  BY Effects, <1>2, <1>3, <1>4, <1>5, <1>6, <1>7 DEF Accepts, Authenticates, Removes

-------------------------------------------------------------------------------
(* The theorems                                                            *)

LEMMA InitIInv == Init => IInv
<1> USE PoolAssumption
<1> SUFFICES ASSUME Init PROVE IInv
  OBVIOUS
<1>1. TypeOK
  BY DEF Init, TypeOK
<1>2. Pooled = {}
  BY DEF Init, Pooled
<1>3. SeatsLimited
  BY FS_EmptySet DEF Init, SeatsLimited
<1> QED
  BY <1>1, <1>2, <1>3 DEF Init, IInv, OwnId, NoGhosts, Placed, Reachable, Authenticated,
                          SeatsJoined, SeatsKept

LEMMA NextIInv == IInv /\ [Next]_poolvars => IInv'
BY TypeStep, NoGhostsStep, ReachableStep, SeatsJoinedStep, SeatsKeptStep, SeatsLimitedStep
   DEF IInv

LEMMA PoolInvariant == Spec => []IInv
BY InitIInv, NextIInv, PTL DEF Spec

(* The types are correct (core/websocket.py, ConnectionPool).              *)
THEOREM TypeCorrect == Spec => []TypeOK
<1>1. IInv => TypeOK
  BY DEF IInv
<1> QED
  BY <1>1, PoolInvariant, PTL

(* No entry outlives the task that will remove it.                         *)
THEOREM AlwaysNoGhosts == Spec => []NoGhosts
<1>1. IInv => NoGhosts
  BY DEF IInv
<1> QED
  BY <1>1, PoolInvariant, PTL

(* Every authenticated connection is in the indexes broadcasts go by.      *)
THEOREM AlwaysReachable == Spec => []Reachable
<1>1. IInv => Reachable
  BY DEF IInv
<1> QED
  BY <1>1, PoolInvariant, PTL

(* No class serves more than max_connections_per_class: those it serves    *)
(* have seats, and the seats are limited.                                  *)
THEOREM AlwaysWithinLimit == Spec => []WithinLimit
<1>1. IInv => WithinLimit
  <2> SUFFICES ASSUME IInv, NEW c \in Classes
               PROVE  Cardinality({i \in Ids : Authenticated(i) /\ connections[i].class = c})
                        <= MaxPerClass
    BY DEF WithinLimit
  <2> DEFINE served == {i \in Ids : Authenticated(i) /\ connections[i].class = c}
  <2>1. served \in SUBSET class_connections[c]
    BY DEF IInv, Reachable
  <2>2. Cardinality(served) <= Cardinality(class_connections[c]) /\ Cardinality(served) \in Nat
    BY <2>1, SeatsFinite, FS_Subset, FS_CardinalityType DEF IInv
  <2>3. Cardinality(class_connections[c]) <= MaxPerClass /\ Cardinality(class_connections[c]) \in Nat
    BY SeatsFinite DEF IInv, SeatsLimited
  <2> QED
    BY <2>2, <2>3, PoolAssumption
<1> QED
  BY <1>1, PoolInvariant, PTL

(* Seats are lost only by ids of two sockets or of two classes.            *)
THEOREM AlwaysSeatsKept == Spec => []SeatsKept
<1>1. IInv => SeatsKept
  BY DEF IInv
<1> QED
  BY <1>1, PoolInvariant, PTL

-------------------------------------------------------------------------------
(* Attendance records: the invariant                                       *)

\* A request that is about to write has found one row of its student or none,
\* and a checkout has found one.
SeenOK ==
    \A o \in Requests : pc[o] = "write" =>
        \/ seen[o] = NoRow /\ Kind[o] # "checkout"
        \/ seen[o] # NoRow /\ seen[o].id \in Rows(Person(o))

\* The answer says whether a request is done, and as long as it is not, it has
\* skipped the students before the one it is at.
ProgressOK ==
    \A o \in Requests :
        /\ pc[o] = "done" <=> answer[o] # "none"
        /\ pc[o] # "done" => failed[o] = {Target[o][i] : i \in 1 .. at[o] - 1}
        /\ pc[o] = "refresh" => Refreshes(o)

\* The trail of a row is the history of its status.
Exact(r) ==
    LET t == r.trail
    IN  /\ t # <<>> /\ t[1].action = "create"
        /\ \A k \in 2 .. Len(t) : t[k].old = t[k - 1].new
        /\ r.status = t[Len(t)].new

\* A student whom no two requests have worked on at a time is worked on by one
\* request at most, which sees the student's row as it is.
UndisturbedOK ==
    \A s \in Students \ disturbed :
        /\ \A o, p \in Requests :
             Working(o) /\ Working(p) /\ s \in Everyone(o) \cap Everyone(p) => o = p
        /\ \A o \in Requests : pc[o] = "write" /\ Person(o) = s =>
             IF seen[o] = NoRow THEN Rows(s) = {}
             ELSE records[seen[o].id].status = seen[o].status
        /\ \A i, j \in Rows(s) : i = j
        /\ \A i \in Rows(s) : Exact(records[i])

\* The inductive invariant.
AttendanceInv ==
    AttendanceTypeOK /\ SeenOK /\ ProgressOK /\ UndisturbedOK /\ AllOrNothing

-------------------------------------------------------------------------------
(* Attendance records: rows and their trails                               *)

\* The row b is the row a, as far as its status and trail are concerned.
Kept(a, b) ==
    b \in Row /\ b.student = a.student /\ b.status = a.status /\ b.trail = a.trail

\* The row b is the row a after an update by o, which has seen the status old.
Logged(o, a, old, b) ==
    /\ b \in Row /\ b.student = a.student
    /\ Len(b.trail) > Len(a.trail)
    /\ \A k \in DOMAIN a.trail : b.trail[k] = a.trail[k]
    /\ \A k \in DOMAIN b.trail \ DOMAIN a.trail : b.trail[k].by = o
    /\ b.status # a.status => b.trail[Len(a.trail) + 1].new = b.status
    /\ Exact(a) /\ a.status = old => Exact(b)

\* The fields of a row, and of an entry of a trail.
LEMMA EntryType ==
    ASSUME NEW o \in Requests, NEW action \in {"create", "update_status", "bulk_update"},
           NEW old \in Status \cup {"null"}, NEW new \in Status
    PROVE  AuditEntry(o, action, old, new) \in Audit
BY DEF AuditEntry, Audit

\* An entry at the end of a trail.
LEMMA TrailGrows ==
    ASSUME NEW t \in Seq(Audit), NEW e \in Audit
    PROVE  /\ Append(t, e) \in Seq(Audit)
           /\ Len(t) \in Nat /\ Len(Append(t, e)) = Len(t) + 1
           /\ DOMAIN t = 1 .. Len(t) /\ DOMAIN Append(t, e) = 1 .. Len(t) + 1
           /\ \A k \in 1 .. Len(t) : Append(t, e)[k] = t[k]
           /\ Append(t, e)[Len(t) + 1] = e
BY AppendProperties, LenProperties

\* update_attendance_status logs what it does, whoever has changed the row since.
LEMMA UpdatedLogs ==
    ASSUME NEW o \in Requests, NEW a \in Row, NEW old \in Status \cup {"null"},
           NEW st \in Status, NEW manual \in BOOLEAN
    PROVE  Logged(o, a, old, Updated(o, a, old, st, manual))
<1> DEFINE e == AuditEntry(o, "update_status", old, st)
           b == Updated(o, a, old, st, manual)
           t == a.trail
           u == b.trail
<1>1. e \in Audit /\ e.by = o /\ e.old = old /\ e.new = st
  BY EntryType DEF AuditEntry
<1>2. /\ b \in Row /\ b.student = a.student
      /\ b.status = IF st = old THEN a.status ELSE st
      /\ u = Append(t, e) /\ t \in Seq(Audit)
  <2>1. t \in Seq(Audit) /\ Append(t, e) \in Seq(Audit)
    BY <1>1, TrailGrows DEF Row
  <2> HIDE DEF e
  <2> QED
    BY <2>1 DEF Updated, Row, e
<1> HIDE DEF e, b
<1>3. /\ Len(t) \in Nat /\ Len(u) = Len(t) + 1
      /\ DOMAIN t = 1 .. Len(t) /\ DOMAIN u = 1 .. Len(t) + 1
      /\ \A k \in 1 .. Len(t) : u[k] = t[k]
      /\ u[Len(t) + 1] = e
  BY <1>1, <1>2, TrailGrows
<1>4. b.status # a.status => u[Len(t) + 1].new = b.status
  BY <1>1, <1>2, <1>3
<1>5. ASSUME Exact(a), a.status = old
      PROVE  Exact(b)
  <2>1. /\ t # <<>> /\ t[1].action = "create"
        /\ \A k \in 2 .. Len(t) : t[k].old = t[k - 1].new
        /\ a.status = t[Len(t)].new
    BY <1>5 DEF Exact
  <2>2. Len(t) \in Nat \ {0}
    BY <1>2, <1>3, <2>1, EmptySeq
  <2>3. u # <<>> /\ u[1].action = "create"
    BY <1>2, <1>3, <2>1, <2>2
  <2>4. ASSUME NEW k \in 2 .. Len(u)
        PROVE  u[k].old = u[k - 1].new
    <3>1. CASE k = Len(t) + 1
      BY <1>1, <1>3, <1>5, <2>1, <2>2, <3>1
    <3>2. CASE k # Len(t) + 1
      <4>1. k \in 2 .. Len(t) /\ k \in 1 .. Len(t) /\ k - 1 \in 1 .. Len(t)
        BY <1>3, <3>2
      <4> QED
        BY <1>3, <2>1, <4>1
    <3> QED
      BY <3>1, <3>2
  <2>5. b.status = u[Len(u)].new
    BY <1>1, <1>2, <1>3, <1>5
  <2> QED
    BY <2>3, <2>4, <2>5 DEF Exact
<1>6. \A k \in DOMAIN u \ DOMAIN t : u[k].by = o
  BY <1>1, <1>3
<1> QED
  BY <1>2, <1>3, <1>4, <1>5, <1>6 DEF Logged, b

\* So does the bulk update, with its second entry.
LEMMA BulkLogs ==
    ASSUME NEW o \in Requests, NEW a \in Row, NEW old \in Status \cup {"null"}, NEW st \in Status
    PROVE  Logged(o, a, old, BulkUpdated(o, a, old, st))
<1> DEFINE e == AuditEntry(o, "bulk_update", st, st)
           b == Updated(o, a, old, st, TRUE)
           c == BulkUpdated(o, a, old, st)
           t == b.trail
           u == c.trail
<1>1. e \in Audit /\ e.by = o /\ e.old = st /\ e.new = st
  BY EntryType DEF AuditEntry
<1>2. Logged(o, a, old, b)
  BY UpdatedLogs
<1>3. b.trail = Append(a.trail, AuditEntry(o, "update_status", old, st))
  BY DEF Updated, Row
<1>4. b \in Row /\ t \in Seq(Audit)
  BY <1>2 DEF Logged, Row
<1>5. /\ c \in Row /\ c.student = b.student /\ c.status = b.status
      /\ u = Append(t, e)
  <2>1. Append(t, e) \in Seq(Audit)
    BY <1>1, <1>4, TrailGrows
  <2>2. c = [b EXCEPT !.trail = Append(b.trail, e)]
    BY Zenon DEF BulkUpdated
  <2> HIDE DEF e, b, c
  <2> QED
    BY <1>4, <2>1, <2>2 DEF Row
<1>6. /\ Len(a.trail) \in Nat /\ Len(t) = Len(a.trail) + 1
      /\ t[Len(t)].new = st
      /\ DOMAIN a.trail = 1 .. Len(a.trail)
  <2> DEFINE f == AuditEntry(o, "update_status", old, st)
  <2>1. f \in Audit /\ f.new = st /\ a.trail \in Seq(Audit)
    BY EntryType DEF Row, AuditEntry
  <2>2. t = Append(a.trail, f)
    BY <1>3
  <2> HIDE DEF b, f
  <2> QED
    BY <2>1, <2>2, TrailGrows
<1>7. b.status = IF st = old THEN a.status ELSE st
  BY DEF Updated, Row
<1> HIDE DEF e, b, c
<1>8. /\ Len(u) = Len(t) + 1
      /\ DOMAIN t = 1 .. Len(t) /\ DOMAIN u = 1 .. Len(t) + 1
      /\ \A k \in 1 .. Len(t) : u[k] = t[k]
      /\ u[Len(t) + 1] = e
  BY <1>1, <1>4, <1>5, TrailGrows
<1>9. ASSUME Exact(a), a.status = old
      PROVE  Exact(c)
  <2>1. b.status = st
    BY <1>7, <1>9
  <2>2. /\ t[1].action = "create"
        /\ \A k \in 2 .. Len(t) : t[k].old = t[k - 1].new
    BY <1>2, <1>9 DEF Logged, Exact
  <2>3. u # <<>> /\ u[1].action = "create" /\ c.status = u[Len(u)].new
    BY <1>1, <1>5, <1>6, <1>8, <2>1, <2>2
  <2>4. ASSUME NEW k \in 2 .. Len(u)
        PROVE  u[k].old = u[k - 1].new
    <3>1. CASE k = Len(u)
      BY <1>1, <1>6, <1>8, <3>1
    <3>2. CASE k # Len(u)
      <4>1. k \in 2 .. Len(t) /\ k \in 1 .. Len(t) /\ k - 1 \in 1 .. Len(t)
        BY <1>6, <1>8, <3>2
      <4> QED
        BY <1>8, <2>2, <4>1
    <3> QED
      BY <3>1, <3>2
  <2> QED
    BY <2>3, <2>4 DEF Exact
<1>10. /\ \A k \in DOMAIN a.trail : u[k] = a.trail[k]
       /\ \A k \in DOMAIN u \ DOMAIN a.trail : u[k].by = o
  <2>1. /\ \A k \in 1 .. Len(a.trail) : t[k] = a.trail[k]
        /\ \A k \in DOMAIN t \ DOMAIN a.trail : t[k].by = o
    BY <1>2, <1>6 DEF Logged
  <2>2. \A k \in 1 .. Len(a.trail) : u[k] = a.trail[k]
    BY <1>6, <1>8, <2>1
  <2>3. ASSUME NEW k \in DOMAIN u \ DOMAIN a.trail
        PROVE  u[k].by = o
    <3>1. k = Len(t) \/ k = Len(t) + 1
      BY <1>6, <1>8
    <3> QED
      BY <1>1, <1>6, <1>8, <2>1, <3>1
  <2> QED
    BY <1>6, <2>2, <2>3
<1>11. c.status # a.status => u[Len(a.trail) + 1].new = c.status
  BY <1>2, <1>5, <1>6, <1>8 DEF Logged
<1> QED
  BY <1>2, <1>5, <1>6, <1>8, <1>9, <1>10, <1>11 DEF Logged, c

\* Two rows of a student are what two of a finite set are.
LEMMA TwiceMeansTwo ==
    ASSUME NEW S, IsFiniteSet(S)
    PROVE  ~Twice(S) <=> \A i, j \in S : i = j
<1>1. Cardinality(S) \in Nat
  BY FS_CardinalityType
<1>2. ASSUME NEW i \in S, NEW j \in S, i # j
      PROVE  Twice(S)
  <2>1. IsFiniteSet({i, j}) /\ Cardinality({i, j}) = 2
    <3>1. IsFiniteSet({i}) /\ Cardinality({i}) = 1
      BY FS_Singleton
    <3>2. {i, j} = {i} \cup {j} /\ j \notin {i}
      BY <1>2
    <3> QED
      BY <3>1, <3>2, FS_AddElement
  <2>2. Cardinality({i, j}) <= Cardinality(S)
    BY <2>1, FS_Subset
  <2> QED
    BY <1>1, <2>1, <2>2 DEF Twice
<1>3. ASSUME \A i, j \in S : i = j
      PROVE  ~Twice(S)
  <2>1. CASE S = {}
    BY <2>1, FS_EmptySet DEF Twice
  <2>2. CASE S # {}
    <3>1. PICK i \in S : S = {i}
      BY <1>3, <2>2
    <3> QED
      BY <3>1, FS_Singleton DEF Twice
  <2> QED
    BY <2>1, <2>2
<1> QED
  BY <1>2, <1>3

-------------------------------------------------------------------------------
(* Attendance records: what a step does                                    *)

\* The request o ends, and leaves nothing but its answer.
Ends(o) ==
    /\ \/ Working(o) /\ \E how \in {"already", "refused", "error"} : Finish(o, how)
       \/ pc[o] = "refresh" /\ \E how \in {"ok", "error"} : Finish(o, how)
    /\ UNCHANGED <<records, enrollment, at, seen, failed, disturbed>>

\* It looks up the rows of its student, a checkout those it has not left.
LooksUp(o) ==
    /\ pc[o] = "read"
    /\ \E S \in SUBSET Rows(Person(o)) :
         /\ Found(o, S)
         /\ IF Kind[o] = "checkout" THEN S # {} ELSE S = Rows(Person(o))

\* It adds a row for its student, with the creation in the trail.
Creates(o) ==
    /\ pc[o] = "write" /\ Kind[o] \in {"check_in", "override"} /\ seen[o] = NoRow
    /\ \E new \in Row :
         /\ records' = Append(records, new)
         /\ new.student = Person(o)
         /\ Len(new.trail) = 1 /\ new.trail[1].action = "create"
         /\ new.trail[1].by = o /\ new.trail[1].new = new.status
    /\ enrollment' \in [Students -> Enrollment]
    /\ Commit(o) /\ UNCHANGED failed

\* The rows it logs an update of, and the status of each that it has seen.
Updates(o) ==
    {i \in DOMAIN records :
        /\ Kind[o] # "checkout"
        /\ \/ i = seen[o].id
           \/ records[i].student \in Rest(o) /\ Rows(records[i].student) = {i}}

SeenOf(o, i) == IF i = seen[o].id THEN seen[o].status ELSE records[i].status

\* It updates rows, and no others.
Revises(o) ==
    /\ pc[o] = "write" /\ seen[o] # NoRow
    /\ records' \in Seq(Row) /\ Len(records') = Len(records)
    /\ \A i \in DOMAIN records \ Updates(o) : Kept(records[i], records'[i])
    /\ \A i \in Updates(o) : Logged(o, records[i], SeenOf(o, i), records'[i])
    /\ IF Kind[o] = "bulk"
       THEN /\ \A s \in Rest(o) : Rows(s) # {}
            /\ failed' = [failed EXCEPT ![o] = @ \cup {s \in Rest(o) : Twice(Rows(s))}]
       ELSE UNCHANGED failed
    /\ enrollment' \in [Students -> Enrollment]
    /\ Commit(o)

\* The students of a request are students.
LEMMA TargetFacts ==
    ASSUME AttendanceTypeOK, NEW o \in Requests
    PROVE  /\ Len(Target[o]) \in Nat /\ DOMAIN Target[o] = 1 .. Len(Target[o])
           /\ at[o] \in 1 .. Len(Target[o])
           /\ Person(o) \in Students /\ Person(o) \in Everyone(o)
           /\ Rest(o) \subseteq Everyone(o) /\ Everyone(o) \subseteq Students
           /\ Kind[o] # "bulk" => at[o] = 1 /\ Everyone(o) = {Person(o)} /\ Rest(o) = {}
<1>1. Target[o] \in Seq(Students) /\ at[o] \in DOMAIN Target[o]
  BY RequestAssumption DEF AttendanceTypeOK
<1>2. /\ Len(Target[o]) \in Nat /\ DOMAIN Target[o] = 1 .. Len(Target[o])
      /\ \A i \in DOMAIN Target[o] : Target[o][i] \in Students
  BY <1>1, LenProperties, ElementOfSeq
<1>3. Kind[o] # "bulk" => Len(Target[o]) = 1
  BY RequestAssumption
<1> QED
  BY <1>1, <1>2, <1>3 DEF Person, Everyone, Rest

\* The row that was seen is there, and is the student's.
LEMMA SeenFacts ==
    ASSUME AttendanceTypeOK, SeenOK, NEW o \in Requests, pc[o] = "write", seen[o] # NoRow
    PROVE  /\ seen[o].id \in DOMAIN records /\ DOMAIN records = 1 .. Len(records)
           /\ Len(records) \in Nat
           /\ Current(o) = records[seen[o].id] /\ Current(o) \in Row
           /\ Current(o).student = Person(o)
           /\ seen[o].status \in Status \cup {"null"}
<1>1. seen[o].id \in Rows(Person(o))
  BY DEF SeenOK
<1>2. records \in Seq(Row) /\ seen[o].status \in Status \cup {"null"}
  BY DEF AttendanceTypeOK
<1>3. seen[o].id \in DOMAIN records /\ records[seen[o].id].student = Person(o)
  BY <1>1 DEF Rows
<1>4. DOMAIN records = 1 .. Len(records) /\ Len(records) \in Nat
      /\ \A i \in DOMAIN records : records[i] \in Row
  BY <1>2, LenProperties, ElementOfSeq
<1> QED
  BY <1>2, <1>3, <1>4 DEF Current

\* A row that is replaced by what it is after an update.
LEMMA ReplaceRow ==
    ASSUME AttendanceTypeOK, NEW j \in DOMAIN records, NEW b \in Row,
           records' = [records EXCEPT ![j] = b]
    PROVE  /\ records' \in Seq(Row) /\ Len(records') = Len(records)
           /\ records'[j] = b
           /\ \A i \in DOMAIN records \ {j} : Kept(records[i], records'[i])
<1>1. records \in Seq(Row)
  BY DEF AttendanceTypeOK
<1>2. /\ records' \in Seq(Row) /\ Len(records') = Len(records)
      /\ \A i \in 1 .. Len(records) : records'[i] = IF i = j THEN b ELSE records[i]
  BY <1>1, ExceptSeq
<1>3. DOMAIN records = 1 .. Len(records) /\ \A i \in DOMAIN records : records[i] \in Row
  BY <1>1, LenProperties, ElementOfSeq
<1> QED
  BY <1>2, <1>3 DEF Kept

\* A new row.
LEMMA CreatedRow ==
    ASSUME AttendanceTypeOK, NEW o \in Requests, NEW st \in Status, NEW in \in BOOLEAN,
           NEW manual \in BOOLEAN
    PROVE  LET new == Created(o, st, in, manual)
           IN  /\ new \in Row /\ new.student = Person(o)
               /\ Len(new.trail) = 1 /\ new.trail[1].action = "create"
               /\ new.trail[1].by = o /\ new.trail[1].new = new.status
<1> DEFINE e == AuditEntry(o, "create", "null", st)
           new == Created(o, st, in, manual)
<1>1. e \in Audit /\ e.action = "create" /\ e.by = o /\ e.new = st
  BY EntryType DEF AuditEntry
<1>2. Person(o) \in Students
  BY TargetFacts
<1>3. /\ new = [student |-> Person(o), status |-> st, checked_in |-> in, checked_out |-> FALSE,
                manual |-> manual, trail |-> <<e>>]
  BY DEF Created
<1> HIDE DEF e, new
<1>4. <<e>> \in Seq(Audit) /\ Len(<<e>>) = 1 /\ <<e>>[1] = e
  BY <1>1
<1> QED
  BY <1>1, <1>2, <1>3, <1>4 DEF Row, new

LEMMA CheckInEffect ==
    ASSUME AttendanceTypeOK, SeenOK, NEW o \in Requests, NEW st \in {"present", "late"},
           WriteCheckIn(o, st)
    PROVE  Creates(o) \/ Revises(o)
<1> DEFINE b == Updated(o, Current(o), seen[o].status, st, FALSE)
           c == [b EXCEPT !.checked_in = TRUE]
<1>1. pc[o] = "write" /\ Kind[o] = "check_in" /\ Commit(o) /\ UNCHANGED failed /\ st \in Status
  BY DEF WriteCheckIn, Writing, Status
<1>2. enrollment' \in [Students -> Enrollment]
  BY DEF WriteCheckIn, AttendanceTypeOK, Enrollment
<1>3. CASE seen[o] # NoRow /\ records' = [records EXCEPT ![seen[o].id] = c]
  <2>1. Logged(o, records[seen[o].id], seen[o].status, b)
    BY <1>1, <1>3, SeenFacts, UpdatedLogs
  <2> HIDE DEF b
  <2>2. c \in Row /\ Logged(o, records[seen[o].id], seen[o].status, c)
    BY <2>1 DEF Logged, Row, Exact
  <2> HIDE DEF c
  <2>3. Updates(o) = {seen[o].id} /\ seen[o].id \in DOMAIN records
    BY <1>1, <1>3, SeenFacts, TargetFacts DEF Updates
  <2> QED
    BY <1>1, <1>2, <1>3, <2>2, <2>3, ReplaceRow DEF Revises, SeenOf
<1>4. CASE seen[o] = NoRow /\ records' = Append(records, Created(o, st, TRUE, FALSE))
  BY <1>1, <1>2, <1>4, CreatedRow DEF Creates
<1> QED
  BY <1>3, <1>4 DEF WriteCheckIn, Save

LEMMA OverrideEffect ==
    ASSUME AttendanceTypeOK, SeenOK, NEW o \in Requests, NEW st \in Status, WriteOverride(o, st)
    PROVE  Creates(o) \/ Revises(o)
<1> DEFINE b == Updated(o, Current(o), seen[o].status, st, TRUE)
<1>1. /\ pc[o] = "write" /\ Kind[o] = "override" /\ Commit(o) /\ UNCHANGED failed
      /\ enrollment' \in [Students -> Enrollment]
  BY DEF WriteOverride, Writing, AttendanceTypeOK
<1>2. CASE seen[o] # NoRow /\ records' = [records EXCEPT ![seen[o].id] = b]
  <2>1. Logged(o, records[seen[o].id], seen[o].status, b)
    BY <1>1, <1>2, SeenFacts, UpdatedLogs
  <2> HIDE DEF b
  <2>2. /\ b \in Row
        /\ Updates(o) = {seen[o].id} /\ seen[o].id \in DOMAIN records
    BY <1>1, <1>2, <2>1, SeenFacts, TargetFacts DEF Updates, Logged
  <2> QED
    BY <1>1, <1>2, <2>1, <2>2, ReplaceRow DEF Revises, SeenOf
<1>3. CASE seen[o] = NoRow /\ records' = Append(records, Created(o, st, st # "absent", TRUE))
  BY <1>1, <1>3, CreatedRow DEF Creates
<1> QED
  BY <1>2, <1>3 DEF WriteOverride, Save

LEMMA CheckoutEffect ==
    ASSUME AttendanceTypeOK, SeenOK, NEW o \in Requests, WriteCheckout(o)
    PROVE  Revises(o)
<1> DEFINE j == seen[o].id
           b == [records[j] EXCEPT !.checked_out = TRUE]
<1>1. /\ pc[o] = "write" /\ Kind[o] = "checkout" /\ Commit(o) /\ UNCHANGED failed
      /\ enrollment' \in [Students -> Enrollment]
  BY DEF WriteCheckout, Writing, AttendanceTypeOK
<1>2. seen[o] # NoRow
  BY <1>1 DEF SeenOK
<1>3. j \in DOMAIN records /\ records[j] \in Row
  BY <1>1, <1>2, SeenFacts
<1>4. b \in Row /\ Kept(records[j], b)
  BY <1>3 DEF Kept, Row
<1>5. records' = [records EXCEPT ![j] = b]
  BY DEF WriteCheckout
<1> HIDE DEF b
<1>6. /\ records' \in Seq(Row) /\ Len(records') = Len(records)
      /\ \A i \in DOMAIN records : Kept(records[i], records'[i])
  BY <1>3, <1>4, <1>5, ReplaceRow
<1>7. Updates(o) = {}
  BY <1>1 DEF Updates
<1> QED
  BY <1>1, <1>2, <1>6, <1>7 DEF Revises

LEMMA BulkEffect ==
    ASSUME AttendanceTypeOK, SeenOK, NEW o \in Requests, NEW st \in Status, WriteBulk(o, st)
    PROVE  Revises(o)
<1>1. /\ pc[o] = "write" /\ Kind[o] = "bulk" /\ Commit(o) /\ seen[o] # NoRow
      /\ \A s \in Rest(o) : Rows(s) # {}
      /\ failed' = [failed EXCEPT ![o] = @ \cup {s \in Rest(o) : Twice(Rows(s))}]
      /\ enrollment' \in [Students -> Enrollment]
  BY DEF WriteBulk, Writing, AttendanceTypeOK
<1>2. /\ seen[o].id \in DOMAIN records /\ DOMAIN records = 1 .. Len(records)
      /\ Len(records) \in Nat /\ seen[o].status \in Status \cup {"null"}
  BY <1>1, SeenFacts
<1>3. \A i \in DOMAIN records : records[i] \in Row
  BY ElementOfSeq, <1>2 DEF AttendanceTypeOK
<1>4. \A i \in DOMAIN records : SeenOf(o, i) \in Status \cup {"null"}
  BY <1>2, <1>3 DEF SeenOf, Row
<1>5. records' = [i \in DOMAIN records |->
                    IF i \in Updates(o) THEN BulkUpdated(o, records[i], SeenOf(o, i), st)
                    ELSE records[i]]
  BY <1>1 DEF WriteBulk, Updates, SeenOf
<1>6. \A i \in Updates(o) : i \in DOMAIN records
  BY <1>1 DEF Updates
<1>7. ASSUME NEW i \in Updates(o)
      PROVE  Logged(o, records[i], SeenOf(o, i), records'[i])
  BY <1>3, <1>4, <1>5, <1>6, BulkLogs
<1>8. ASSUME NEW i \in DOMAIN records \ Updates(o)
      PROVE  Kept(records[i], records'[i])
  BY <1>3, <1>5 DEF Kept
<1>9. \A i \in DOMAIN records : records'[i] \in Row
  BY <1>7, <1>8 DEF Logged, Kept
<1>10. records' \in Seq(Row) /\ Len(records') = Len(records)
  <2>1. DOMAIN records' = 1 .. Len(records)
    BY <1>2, <1>5
  <2>2. records' = [i \in 1 .. Len(records) |-> records'[i]]
    BY <1>2, <1>5
  <2> QED
    BY <1>2, <1>9, <2>1, <2>2, IsASeq, LenProperties
<1> QED
  BY <1>1, <1>7, <1>8, <1>10 DEF Revises

LEMMA ReadEffect ==
    ASSUME AttendanceTypeOK, NEW o \in Requests, Read(o)
    PROVE  Ends(o) \/ LooksUp(o) \/ SkipBulk(o)
<1> DEFINE S == Rows(Person(o))
<1>1. CASE ReadCheckIn(o)
  BY <1>1 DEF ReadCheckIn, Reading, LooksUp, Ends, Working
<1>2. CASE ReadOverride(o)
  BY <1>2 DEF ReadOverride, Reading, LooksUp
<1>3. CASE ReadCheckout(o)
  <2>1. {i \in S : ~records[i].checked_out} \in SUBSET S
    OBVIOUS
  <2> QED
    BY <1>3, <2>1 DEF ReadCheckout, Reading, LooksUp, Ends, Working
<1>4. CASE ReadBulk(o)
  BY <1>4 DEF ReadBulk, Reading, LooksUp
<1> QED
  BY <1>1, <1>2, <1>3, <1>4 DEF Read

\* Every step is one of these.
LEMMA AttendanceEffects ==
    ASSUME AttendanceTypeOK, SeenOK, AttendanceNext
    PROVE  \E o \in Requests :
             \/ Begin(o) \/ Ends(o) \/ LooksUp(o) \/ SkipBulk(o) \/ Creates(o) \/ Revises(o)
<1> SUFFICES ASSUME NEW o \in Requests, Begin(o) \/ Refused(o) \/ Fails(o) \/ Read(o) \/ Write(o)
                                        \/ Refreshed(o)
             PROVE  Begin(o) \/ Ends(o) \/ LooksUp(o) \/ SkipBulk(o) \/ Creates(o) \/ Revises(o)
  BY DEF AttendanceNext
<1>1. CASE Refused(o) \/ Fails(o) \/ Refreshed(o)
  BY <1>1 DEF Refused, Fails, Refreshed, Ends, Working, AttendanceTypeOK
<1>2. CASE Read(o)
  BY <1>2, ReadEffect
<1>3. CASE Write(o)
  BY <1>3, CheckInEffect, OverrideEffect, CheckoutEffect, BulkEffect DEF Write
<1> QED
  BY <1>1, <1>2, <1>3

\* What becomes of the rows of a student.
LEMMA CreatesRows ==
    ASSUME AttendanceTypeOK, NEW o \in Requests, Creates(o)
    PROVE  LET n == Len(records) + 1
           IN  /\ records' \in Seq(Row)
               /\ n \notin DOMAIN records /\ DOMAIN records' = DOMAIN records \cup {n}
               /\ \A i \in DOMAIN records : records'[i] = records[i]
               /\ records'[n].student = Person(o) /\ Exact(records'[n])
               /\ \E k \in DOMAIN records'[n].trail : records'[n].trail[k].by = o
               /\ \A k \in DOMAIN records'[n].trail : records'[n].trail[k].by = o
               /\ \A s \in Students :
                    Rows(s)' = IF s = Person(o) THEN Rows(s) \cup {n} ELSE Rows(s)
<1> DEFINE n == Len(records) + 1
<1>1. PICK new \in Row :
         /\ records' = Append(records, new)
         /\ new.student = Person(o)
         /\ Len(new.trail) = 1 /\ new.trail[1].action = "create"
         /\ new.trail[1].by = o /\ new.trail[1].new = new.status
  BY DEF Creates
<1>2. /\ records' \in Seq(Row) /\ n \notin DOMAIN records /\ DOMAIN records' = DOMAIN records \cup {n}
      /\ \A i \in DOMAIN records : records'[i] = records[i]
      /\ records'[n] = new
  <2>1. records \in Seq(Row)
    BY DEF AttendanceTypeOK
  <2>2. DOMAIN records = 1 .. Len(records) /\ Len(records) \in Nat
    BY <2>1, LenProperties
  <2> QED
    BY <1>1, <2>1, <2>2, AppendProperties
<1>3. DOMAIN new.trail = {1} /\ new.trail # <<>>
  <2>1. new.trail \in Seq(Audit)
    BY DEF Row
  <2> QED
    BY <1>1, <2>1, LenProperties, EmptySeq
<1>4. Exact(new)
  BY <1>1, <1>3 DEF Exact
<1>5. \A s \in Students : Rows(s)' = IF s = Person(o) THEN Rows(s) \cup {n} ELSE Rows(s)
  BY <1>1, <1>2 DEF Rows
<1> QED
  BY <1>1, <1>2, <1>3, <1>4, <1>5

LEMMA RevisesRows ==
    ASSUME AttendanceTypeOK, SeenOK, NEW o \in Requests, Revises(o)
    PROVE  /\ records' \in Seq(Row) /\ DOMAIN records' = DOMAIN records
           /\ Updates(o) \subseteq DOMAIN records
           /\ \A i \in DOMAIN records : records'[i].student = records[i].student
           /\ \A s \in Students : Rows(s)' = Rows(s)
<1>1. records' \in Seq(Row) /\ DOMAIN records' = DOMAIN records
  BY LenProperties DEF Revises, AttendanceTypeOK
<1>2. Updates(o) \subseteq DOMAIN records
  BY DEF Updates
<1>3. \A i \in DOMAIN records : records'[i].student = records[i].student
  BY <1>2 DEF Revises, Kept, Logged
<1> QED
  BY <1>1, <1>2, <1>3 DEF Rows

-------------------------------------------------------------------------------
(* Attendance records: types, what was seen, progress                      *)

LEMMA FoundRow ==
    ASSUME AttendanceTypeOK, NEW o \in Requests, LooksUp(o)
    PROVE  /\ pc' = [pc EXCEPT ![o] = "write"]
           /\ UNCHANGED <<records, enrollment, at, failed, answer, disturbed>>
           /\ ~Twice(Rows(Person(o))) \/ Kind[o] = "checkout"
           /\ \/ /\ seen' = [seen EXCEPT ![o] = NoRow]
                 /\ Kind[o] # "checkout" /\ Rows(Person(o)) = {}
              \/ \E i \in Rows(Person(o)) :
                    seen' = [seen EXCEPT ![o] = [id |-> i, status |-> records[i].status]]
<1>1. PICK S \in SUBSET Rows(Person(o)) :
         /\ Found(o, S)
         /\ IF Kind[o] = "checkout" THEN S # {} ELSE S = Rows(Person(o))
  BY DEF LooksUp
<1>2. CASE S = {}
  BY <1>1, <1>2 DEF Found
<1>3. CASE S # {}
  <2> DEFINE i == CHOOSE i \in S : TRUE
  <2>1. i \in Rows(Person(o))
    BY <1>3
  <2>2. seen' = [seen EXCEPT ![o] = [id |-> i, status |-> records[i].status]]
    BY <1>1, <1>3 DEF Found
  <2> HIDE DEF i
  <2> QED
    BY <1>1, <2>1, <2>2 DEF Found
<1> QED
  BY <1>2, <1>3

LEMMA RowFields ==
    ASSUME AttendanceTypeOK, NEW s, NEW i \in Rows(s)
    PROVE  /\ i \in DOMAIN records /\ i \in Nat \ {0} /\ records[i] \in Row
           /\ records[i].status \in Status /\ records[i].student = s
           /\ [id |-> i, status |-> records[i].status] # NoRow
<1>1. records \in Seq(Row) /\ i \in DOMAIN records /\ records[i].student = s
  BY DEF AttendanceTypeOK, Rows
<1>2. records[i] \in Row /\ i \in Nat \ {0}
  BY <1>1, LenProperties, ElementOfSeq
<1> QED
  BY <1>1, <1>2 DEF Row, NoRow

LEMMA AttendanceTypeStep ==
    ASSUME AttendanceTypeOK, SeenOK, AttendanceNext
    PROVE  AttendanceTypeOK'
<1>1. PICK o \in Requests :
         Begin(o) \/ Ends(o) \/ LooksUp(o) \/ SkipBulk(o) \/ Creates(o) \/ Revises(o)
  BY AttendanceEffects
<1>2. /\ Person(o) \in Students /\ Everyone(o) \subseteq Students /\ Rest(o) \subseteq Students
      /\ at[o] \in 1 .. Len(Target[o]) /\ DOMAIN Target[o] = 1 .. Len(Target[o])
      /\ Len(Target[o]) \in Nat
  BY TargetFacts
<1>3. CASE Begin(o)
  BY <1>2, <1>3 DEF Begin, AttendanceTypeOK
<1>4. CASE Ends(o)
  BY <1>4 DEF Ends, Finish, AttendanceTypeOK
<1>5. CASE LooksUp(o)
  <2>1. seen' \in [Requests -> [id : Nat, status : Status \cup {"null"}]]
    <3>1. NoRow \in [id : Nat, status : Status \cup {"null"}]
      BY DEF NoRow
    <3>2. \A i \in Rows(Person(o)) :
             [id |-> i, status |-> records[i].status] \in [id : Nat, status : Status \cup {"null"}]
      BY RowFields
    <3>3. \E v \in [id : Nat, status : Status \cup {"null"}] : seen' = [seen EXCEPT ![o] = v]
      BY <1>5, <3>1, <3>2, FoundRow
    <3> QED
      BY <3>3 DEF AttendanceTypeOK
  <2> QED
    BY <1>5, <2>1, FoundRow DEF AttendanceTypeOK
<1>6. CASE SkipBulk(o)
  <2>1. /\ at' \in [Requests -> Nat] /\ \A p \in Requests : at'[p] \in DOMAIN Target[p]
    <3>1. CASE at' = at
      BY <3>1 DEF AttendanceTypeOK
    <3>2. CASE at[o] < Len(Target[o]) /\ at' = [at EXCEPT ![o] = @ + 1]
      <4>1. at[o] + 1 \in DOMAIN Target[o] /\ at[o] + 1 \in Nat
        BY <1>2, <3>2
      <4> QED
        BY <3>2, <4>1 DEF AttendanceTypeOK
    <3> QED
      BY <1>6, <3>1, <3>2 DEF SkipBulk
  <2>2. failed' \in [Requests -> SUBSET Students]
    BY <1>2, <1>6 DEF SkipBulk, AttendanceTypeOK
  <2> QED
    BY <1>6, <2>1, <2>2 DEF SkipBulk, Finish, AttendanceTypeOK
<1>7. CASE Creates(o)
  BY <1>7, CreatesRows DEF Creates, Commit, Finish, AttendanceTypeOK
<1>8. CASE Revises(o)
  <2>1. \E S \in SUBSET Students : failed' = [failed EXCEPT ![o] = @ \cup S] \/ failed' = failed
    BY <1>2, <1>8 DEF Revises
  <2>2. records' \in Seq(Row) /\ failed' \in [Requests -> SUBSET Students]
    BY <1>8, <2>1 DEF Revises, AttendanceTypeOK
  <2> QED
    BY <1>8, <2>2 DEF Revises, Commit, Finish, AttendanceTypeOK
<1> QED
  BY <1>1, <1>3, <1>4, <1>5, <1>6, <1>7, <1>8

LEMMA SeenStep ==
    ASSUME AttendanceTypeOK, SeenOK, AttendanceNext
    PROVE  SeenOK'
<1>1. PICK o \in Requests :
         Begin(o) \/ Ends(o) \/ LooksUp(o) \/ SkipBulk(o) \/ Creates(o) \/ Revises(o)
  BY AttendanceEffects
<1> SUFFICES ASSUME NEW p \in Requests, pc'[p] = "write"
             PROVE  \/ seen'[p] = NoRow /\ Kind[p] # "checkout"
                    \/ seen'[p] # NoRow /\ seen'[p].id \in Rows(Person(p))'
  BY DEF SeenOK
<1>2. Person(p) \in Students
  BY TargetFacts
<1>3. CASE LooksUp(o) /\ p = o
  <2>1. Rows(Person(p))' = Rows(Person(p))
    BY <1>3, FoundRow DEF Rows, Person
  <2>2. CASE seen' = [seen EXCEPT ![o] = NoRow] /\ Kind[o] # "checkout"
    BY <1>3, <2>2 DEF AttendanceTypeOK
  <2>3. CASE \E i \in Rows(Person(o)) :
               seen' = [seen EXCEPT ![o] = [id |-> i, status |-> records[i].status]]
    <3>1. PICK i \in Rows(Person(o)) : seen'[o] = [id |-> i, status |-> records[i].status]
      BY <2>3 DEF AttendanceTypeOK
    <3> QED
      BY <1>3, <2>1, <3>1, RowFields
  <2> QED
    BY <1>3, <2>2, <2>3, FoundRow
<1>4. CASE ~(LooksUp(o) /\ p = o)
  <2>1. pc[p] = "write" /\ seen'[p] = seen[p] /\ at'[p] = at[p] /\ (pc'[o] = "done" => p # o)
    BY <1>1, <1>4, FoundRow DEF AttendanceTypeOK, Begin, Ends, Finish, SkipBulk, Reading, Creates,
                                Revises, Commit
  <2>2. Rows(Person(p)) \subseteq Rows(Person(p))'
    <3>1. Person(p)' = Person(p)
      BY <2>1 DEF Person
    <3>2. CASE Creates(o) \/ Revises(o)
      BY <1>2, <3>1, <3>2, CreatesRows, RevisesRows
    <3>3. CASE UNCHANGED records
      BY <3>1, <3>3 DEF Rows
    <3> QED
      BY <1>1, <3>2, <3>3, FoundRow DEF Begin, Ends, SkipBulk
  <2> QED
    BY <2>1, <2>2 DEF SeenOK
<1> QED
  BY <1>3, <1>4

LEMMA ProgressStep ==
    ASSUME AttendanceTypeOK, ProgressOK, AttendanceNext, SeenOK
    PROVE  ProgressOK'
<1>1. PICK o \in Requests :
         Begin(o) \/ Ends(o) \/ LooksUp(o) \/ SkipBulk(o) \/ Creates(o) \/ Revises(o)
  BY AttendanceEffects
<1>2. CASE Begin(o) \/ LooksUp(o)
  <2>1. /\ UNCHANGED <<at, failed, answer>>
        /\ \A p \in Requests : /\ pc'[p] = "done" <=> pc[p] = "done"
                               /\ pc'[p] = "refresh" <=> pc[p] = "refresh"
    BY <1>2, FoundRow DEF Begin, AttendanceTypeOK, LooksUp
  <2> QED
    BY <2>1 DEF ProgressOK
<1>3. CASE Ends(o) \/ Creates(o) \/ Revises(o)
  <2>1. /\ \A p \in Requests \ {o} : failed'[p] = failed[p] /\ pc'[p] = pc[p] /\ answer'[p] = answer[p]
        /\ at' = at
        /\ \/ pc'[o] = "done" /\ answer'[o] # "none"
           \/ pc[o] = "write" /\ pc'[o] = "refresh" /\ answer'[o] = answer[o] /\ Refreshes(o)
    BY <1>3 DEF Ends, Creates, Revises, Commit, Finish, AttendanceTypeOK
  <2>2. pc'[o] = "refresh" => failed'[o] = failed[o]
    BY <1>3, <2>1 DEF Ends, Finish, Creates, Revises, Refreshes, AttendanceTypeOK
  <2> QED
    BY <2>1, <2>2 DEF ProgressOK, Refreshes
<1>4. CASE SkipBulk(o)
  <2>1. failed[o] = {Target[o][i] : i \in 1 .. at[o] - 1} /\ pc[o] = "read" /\ answer[o] = "none"
    BY <1>4 DEF SkipBulk, Reading, ProgressOK, AttendanceTypeOK
  <2>2. at[o] \in Nat
    BY DEF AttendanceTypeOK
  <2>3. failed'[o] = {Target[o][i] : i \in 1 .. (at[o] + 1) - 1}
    <3>1. failed'[o] = failed[o] \cup {Target[o][at[o]]}
      BY <1>4 DEF SkipBulk, Person, AttendanceTypeOK
    <3>2. at[o] >= 1
      BY TargetFacts
    <3>3. 1 .. (at[o] + 1) - 1 = (1 .. at[o] - 1) \cup {at[o]}
      BY <2>2, <3>2
    <3> QED
      BY <2>1, <3>1, <3>3
  <2>4. \A p \in Requests \ {o} : /\ failed'[p] = failed[p] /\ pc'[p] = pc[p]
                                  /\ answer'[p] = answer[p] /\ at'[p] = at[p]
    BY <1>4 DEF SkipBulk, Finish, AttendanceTypeOK
  <2>5. \/ pc'[o] = "done" /\ answer'[o] = "ok"
        \/ pc'[o] = "read" /\ answer'[o] = "none" /\ at'[o] = at[o] + 1
    BY <1>4, <2>1 DEF SkipBulk, Finish, AttendanceTypeOK
  <2> QED
    BY <2>3, <2>4, <2>5 DEF ProgressOK
<1> QED
  BY <1>1, <1>2, <1>3, <1>4

-------------------------------------------------------------------------------
(* Attendance records: undisturbed students                                *)

\* Only a request that works on a student touches what is said of the student.
Touches(o, s) == Working(o) /\ s \in Everyone(o)

LEMMA RowsFinite ==
    ASSUME AttendanceTypeOK, NEW s
    PROVE  IsFiniteSet(Rows(s))
<1>1. IsFiniteSet(DOMAIN records)
  BY LenProperties, FS_Interval DEF AttendanceTypeOK
<1> QED
  BY <1>1, FS_Subset DEF Rows

\* The student's rows are changed by nobody but a request on the student.
LEMMA OthersRows ==
    ASSUME AttendanceTypeOK, SeenOK, NEW o \in Requests, Creates(o) \/ Revises(o),
           NEW s \in Students, ~Touches(o, s)
    PROVE  /\ Rows(s)' = Rows(s)
           /\ \A i \in Rows(s) : records'[i].status = records[i].status
                                 /\ records'[i].trail = records[i].trail
<1>1. Person(o) # s /\ s \notin Rest(o)
  BY TargetFacts DEF Touches, Working, Creates, Revises
<1>2. CASE Creates(o)
  BY <1>1, <1>2, CreatesRows DEF Rows
<1>3. CASE Revises(o)
  <2>1. seen[o].id \in DOMAIN records /\ records[seen[o].id].student = Person(o)
    BY <1>3, SeenFacts DEF Revises
  <2>2. ASSUME NEW i \in Rows(s)
        PROVE  i \in DOMAIN records \ Updates(o)
    BY <1>1, <2>1 DEF Rows, Updates
  <2> QED
    BY <1>3, <2>2, RevisesRows DEF Revises, Kept
<1> QED
  BY <1>2, <1>3

\* Exactness is about the status and the trail.
LEMMA ExactSame ==
    ASSUME NEW a, NEW b, b.status = a.status, b.trail = a.trail
    PROVE  Exact(b) <=> Exact(a)
BY DEF Exact

LEMMA UndisturbedStep ==
    ASSUME AttendanceTypeOK, SeenOK, UndisturbedOK, AttendanceNext
    PROVE  UndisturbedOK'
<1>1. PICK o \in Requests :
         Begin(o) \/ Ends(o) \/ LooksUp(o) \/ SkipBulk(o) \/ Creates(o) \/ Revises(o)
  BY AttendanceEffects
<1> SUFFICES ASSUME NEW s \in Students \ disturbed'
             PROVE  /\ \A p, q \in Requests :
                         Touches(p, s)' /\ Touches(q, s)' => p = q
                    /\ \A p \in Requests : pc'[p] = "write" /\ Person(p)' = s =>
                         IF seen'[p] = NoRow THEN Rows(s)' = {}
                         ELSE records'[seen'[p].id].status = seen'[p].status
                    /\ \A i, j \in Rows(s)' : i = j
                    /\ \A i \in Rows(s)' : Exact(records'[i])
  BY DEF UndisturbedOK, Touches
<1>2. disturbed \subseteq disturbed'
  BY <1>1, FoundRow DEF Begin, Ends, SkipBulk, Creates, Revises, Commit
<1>3. /\ \A p, q \in Requests : Touches(p, s) /\ Touches(q, s) => p = q
      /\ \A p \in Requests : pc[p] = "write" /\ Person(p) = s =>
           IF seen[p] = NoRow THEN Rows(s) = {}
           ELSE records[seen[p].id].status = seen[p].status
      /\ \A i, j \in Rows(s) : i = j
      /\ \A i \in Rows(s) : Exact(records[i])
  BY <1>2 DEF UndisturbedOK, Touches
<1>4. \A p \in Requests \ {o} : /\ pc'[p] = pc[p] /\ at'[p] = at[p] /\ seen'[p] = seen[p]
                                /\ Person(p)' = Person(p)
  BY <1>1, FoundRow DEF Begin, Ends, Finish, SkipBulk, Creates, Revises, Commit, Person,
                        AttendanceTypeOK
<1>5. ASSUME NEW p \in Requests, NEW q \in Requests, Touches(p, s)', Touches(q, s)'
      PROVE  p = q
  <2>1. CASE Begin(o)
    <3>1. ASSUME NEW r \in Requests, r # o, Touches(r, s)'
          PROVE  Touches(r, s) /\ ~Touches(o, s)'
      <4>1. Touches(r, s)
        BY <1>4, <3>1 DEF Touches, Working, Everyone
      <4> QED
        BY <2>1, <3>1, <4>1 DEF Begin, Touches, Everyone
    <3> QED
      BY <1>3, <1>5, <3>1
  <2>2. CASE ~Begin(o)
    <3>1. \A r \in Requests : Touches(r, s)' => Touches(r, s)
      BY <1>1, <1>4, <2>2, FoundRow DEF Ends, Finish, SkipBulk, Reading, LooksUp, Creates, Revises,
                                        Commit, Touches, Working, Everyone, AttendanceTypeOK
    <3> QED
      BY <1>3, <1>5, <3>1
  <2> QED
    BY <2>1, <2>2
<1>6. CASE Begin(o) \/ Ends(o) \/ SkipBulk(o)
  <2>1. UNCHANGED <<records, seen>> /\ Rows(s)' = Rows(s)
    BY <1>6 DEF Begin, Ends, SkipBulk, Rows
  <2>2. pc'[o] # "write"
    BY <1>6 DEF Begin, Ends, SkipBulk, Reading, Finish, AttendanceTypeOK
  <2>3. ASSUME NEW p \in Requests, pc'[p] = "write", Person(p)' = s
        PROVE  IF seen'[p] = NoRow THEN Rows(s)' = {}
               ELSE records'[seen'[p].id].status = seen'[p].status
    BY <1>3, <1>4, <2>1, <2>2, <2>3
  <2> QED
    BY <1>3, <1>5, <2>1, <2>3
<1>7. CASE LooksUp(o)
  <2>1. UNCHANGED <<records, at>> /\ Rows(s)' = Rows(s)
    BY <1>7, FoundRow DEF Rows
  <2>2. ASSUME Person(o)' = s
        PROVE  IF seen'[o] = NoRow THEN Rows(s)' = {}
               ELSE records'[seen'[o].id].status = seen'[o].status
    <3>1. Person(o) = s
      BY <2>1, <2>2 DEF Person
    <3>2. CASE seen' = [seen EXCEPT ![o] = NoRow] /\ Rows(Person(o)) = {}
      BY <2>1, <3>1, <3>2 DEF AttendanceTypeOK
    <3>3. CASE \E i \in Rows(Person(o)) :
                 seen' = [seen EXCEPT ![o] = [id |-> i, status |-> records[i].status]]
      <4>1. PICK i \in Rows(Person(o)) : seen'[o] = [id |-> i, status |-> records[i].status]
        BY <3>3 DEF AttendanceTypeOK
      <4> QED
        BY <2>1, <4>1, RowFields
    <3> QED
      BY <1>7, <3>2, <3>3, FoundRow
  <2>3. ASSUME NEW p \in Requests, p # o, pc'[p] = "write", Person(p)' = s
        PROVE  IF seen'[p] = NoRow THEN Rows(s)' = {}
               ELSE records'[seen'[p].id].status = seen'[p].status
    BY <1>3, <1>4, <2>1, <2>3
  <2> QED
    BY <1>3, <1>5, <2>1, <2>2, <2>3
<1>8. CASE Creates(o) \/ Revises(o)
  <2>1. pc'[o] \in {"refresh", "done"} /\ UNCHANGED <<at, seen>> /\ Working(o)
    BY <1>8 DEF Creates, Revises, Commit, Finish, AttendanceTypeOK, Working
  <2>2. CASE ~Touches(o, s)
    <3>1. /\ Rows(s)' = Rows(s)
          /\ \A i \in Rows(s) : records'[i].status = records[i].status
                                /\ records'[i].trail = records[i].trail
      BY <1>8, <2>2, OthersRows
    <3>2. \A i \in Rows(s)' : Exact(records'[i])
      BY <1>3, <3>1, ExactSame
    <3>3. ASSUME NEW p \in Requests, pc'[p] = "write", Person(p)' = s
          PROVE  IF seen'[p] = NoRow THEN Rows(s)' = {}
                 ELSE records'[seen'[p].id].status = seen'[p].status
      <4>1. p # o /\ pc[p] = "write" /\ Person(p) = s /\ seen'[p] = seen[p]
        BY <1>4, <2>1, <3>3
      <4>2. seen[p] # NoRow => seen[p].id \in Rows(s)
        BY <4>1 DEF SeenOK
      <4> QED
        BY <1>3, <3>1, <4>1, <4>2
    <3> QED
      BY <1>3, <1>5, <3>1, <3>2, <3>3
  <2>3. CASE Touches(o, s)
    <3>1. ASSUME NEW p \in Requests, pc'[p] = "write", Person(p)' = s
          PROVE  FALSE
      <4>1. p # o /\ pc[p] = "write" /\ Person(p) = s
        BY <1>4, <2>1, <3>1
      <4>2. Touches(p, s)
        BY <4>1, TargetFacts DEF Touches, Working
      <4> QED
        BY <1>3, <2>3, <4>1, <4>2
    <3>2. CASE Creates(o)
      <4>1. s = Person(o) /\ Rows(s) = {}
        <5>1. Kind[o] # "bulk" /\ pc[o] = "write" /\ seen[o] = NoRow
          BY <3>2 DEF Creates
        <5>2. s = Person(o)
          BY <2>3, <5>1, TargetFacts DEF Touches
        <5> QED
          BY <1>3, <5>1, <5>2
      <4>2. Rows(s)' = {Len(records) + 1} /\ Exact(records'[Len(records) + 1])
        BY <3>2, <4>1, CreatesRows
      <4> QED
        BY <1>5, <3>1, <4>2
    <3>3. CASE Revises(o)
      <4>1. Rows(s)' = Rows(s)
        BY <3>3, RevisesRows
      <4>2. ASSUME NEW i \in Rows(s)
            PROVE  Exact(records'[i])
        <5>1. i \in DOMAIN records /\ records[i].student = s /\ Exact(records[i])
          BY <1>3 DEF Rows
        <5>2. CASE i \in Updates(o)
          <6>1. i = seen[o].id => records[i].status = seen[o].status
            <7>1. i = seen[o].id => Person(o) = s
              BY <3>3, <5>1, SeenFacts DEF Revises
            <7> QED
              BY <1>3, <3>3, <7>1 DEF Revises
          <6>2. records[i].status = SeenOf(o, i)
            BY <6>1 DEF SeenOf
          <6> QED
            BY <3>3, <5>1, <5>2, <6>2 DEF Revises, Logged
        <5>3. CASE i \notin Updates(o)
          <6>1. Kept(records[i], records'[i])
            BY <3>3, <5>1, <5>3 DEF Revises
          <6> QED
            BY <5>1, <6>1, ExactSame DEF Kept
        <5> QED
          BY <5>2, <5>3
      <4> QED
        BY <1>3, <1>5, <3>1, <4>1, <4>2
    <3> QED
      BY <1>8, <3>2, <3>3
  <2> QED
    BY <2>2, <2>3
<1> QED
  BY <1>1, <1>6, <1>7, <1>8

-------------------------------------------------------------------------------
(* Attendance records: answers                                             *)

\* The request o has an entry in the trail of r.
Signed(r, o) == \E k \in DOMAIN r.trail : r.trail[k].by = o

LEMMA LoggedSigned ==
    ASSUME NEW o \in Requests, NEW a \in Row, NEW old, NEW b, Logged(o, a, old, b),
           NEW p \in Requests
    PROVE  Signed(b, p) <=> Signed(a, p) \/ p = o
<1>1. /\ Len(a.trail) \in Nat /\ DOMAIN a.trail = 1 .. Len(a.trail)
      /\ Len(b.trail) \in Nat /\ DOMAIN b.trail = 1 .. Len(b.trail)
      /\ Len(b.trail) > Len(a.trail)
  BY LenProperties DEF Logged, Row
<1>2. DOMAIN a.trail \subseteq DOMAIN b.trail /\ Len(a.trail) + 1 \in DOMAIN b.trail \ DOMAIN a.trail
  BY <1>1
<1> QED
  BY <1>2 DEF Logged, Signed

\* For whom o has logged its work when it revises rows.
LEMMA RevisesSigned ==
    ASSUME AttendanceTypeOK, SeenOK, NEW o \in Requests, Revises(o), NEW i \in DOMAIN records,
           NEW p \in Requests
    PROVE  Signed(records'[i], p) <=> Signed(records[i], p) \/ (p = o /\ i \in Updates(o))
<1>1. records[i] \in Row
  BY LenProperties, ElementOfSeq DEF AttendanceTypeOK
<1>2. CASE i \in Updates(o)
  BY <1>1, <1>2, LoggedSigned DEF Revises
<1>3. CASE i \notin Updates(o)
  BY <1>3 DEF Revises, Kept, Signed
<1> QED
  BY <1>2, <1>3

LEMMA RevisesLogged ==
    ASSUME AttendanceTypeOK, SeenOK, NEW o \in Requests, Revises(o), NEW p \in Requests
    PROVE  LoggedFor(p)' =
             LoggedFor(p) \cup {s \in Students : p = o /\ Rows(s) \cap Updates(o) # {}}
<1>1. ASSUME NEW s \in Students
      PROVE  s \in LoggedFor(p)' <=> s \in LoggedFor(p) \/ (p = o /\ Rows(s) \cap Updates(o) # {})
  <2>1. Rows(s)' = Rows(s) /\ Rows(s) \subseteq DOMAIN records
    BY RevisesRows DEF Rows
  <2>2. s \in LoggedFor(p)' <=> \E i \in Rows(s) : Signed(records'[i], p)
    BY <2>1 DEF LoggedFor, Signed
  <2>3. s \in LoggedFor(p) <=> \E i \in Rows(s) : Signed(records[i], p)
    BY DEF LoggedFor, Signed
  <2> QED
    BY <2>1, <2>2, <2>3, RevisesSigned
<1> QED
  BY <1>1 DEF LoggedFor

LEMMA CreatesLogged ==
    ASSUME AttendanceTypeOK, NEW o \in Requests, Creates(o), NEW p \in Requests
    PROVE  LoggedFor(p)' = LoggedFor(p) \cup {s \in Students : p = o /\ s = Person(o)}
<1> DEFINE n == Len(records) + 1
<1>1. ASSUME NEW s \in Students
      PROVE  s \in LoggedFor(p)' <=> s \in LoggedFor(p) \/ (p = o /\ s = Person(o))
  <2>1. /\ Rows(s)' = IF s = Person(o) THEN Rows(s) \cup {n} ELSE Rows(s)
        /\ \A i \in Rows(s) : records'[i] = records[i]
        /\ Signed(records'[n], p) <=> p = o
    BY CreatesRows DEF Rows, Signed
  <2>2. s \in LoggedFor(p)' <=> \E i \in Rows(s)' : Signed(records'[i], p)
    BY DEF LoggedFor, Signed
  <2>3. s \in LoggedFor(p) <=> \E i \in Rows(s) : Signed(records[i], p)
    BY DEF LoggedFor, Signed
  <2> QED
    BY <2>1, <2>2, <2>3
<1> QED
  BY <1>1 DEF LoggedFor

\* The students of a request are those before the one it is at, that one, and
\* the rest.
LEMMA EveryoneParts ==
    ASSUME AttendanceTypeOK, NEW o \in Requests
    PROVE  LET before == {Target[o][i] : i \in 1 .. at[o] - 1}
           IN  /\ Everyone(o) = before \cup {Person(o)} \cup Rest(o)
               /\ Person(o) \notin before /\ Person(o) \notin Rest(o)
               /\ before \cap Rest(o) = {}
<1>1. /\ Len(Target[o]) \in Nat /\ DOMAIN Target[o] = 1 .. Len(Target[o])
      /\ at[o] \in 1 .. Len(Target[o])
  BY TargetFacts
<1>2. \A i, j \in 1 .. Len(Target[o]) : Target[o][i] = Target[o][j] => i = j
  BY <1>1, RequestAssumption
<1> DEFINE before == {Target[o][i] : i \in 1 .. at[o] - 1}
<1>3. Person(o) \notin before
  <2> SUFFICES ASSUME NEW i \in 1 .. at[o] - 1
               PROVE  Target[o][i] # Target[o][at[o]]
    BY DEF Person
  <2>1. i \in 1 .. Len(Target[o]) /\ i # at[o]
    BY <1>1
  <2> QED
    BY <1>1, <1>2, <2>1
<1>4. Person(o) \notin Rest(o)
  <2> SUFFICES ASSUME NEW i \in (at[o] + 1) .. Len(Target[o])
               PROVE  Target[o][i] # Target[o][at[o]]
    BY DEF Person, Rest
  <2>1. i \in 1 .. Len(Target[o]) /\ i # at[o]
    BY <1>1
  <2> QED
    BY <1>1, <1>2, <2>1
<1>5. before \cap Rest(o) = {}
  <2> SUFFICES ASSUME NEW i \in 1 .. at[o] - 1, NEW j \in (at[o] + 1) .. Len(Target[o])
               PROVE  Target[o][i] # Target[o][j]
    BY DEF Rest
  <2>1. i \in 1 .. Len(Target[o]) /\ j \in 1 .. Len(Target[o]) /\ i # j
    BY <1>1
  <2> QED
    BY <1>2, <2>1
<1>6. Everyone(o) = before \cup {Person(o)} \cup Rest(o)
  <2>1. 1 .. Len(Target[o]) = (1 .. at[o] - 1) \cup {at[o]} \cup ((at[o] + 1) .. Len(Target[o]))
    BY <1>1
  <2> QED
    BY <1>1, <2>1 DEF Everyone, Person, Rest
<1> QED
  BY <1>3, <1>4, <1>5, <1>6

LEMMA AnswersStep ==
    ASSUME AttendanceTypeOK, SeenOK, ProgressOK, AllOrNothing, AttendanceNext
    PROVE  AllOrNothing'
<1>1. PICK o \in Requests :
         Begin(o) \/ Ends(o) \/ LooksUp(o) \/ SkipBulk(o) \/ Creates(o) \/ Revises(o)
  BY AttendanceEffects
<1> SUFFICES ASSUME NEW p \in Requests, Kind[p] # "checkout"
             PROVE  /\ answer'[p] = "ok" \/ pc'[p] = "refresh" =>
                         LoggedFor(p)' = Everyone(p) \ failed'[p]
                    /\ answer'[p] \in {"already", "refused"} \/ pc'[p] \in {"idle", "read", "write"} =>
                         LoggedFor(p)' = {}
                    /\ answer'[p] = "error" =>
                         LoggedFor(p)' = {} \/ (Refreshes(p) /\ LoggedFor(p)' = Everyone(p))
  BY DEF AllOrNothing, Everyone, Refreshes
<1>2. /\ answer[p] = "ok" \/ pc[p] = "refresh" => LoggedFor(p) = Everyone(p) \ failed[p]
      /\ answer[p] \in {"already", "refused"} \/ pc[p] \in {"idle", "read", "write"} =>
           LoggedFor(p) = {}
      /\ answer[p] = "error" =>
           LoggedFor(p) = {} \/ (Refreshes(p) /\ LoggedFor(p) = Everyone(p))
  BY DEF AllOrNothing
<1>3. pc[o] # "done" => answer[o] = "none" /\ failed[o] = {Target[o][i] : i \in 1 .. at[o] - 1}
  BY DEF ProgressOK
<1>4. CASE Begin(o) \/ Ends(o) \/ LooksUp(o) \/ SkipBulk(o)
  <2>1. LoggedFor(p)' = LoggedFor(p)
    <3>1. UNCHANGED records
      BY <1>4, FoundRow DEF Begin, Ends, SkipBulk
    <3> QED
      BY <3>1 DEF LoggedFor, Rows
  <2>2. CASE p # o
    <3>1. answer'[p] = answer[p] /\ failed'[p] = failed[p] /\ pc'[p] = pc[p]
      BY <1>4, <2>2, FoundRow DEF Begin, Ends, SkipBulk, Finish, AttendanceTypeOK
    <3> QED
      BY <1>2, <2>1, <3>1
  <2>3. CASE (Begin(o) \/ LooksUp(o)) /\ p = o
    <3>1. /\ pc[o] \in {"idle", "read"} /\ pc'[o] \in {"read", "write"}
          /\ answer'[o] = answer[o] /\ answer[o] = "none"
      BY <1>3, <2>3, FoundRow DEF Begin, LooksUp, AttendanceTypeOK
    <3> QED
      BY <1>2, <2>1, <2>3, <3>1
  <2>4. CASE Ends(o) /\ p = o
    <3>1. pc'[o] = "done" /\ failed'[o] = failed[o]
      BY <2>4 DEF Ends, Finish, AttendanceTypeOK
    <3>2. CASE Working(o) /\ \E how \in {"already", "refused", "error"} : Finish(o, how)
      BY <1>2, <2>1, <2>4, <3>1, <3>2 DEF Working, Finish, AttendanceTypeOK
    <3>3. CASE pc[o] = "refresh" /\ \E how \in {"ok", "error"} : Finish(o, how)
      <4>1. Refreshes(o) /\ answer'[o] \in {"ok", "error"}
        BY <3>3 DEF ProgressOK, Finish, AttendanceTypeOK
      <4>2. failed[o] = {}
        <5>1. at[o] = 1
          BY <4>1, TargetFacts DEF Refreshes
        <5> QED
          BY <1>3, <3>3, <5>1
      <4> QED
        BY <1>2, <2>1, <2>4, <3>1, <3>3, <4>1, <4>2
    <3> QED
      BY <2>4, <3>2, <3>3 DEF Ends
  <2>5. CASE SkipBulk(o) /\ p = o
    <3>1. answer[o] = "none" /\ LoggedFor(o) = {} /\ pc[o] = "read"
      BY <1>2, <1>3, <2>5 DEF SkipBulk, Reading
    <3>2. CASE answer' = answer /\ pc' = pc
      BY <2>1, <2>5, <3>1, <3>2
    <3>3. CASE at[o] = Len(Target[o]) /\ Finish(o, "ok")
      <4>1. Rest(o) = {} /\ failed'[o] = failed[o] \cup {Person(o)}
        BY <2>5, <3>3, TargetFacts DEF SkipBulk, Rest, AttendanceTypeOK
      <4>2. Everyone(o) \ failed'[o] = {}
        BY <1>3, <2>5, <4>1, EveryoneParts DEF SkipBulk, Reading
      <4>3. answer'[o] = "ok" /\ pc'[o] = "done"
        BY <3>3 DEF Finish, AttendanceTypeOK
      <4> QED
        BY <2>1, <2>5, <3>1, <4>2, <4>3
    <3> QED
      BY <2>5, <3>2, <3>3 DEF SkipBulk
  <2> QED
    BY <1>4, <2>2, <2>3, <2>4, <2>5
<1>5. CASE Creates(o) \/ Revises(o)
  <2>1. /\ pc[o] = "write" /\ answer[o] = "none"
        /\ \/ answer'[o] = "ok" /\ pc'[o] = "done"
           \/ answer'[o] = "none" /\ pc'[o] = "refresh"
        /\ \A q \in Requests \ {o} :
             answer'[q] = answer[q] /\ failed'[q] = failed[q] /\ pc'[q] = pc[q]
    BY <1>3, <1>5 DEF Creates, Revises, Commit, Finish, AttendanceTypeOK
  <2>2. CASE p # o
    <3>1. CASE Creates(o)
      <4>1. LoggedFor(p)' = LoggedFor(p)
        BY <2>2, <3>1, CreatesLogged
      <4> QED
        BY <1>2, <2>1, <2>2, <4>1
    <3>2. CASE Revises(o)
      <4>1. LoggedFor(p)' = LoggedFor(p)
        BY <2>2, <3>2, RevisesLogged
      <4> QED
        BY <1>2, <2>1, <2>2, <4>1
    <3> QED
      BY <1>5, <3>1, <3>2
  <2>3. p = o => LoggedFor(o) = {} /\ failed[o] = {Target[o][i] : i \in 1 .. at[o] - 1}
    BY <1>2, <1>3, <2>1
  <2>4. Person(o) \in Students /\ Everyone(o) \subseteq Students
    BY TargetFacts
  <2>5. CASE p = o /\ Creates(o)
    <3>1. LoggedFor(o)' = {Person(o)}
      BY <2>3, <2>4, <2>5, CreatesLogged
    <3>2. failed' = failed /\ Everyone(o) = {Person(o)}
      BY <2>5, TargetFacts DEF Creates
    <3> QED
      BY <2>1, <2>3, <2>5, <3>1, <3>2, EveryoneParts
  <2>6. CASE p = o /\ Revises(o) /\ Kind[o] # "checkout"
    <3>1. LoggedFor(o)' = {s \in Students : Rows(s) \cap Updates(o) # {}}
      BY <2>3, <2>6, RevisesLogged
    <3>2. /\ seen[o].id \in Updates(o) /\ seen[o].id \in Rows(Person(o))
          /\ \A i \in Updates(o) : i = seen[o].id => records[i].student = Person(o)
      BY <2>6, SeenFacts DEF Revises, Updates, Rows
    <3>3. ASSUME NEW s \in Students
          PROVE  Rows(s) \cap Updates(o) # {} <=>
                   s = Person(o) \/ (s \in Rest(o) /\ \E i \in Rows(s) : Rows(s) = {i})
      BY <2>6, <3>2 DEF Updates, Rows
    <3>4. \A s : Twice(Rows(s)) <=> ~(\A i, j \in Rows(s) : i = j)
      BY TwiceMeansTwo, RowsFinite
    <3>5. CASE Kind[o] = "bulk"
      <4>1. failed'[o] = failed[o] \cup {s \in Rest(o) : Twice(Rows(s))}
        BY <2>6, <3>5 DEF Revises, AttendanceTypeOK
      <4>2. \A s \in Rest(o) : (\E i \in Rows(s) : Rows(s) = {i}) <=> ~Twice(Rows(s))
        BY <2>6, <3>4, <3>5 DEF Revises
      <4>3. \A s \in Students : s \in Everyone(o) \ failed'[o] <=>
              s = Person(o) \/ (s \in Rest(o) /\ ~Twice(Rows(s)))
        BY <2>3, <2>6, <4>1, EveryoneParts
      <4> QED
        BY <2>1, <2>4, <2>6, <3>1, <3>3, <4>2, <4>3
    <3>6. CASE Kind[o] # "bulk"
      <4>1. Everyone(o) = {Person(o)} /\ Rest(o) = {} /\ failed' = failed
        BY <2>6, <3>6, TargetFacts DEF Revises
      <4>2. Everyone(o) \ failed'[o] = {Person(o)}
        BY <2>3, <2>6, <4>1, EveryoneParts
      <4> QED
        BY <2>1, <2>4, <2>6, <3>1, <3>3, <4>1, <4>2
    <3> QED
      BY <3>5, <3>6
  <2> QED
    BY <1>5, <2>1, <2>2, <2>5, <2>6 DEF Creates
<1> QED
  BY <1>1, <1>4, <1>5

-------------------------------------------------------------------------------
(* Attendance records: the theorems                                        *)

LEMMA AttendanceInitially == AttendanceInit => AttendanceInv
<1> SUFFICES ASSUME AttendanceInit
             PROVE  AttendanceInv
  OBVIOUS
<1>1. /\ records = <<>> /\ \A o \in Requests : pc[o] = "idle" /\ at[o] = 1
      /\ \A o \in Requests : failed[o] = {} /\ answer[o] = "none"
      /\ \A s : Rows(s) = {}
  BY DEF AttendanceInit, Rows
<1>2. AttendanceTypeOK
  <2>1. \A o \in Requests : 1 \in DOMAIN Target[o]
    <3>1. ASSUME NEW o \in Requests
          PROVE  1 \in DOMAIN Target[o]
      <4>1. Target[o] \in Seq(Students) /\ Target[o] # <<>>
        BY RequestAssumption
      <4> QED
        BY <4>1, LenProperties, EmptySeq
    <3> QED
      BY <3>1
  <2>2. enrollment \in [Students -> Enrollment]
    BY RequestAssumption DEF AttendanceInit
  <2>3. NoRow \in [id : Nat, status : Status \cup {"null"}]
    BY DEF NoRow
  <2>4. seen \in [Requests -> [id : Nat, status : Status \cup {"null"}]]
    BY <2>3 DEF AttendanceInit
  <2> QED
    BY <2>1, <2>2, <2>4 DEF AttendanceInit, AttendanceTypeOK
<1>3. SeenOK /\ ProgressOK
  BY <1>1 DEF SeenOK, ProgressOK
<1>4. UndisturbedOK
  BY <1>1 DEF UndisturbedOK, Working
<1>5. AllOrNothing
  BY <1>1 DEF AllOrNothing, LoggedFor
<1> QED
  BY <1>2, <1>3, <1>4, <1>5 DEF AttendanceInv

LEMMA AttendanceStep == AttendanceInv /\ [AttendanceNext]_attendancevars => AttendanceInv'
<1>1. CASE AttendanceInv /\ AttendanceNext
  BY <1>1, AttendanceTypeStep, SeenStep, ProgressStep, UndisturbedStep, AnswersStep
     DEF AttendanceInv
<1>2. CASE AttendanceInv /\ UNCHANGED attendancevars
  <2>1. AttendanceTypeOK' /\ SeenOK' /\ ProgressOK'
    BY <1>2 DEF attendancevars, AttendanceInv, AttendanceTypeOK, SeenOK, ProgressOK, Rows, Person
  <2>2. UndisturbedOK'
    BY <1>2 DEF attendancevars, AttendanceInv, UndisturbedOK, Rows, Person, Working, Everyone
  <2>3. AllOrNothing'
    BY <1>2 DEF attendancevars, AttendanceInv, AllOrNothing, LoggedFor, Rows, Everyone
  <2> QED
    BY <2>1, <2>2, <2>3 DEF AttendanceInv
<1> QED
  BY <1>1, <1>2

LEMMA AttendanceAlways == AttendanceSpec => []AttendanceInv
BY AttendanceInitially, AttendanceStep, PTL DEF AttendanceSpec

\* The variables of the model keep their types: a row read by a request is of
\* the table, and a bulk update stays inside its list.
THEOREM AttendanceTypes == AttendanceSpec => []AttendanceTypeOK
<1>1. AttendanceInv => AttendanceTypeOK
  BY DEF AttendanceInv
<1> QED
  BY <1>1, AttendanceAlways, PTL

LEMMA UndisturbedExact == AttendanceInv => ExactUnlessDisturbed
<1> SUFFICES ASSUME AttendanceInv, NEW s \in Students \ disturbed
             PROVE  /\ ~Twice(Rows(s))
                    /\ \A i \in Rows(s) :
                         LET t == records[i].trail
                         IN  /\ t[1].action = "create"
                             /\ \A k \in 2 .. Len(t) : t[k].old = t[k - 1].new
                             /\ records[i].status = t[Len(t)].new
  BY DEF ExactUnlessDisturbed
<1>1. AttendanceTypeOK /\ UndisturbedOK
  BY DEF AttendanceInv
<1>2. \A i, j \in Rows(s) : i = j
  BY <1>1 DEF UndisturbedOK
<1>3. ~Twice(Rows(s))
  BY <1>1, <1>2, RowsFinite, TwiceMeansTwo
<1>4. \A i \in Rows(s) : Exact(records[i])
  BY <1>1 DEF UndisturbedOK
<1> QED
  BY <1>3, <1>4 DEF Exact

\* Duplicate rows, lost updates and gaps in the audit trail are all due to
\* requests that overlap on a student: where none did, the student has one row
\* at most and its trail is the exact history of its status.
THEOREM UndisturbedIsExact == AttendanceSpec => []ExactUnlessDisturbed
BY UndisturbedExact, AttendanceAlways, PTL

\* Whatever a request is answered, its work is there as a whole or not at all,
\* and only the error of a check-in or an override leaves it open which.
THEOREM AlwaysAllOrNothing == AttendanceSpec => []AllOrNothing
<1>1. AttendanceInv => AllOrNothing
  BY DEF AttendanceInv
<1> QED
  BY <1>1, AttendanceAlways, PTL

\* The request of a step that changes a status.
LEMMA ChangeHasEntry ==
    ASSUME AttendanceInv, [AttendanceNext]_attendancevars, NEW i \in DOMAIN records,
           records'[i].status # records[i].status
    PROVE  \E k \in DOMAIN records'[i].trail \ DOMAIN records[i].trail :
             /\ records'[i].trail[k].new = records'[i].status
             /\ pc[records'[i].trail[k].by] = "write"
             /\ pc'[records'[i].trail[k].by] # "write"
<1>1. AttendanceTypeOK /\ SeenOK /\ ProgressOK
  BY DEF AttendanceInv
<1>2. AttendanceNext
  BY DEF attendancevars
<1>3. PICK o \in Requests :
         Begin(o) \/ Ends(o) \/ LooksUp(o) \/ SkipBulk(o) \/ Creates(o) \/ Revises(o)
  BY <1>1, <1>2, AttendanceEffects
<1>4. Revises(o)
  <2>1. CASE UNCHANGED records
    BY <2>1
  <2>2. CASE Creates(o)
    BY <1>1, <2>2, CreatesRows
  <2>3. CASE Begin(o) \/ Ends(o) \/ LooksUp(o) \/ SkipBulk(o)
    <3>1. UNCHANGED records
      BY <1>1, <2>3, FoundRow DEF Begin, Ends, SkipBulk
    <3> QED
      BY <2>1, <3>1
  <2> QED
    BY <1>3, <2>2, <2>3
<1>5. Logged(o, records[i], SeenOf(o, i), records'[i])
  BY <1>4 DEF Revises, Kept
<1>6. records[i] \in Row
  BY <1>1, ElementOfSeq, LenProperties DEF AttendanceTypeOK
<1> DEFINE k == Len(records[i].trail) + 1
<1>7. k \in DOMAIN records'[i].trail \ DOMAIN records[i].trail
  BY <1>5, <1>6, LenProperties DEF Logged, Row
<1>8. records'[i].trail[k].new = records'[i].status /\ records'[i].trail[k].by = o
  BY <1>5, <1>7 DEF Logged
<1>9. pc[o] = "write" /\ pc'[o] # "write"
  BY <1>1, <1>4 DEF Revises, Commit, Finish, AttendanceTypeOK
<1> QED
  BY <1>7, <1>8, <1>9

\* However requests overlap, a status changes only with an entry for the change
\* by the request that commits.
THEOREM NoChangeUnlogged == AttendanceSpec => ChangesLogged
<1>1. AttendanceInv /\ [AttendanceNext]_attendancevars =>
        [\A i \in DOMAIN records :
           records'[i].status # records[i].status =>
             \E k \in DOMAIN records'[i].trail \ DOMAIN records[i].trail :
               /\ records'[i].trail[k].new = records'[i].status
               /\ pc[records'[i].trail[k].by] = "write"
               /\ pc'[records'[i].trail[k].by] # "write"]_attendancevars
  BY ChangeHasEntry
<1> QED
  BY <1>1, AttendanceAlways, PTL DEF AttendanceSpec, ChangesLogged

\* What a step does to a student with two rows and no request about to write.
LEMMA FrozenStays ==
    ASSUME AttendanceInv, [AttendanceNext]_attendancevars, NEW s \in Students, Frozen(s)
    PROVE  /\ Frozen(s)'
           /\ \A i \in Rows(s) : records'[i].status = records[i].status
<1>1. AttendanceTypeOK /\ SeenOK
  BY DEF AttendanceInv
<1>2. CASE UNCHANGED attendancevars
  <2>1. UNCHANGED <<records, pc, at>> /\ Rows(s)' = Rows(s)
    BY <1>2 DEF attendancevars, Rows
  <2>2. \A o \in Requests : Person(o)' = Person(o)
    BY <2>1 DEF Person
  <2> QED
    BY <2>1, <2>2 DEF Frozen, Twice
<1>3. CASE AttendanceNext
  <2>1. PICK o \in Requests :
           Begin(o) \/ Ends(o) \/ LooksUp(o) \/ SkipBulk(o) \/ Creates(o) \/ Revises(o)
    BY <1>1, <1>3, AttendanceEffects
  <2>2. \A p \in Requests \ {o} : pc'[p] = pc[p] /\ Person(p)' = Person(p)
    BY <1>1, <2>1, FoundRow DEF Begin, Ends, Finish, SkipBulk, Creates, Revises, Commit, Person,
                          AttendanceTypeOK
  <2>3. /\ Rows(s) \subseteq Rows(s)' /\ (~Creates(o) => Rows(s)' = Rows(s))
        /\ \A i \in Rows(s) : records'[i].status = records[i].status
    <3>1. CASE UNCHANGED records
      BY <3>1 DEF Rows
    <3>2. CASE Creates(o)
      BY <1>1, <3>2, CreatesRows DEF Rows
    <3>3. CASE Revises(o)
      <4>1. ASSUME NEW i \in Rows(s), Kind[o] # "checkout"
            PROVE  i \notin Updates(o)
        <5>1. i # seen[o].id
          <6>1. pc[o] = "write" /\ Person(o) # s
            BY <3>3, <4>1 DEF Revises, Frozen
          <6>2. records[seen[o].id].student = Person(o)
            BY <1>1, <3>3, SeenFacts DEF Revises
          <6> QED
            BY <6>1, <6>2 DEF Rows
        <5>2. Rows(s) # {i}
          <6>1. Twice(Rows(s)) /\ ~Twice({i})
            BY FS_Singleton DEF Frozen, Twice
          <6> QED
            BY <6>1
        <5> QED
          BY <5>1, <5>2 DEF Updates, Rows
      <4>2. \A i \in Rows(s) : i \in DOMAIN records \ Updates(o)
        BY <4>1 DEF Updates, Rows
      <4> QED
        BY <1>1, <3>3, <4>2, RevisesRows DEF Revises, Kept
    <3> QED
      BY <1>1, <2>1, <3>1, <3>2, <3>3, FoundRow DEF Begin, Ends, SkipBulk, Creates, Revises
  <2>4. Twice(Rows(s)')
    <3>1. PICK i \in Rows(s), j \in Rows(s) : i # j
      BY <1>1, RowsFinite, TwiceMeansTwo DEF Frozen
    <3>2. records' \in Seq(Row)
      BY <1>1, <1>3, AttendanceTypeStep DEF AttendanceTypeOK
    <3>3. IsFiniteSet(Rows(s)')
      <4>1. IsFiniteSet(DOMAIN records')
        BY <3>2, LenProperties, FS_Interval
      <4> QED
        BY <4>1, FS_Subset DEF Rows
    <3> QED
      BY <2>3, <3>1, <3>3, TwiceMeansTwo
  <2>5. pc'[o] = "write" /\ Kind[o] # "checkout" => Person(o)' # s
    BY <1>1, <2>1, FoundRow DEF Begin, Ends, Finish, SkipBulk, Reading, Creates, Revises, Commit,
                                LooksUp, Found, Frozen, Person, AttendanceTypeOK
  <2> QED
    BY <2>2, <2>3, <2>4, <2>5 DEF Frozen
<1> QED
  BY <1>2, <1>3

\* Once a student has two rows and the requests that read the first are
\* through, no request changes the status of either.
THEOREM NobodyRepairsDuplicates == AttendanceSpec => DuplicatesFrozen
<1>1. AttendanceInv /\ [AttendanceNext]_attendancevars =>
        [\A s \in Students : Frozen(s) =>
           /\ Frozen(s)'
           /\ \A i \in Rows(s) : records'[i].status = records[i].status]_attendancevars
  BY FrozenStays
<1> QED
  BY <1>1, AttendanceAlways, PTL DEF AttendanceSpec, DuplicatesFrozen

-------------------------------------------------------------------------------
(* Retention: the invariant                                                *)

\* Schedules are used in the order of their numbers.
UsedOK ==
    /\ \E n \in 0 .. MaxSchedules : Used = 1 .. n
    /\ \A s \in Used : row[s].status # "none"

\* A session that grants or revokes an exemption has a schedule.  One that grants
\* leaves the status alone only if that is still the one of an exemption, or it
\* was overtaken.
GrantsOK ==
    \A e \in Engines :
        /\ job[e].op \in {"grant", "revoke"} => job[e].at \in Used
        /\ job[e].op = "grant" /\ ~job[e].overtaken /\ job[e].saw = "exempted" =>
             row[job[e].at].status = "exempted"

\* The job j does not write an exempted schedule: it has none on a list that it
\* will not look at again, gives none up, and is at none but to grant or revoke.
Harmless(j) ==
    \A s \in exempted :
        /\ s \in j.todo => j.op = "purge" /\ ~j.stale
        /\ s \notin j.failing
        /\ s = j.at => j.op \in {"grant", "revoke"}

\* Hence an exempted schedule stays so, and its record is purged by its twin only.
ExemptedOK ==
    /\ \A e \in Engines : Harmless(job[e])
    /\ \A s \in exempted :
         /\ row[s].status = "exempted" /\ ~row[s].expired
         /\ row[s].record \in stored \/ Twin(s)

\* The inductive invariant.
RetentionInv == RetentionTypeOK /\ UsedOK /\ GrantsOK /\ ExemptedOK

-------------------------------------------------------------------------------
(* Retention: what a step does                                             *)

\* Which schedules a job has in hand.
InHand(j) == j.todo \cup j.failing \cup {j.at}

\* The session of e reads and takes up the job j: nothing else changes.
TakesUp(e, j) ==
    /\ j \in JobStates
    /\ job' = [job EXCEPT ![e] = j]
    /\ UNCHANGED <<stored, age, policy, row, running, jobs, exempted>>
    /\ failures' \in 0 .. MaxFailures
    /\ InHand(j) \subseteq Used \cup {NoSchedule}
    /\ j.op \in {"grant", "revoke"} => j.at \in Used
    /\ j.op = "grant" /\ j.saw = "exempted" => row[j.at].status = "exempted"
    /\ Harmless(j)

\* The session of e commits changes of the schedules S and goes on with j.  It
\* may delete the record of one, and one is exempted after that only by a grant
\* which nobody is about to overwrite.
Changes(e, S, j) ==
    /\ j \in JobStates
    /\ Writes(e, S, j)
    /\ UNCHANGED <<age, policy, running, jobs>> /\ failures' \in 0 .. MaxFailures
    /\ S \subseteq Used \/ (S = {Cardinality(Used) + 1} /\ S \subseteq Schedules)
    /\ row' \in [Schedules -> ScheduleRows]
    /\ \A t \in S : row'[t].status # "none" /\ (t \in Used => row'[t].record = row[t].record)
    /\ \A t \in Schedules \ S : row'[t] = row[t]
    /\ stored' = stored \/ \E s \in S \cap Used : stored' = stored \ {row[s].record}
    /\ j.op \notin {"grant", "revoke"} /\ InHand(j) \subseteq Used \cup {NoSchedule} /\ Harmless(j)
    /\ \/ exempted' = exempted \ S
       \/ \E s \in Used :
            /\ S = {s} /\ exempted' = exempted \cup {s}
            /\ row'[s].status = "exempted" /\ ~row'[s].expired /\ row[s].record \in stored'
            /\ s \notin InHand(j)
            /\ \A x \in Engines \ {e} : ~WillWrite(x, s)

LEMMA UsedFacts ==
    ASSUME RetentionTypeOK, UsedOK
    PROVE  /\ Used \subseteq Schedules /\ IsFiniteSet(Used) /\ NoSchedule \notin Schedules
           /\ Cardinality(Used) + 1 \notin Used
           /\ Cardinality(Used) + 1 \in Schedules =>
                Used \cup {Cardinality(Used) + 1} = 1 .. Cardinality(Used) + 1
           /\ \A s \in Schedules : row[s].status = "none" => s \notin Used
           /\ exempted \subseteq Used
<1>1. PICK n \in 0 .. MaxSchedules : Used = 1 .. n
  BY DEF UsedOK
<1>2. n \in Nat /\ IsFiniteSet(1 .. n) /\ Cardinality(1 .. n) = n
  BY RetentionAssumption, FS_Interval
<1>3. /\ Used \subseteq Schedules /\ NoSchedule \notin Schedules /\ exempted \subseteq Used
      /\ \A s \in Schedules : row[s].status = "none" => s \notin Used
  BY DEF UsedOK, Used, Schedules, NoSchedule, RetentionTypeOK
<1>4. IsFiniteSet(Used) /\ Cardinality(Used) = n
  BY <1>1, <1>2
<1>5. n + 1 \notin 1 .. n /\ (1 .. n) \cup {n + 1} = 1 .. n + 1
  BY <1>2
<1> QED
  BY <1>1, <1>3, <1>4, <1>5

LEMMA RequestReads ==
    ASSUME RetentionInv, NEW e \in Engines, RequestStep(e)
    PROVE  \E j : TakesUp(e, j)
<1>1. RetentionTypeOK /\ UsedOK /\ ExemptedOK /\ RetentionTypeOK
  BY DEF RetentionInv
<1>2. Used \subseteq Schedules /\ NoSchedule \notin Schedules /\ exempted \subseteq Used
  BY <1>1, UsedFacts
<1>3. ASSUME NEW j \in JobStates, Request(e, j), j.todo = {}, j.failing = {},
             j.at \in Used \cup {NoSchedule},
             j.op \in {"grant", "revoke"} => j.at \in Used,
             j.op = "grant" /\ j.saw = "exempted" => row[j.at].status = "exempted",
             j.at \in exempted => j.op \in {"grant", "revoke"}
      PROVE  TakesUp(e, j)
  BY <1>1, <1>3 DEF Request, TakesUp, InHand, Harmless, world, daemons, RetentionTypeOK
<1>8. \A s \in Schedules, S \in SUBSET Statuses :
        Saw(s, S) \in Statuses /\ (Saw(s, S) = "exempted" => row[s].status = "exempted")
  BY DEF Saw, Statuses
<1>4. ASSUME NEW r \in Records, ScheduleReads(e, r)
      PROVE  \E j : TakesUp(e, j)
  <2> DEFINE j == [Free EXCEPT !.op = "schedule", !.record = r]
  <2>1. j \in JobStates /\ j.todo = {} /\ j.failing = {} /\ j.at = NoSchedule /\ j.op = "schedule"
    BY DEF Free, JobStates, Statuses
  <2>2. Request(e, j)
    BY <1>4 DEF ScheduleReads
  <2> HIDE DEF j
  <2> QED
    BY <1>2, <1>3, <2>1, <2>2
<1>5. ASSUME NEW s \in Schedules, GrantReads(e, s)
      PROVE  \E j : TakesUp(e, j)
  <2> DEFINE j == [Free EXCEPT !.op = "grant", !.at = s, !.saw = Saw(s, {"exempted"})]
  <2>3. {"exempted"} \in SUBSET Statuses
    BY DEF Statuses
  <2>1. /\ j \in JobStates /\ j.todo = {} /\ j.failing = {} /\ j.at = s /\ j.op = "grant"
        /\ j.saw = "exempted" => row[s].status = "exempted"
    BY <1>8, <2>3 DEF Free, JobStates, Statuses
  <2>2. Request(e, j) /\ s \in Used
    BY <1>5 DEF GrantReads
  <2> HIDE DEF j
  <2> QED
    BY <1>3, <2>1, <2>2
<1>6. ASSUME NEW s \in Schedules, RevokeReads(e, s)
      PROVE  \E j : TakesUp(e, j)
  <2> DEFINE j == [Free EXCEPT !.op = "revoke", !.at = s]
  <2>1. j \in JobStates /\ j.todo = {} /\ j.failing = {} /\ j.at = s /\ j.op = "revoke"
    BY DEF Free, JobStates, Statuses
  <2>2. Request(e, j) /\ s \in Used
    BY <1>6 DEF RevokeReads
  <2> HIDE DEF j
  <2> QED
    BY <1>3, <2>1, <2>2
<1>7. ASSUME NEW s \in Schedules, ManualReads(e, s)
      PROVE  \E j : TakesUp(e, j)
  <2> DEFINE j == [Free EXCEPT !.op = "manual", !.at = s, !.saw = Saw(s, Over)]
  <2>3. Over \in SUBSET Statuses
    BY DEF Over, Statuses
  <2>1. j \in JobStates /\ j.todo = {} /\ j.failing = {} /\ j.at = s /\ j.op = "manual"
    BY <1>8, <2>3 DEF Free, JobStates, Statuses
  <2>2. Request(e, j) /\ s \in Used /\ s \notin exempted
    BY <1>1, <1>7 DEF ManualReads, ExemptedOK
  <2> HIDE DEF j
  <2> QED
    BY <1>3, <2>1, <2>2
<1> QED
  BY <1>4, <1>5, <1>6, <1>7 DEF RequestStep

LEMMA JobReads ==
    ASSUME RetentionInv, NEW e \in Engines,
           \/ \E op \in {"warn", "run"} : StartJob(e, op)
           \/ ReadDue(e) \/ SessionFails(e) \/ PurgeFails(e)
           \/ \E s \in Schedules : CheckExemption(e, s) \/ PassesOver(e, s)
    PROVE  \E j : TakesUp(e, j)
<1>1. RetentionTypeOK /\ UsedOK /\ ExemptedOK
  BY DEF RetentionInv
<1>2. Used \subseteq Schedules /\ NoSchedule \notin Schedules /\ exempted \subseteq Used
  BY <1>1, UsedFacts
<1>3. /\ job[e] \in JobStates /\ InHand(job[e]) \subseteq Used \cup {NoSchedule}
      /\ Harmless(job[e]) /\ failures \in 0 .. MaxFailures
  BY <1>1 DEF RetentionTypeOK, ExemptedOK, InHand
<1>11. SomethingFails => failures' \in 0 .. MaxFailures
  BY <1>3, RetentionAssumption DEF SomethingFails
<1>4. ASSUME NEW j \in JobStates, job' = [job EXCEPT ![e] = j],
             UNCHANGED <<stored, row, exempted, age, policy, daemons>>,
             UNCHANGED failures \/ SomethingFails,
             InHand(j) \subseteq Used \cup {NoSchedule},
             j.op \notin {"grant", "revoke"}, Harmless(j)
      PROVE  TakesUp(e, j)
  BY <1>3, <1>4, <1>11 DEF TakesUp, daemons
<1>5. ASSUME NEW op \in {"warn", "run"}, StartJob(e, op)
      PROVE  \E j : TakesUp(e, j)
  <2> DEFINE j == [Free EXCEPT !.op = op, !.todo = DueForWarning]
  <2>1. DueForWarning \subseteq Used \ exempted
    BY <1>1 DEF DueForWarning, ExemptedOK
  <2>2. /\ j \in JobStates /\ j.todo = DueForWarning /\ j.failing = {}
        /\ j.at = NoSchedule /\ j.op = op
    BY <1>2, <2>1 DEF Free, JobStates, Statuses
  <2>3. job' = [job EXCEPT ![e] = j] /\ UNCHANGED <<stored, row, exempted, world>>
    BY <1>5 DEF StartJob
  <2> HIDE DEF j
  <2>4. Harmless(j)
    BY <1>2, <2>1, <2>2 DEF Harmless
  <2> QED
    BY <1>4, <2>1, <2>2, <2>3, <2>4 DEF world, InHand
<1>6. ASSUME ReadDue(e)
      PROVE  \E j : TakesUp(e, j)
  <2> DEFINE j == [Free EXCEPT !.op = "purge", !.stale = TRUE, !.todo = DueForPurge]
  <2>1. DueForPurge \subseteq Used \ exempted
    BY <1>1 DEF DueForPurge, ExemptedOK
  <2>2. /\ j \in JobStates /\ j.todo = DueForPurge /\ j.failing = {}
        /\ j.at = NoSchedule /\ j.op = "purge"
    BY <1>2, <2>1 DEF Free, JobStates, Statuses
  <2>3. job' = [job EXCEPT ![e] = j] /\ UNCHANGED <<stored, row, exempted, world>>
    BY <1>6 DEF ReadDue
  <2> HIDE DEF j
  <2>4. Harmless(j)
    BY <1>2, <2>1, <2>2 DEF Harmless
  <2> QED
    BY <1>4, <2>1, <2>2, <2>3, <2>4 DEF world, InHand
<1>7. /\ Free \in JobStates /\ Free.op = "free" /\ Harmless(Free)
      /\ InHand(Free) \subseteq Used \cup {NoSchedule}
  BY <1>2 DEF Free, JobStates, Statuses, Harmless, InHand
<1>9. ASSUME SessionFails(e)
      PROVE  TakesUp(e, Free)
  BY <1>4, <1>7, <1>9 DEF SessionFails
<1>8. ASSUME PurgeFails(e)
      PROVE  \E j : TakesUp(e, j)
  <2> DEFINE s == job[e].at
             F == IF job[e].saw = "failed" THEN job[e].failing ELSE job[e].failing \cup {s}
             j == [Onward(e) EXCEPT !.failing = F]
  <2>1. /\ job[e].op \in {"purge", "manual"} /\ s # NoSchedule /\ SomethingFails
        /\ UNCHANGED <<stored, row, exempted, age, policy, daemons>>
    BY <1>8 DEF PurgeFails
  <2>2. s \in Used /\ s \notin exempted
    BY <1>3, <2>1 DEF InHand, Harmless
  <2>3. /\ F \subseteq job[e].failing \cup {s} /\ F \subseteq Schedules
    BY <1>2, <1>3, <2>2 DEF JobStates
  <2>4. job' = [job EXCEPT ![e] = j]
    <3>1. j = [Onward(e) EXCEPT !.failing = IF job[e].saw = "failed" THEN @ ELSE @ \cup {job[e].at}]
      BY <1>3 DEF Onward, JobStates
    <3> QED
      BY <1>8, <3>1 DEF PurgeFails
  <2> HIDE DEF F, s
  <2>5. /\ j \in JobStates /\ j.todo = job[e].todo \ {job[e].at} /\ j.failing = F
        /\ j.at = NoSchedule /\ j.op = job[e].op /\ j.stale = job[e].stale
    BY <1>3, <2>3 DEF Onward, JobStates, Statuses
  <2> HIDE DEF j
  <2>6. Harmless(j)
    BY <1>2, <1>3, <2>2, <2>3, <2>5 DEF Harmless, s
  <2>7. InHand(j) \subseteq Used \cup {NoSchedule}
    BY <1>3, <2>2, <2>3, <2>5 DEF InHand
  <2> QED
    BY <1>4, <2>1, <2>4, <2>5, <2>6, <2>7
<1>12. ASSUME NEW s \in Schedules, PassesOver(e, s)
       PROVE  \E j : TakesUp(e, j)
  <2> DEFINE j == [Onward(e) EXCEPT !.todo = Onward(e).todo \ {s}]
  <2>1. /\ job[e].op = "purge" /\ SomethingFails /\ job' = [job EXCEPT ![e] = j]
        /\ UNCHANGED <<stored, row, exempted, age, policy, daemons>>
    BY <1>12 DEF PassesOver
  <2>2. /\ j \in JobStates /\ j.todo \subseteq job[e].todo /\ j.failing = job[e].failing
        /\ j.at = NoSchedule /\ j.op = job[e].op /\ j.stale = job[e].stale
    BY <1>3 DEF Onward, JobStates, Statuses
  <2> HIDE DEF j
  <2>3. Harmless(j)
    BY <1>2, <1>3, <2>2 DEF Harmless
  <2>4. InHand(j) \subseteq Used \cup {NoSchedule}
    BY <1>3, <2>2 DEF InHand
  <2> QED
    BY <1>4, <2>1, <2>2, <2>3, <2>4
<1>10. ASSUME NEW s \in Schedules, CheckExemption(e, s)
       PROVE  \E j : TakesUp(e, j)
  <2>8. /\ job[e].op = "purge" /\ s \in job[e].todo
        /\ UNCHANGED <<stored, row, exempted, world>>
    BY <1>10, Zenon DEF CheckExemption
  <2>1. /\ job[e].op = "purge" /\ s \in job[e].todo /\ s \in Used
        /\ UNCHANGED <<stored, row, exempted, age, policy, daemons, failures>>
    BY <1>2, <1>3, <2>8 DEF InHand, world
  <2> DEFINE j == [job[e] EXCEPT !.todo = @ \ {s}]
             k == [job[e] EXCEPT !.at = s, !.saw = IF job[e].stale THEN "warned" ELSE Saw(s, Over)]
  <2>2. job' = [job EXCEPT ![e] = IF ~job[e].stale /\ Exempt(s) THEN j ELSE k]
    BY <1>10, Zenon DEF CheckExemption
  <2>3. /\ j \in JobStates /\ j.todo = job[e].todo \ {s} /\ j.at = job[e].at /\ j.op = "purge"
        /\ j.stale = job[e].stale /\ j.failing = job[e].failing
    BY <1>3, <2>1 DEF JobStates
  <2>7. (IF job[e].stale THEN "warned" ELSE Saw(s, Over)) \in Statuses
    BY DEF Saw, Over, Statuses
  <2>4. /\ k \in JobStates /\ k.todo = job[e].todo /\ k.at = s /\ k.op = "purge"
        /\ k.stale = job[e].stale /\ k.failing = job[e].failing
    BY <1>3, <2>1, <2>7 DEF JobStates
  <2> HIDE DEF j, k
  <2>5. CASE ~job[e].stale /\ Exempt(s)
    <3>1. Harmless(j)
      BY <1>3, <2>1, <2>3 DEF Harmless
    <3> QED
      BY <1>3, <1>4, <2>1, <2>2, <2>3, <2>5, <3>1 DEF InHand
  <2>6. CASE ~(~job[e].stale /\ Exempt(s))
    <3>1. s \notin exempted
      BY <1>1, <1>3, <2>1, <2>6 DEF Harmless, ExemptedOK, Exempt
    <3>2. Harmless(k)
      BY <1>3, <2>1, <2>4, <3>1 DEF Harmless
    <3> QED
      BY <1>3, <1>4, <2>1, <2>2, <2>4, <2>6, <3>2 DEF InHand
  <2> QED
    BY <2>5, <2>6
<1> QED
  BY <1>5, <1>6, <1>8, <1>9, <1>10, <1>12

LEMMA JobWrites ==
    ASSUME RetentionInv, NEW e \in Engines,
           \/ ScheduleInserts(e) \/ GrantCommits(e) \/ RevokeCommits(e)
           \/ PurgeCommits(e) \/ PurgeUnconfirmed(e) \/ JobEnds(e)
           \/ \E s \in Schedules : WarnOne(e, s)
    PROVE  \E S, j : Changes(e, S, j)
<1>1. RetentionTypeOK /\ UsedOK /\ GrantsOK /\ ExemptedOK
  BY DEF RetentionInv
<1>2. /\ Used \subseteq Schedules /\ NoSchedule \notin Schedules /\ exempted \subseteq Used
      /\ Cardinality(Used) + 1 \notin Used
      /\ \A s \in Used : row[s].status # "none"
  BY <1>1, UsedFacts DEF UsedOK
<1>3. /\ job[e] \in JobStates /\ InHand(job[e]) \subseteq Used \cup {NoSchedule}
      /\ Harmless(job[e]) /\ job[e].record \in Records \cup {"none"}
      /\ row \in [Schedules -> ScheduleRows] /\ failures \in 0 .. MaxFailures
  BY <1>1 DEF RetentionTypeOK, ExemptedOK, JobStates, InHand
<1>4. /\ Free \in JobStates /\ Free.op = "free" /\ Harmless(Free)
      /\ InHand(Free) = {NoSchedule}
  BY <1>2 DEF Free, JobStates, Statuses, Harmless, InHand
<1>11. ASSUME NEW S, NEW j, Commits(e, S, j)
       PROVE  /\ Writes(e, S, j) /\ UNCHANGED <<age, policy, running, jobs>>
              /\ failures' \in 0 .. MaxFailures
  BY <1>3, <1>11 DEF Commits, world, daemons
<1>5. ASSUME ScheduleInserts(e)
      PROVE  \E S, j : Changes(e, S, j)
  <2> DEFINE s == Cardinality(Used) + 1
  <2>1. s \in Schedules /\ Commits(e, {s}, Free) /\ UNCHANGED <<stored, exempted>>
    BY <1>5 DEF ScheduleInserts
  <2>2. row' = [row EXCEPT ![s].record = job[e].record, ![s].status = "scheduled"]
    BY <1>5 DEF ScheduleInserts
  <2> HIDE DEF s
  <2>3. /\ row' \in [Schedules -> ScheduleRows] /\ row'[s].status = "scheduled"
        /\ \A t \in Schedules \ {s} : row'[t] = row[t]
    BY <1>3, <2>1, <2>2 DEF ScheduleRows, Statuses
  <2>4. s \notin Used /\ exempted' = exempted \ {s}
    BY <1>2, <2>1 DEF s
  <2>5. Changes(e, {s}, Free)
    BY <1>4, <1>11, <2>1, <2>3, <2>4 DEF Changes, s
  <2> QED
    BY <2>5
<1>6. ASSUME NEW s \in Used, NEW w \in ScheduleRows, row' = [row EXCEPT ![s] = w],
             w.status # "none", w.record = row[s].record,
             NEW j \in JobStates, Commits(e, {s}, j),
             j.op \notin {"grant", "revoke"},
             InHand(j) \subseteq Used \cup {NoSchedule}, Harmless(j),
             stored' = stored,
             \/ exempted' = exempted \ {s}
             \/ /\ exempted' = exempted \cup {s} /\ w.status = "exempted" /\ ~w.expired
                /\ row[s].record \in stored' /\ s \notin InHand(j)
                /\ \A x \in Engines \ {e} : ~WillWrite(x, s)
      PROVE  Changes(e, {s}, j)
  <2>1. s \in Schedules
    BY <1>2
  <2>2. row' \in [Schedules -> ScheduleRows] /\ row'[s] = w /\ \A t \in Schedules \ {s} : row'[t] = row[t]
    BY <1>3, <1>6, <2>1
  <2> QED
    BY <1>6, <1>11, <2>1, <2>2 DEF Changes
<1>7. ASSUME GrantCommits(e)
      PROVE  \E S, j : Changes(e, S, j)
  <2> DEFINE s == job[e].at
             st == IF job[e].saw = "exempted" THEN row[s].status ELSE "exempted"
             w == [row[s] EXCEPT !.status = st, !.expired = FALSE]
  <2>1. /\ s \in Used /\ s \in Schedules
        /\ ~job[e].overtaken /\ job[e].saw = "exempted" => row[s].status = "exempted"
    BY <1>1, <1>2, <1>7 DEF GrantCommits, GrantsOK
  <2>2. row' = [row EXCEPT ![s] = w]
    BY <1>7, <2>1, <1>3 DEF GrantCommits
  <2>3. /\ Commits(e, {s}, Free) /\ stored' = stored
        /\ \/ exempted' = exempted \ {s}
           \/ /\ exempted' = exempted \cup {s} /\ row[s].record \in stored /\ ~job[e].overtaken
              /\ \A x \in Engines \ {e} : ~WillWrite(x, s)
    BY <1>7 DEF GrantCommits
  <2>4. /\ w \in ScheduleRows /\ w.status # "none" /\ w.record = row[s].record /\ ~w.expired
        /\ ~job[e].overtaken => w.status = "exempted"
    <3>1. /\ st \in Statuses \ {"none"}
          /\ ~job[e].overtaken => st = "exempted"
      BY <1>2, <1>3, <2>1 DEF ScheduleRows, Statuses
    <3> HIDE DEF st
    <3> QED
      BY <1>3, <2>1, <3>1 DEF ScheduleRows
  <2>6. s # NoSchedule
    BY <1>2, <2>1
  <2> HIDE DEF s, w
  <2>5. Changes(e, {s}, Free)
    BY <1>2, <1>4, <1>6, <2>1, <2>2, <2>3, <2>4, <2>6
  <2> QED
    BY <2>5
<1>8. ASSUME RevokeCommits(e)
      PROVE  \E S, j : Changes(e, S, j)
  <2> DEFINE s == job[e].at
             w == [row[s] EXCEPT !.status = "scheduled", !.expired = FALSE]
  <2>1. Commits(e, {s}, Free) /\ stored' = stored /\ exempted' = exempted \ {s}
        /\ s \in Used /\ s \in Schedules
    BY <1>1, <1>2, <1>8 DEF RevokeCommits, GrantsOK
  <2>2. row' = [row EXCEPT ![s] = w]
    BY <1>3, <1>8, <2>1 DEF RevokeCommits
  <2> HIDE DEF s
  <2>3. w \in ScheduleRows /\ w.status # "none" /\ w.record = row[s].record
    BY <1>3, <2>1 DEF ScheduleRows, Statuses
  <2> HIDE DEF w
  <2>4. Changes(e, {s}, Free)
    BY <1>4, <1>6, <2>1, <2>2, <2>3
  <2> QED
    BY <2>4
\* What a session has given up is not exempted, and stays a schedule of its record.
<1>12. /\ job[e].failing \subseteq Used /\ job[e].failing \cap exempted = {}
       /\ GivenUp(e) \in [Schedules -> ScheduleRows]
       /\ \A t \in Schedules : GivenUp(e)[t].record = row[t].record
       /\ \A t \in job[e].failing : GivenUp(e)[t].status # "none"
       /\ \A t \in Schedules \ job[e].failing : GivenUp(e)[t] = row[t]
  <2>1. job[e].failing \subseteq Used
    BY <1>2, <1>3 DEF InHand, JobStates
  <2>2. job[e].failing \cap exempted = {}
    BY <1>3 DEF Harmless
  <2>3. \A t \in Schedules :
          GivenUp(e)[t] = IF t \in job[e].failing THEN [row[t] EXCEPT !.status = "failed"] ELSE row[t]
    BY DEF GivenUp
  <2>4. \A t \in Schedules : /\ [row[t] EXCEPT !.status = "failed"] \in ScheduleRows
                            /\ [row[t] EXCEPT !.status = "failed"].record = row[t].record
                            /\ [row[t] EXCEPT !.status = "failed"].status = "failed"
    BY <1>3 DEF ScheduleRows, Statuses
  <2>5. GivenUp(e) \in [Schedules -> ScheduleRows]
    <3>1. \A t \in Schedules :
            (IF t \in job[e].failing THEN [row[t] EXCEPT !.status = "failed"] ELSE row[t]) \in ScheduleRows
      BY <1>3, <2>4
    <3> QED
      BY <3>1 DEF GivenUp
  <2> QED
    BY <1>2, <2>1, <2>2, <2>3, <2>4, <2>5
<1>9. ASSUME NEW j \in JobStates, Purges(e, j), failures' \in 0 .. MaxFailures,
             j.op \notin {"grant", "revoke"}, j.stale = FALSE, j.todo \subseteq job[e].todo,
             j.todo # {} => j.op = job[e].op,
             j.failing \subseteq {job[e].at}, j.at = NoSchedule
      PROVE  \E S, k : Changes(e, S, k)
  <2> DEFINE s == job[e].at
             S == {s} \cup job[e].failing
             st == IF job[e].saw = "purged" THEN GivenUp(e)[s].status ELSE "purged"
  <2>1. job[e].op \in {"purge", "manual"} /\ s # NoSchedule
    BY <1>9 DEF Purges
  <2>2. s \in Used /\ s \in Schedules /\ s \notin exempted
    BY <1>2, <1>3, <2>1 DEF Harmless, InHand
  <2>3. /\ stored' = stored \ {row[s].record} /\ exempted' = exempted
        /\ row' = [GivenUp(e) EXCEPT ![s].status = st]
        /\ Writes(e, S, j) /\ UNCHANGED <<age, policy, running, jobs>>
    BY <1>9 DEF Purges, daemons
  <2>4. st \in Statuses \ {"none"}
    <3>1. GivenUp(e)[s].status \in Statuses
      BY <1>12, <2>2 DEF ScheduleRows
    <3>2. GivenUp(e)[s].status # "none"
      BY <1>2, <1>12, <2>2
    <3> QED
      BY <3>1, <3>2 DEF Statuses
  <2> HIDE DEF st, s
  <2>5. /\ row' \in [Schedules -> ScheduleRows] /\ row'[s].status = st
        /\ row'[s].record = GivenUp(e)[s].record
        /\ \A t \in Schedules \ {s} : row'[t] = GivenUp(e)[t]
    BY <1>12, <2>2, <2>3, <2>4 DEF ScheduleRows
  <2>6. /\ \A t \in S : row'[t].status # "none" /\ (t \in Used => row'[t].record = row[t].record)
        /\ \A t \in Schedules \ S : row'[t] = row[t]
        /\ S \subseteq Used
    BY <1>2, <1>12, <2>2, <2>4, <2>5
  <2>7. InHand(j) \subseteq Used \cup {NoSchedule} /\ Harmless(j)
    BY <1>2, <1>3, <1>9, <2>2 DEF Harmless, InHand, s
  <2>8. exempted' = exempted \ S
    BY <1>12, <2>2, <2>3
  <2>9. s \in S \cap Used
    BY <2>2
  <2> HIDE DEF S
  <2>10. Changes(e, S, j)
    BY <1>9, <2>3, <2>5, <2>6, <2>7, <2>8, <2>9 DEF Changes
  <2> QED
    BY <2>10
<1>13. /\ Onward(e) \in JobStates /\ Onward(e).todo \subseteq job[e].todo
       /\ Onward(e).at = NoSchedule /\ Onward(e).op = job[e].op
       /\ Renewed(e) \in JobStates /\ Renewed(e).todo \subseteq job[e].todo
       /\ Renewed(e).at = NoSchedule /\ Renewed(e).op = job[e].op
       /\ Renewed(e).stale = FALSE /\ Renewed(e).failing = {}
  <2>1. /\ Onward(e) \in JobStates /\ Onward(e).todo \subseteq job[e].todo
        /\ Onward(e).at = NoSchedule /\ Onward(e).op = job[e].op
    BY <1>3 DEF Onward, JobStates, Statuses
  <2> QED
    BY <2>1 DEF Renewed, JobStates
<1>14. ASSUME PurgeCommits(e)
       PROVE  \E S, j : Changes(e, S, j)
  <2>1. job[e].op \in {"purge", "manual"} /\ failures' \in 0 .. MaxFailures
    BY <1>3, <1>14 DEF PurgeCommits, Purges
  <2>2. CASE job[e].op = "manual"
    <3>1. Purges(e, Free)
      BY <1>14, <2>2 DEF PurgeCommits
    <3>2. Free.stale = FALSE /\ Free.todo = {} /\ Free.failing = {} /\ Free.at = NoSchedule
      BY DEF Free
    <3> QED
      BY <1>4, <1>9, <2>1, <3>1, <3>2
  <2>3. CASE job[e].op = "purge"
    <3>1. Purges(e, Renewed(e))
      BY <1>14, <2>3 DEF PurgeCommits
    <3> QED
      BY <1>9, <1>13, <2>1, <2>3, <3>1
  <2> QED
    BY <2>1, <2>2, <2>3
<1>15. ASSUME PurgeUnconfirmed(e)
       PROVE  \E S, j : Changes(e, S, j)
  <2> DEFINE j == [Renewed(e) EXCEPT !.failing = {job[e].at}]
  <2>1. Purges(e, j) /\ SomethingFails
    BY <1>15 DEF PurgeUnconfirmed
  <2>2. job[e].op \in {"purge", "manual"} /\ job[e].at # NoSchedule
    BY <2>1 DEF Purges
  <2>3. failures' \in 0 .. MaxFailures
    BY <1>3, <2>1, RetentionAssumption DEF SomethingFails
  <2>4. job[e].at \in Schedules
    BY <1>3, <2>2 DEF JobStates
  <2>5. /\ j \in JobStates /\ j.todo = Renewed(e).todo /\ j.at = NoSchedule /\ j.op = job[e].op
        /\ j.stale = FALSE /\ j.failing = {job[e].at}
    BY <1>13, <2>4 DEF JobStates
  <2> HIDE DEF j
  <2> QED
    BY <1>9, <1>13, <2>1, <2>2, <2>3, <2>5
<1>16. ASSUME JobEnds(e)
       PROVE  \E S, j : Changes(e, S, j)
  <2> DEFINE S == job[e].failing
  <2>1. /\ row' = GivenUp(e) /\ Commits(e, S, Free) /\ UNCHANGED <<stored, exempted>>
    BY <1>16 DEF JobEnds
  <2>2. exempted' = exempted \ S
    BY <1>12, <2>1
  <2>3. \A t \in S : row'[t].status # "none" /\ (t \in Used => row'[t].record = row[t].record)
    BY <1>2, <1>12, <2>1
  <2>4. row' \in [Schedules -> ScheduleRows] /\ \A t \in Schedules \ S : row'[t] = row[t]
    BY <1>12, <2>1
  <2>5. S \subseteq Used
    BY <1>12
  <2> HIDE DEF S
  <2>6. Changes(e, S, Free)
    BY <1>4, <1>11, <2>1, <2>2, <2>3, <2>4, <2>5 DEF Changes
  <2> QED
    BY <2>6
<1>10. ASSUME NEW s \in Schedules, WarnOne(e, s)
       PROVE  \E S, j : Changes(e, S, j)
  <2> DEFINE w == [row[s] EXCEPT !.status = "warned", !.warned = TRUE]
             j == [job[e] EXCEPT !.todo = @ \ {s}]
  <2>1. s \in Used /\ s \notin exempted /\ job[e].op \in {"warn", "run"}
    BY <1>2, <1>3, <1>10 DEF WarnOne, Harmless, InHand
  <2>2. row' = [row EXCEPT ![s] = w]
    BY <1>3, <1>10, <2>1 DEF WarnOne
  <2>3. Commits(e, {s}, j) /\ stored' = stored /\ exempted' = exempted \ {s}
    BY <1>10, <2>1 DEF WarnOne
  <2>4. w \in ScheduleRows /\ w.status # "none" /\ w.record = row[s].record
    BY <1>3 DEF ScheduleRows, Statuses
  <2>5. /\ j \in JobStates /\ j.todo = job[e].todo \ {s} /\ j.at = job[e].at /\ j.op = job[e].op
        /\ j.stale = job[e].stale /\ j.failing = job[e].failing
    BY <1>3 DEF JobStates
  <2> HIDE DEF w, j
  <2>6. /\ j.op \notin {"grant", "revoke"} /\ Harmless(j)
        /\ InHand(j) \subseteq Used \cup {NoSchedule}
    BY <1>3, <2>1, <2>5 DEF Harmless, InHand
  <2>7. Changes(e, {s}, j)
    BY <1>6, <2>1, <2>2, <2>3, <2>4, <2>5, <2>6
  <2> QED
    BY <2>7
<1> QED
  BY <1>5, <1>7, <1>8, <1>10, <1>14, <1>15, <1>16

\* What changes while no session reads or writes.
Elsewhere ==
    /\ UNCHANGED <<stored, row, job, exempted, failures>>
    /\ age' \in [Records -> {"far", "near", "due"}] /\ policy' \in Policies
    /\ jobs' \subseteq running' /\ running' \subseteq Engines

LEMMA RetentionEffects ==
    ASSUME RetentionInv, RetentionNext
    PROVE  \/ \E e \in Engines, j \in JobStates : TakesUp(e, j)
           \/ \E e \in Engines, S \in SUBSET Schedules, j \in JobStates : Changes(e, S, j)
           \/ Elsewhere
           \/ \E s \in Schedules : ExemptionExpires(s)
<1>1. RetentionTypeOK
  BY DEF RetentionInv
<1>2. ASSUME NEW e \in Engines, StartScheduler(e) \/ StopScheduler(e)
      PROVE  Elsewhere
  BY <1>1, <1>2, RetentionAssumption
     DEF StartScheduler, StopScheduler, Elsewhere, RetentionTypeOK
<1>3. ASSUME TimePasses \/ \E p \in Policies : PolicyChanges(p)
      PROVE  Elsewhere
  <2>1. \A r \in Records : (IF age[r] = "far" THEN "near" ELSE "due") \in {"far", "near", "due"}
    OBVIOUS
  <2> QED
    BY <1>1, <1>3, <2>1 DEF TimePasses, PolicyChanges, daemons, Elsewhere, RetentionTypeOK
<1>4. ASSUME NEW e \in Engines,
             \/ RequestStep(e) \/ JobStep(e) \/ SessionFails(e)
             \/ PurgeUnconfirmed(e) \/ PurgeFails(e)
             \/ \E s \in Schedules : PassesOver(e, s)
             \/ \E op \in {"warn", "run"} : StartJob(e, op)
      PROVE  \/ \E j \in JobStates : TakesUp(e, j)
             \/ \E S \in SUBSET Schedules, j \in JobStates : Changes(e, S, j)
  <2>1. Used \subseteq Schedules
    BY UsedFacts DEF RetentionInv
  <2>2. \A S, j : Changes(e, S, j) => S \in SUBSET Schedules /\ j \in JobStates
    BY <2>1 DEF Changes
  <2>3. \A j : TakesUp(e, j) => j \in JobStates
    BY DEF TakesUp
  <2>4. (\E j : TakesUp(e, j)) \/ (\E S, j : Changes(e, S, j))
    BY <1>4, RequestReads, JobReads, JobWrites DEF JobStep
  <2> QED
    BY <2>2, <2>3, <2>4
<1> QED
  BY <1>2, <1>3, <1>4 DEF RetentionNext

\* Which schedules are used after a step, and whose records they schedule.
LEMMA UsedStep ==
    ASSUME RetentionTypeOK, UsedOK
    PROVE  /\ UNCHANGED row => Used' = Used /\ \A s : Twin(s)' <=> Twin(s)
           /\ \A e, S, j : Changes(e, S, j) =>
                /\ Used' = Used \cup S
                /\ \A t \in Used : row'[t].record = row[t].record
                /\ \A t \in Used : Twin(t) => Twin(t)'
           /\ \A s \in Schedules : ExemptionExpires(s) =>
                /\ Used' = Used
                /\ row' \in [Schedules -> ScheduleRows]
                /\ \A t \in Schedules : /\ row'[t].record = row[t].record
                                        /\ row'[t].status = row[t].status
                                        /\ t # s => row'[t] = row[t]
                /\ \A t \in Used : Twin(t) => Twin(t)'
<1>1. UNCHANGED row => Used' = Used /\ \A s : Twin(s)' <=> Twin(s)
  BY DEF Used, Twin
<1>2. /\ Unused.status = "none" /\ row \in [Schedules -> ScheduleRows]
      /\ \A s \in Used : row[s].status # "none"
  BY DEF Unused, UsedOK, RetentionTypeOK
<1>3. ASSUME NEW e, NEW S, NEW j, Changes(e, S, j)
      PROVE  /\ Used' = Used \cup S
             /\ \A t \in Used : row'[t].record = row[t].record
             /\ \A t \in Used : Twin(t) => Twin(t)'
  <2>4. S \subseteq Schedules
    BY <1>3 DEF Changes, Used
  <2>1. /\ \A t \in S : row'[t].status # "none" /\ (t \in Used => row'[t].record = row[t].record)
        /\ \A t \in Schedules \ S : row'[t] = row[t]
    BY <1>3 DEF Changes
  <2>2. Used' = Used \cup S
    BY <1>2, <2>1, <2>4 DEF Used
  <2>3. \A t \in Used : row'[t].record = row[t].record
    BY <2>1 DEF Used
  <2> QED
    BY <2>2, <2>3 DEF Twin
<1>4. ASSUME NEW s \in Schedules, ExemptionExpires(s)
      PROVE  /\ Used' = Used
             /\ row' \in [Schedules -> ScheduleRows]
             /\ \A t \in Schedules : /\ row'[t].record = row[t].record
                                     /\ row'[t].status = row[t].status
                                     /\ t # s => row'[t] = row[t]
             /\ \A t \in Used : Twin(t) => Twin(t)'
  <2>1. /\ row' \in [Schedules -> ScheduleRows] /\ row[s].status = "exempted"
        /\ \A t \in Schedules : /\ row'[t].record = row[t].record
                                /\ row'[t].status = row[t].status
                                /\ t # s => row'[t] = row[t]
    BY <1>2, <1>4 DEF ExemptionExpires, ScheduleRows
  <2>2. Used' = Used
    BY <1>2, <2>1 DEF Used
  <2>3. \A t \in Used : t \in Schedules
    BY DEF Used
  <2> QED
    BY <2>1, <2>2, <2>3 DEF Twin
<1> QED
  BY <1>1, <1>3, <1>4

\* What the others are doing, after e has committed changes of S.
LEMMA OthersAfterCommit ==
    ASSUME RetentionTypeOK, NEW e \in Engines, NEW S, NEW j \in JobStates, Writes(e, S, j)
    PROVE  /\ job' \in [Engines -> JobStates] /\ job'[e] = j
           /\ \A x \in Engines \ {e} :
                /\ job'[x].op = job[x].op /\ job'[x].todo = job[x].todo /\ job'[x].at = job[x].at
                /\ job'[x].stale = job[x].stale /\ job'[x].saw = job[x].saw
                /\ job'[x].record = job[x].record /\ job'[x].failing = job[x].failing
                /\ ~job'[x].overtaken =>
                     ~job[x].overtaken /\ ~(job[x].op = "grant" /\ job[x].at \in S)
<1> DEFINE k(x) == [job[x] EXCEPT !.overtaken = @ \/ (job[x].op = "grant" /\ job[x].at \in S)]
<1>1. job' = [x \in Engines |-> IF x = e THEN j ELSE k(x)]
  BY DEF Writes
<1>2. ASSUME NEW x \in Engines
      PROVE  /\ k(x) \in JobStates
             /\ k(x).op = job[x].op /\ k(x).todo = job[x].todo /\ k(x).at = job[x].at
             /\ k(x).stale = job[x].stale /\ k(x).saw = job[x].saw
             /\ k(x).record = job[x].record /\ k(x).failing = job[x].failing
             /\ ~k(x).overtaken => ~job[x].overtaken /\ ~(job[x].op = "grant" /\ job[x].at \in S)
  <2>1. job[x] \in JobStates
    BY DEF RetentionTypeOK
  <2> QED
    BY <2>1 DEF JobStates
<1> HIDE DEF k
<1> QED
  BY <1>1, <1>2

LEMMA RetentionTypeStep ==
    ASSUME RetentionInv, RetentionNext
    PROVE  RetentionTypeOK'
<1>1. RetentionTypeOK /\ UsedOK
  BY DEF RetentionInv
<1>2. Used \subseteq Schedules /\ exempted \subseteq Used
  BY <1>1, UsedFacts
<1>3. ASSUME NEW e \in Engines, NEW j \in JobStates, TakesUp(e, j)
      PROVE  RetentionTypeOK'
  <2>1. Used' = Used
    BY <1>1, <1>3, UsedStep DEF TakesUp
  <2>2. job' \in [Engines -> JobStates]
    BY <1>1, <1>3 DEF TakesUp, RetentionTypeOK
  <2>3. \A x \in Engines :
          job'[x].todo \cup job'[x].failing \cup {job'[x].at} \subseteq Used \cup {NoSchedule}
    BY <1>1, <1>3 DEF TakesUp, RetentionTypeOK, InHand
  <2> QED
    BY <1>1, <1>3, <2>1, <2>2, <2>3 DEF TakesUp, RetentionTypeOK
<1>4. ASSUME NEW e \in Engines, NEW S \in SUBSET Schedules, NEW j \in JobStates, Changes(e, S, j)
      PROVE  RetentionTypeOK'
  <2>1. Used' = Used \cup S /\ Writes(e, S, j)
    BY <1>1, <1>4, UsedStep DEF Changes
  <2>2. /\ job' \in [Engines -> JobStates] /\ job'[e] = j
        /\ \A x \in Engines \ {e} :
             /\ job'[x].todo = job[x].todo /\ job'[x].at = job[x].at
             /\ job'[x].failing = job[x].failing
    BY <1>1, <2>1, OthersAfterCommit
  <2>3. \A x \in Engines :
          job'[x].todo \cup job'[x].failing \cup {job'[x].at} \subseteq Used' \cup {NoSchedule}
    BY <1>1, <1>4, <2>1, <2>2 DEF Changes, RetentionTypeOK, InHand
  <2>4. exempted' \subseteq Used' /\ stored' \subseteq Records /\ row' \in [Schedules -> ScheduleRows]
    BY <1>1, <1>2, <1>4, <2>1 DEF Changes, RetentionTypeOK
  <2>5. UNCHANGED <<age, policy, running, jobs>> /\ failures' \in 0 .. MaxFailures
    BY <1>4 DEF Changes
  <2> QED
    BY <1>1, <2>2, <2>3, <2>4, <2>5 DEF RetentionTypeOK
<1>5. ASSUME Elsewhere
      PROVE  RetentionTypeOK'
  <2>1. Used' = Used
    BY <1>1, <1>5, UsedStep DEF Elsewhere
  <2> QED
    BY <1>1, <1>5, <2>1 DEF Elsewhere, RetentionTypeOK
<1>6. ASSUME NEW s \in Schedules, ExemptionExpires(s)
      PROVE  RetentionTypeOK'
  <2>1. Used' = Used /\ row' \in [Schedules -> ScheduleRows]
    BY <1>1, <1>6, UsedStep
  <2> QED
    BY <1>1, <1>6, <2>1 DEF ExemptionExpires, world, daemons, RetentionTypeOK
<1> QED
  BY <1>3, <1>4, <1>5, <1>6, RetentionEffects

LEMMA SchedulesStep ==
    ASSUME RetentionInv, RetentionNext
    PROVE  UsedOK' /\ GrantsOK'
<1>1. RetentionTypeOK /\ UsedOK /\ GrantsOK
  BY DEF RetentionInv
<1>2. Used \subseteq Schedules
  BY <1>1, UsedFacts
<1>3. CASE UNCHANGED row /\ UNCHANGED job
  BY <1>1, <1>3, UsedStep DEF UsedOK, GrantsOK
<1>4. ASSUME NEW e \in Engines, NEW j \in JobStates, TakesUp(e, j)
      PROVE  UsedOK' /\ GrantsOK'
  <2>1. Used' = Used /\ UNCHANGED row
    BY <1>1, <1>4, UsedStep DEF TakesUp
  <2>2. job' = [job EXCEPT ![e] = j] /\ job \in [Engines -> JobStates]
    BY <1>1, <1>4 DEF TakesUp, RetentionTypeOK
  <2>3. GrantsOK'
    BY <1>1, <1>4, <2>1, <2>2 DEF TakesUp, GrantsOK
  <2> QED
    BY <1>1, <2>1, <2>3 DEF UsedOK
<1>5. ASSUME NEW e \in Engines, NEW S \in SUBSET Schedules, NEW j \in JobStates, Changes(e, S, j)
      PROVE  UsedOK' /\ GrantsOK'
  <2>1. /\ Used' = Used \cup S /\ Writes(e, S, j)
        /\ \A t \in S : row'[t].status # "none"
        /\ \A t \in Schedules \ S : row'[t] = row[t]
        /\ j.op \notin {"grant", "revoke"}
    BY <1>1, <1>5, UsedStep DEF Changes
  <2>2. /\ job'[e] = j
        /\ \A x \in Engines \ {e} :
             /\ job'[x].op = job[x].op /\ job'[x].at = job[x].at /\ job'[x].saw = job[x].saw
             /\ ~job'[x].overtaken =>
                  ~job[x].overtaken /\ ~(job[x].op = "grant" /\ job[x].at \in S)
    BY <1>1, <2>1, OthersAfterCommit
  <2>3. ASSUME NEW x \in Engines
        PROVE  /\ job'[x].op \in {"grant", "revoke"} => job'[x].at \in Used'
               /\ job'[x].op = "grant" /\ ~job'[x].overtaken /\ job'[x].saw = "exempted" =>
                    row'[job'[x].at].status = "exempted"
    <3>1. CASE x = e
      BY <2>1, <2>2, <3>1
    <3>2. CASE x # e
      BY <1>1, <1>2, <2>1, <2>2, <3>2 DEF GrantsOK
    <3> QED
      BY <3>1, <3>2
  <2>4. \A t \in Used' : row'[t].status # "none"
    BY <1>1, <1>2, <2>1 DEF UsedOK
  <2>5. \E n \in 0 .. MaxSchedules : Used' = 1 .. n
    <3>1. CASE S \subseteq Used
      <4>1. Used' = Used
        BY <2>1, <3>1
      <4> QED
        BY <1>1, <4>1 DEF UsedOK
    <3>2. CASE S = {Cardinality(Used) + 1}
      <4> DEFINE s == Cardinality(Used) + 1
      <4>1. s \in Schedules /\ Used' = 1 .. s
        BY <1>1, <2>1, <3>2, UsedFacts
      <4>2. s \in 0 .. MaxSchedules
        BY <4>1, RetentionAssumption DEF Schedules
      <4> QED
        BY <4>1, <4>2
    <3> QED
      BY <1>5, <3>1, <3>2 DEF Changes
  <2> QED
    BY <2>3, <2>4, <2>5 DEF UsedOK, GrantsOK
<1>6. ASSUME NEW s \in Schedules, ExemptionExpires(s)
      PROVE  UsedOK' /\ GrantsOK'
  <2>1. Used' = Used /\ \A t \in Schedules : row'[t].status = row[t].status
    BY <1>1, <1>6, UsedStep
  <2>2. UNCHANGED job
    BY <1>6 DEF ExemptionExpires
  <2> QED
    BY <1>1, <1>2, <2>1, <2>2 DEF UsedOK, GrantsOK
<1> QED
  BY <1>3, <1>4, <1>5, <1>6, RetentionEffects DEF Elsewhere

LEMMA ExemptedStep ==
    ASSUME RetentionInv, RetentionNext
    PROVE  ExemptedOK'
<1>1. RetentionTypeOK /\ UsedOK /\ ExemptedOK
  BY DEF RetentionInv
<1>2. Used \subseteq Schedules /\ exempted \subseteq Used
  BY <1>1, UsedFacts
<1>3. CASE UNCHANGED <<row, job, stored, exempted>>
  BY <1>1, <1>3, UsedStep DEF ExemptedOK, Harmless
<1>4. ASSUME NEW e \in Engines, NEW j \in JobStates, TakesUp(e, j)
      PROVE  ExemptedOK'
  <2>1. UNCHANGED <<row, stored, exempted>> /\ Harmless(j) /\ \A s : Twin(s)' <=> Twin(s)
    BY <1>1, <1>4, UsedStep DEF TakesUp
  <2>2. \A x \in Engines : job'[x] = IF x = e THEN j ELSE job[x]
    BY <1>1, <1>4 DEF TakesUp, RetentionTypeOK
  <2>3. \A x \in Engines : Harmless(job[x])'
    BY <1>1, <2>1, <2>2 DEF ExemptedOK, Harmless
  <2> QED
    BY <1>1, <2>1, <2>3 DEF ExemptedOK
<1>5. ASSUME NEW e \in Engines, NEW S \in SUBSET Schedules, NEW j \in JobStates, Changes(e, S, j)
      PROVE  ExemptedOK'
  <2>1. /\ Writes(e, S, j) /\ \A t \in Schedules \ S : row'[t] = row[t]
        /\ \A t \in Used : row'[t].record = row[t].record
        /\ \A t \in Used : Twin(t) => Twin(t)'
        /\ Harmless(j)
        /\ stored' = stored \/ \E s \in S \cap Used : stored' = stored \ {row[s].record}
        /\ \A t \in exempted' : t \in S =>
             /\ t \in Used /\ row'[t].status = "exempted" /\ ~row'[t].expired
             /\ row[t].record \in stored' /\ t \notin InHand(j)
             /\ \A x \in Engines \ {e} : ~WillWrite(x, t)
        /\ \A t \in exempted' : t \notin S => t \in exempted
    BY <1>1, <1>5, UsedStep DEF Changes
  <2>2. /\ job'[e] = j
        /\ \A x \in Engines \ {e} :
             /\ job'[x].op = job[x].op /\ job'[x].todo = job[x].todo /\ job'[x].at = job[x].at
             /\ job'[x].stale = job[x].stale /\ job'[x].failing = job[x].failing
    BY <1>1, <2>1, OthersAfterCommit
  <2>3. ASSUME NEW x \in Engines, NEW t \in exempted'
        PROVE  /\ t \in job'[x].todo => job'[x].op = "purge" /\ ~job'[x].stale
               /\ t \notin job'[x].failing
               /\ t = job'[x].at => job'[x].op \in {"grant", "revoke"}
    <3>1. CASE x = e
      BY <2>1, <2>2, <2>3, <3>1 DEF Harmless, InHand
    <3>2. CASE x # e /\ t \notin S
      BY <1>1, <2>1, <2>2, <2>3, <3>2 DEF ExemptedOK, Harmless
    <3>3. CASE x # e /\ t \in S
      BY <2>1, <2>2, <2>3, <3>3 DEF WillWrite
    <3> QED
      BY <3>1, <3>2, <3>3
  <2>4. ASSUME NEW t \in exempted'
        PROVE  /\ row'[t].status = "exempted" /\ ~row'[t].expired
               /\ row'[t].record \in stored' \/ Twin(t)'
    <3>1. CASE t \in S
      BY <2>1, <2>4, <3>1
    <3>2. CASE t \notin S
      <4>1. t \in exempted /\ t \in Used /\ row'[t] = row[t]
        BY <1>2, <2>1, <2>4, <3>2
      <4>2. row[t].status = "exempted" /\ ~row[t].expired /\ (row[t].record \in stored \/ Twin(t))
        BY <1>1, <4>1 DEF ExemptedOK
      <4>3. CASE row[t].record \in stored'
        BY <4>1, <4>2, <4>3
      <4>4. CASE Twin(t)
        BY <2>1, <4>1, <4>2, <4>4
      <4>5. CASE row[t].record \notin stored' /\ row[t].record \in stored
        <5>1. PICK s \in S \cap Used : row[s].record = row[t].record
          BY <2>1, <4>5
        <5>2. Twin(t)
          BY <3>2, <5>1 DEF Twin
        <5> QED
          BY <4>4, <5>2
      <4> QED
        BY <4>2, <4>3, <4>4, <4>5
    <3> QED
      BY <3>1, <3>2
  <2> QED
    BY <2>3, <2>4 DEF ExemptedOK, Harmless
<1>6. ASSUME NEW s \in Schedules, ExemptionExpires(s)
      PROVE  ExemptedOK'
  <2>1. /\ \A t \in Schedules \ {s} : row'[t] = row[t]
        /\ \A t \in Used : Twin(t) => Twin(t)'
        /\ UNCHANGED <<stored, job>> /\ exempted' = exempted \ {s}
    BY <1>1, <1>6, UsedStep DEF ExemptionExpires
  <2>2. \A x \in Engines : Harmless(job[x])'
    BY <1>1, <2>1 DEF ExemptedOK, Harmless
  <2>3. \A t \in exempted' :
          /\ row'[t].status = "exempted" /\ ~row'[t].expired
          /\ row'[t].record \in stored' \/ Twin(t)'
    BY <1>1, <1>2, <2>1 DEF ExemptedOK
  <2> QED
    BY <2>2, <2>3 DEF ExemptedOK
<1> QED
  BY <1>3, <1>4, <1>5, <1>6, RetentionEffects DEF Elsewhere

-------------------------------------------------------------------------------
(* Retention: the theorems                                                 *)

LEMMA RetentionInitially == RetentionInit => RetentionInv
<1> SUFFICES ASSUME RetentionInit
             PROVE  RetentionInv
  OBVIOUS
<1>1. Used = {} /\ 0 \in 0 .. MaxSchedules /\ 1 .. 0 = {} /\ exempted = {}
  BY RetentionAssumption DEF RetentionInit, Used
<1>2. Unused \in ScheduleRows /\ Free \in JobStates
  BY DEF Unused, Free, ScheduleRows, JobStates, Statuses
<1>3. \A e \in Engines : job[e] = Free
  BY DEF RetentionInit
<1>4. Free.op = "free" /\ Free.todo = {} /\ Free.failing = {} /\ Free.at = NoSchedule
  BY DEF Free
<1>5. RetentionTypeOK
  <2>1. age \in [Records -> {"far", "near", "due"}] /\ 0 \in 0 .. MaxFailures
    <3>1. age \in [Records -> Ages] /\ Ages \subseteq {"far", "near", "due"}
      BY RetentionAssumption DEF RetentionInit
    <3>2. MaxFailures \in Nat
      BY RetentionAssumption
    <3>3. age \in [Records -> {"far", "near", "due"}]
      <4>1. \A r \in Records : age[r] \in {"far", "near", "due"}
        BY <3>1
      <4> QED
        BY <3>1, <4>1
    <3> QED
      BY <3>2, <3>3
  <2> QED
    BY <1>1, <1>2, <1>3, <1>4, <2>1 DEF RetentionInit, RetentionTypeOK
<1>6. UsedOK
  BY <1>1 DEF UsedOK
<1>7. GrantsOK /\ ExemptedOK
  BY <1>1, <1>3, <1>4 DEF GrantsOK, ExemptedOK, Harmless
<1> QED
  BY <1>5, <1>6, <1>7 DEF RetentionInv

LEMMA RetentionStep == RetentionInv /\ [RetentionNext]_retentionvars => RetentionInv'
<1>1. CASE RetentionInv /\ RetentionNext
  BY <1>1, RetentionTypeStep, SchedulesStep, ExemptedStep DEF RetentionInv
<1>2. CASE RetentionInv /\ UNCHANGED retentionvars
  <2>1. Used' = Used /\ \A s : Twin(s)' <=> Twin(s)
    BY <1>2, UsedStep DEF RetentionInv, retentionvars
  <2>2. RetentionTypeOK'
    BY <1>2, <2>1 DEF retentionvars, RetentionInv, RetentionTypeOK
  <2>3. UsedOK' /\ GrantsOK' /\ ExemptedOK'
    BY <1>2, <2>1 DEF retentionvars, RetentionInv, UsedOK, GrantsOK, ExemptedOK, Harmless
  <2> QED
    BY <2>2, <2>3 DEF RetentionInv
<1> QED
  BY <1>1, <1>2

LEMMA RetentionAlways == RetentionSpec => []RetentionInv
BY RetentionInitially, RetentionStep, PTL DEF RetentionSpec

\* The variables of the model keep their types: only engines that run have jobs
\* in the schedule, and a session has only rows that exist on its list.
THEOREM RetentionTypes == RetentionSpec => []RetentionTypeOK
<1>1. RetentionInv => RetentionTypeOK
  BY DEF RetentionInv
<1> QED
  BY <1>1, RetentionAlways, PTL

\* An exemption granted in time holds until it is revoked or expires, whatever
\* lists the daemon's jobs have read: the schedule stays exempted, and its record
\* is purged by nothing but a second schedule of it.
THEOREM ExemptionsHold == RetentionSpec => []ExemptionHolds
<1>1. RetentionInv => ExemptionHolds
  BY DEF RetentionInv, ExemptedOK, ExemptionHolds
<1> QED
  BY <1>1, RetentionAlways, PTL

\* The schedules a purge run has are of records that are due.
ListsDue ==
    \A e \in Engines : job[e].op = "purge" =>
        \A s \in (job[e].todo \cup {job[e].at}) \ {NoSchedule} : age[row[s].record] = "due"

\* What is scheduled, or about to be, is a record.
RecordsNamed ==
    /\ \A s \in Used : row[s].record \in Records
    /\ \A e \in Engines : job[e].op = "schedule" => job[e].record \in Records

LEMMA RequestsRead ==
    ASSUME NEW e \in Engines, RequestStep(e)
    PROVE  \E j : /\ Request(e, j) /\ j.op # "purge" /\ j.failing = {}
                  /\ j.op = "schedule" => j.record \in Records
<1> DEFINE Goal == \E j : /\ Request(e, j) /\ j.op # "purge" /\ j.failing = {}
                          /\ j.op = "schedule" => j.record \in Records
<1>1. ASSUME NEW r \in Records, ScheduleReads(e, r)
      PROVE  Goal
  <2> DEFINE j == [Free EXCEPT !.op = "schedule", !.record = r]
  <2>1. Request(e, j)
    BY <1>1 DEF ScheduleReads
  <2>2. j.op = "schedule" /\ j.record = r /\ j.failing = {}
    BY DEF Free
  <2> HIDE DEF j
  <2> QED
    BY <2>1, <2>2
<1>2. ASSUME NEW s \in Schedules, GrantReads(e, s)
      PROVE  Goal
  <2> DEFINE j == [Free EXCEPT !.op = "grant", !.at = s, !.saw = Saw(s, {"exempted"})]
  <2>1. Request(e, j)
    BY <1>2 DEF GrantReads
  <2>2. j.op = "grant" /\ j.failing = {}
    BY DEF Free
  <2> HIDE DEF j
  <2> QED
    BY <2>1, <2>2
<1>3. ASSUME NEW s \in Schedules, RevokeReads(e, s)
      PROVE  Goal
  <2> DEFINE j == [Free EXCEPT !.op = "revoke", !.at = s]
  <2>1. Request(e, j)
    BY <1>3 DEF RevokeReads
  <2>2. j.op = "revoke" /\ j.failing = {}
    BY DEF Free
  <2> HIDE DEF j
  <2> QED
    BY <2>1, <2>2
<1>4. ASSUME NEW s \in Schedules, ManualReads(e, s)
      PROVE  Goal
  <2> DEFINE j == [Free EXCEPT !.op = "manual", !.at = s, !.saw = Saw(s, Over)]
  <2>1. Request(e, j)
    BY <1>4 DEF ManualReads
  <2>2. j.op = "manual" /\ j.failing = {}
    BY DEF Free
  <2> HIDE DEF j
  <2> QED
    BY <2>1, <2>2
<1> QED
  BY <1>1, <1>2, <1>3, <1>4 DEF RequestStep

LEMMA JobsKeepTheWorld ==
    ASSUME NEW e \in Engines, JobStep(e)
    PROVE  UNCHANGED world /\ (UNCHANGED stored \/ PurgeCommits(e))
<1>1. CASE ScheduleInserts(e) \/ GrantCommits(e) \/ RevokeCommits(e)
  BY <1>1 DEF ScheduleInserts, GrantCommits, RevokeCommits, Commits
<1>2. CASE ReadDue(e) \/ JobEnds(e)
  BY <1>2 DEF ReadDue, JobEnds, Commits
<1>3. CASE PurgeCommits(e)
  BY <1>3 DEF PurgeCommits, Purges, world
<1>4. ASSUME NEW s \in Schedules, WarnOne(e, s) \/ CheckExemption(e, s)
      PROVE  UNCHANGED world /\ UNCHANGED stored
  BY <1>4 DEF WarnOne, CheckExemption, Commits
<1> QED
  BY <1>1, <1>2, <1>3, <1>4 DEF JobStep

\* What is due stays due.
LEMMA DueStays ==
    ASSUME RetentionInv, RetentionNext, NEW r \in Records, age[r] = "due"
    PROVE  age'[r] = "due"
<1>1. CASE UNCHANGED age
  BY <1>1
<1>2. CASE TimePasses
  BY <1>2 DEF TimePasses
<1>3. ASSUME NEW e \in Engines, RequestStep(e) \/ JobStep(e)
      PROVE  UNCHANGED age
  <2>1. CASE RequestStep(e)
    BY <2>1, RequestsRead DEF Request, world
  <2>2. CASE JobStep(e)
    BY <2>2, JobsKeepTheWorld DEF world
  <2> QED
    BY <1>3, <2>1, <2>2
<1>4. ASSUME NEW e \in Engines,
             \/ SessionFails(e) \/ PurgeUnconfirmed(e) \/ PurgeFails(e)
             \/ \E s \in Schedules : PassesOver(e, s)
             \/ StartScheduler(e) \/ StopScheduler(e)
             \/ \E op \in {"warn", "run"} : StartJob(e, op)
      PROVE  UNCHANGED age
  BY <1>4 DEF SessionFails, PurgeUnconfirmed, Purges, PurgeFails, PassesOver,
              StartScheduler, StopScheduler, StartJob, world
<1>5. ASSUME \/ \E s \in Schedules : ExemptionExpires(s)
             \/ \E p \in Policies : PolicyChanges(p)
      PROVE  UNCHANGED age
  BY <1>5 DEF ExemptionExpires, PolicyChanges, world
<1> QED
  BY <1>1, <1>2, <1>3, <1>4, <1>5 DEF RetentionNext

\* A schedule that is used stays that of its record.
LEMMA RecordStays ==
    ASSUME RetentionInv, RetentionNext, NEW s \in Used
    PROVE  row'[s].record = row[s].record
<1>1. RetentionTypeOK /\ UsedOK /\ s \in Schedules
  BY UsedFacts DEF RetentionInv
<1>2. UNCHANGED row => row'[s].record = row[s].record
  OBVIOUS
<1>3. ASSUME NEW e \in Engines, NEW S \in SUBSET Schedules, NEW j \in JobStates, Changes(e, S, j)
      PROVE  row'[s].record = row[s].record
  BY <1>1, <1>3, UsedStep
<1>4. ASSUME NEW t \in Schedules, ExemptionExpires(t)
      PROVE  row'[s].record = row[s].record
  BY <1>1, <1>4, UsedStep
<1> QED
  BY <1>2, <1>3, <1>4, RetentionEffects DEF TakesUp, Elsewhere

\* A schedule stays that of its record; a new one is of the record of its job.
LEMMA ScheduledRecords ==
    ASSUME RetentionInv, RetentionNext, NEW t \in Used'
    PROVE  \/ t \in Used /\ row'[t].record = row[t].record
           \/ \E e \in Engines : job[e].op = "schedule" /\ row'[t].record = job[e].record
<1> DEFINE Goal == \/ t \in Used /\ row'[t].record = row[t].record
                   \/ \E e \in Engines : job[e].op = "schedule" /\ row'[t].record = job[e].record
<1>1. /\ RetentionTypeOK /\ UsedOK /\ GrantsOK /\ Used \subseteq Schedules /\ t \in Schedules
      /\ row \in [Schedules -> ScheduleRows]
  BY UsedFacts DEF RetentionInv, RetentionTypeOK, Used
<1>2. CASE UNCHANGED row
  BY <1>1, <1>2, UsedStep
<1>3. ASSUME \A x \in Used' : x \in Used
      PROVE  Goal
  BY <1>3, RecordStays
<1>5. ASSUME NEW s \in Schedules, ExemptionExpires(s)
      PROVE  Goal
  BY <1>1, <1>5, UsedStep
<1>6. ASSUME NEW e \in Engines, ScheduleInserts(e)
      PROVE  Goal
  <2> DEFINE s == Cardinality(Used) + 1
  <2>1. job[e].op = "schedule" /\ s \in Schedules
        /\ row' = [row EXCEPT ![s].record = job[e].record, ![s].status = "scheduled"]
    BY <1>6 DEF ScheduleInserts
  <2> HIDE DEF s
  <2>2. row'[s].record = job[e].record /\ \A x \in Schedules \ {s} : row'[x] = row[x]
    BY <1>1, <2>1 DEF ScheduleRows
  <2> QED
    BY <1>1, <2>1, <2>2 DEF Used
<1>7. ASSUME NEW e \in Engines, NEW s \in Used, NEW w, row' = [row EXCEPT ![s] = w]
      PROVE  Goal
  <2>1. \A x \in Used' : x \in Used
    BY <1>1, <1>7 DEF Used
  <2> QED
    BY <1>3, <2>1
<1>8. ASSUME NEW e \in Engines, JobStep(e) \/ PurgeUnconfirmed(e)
      PROVE  Goal
  <2>1. CASE ScheduleInserts(e)
    BY <1>6, <2>1
  <2>2. CASE GrantCommits(e)
    <3> DEFINE s == job[e].at
               w == [row[s] EXCEPT !.status = IF job[e].saw = "exempted" THEN @ ELSE "exempted",
                                   !.expired = FALSE]
    <3>1. s \in Used /\ row' = [row EXCEPT ![s] = w]
      BY <1>1, <2>2 DEF GrantCommits, GrantsOK
    <3> HIDE DEF w
    <3> QED
      BY <1>7, <3>1
  <2>3. CASE RevokeCommits(e)
    <3> DEFINE s == job[e].at
               w == [row[s] EXCEPT !.status = "scheduled", !.expired = FALSE]
    <3>1. s \in Used /\ row' = [row EXCEPT ![s] = w]
      BY <1>1, <2>3 DEF RevokeCommits, GrantsOK
    <3> HIDE DEF w
    <3> QED
      BY <1>7, <3>1
  <2>4. CASE PurgeCommits(e) \/ PurgeUnconfirmed(e) \/ JobEnds(e)
    <3>1. job[e].failing \subseteq Used /\ job[e].at \in Used \cup {NoSchedule}
      <4>1. /\ job[e].failing \subseteq Used \cup {NoSchedule} /\ job[e].at \in Used \cup {NoSchedule}
            /\ job[e].failing \subseteq Schedules /\ NoSchedule \notin Schedules
        BY <1>1, UsedFacts DEF RetentionTypeOK, JobStates
      <4> QED
        BY <4>1
    <3>2. \A x \in Schedules \ Used : GivenUp(e)[x] = row[x]
      BY <3>1 DEF GivenUp
    <3>3. CASE JobEnds(e)
      <4>1. \A x \in Used' : x \in Used
        BY <3>2, <3>3 DEF JobEnds, Used
      <4> QED
        BY <1>3, <4>1
    <3>4. ASSUME NEW j, Purges(e, j)
          PROVE  Goal
      <4>1. job[e].at \in Used
        BY <3>1, <3>4 DEF Purges
      <4>2. PICK st : row' = [GivenUp(e) EXCEPT ![job[e].at].status = st]
        BY <3>4 DEF Purges
      <4>3. \A x \in Schedules \ {job[e].at} : row'[x] = GivenUp(e)[x]
        BY <4>2 DEF GivenUp
      <4>4. \A x \in Used' : x \in Used
        BY <3>2, <4>1, <4>3 DEF Used
      <4> QED
        BY <1>3, <4>4
    <3> QED
      BY <2>4, <3>3, <3>4 DEF PurgeCommits, PurgeUnconfirmed
  <2>5. ASSUME NEW s \in Schedules, WarnOne(e, s)
        PROVE  Goal
    <3>1. s \in Used
      BY <1>1, <2>5, UsedFacts DEF WarnOne, RetentionTypeOK
    <3> DEFINE w == [row[s] EXCEPT !.status = "warned", !.warned = TRUE]
    <3>2. row' = [row EXCEPT ![s] = w]
      BY <1>1, <2>5 DEF WarnOne
    <3> HIDE DEF w
    <3> QED
      BY <1>7, <3>1, <3>2
  <2>6. ASSUME ReadDue(e)
        PROVE  UNCHANGED row
    BY <2>6 DEF ReadDue
  <2>7. ASSUME NEW s \in Schedules, CheckExemption(e, s)
        PROVE  UNCHANGED row
    BY <2>7 DEF CheckExemption
  <2> QED
    BY <1>2, <1>8, <2>1, <2>2, <2>3, <2>4, <2>5, <2>6, <2>7 DEF JobStep
<1>9. ASSUME NEW e \in Engines,
             \/ RequestStep(e) \/ SessionFails(e) \/ PurgeFails(e)
             \/ \E s \in Schedules : PassesOver(e, s)
             \/ StartScheduler(e) \/ StopScheduler(e)
             \/ \E op \in {"warn", "run"} : StartJob(e, op)
      PROVE  UNCHANGED row
  <2>1. CASE RequestStep(e)
    BY <2>1, RequestsRead DEF Request
  <2> QED
    BY <1>9, <2>1 DEF SessionFails, PurgeFails, PassesOver, StartScheduler, StopScheduler, StartJob
<1> QED
  BY <1>2, <1>5, <1>8, <1>9 DEF RetentionNext, TimePasses, PolicyChanges

\* From i a session goes on with j: the list of a purge run is what is due when
\* it begins and then only shrinks, and what is scheduled is a record.
GoesOn(i, j) ==
    /\ j.op = "purge" =>
         \/ j.todo = DueForPurge /\ j.at = NoSchedule
         \/ i.op = "purge" /\ j.todo \cup {j.at} \subseteq i.todo \cup {i.at, NoSchedule}
    /\ j.op = "schedule" =>
         \/ j.record \in Records
         \/ i.op = "schedule" /\ j.record = i.record

LEMMA JobsGoOn ==
    ASSUME RetentionInv, RetentionNext, NEW x \in Engines
    PROVE  GoesOn(job[x], job'[x])
<1>1. RetentionTypeOK /\ job \in [Engines -> JobStates]
  BY DEF RetentionInv, RetentionTypeOK
<1>2. \A i : GoesOn(i, i)
  BY DEF GoesOn
<1>3. ASSUME NEW e \in Engines, NEW j, job' = [job EXCEPT ![e] = j], GoesOn(job[e], j)
      PROVE  GoesOn(job[x], job'[x])
  BY <1>1, <1>2, <1>3
<1>4. ASSUME NEW e \in Engines, NEW S, NEW j \in JobStates, Writes(e, S, j), GoesOn(job[e], j)
      PROVE  GoesOn(job[x], job'[x])
  <2>1. /\ job'[e] = j
        /\ \A y \in Engines \ {e} :
             /\ job'[y].op = job[y].op /\ job'[y].todo = job[y].todo
             /\ job'[y].at = job[y].at /\ job'[y].record = job[y].record
    BY <1>1, <1>4, OthersAfterCommit
  <2>2. CASE x = e
    BY <1>4, <2>1, <2>2
  <2>3. CASE x # e
    BY <2>1, <2>3 DEF GoesOn
  <2> QED
    BY <2>2, <2>3
<1>5. Free \in JobStates /\ \A i : GoesOn(i, Free)
  BY DEF Free, JobStates, Statuses, GoesOn
<1>11. ASSUME NEW e \in Engines
       PROVE  /\ Onward(e) \in JobStates /\ Renewed(e) \in JobStates
              /\ \A F \in SUBSET Schedules, T \in SUBSET Schedules :
                   /\ GoesOn(job[e], Onward(e)) /\ GoesOn(job[e], Renewed(e))
                   /\ GoesOn(job[e], [Onward(e) EXCEPT !.failing = F])
                   /\ GoesOn(job[e], [Onward(e) EXCEPT !.todo = Onward(e).todo \ T])
                   /\ [Renewed(e) EXCEPT !.failing = F] \in JobStates
                   /\ GoesOn(job[e], [Renewed(e) EXCEPT !.failing = F])
  <2>1. job[e] \in JobStates
    BY <1>1
  <2>2. /\ Onward(e) \in JobStates /\ Onward(e).op = job[e].op /\ Onward(e).record = job[e].record
        /\ Onward(e).todo \subseteq job[e].todo /\ Onward(e).at = NoSchedule
    BY <2>1 DEF Onward, JobStates, Statuses
  <2>3. /\ Renewed(e) \in JobStates /\ Renewed(e).op = job[e].op /\ Renewed(e).record = job[e].record
        /\ Renewed(e).todo \subseteq job[e].todo /\ Renewed(e).at = NoSchedule
    BY <2>2 DEF Renewed, JobStates
  <2>4. ASSUME NEW i \in JobStates, i.op = job[e].op, i.record = job[e].record,
               i.todo \subseteq job[e].todo, i.at = NoSchedule
        PROVE  /\ GoesOn(job[e], i)
               /\ \A F \in SUBSET Schedules :
                    /\ [i EXCEPT !.failing = F] \in JobStates /\ GoesOn(job[e], [i EXCEPT !.failing = F])
                    /\ GoesOn(job[e], [i EXCEPT !.todo = i.todo \ F])
    <3>1. ASSUME NEW j, j.op = job[e].op, j.record = job[e].record, j.todo \subseteq job[e].todo, j.at = NoSchedule
          PROVE  GoesOn(job[e], j)
      BY <3>1 DEF GoesOn
    <3>2. ASSUME NEW F \in SUBSET Schedules
          PROVE  /\ [i EXCEPT !.failing = F] \in JobStates
                 /\ [i EXCEPT !.failing = F].op = i.op /\ [i EXCEPT !.failing = F].record = i.record
                 /\ [i EXCEPT !.failing = F].todo = i.todo /\ [i EXCEPT !.failing = F].at = i.at
                 /\ [i EXCEPT !.todo = i.todo \ F].op = i.op
                 /\ [i EXCEPT !.todo = i.todo \ F].record = i.record
                 /\ [i EXCEPT !.todo = i.todo \ F].todo = i.todo \ F
                 /\ [i EXCEPT !.todo = i.todo \ F].at = i.at
      BY <2>4 DEF JobStates
    <3>3. GoesOn(job[e], i)
      BY <2>4, <3>1
    <3>4. ASSUME NEW F \in SUBSET Schedules
          PROVE  /\ GoesOn(job[e], [i EXCEPT !.failing = F])
                 /\ GoesOn(job[e], [i EXCEPT !.todo = i.todo \ F])
      <4> DEFINE j == [i EXCEPT !.failing = F]
                 k == [i EXCEPT !.todo = i.todo \ F]
      <4>1. /\ j.op = i.op /\ j.record = i.record /\ j.todo = i.todo /\ j.at = i.at
            /\ k.op = i.op /\ k.record = i.record /\ k.todo = i.todo \ F /\ k.at = i.at
        BY <3>2
      <4> HIDE DEF j, k
      <4>2. j.todo \subseteq job[e].todo /\ k.todo \subseteq job[e].todo
        BY <2>4, <4>1
      <4>3. GoesOn(job[e], j) /\ GoesOn(job[e], k)
        BY <2>4, <3>1, <4>1, <4>2
      <4> QED
        BY <4>3 DEF j, k
    <3> QED
      BY <3>2, <3>3, <3>4
  <2> QED
    BY <2>2, <2>3, <2>4 DEF GoesOn
<1>6. ASSUME NEW e \in Engines, RequestStep(e)
      PROVE  GoesOn(job[x], job'[x])
  <2>1. PICK j : /\ Request(e, j) /\ j.op # "purge"
                 /\ j.op = "schedule" => j.record \in Records
    BY <1>6, RequestsRead
  <2>2. job' = [job EXCEPT ![e] = j] /\ GoesOn(job[e], j)
    BY <2>1 DEF Request, GoesOn
  <2> QED
    BY <1>3, <2>2
<1>7. ASSUME NEW e \in Engines, JobStep(e)
      PROVE  GoesOn(job[x], job'[x])
  <2>1. CASE ScheduleInserts(e) \/ GrantCommits(e) \/ RevokeCommits(e)
    BY <1>4, <1>5, <2>1 DEF ScheduleInserts, GrantCommits, RevokeCommits, Commits
  <2>2. CASE ReadDue(e)
    <3> DEFINE j == [Free EXCEPT !.op = "purge", !.stale = TRUE, !.todo = DueForPurge]
    <3>1. job' = [job EXCEPT ![e] = j]
      BY <2>2 DEF ReadDue
    <3>2. j.op = "purge" /\ j.todo = DueForPurge /\ j.at = NoSchedule
      BY DEF Free
    <3> HIDE DEF j
    <3> QED
      BY <1>3, <3>1, <3>2 DEF GoesOn
  <2>3. CASE PurgeCommits(e)
    <3>1. \/ Writes(e, {job[e].at} \cup job[e].failing, Free)
          \/ Writes(e, {job[e].at} \cup job[e].failing, Renewed(e))
      BY <2>3 DEF PurgeCommits, Purges
    <3> QED
      BY <1>4, <1>5, <1>11, <3>1
  <2>4. CASE JobEnds(e)
    BY <1>4, <1>5, <2>4 DEF JobEnds, Commits
  <2>5. ASSUME NEW s \in Schedules, WarnOne(e, s)
        PROVE  GoesOn(job[x], job'[x])
    <3> DEFINE j == [job[e] EXCEPT !.todo = job[e].todo \ {s}]
    <3>1. j \in JobStates /\ j.op \in {"warn", "run"}
      BY <1>1, <2>5 DEF WarnOne, JobStates
    <3>2. Writes(e, {s}, j)
      BY <2>5 DEF WarnOne, Commits
    <3> HIDE DEF j
    <3> QED
      BY <1>4, <3>1, <3>2 DEF GoesOn
  <2>6. ASSUME NEW s \in Schedules, CheckExemption(e, s)
        PROVE  GoesOn(job[x], job'[x])
    <3> DEFINE skips == [job[e] EXCEPT !.todo = job[e].todo \ {s}]
               takes == [job[e] EXCEPT !.at = s, !.saw = IF job[e].stale THEN "warned" ELSE Saw(s, Over)]
    <3>1. /\ skips.op = job[e].op /\ skips.todo = job[e].todo \ {s} /\ skips.at = job[e].at
          /\ takes.op = job[e].op /\ takes.todo = job[e].todo /\ takes.at = s
      BY <1>1 DEF JobStates
    <3>2. /\ job' = [job EXCEPT ![e] = skips] \/ job' = [job EXCEPT ![e] = takes]
          /\ job[e].op = "purge" /\ s \in job[e].todo
      BY <2>6 DEF CheckExemption
    <3> HIDE DEF skips, takes
    <3>3. GoesOn(job[e], skips) /\ GoesOn(job[e], takes)
      BY <3>1, <3>2 DEF GoesOn
    <3> QED
      BY <1>3, <3>2, <3>3
  <2> QED
    BY <1>7, <2>1, <2>2, <2>3, <2>4, <2>5, <2>6 DEF JobStep
<1>8. ASSUME NEW e \in Engines, SessionFails(e)
      PROVE  GoesOn(job[x], job'[x])
  BY <1>3, <1>5, <1>8 DEF SessionFails
<1>12. ASSUME NEW e \in Engines,
              PurgeUnconfirmed(e) \/ PurgeFails(e) \/ \E s \in Schedules : PassesOver(e, s)
       PROVE  GoesOn(job[x], job'[x])
  <2>1. job[e].at \in Schedules \cup {NoSchedule} /\ job[e].failing \subseteq Schedules
    BY <1>1 DEF JobStates
  <2>2. CASE PurgeUnconfirmed(e)
    <3>1. Writes(e, {job[e].at} \cup job[e].failing, [Renewed(e) EXCEPT !.failing = {job[e].at}])
          /\ job[e].at # NoSchedule
      BY <2>2 DEF PurgeUnconfirmed, Purges
    <3>2. {job[e].at} \in SUBSET Schedules
      BY <2>1, <3>1
    <3> QED
      BY <1>4, <1>11, <3>1, <3>2
  <2>3. CASE PurgeFails(e)
    <3> DEFINE F == IF job[e].saw = "failed" THEN job[e].failing ELSE job[e].failing \cup {job[e].at}
    <3>1. F \in SUBSET Schedules
      BY <2>1, <2>3 DEF PurgeFails
    <3>2. Onward(e).failing = job[e].failing
      BY <1>1 DEF Onward, JobStates
    <3>3. job' = [job EXCEPT ![e] = [Onward(e) EXCEPT !.failing = F]]
      BY <2>3, <3>2 DEF PurgeFails
    <3> HIDE DEF F
    <3> QED
      BY <1>3, <1>11, <3>1, <3>3
  <2>4. ASSUME NEW s \in Schedules, PassesOver(e, s)
        PROVE  GoesOn(job[x], job'[x])
    <3>1. job' = [job EXCEPT ![e] = [Onward(e) EXCEPT !.todo = Onward(e).todo \ {s}]]
      BY <2>4 DEF PassesOver
    <3>2. {s} \in SUBSET Schedules
      OBVIOUS
    <3> QED
      BY <1>3, <1>11, <3>1, <3>2
  <2> QED
    BY <1>12, <2>2, <2>3, <2>4
<1>9. ASSUME NEW e \in Engines, NEW op \in {"warn", "run"}, StartJob(e, op)
      PROVE  GoesOn(job[x], job'[x])
  <2> DEFINE j == [Free EXCEPT !.op = op, !.todo = DueForWarning]
  <2>1. job' = [job EXCEPT ![e] = j]
    BY <1>9 DEF StartJob
  <2>2. j.op = op
    BY DEF Free
  <2> HIDE DEF j
  <2> QED
    BY <1>3, <2>1, <2>2 DEF GoesOn
<1>10. UNCHANGED job => GoesOn(job[x], job'[x])
  BY <1>2
<1> QED
  BY <1>6, <1>7, <1>8, <1>9, <1>10, <1>12
     DEF RetentionNext, StartScheduler, StopScheduler, TimePasses, ExemptionExpires, PolicyChanges

LEMMA ListsStep ==
    ASSUME RetentionInv, ListsDue, RecordsNamed, RetentionNext
    PROVE  ListsDue' /\ RecordsNamed'
<1>1. RetentionTypeOK /\ UsedOK /\ Used \subseteq Schedules /\ NoSchedule \notin Schedules
  BY UsedFacts DEF RetentionInv
<1>2. RecordsNamed'
  <2>1. \A s \in Used' : row'[s].record \in Records
    BY ScheduledRecords DEF RecordsNamed
  <2>2. \A e \in Engines : job'[e].op = "schedule" => job'[e].record \in Records
    BY JobsGoOn DEF GoesOn, RecordsNamed
  <2> QED
    BY <2>1, <2>2 DEF RecordsNamed
<1>3. ASSUME NEW x \in Engines, job'[x].op = "purge",
             NEW s \in (job'[x].todo \cup {job'[x].at}) \ {NoSchedule}
      PROVE  age'[row'[s].record] = "due"
  <2>1. s \in Used /\ age[row[s].record] = "due"
    <3>1. CASE job'[x].todo = DueForPurge /\ job'[x].at = NoSchedule
      BY <1>3, <3>1 DEF DueForPurge
    <3>2. CASE job[x].op = "purge" /\ s \in job[x].todo \cup {job[x].at}
      BY <1>1, <1>3, <3>2 DEF ListsDue, RetentionTypeOK
    <3> QED
      BY <1>3, <3>1, <3>2, JobsGoOn DEF GoesOn
  <2>2. row[s].record \in Records
    BY <2>1 DEF RecordsNamed
  <2>3. row'[s].record = row[s].record
    BY <1>1, <2>1, RecordStays
  <2> QED
    BY <2>1, <2>2, <2>3, DueStays
<1> QED
  BY <1>2, <1>3 DEF ListsDue

LEMMA ListsAlwaysDue == RetentionSpec => [](ListsDue /\ RecordsNamed)
<1>1. RetentionInit => ListsDue /\ RecordsNamed
  BY DEF RetentionInit, ListsDue, RecordsNamed, Free, Used
<1>2. RetentionInv /\ ListsDue /\ RecordsNamed /\ RetentionNext => ListsDue' /\ RecordsNamed'
  BY ListsStep
<1>3. ListsDue /\ RecordsNamed /\ UNCHANGED retentionvars => ListsDue' /\ RecordsNamed'
  BY DEF ListsDue, RecordsNamed, Used, retentionvars
<1> QED
  BY <1>1, <1>2, <1>3, RetentionAlways, PTL DEF RetentionSpec

\* However long ago a purge run read its list, it deletes only what is due.
THEOREM PurgesAreDue == RetentionSpec => PurgedWhenDue
<1>1. ASSUME RetentionInv, ListsDue, RetentionNext, NEW r \in stored \ stored'
      PROVE  \/ age[r] = "due"
             \/ \E e \in Engines : job[e].op = "manual" /\ row[job[e].at].record = r
  <2>1. ASSUME NEW e \in Engines, RequestStep(e)
        PROVE  UNCHANGED stored
    BY <2>1, RequestsRead DEF Request
  <2>2. ASSUME NEW e \in Engines, JobStep(e), ~PurgeCommits(e)
        PROVE  UNCHANGED stored
    BY <2>2, JobsKeepTheWorld
  <2>3. ASSUME NEW e \in Engines,
               \/ SessionFails(e) \/ PurgeFails(e) \/ \E s \in Schedules : PassesOver(e, s)
               \/ StartScheduler(e) \/ StopScheduler(e)
               \/ \E op \in {"warn", "run"} : StartJob(e, op)
        PROVE  UNCHANGED stored
    BY <2>3 DEF SessionFails, PurgeFails, PassesOver, StartScheduler, StopScheduler, StartJob
  <2>4. PICK e \in Engines : PurgeCommits(e) \/ PurgeUnconfirmed(e)
    BY <1>1, <2>1, <2>2, <2>3
       DEF RetentionNext, TimePasses, ExemptionExpires, PolicyChanges
  <2> QED
    BY <1>1, <2>4 DEF PurgeCommits, PurgeUnconfirmed, Purges, ListsDue
<1>2. RetentionInv /\ ListsDue /\ [RetentionNext]_retentionvars
        => [\A r \in stored \ stored' :
              \/ age[r] = "due"
              \/ \E e \in Engines :
                   job[e].op = "manual" /\ row[job[e].at].record = r]_retentionvars
  BY <1>1
<1> QED
  BY <1>2, RetentionAlways, ListsAlwaysDue, PTL DEF RetentionSpec, PurgedWhenDue

\* Nothing becomes lost but what the session of e goes on with.
LEMMA LostAfter ==
    ASSUME RetentionTypeOK, NEW e \in Engines, NEW j, NEW X,
           job' = [job EXCEPT ![e] = j] \/ (j \in JobStates /\ \E S : Writes(e, S, j)),
           Lost \subseteq X, j.failing \subseteq X,
           \A s \in Schedules : row'[s].status = "failed" => s \in X
    PROVE  Lost' \subseteq X
<1>1. \A x \in Engines : job'[x].failing = IF x = e THEN j.failing ELSE job[x].failing
  <2>1. CASE job' = [job EXCEPT ![e] = j]
    BY <2>1 DEF RetentionTypeOK
  <2>2. CASE j \in JobStates /\ \E S : Writes(e, S, j)
    BY <2>2, OthersAfterCommit
  <2> QED
    BY <2>1, <2>2
<1>2. \A x \in Engines : job[x].failing \subseteq Lost
  BY DEF RetentionTypeOK, JobStates, Lost
<1> QED
  BY <1>1, <1>2 DEF Lost

\* A step loses nothing, or it is a failure and loses one schedule at most.
LEMMA LostStep ==
    ASSUME RetentionInv, RetentionNext
    PROVE  \/ Lost' \subseteq Lost /\ (UNCHANGED failures \/ SomethingFails)
           \/ SomethingFails /\ \E s : Lost' \subseteq Lost \cup {s}
<1> DEFINE Goal == \/ Lost' \subseteq Lost /\ (UNCHANGED failures \/ SomethingFails)
                   \/ SomethingFails /\ \E s : Lost' \subseteq Lost \cup {s}
<1>1. /\ RetentionTypeOK /\ job \in [Engines -> JobStates] /\ row \in [Schedules -> ScheduleRows]
      /\ \A s \in Schedules : row[s].status = "failed" => s \in Lost
      /\ \A e \in Engines : job[e].failing \subseteq Lost
  BY DEF RetentionInv, RetentionTypeOK, JobStates, Lost
<1>2. Free \in JobStates /\ Free.failing = {}
  BY DEF Free, JobStates, Statuses
<1>3. CASE UNCHANGED <<row, job, failures>>
  BY <1>3 DEF Lost
<1>4. ASSUME NEW e \in Engines, RequestStep(e)
      PROVE  Goal
  <2>1. PICK j : Request(e, j) /\ j.failing = {}
    BY <1>4, RequestsRead
  <2>2. job' = [job EXCEPT ![e] = j] /\ UNCHANGED <<row, failures>>
    BY <2>1 DEF Request, world
  <2>3. Lost' \subseteq Lost
    BY <1>1, <2>1, <2>2, LostAfter
  <2> QED
    BY <2>2, <2>3
<1>5. ASSUME NEW e \in Engines, \/ \E op \in {"warn", "run"} : StartJob(e, op)
                                \/ ReadDue(e) \/ SessionFails(e)
      PROVE  Goal
  <2>1. PICK j : job' = [job EXCEPT ![e] = j] /\ j.failing = {}
    <3>1. ASSUME NEW op, NEW T
          PROVE  /\ [Free EXCEPT !.op = op, !.todo = T].failing = {}
                 /\ [Free EXCEPT !.op = op, !.stale = TRUE, !.todo = T].failing = {}
      BY DEF Free
    <3>2. ASSUME NEW op \in {"warn", "run"}, StartJob(e, op)
          PROVE  \E j : job' = [job EXCEPT ![e] = j] /\ j.failing = {}
      <4>1. job' = [job EXCEPT ![e] = [Free EXCEPT !.op = op, !.todo = DueForWarning]]
        BY <3>2 DEF StartJob
      <4> QED
        BY <3>1, <4>1
    <3>3. CASE ReadDue(e)
      <4>1. job' = [job EXCEPT ![e] = [Free EXCEPT !.op = "purge", !.stale = TRUE, !.todo = DueForPurge]]
        BY <3>3 DEF ReadDue
      <4> QED
        BY <3>1, <4>1
    <3>4. CASE SessionFails(e)
      BY <1>2, <3>4 DEF SessionFails
    <3> QED
      BY <1>5, <3>2, <3>3, <3>4
  <2>2. UNCHANGED row /\ (UNCHANGED failures \/ SomethingFails)
    BY <1>5 DEF StartJob, ReadDue, SessionFails, world
  <2>3. Lost' \subseteq Lost
    BY <1>1, <2>1, <2>2, LostAfter
  <2> QED
    BY <2>2, <2>3
<1>6. ASSUME NEW e \in Engines, NEW s \in Schedules, CheckExemption(e, s) \/ PassesOver(e, s)
      PROVE  Goal
  <2> DEFINE skips == [job[e] EXCEPT !.todo = job[e].todo \ {s}]
             takes == [job[e] EXCEPT !.at = s, !.saw = IF job[e].stale THEN "warned" ELSE Saw(s, Over)]
             passes == [Onward(e) EXCEPT !.todo = Onward(e).todo \ {s}]
  <2>1. \/ job' = [job EXCEPT ![e] = skips] \/ job' = [job EXCEPT ![e] = takes]
        \/ job' = [job EXCEPT ![e] = passes]
    BY <1>6 DEF CheckExemption, PassesOver
  <2>2. UNCHANGED row /\ (UNCHANGED failures \/ SomethingFails)
    BY <1>6, Zenon DEF CheckExemption, PassesOver, world
  <2>3. /\ skips.failing = job[e].failing /\ takes.failing = job[e].failing
        /\ passes.failing = job[e].failing
    BY <1>1 DEF Onward, JobStates
  <2> HIDE DEF skips, takes, passes
  <2>4. Lost' \subseteq Lost
    BY <1>1, <2>1, <2>2, <2>3, LostAfter
  <2> QED
    BY <2>2, <2>4
\* A commit that gives nothing up that was not given up before.
<1>7. ASSUME NEW e \in Engines, NEW S, NEW j \in JobStates, Writes(e, S, j), NEW X,
             Lost \subseteq X, j.failing \subseteq X,
             \A s \in Schedules : row'[s].status \in {row[s].status, GivenUp(e)[s].status, "scheduled",
                                                     "warned", "exempted", "purged"}
      PROVE  Lost' \subseteq X
  <2>1. \A s \in Schedules : GivenUp(e)[s].status = "failed" => s \in Lost
    BY <1>1 DEF GivenUp
  <2>2. \A s \in Schedules : row'[s].status = "failed" => s \in Lost
    BY <1>1, <1>7, <2>1
  <2> QED
    BY <1>1, <1>7, <2>2, LostAfter
<1>8. ASSUME NEW e \in Engines, ScheduleInserts(e) \/ GrantCommits(e) \/ RevokeCommits(e)
      PROVE  Goal
  <2>1. PICK S : Commits(e, S, Free)
    BY <1>8 DEF ScheduleInserts, GrantCommits, RevokeCommits
  <2>2. \A s \in Schedules : row'[s].status \in {row[s].status, "scheduled", "exempted"}
    BY <1>1, <1>8 DEF ScheduleInserts, GrantCommits, RevokeCommits, ScheduleRows
  <2>3. Lost' \subseteq Lost
    BY <1>2, <1>7, <2>1, <2>2 DEF Commits
  <2> QED
    BY <2>1, <2>3 DEF Commits, world
<1>9. ASSUME NEW e \in Engines, NEW s \in Schedules, WarnOne(e, s)
      PROVE  Goal
  <2> DEFINE j == [job[e] EXCEPT !.todo = job[e].todo \ {s}]
  <2>1. Commits(e, {s}, j) /\ j \in JobStates /\ j.failing = job[e].failing
    BY <1>1, <1>9 DEF WarnOne, JobStates
  <2>2. \A t \in Schedules : row'[t].status \in {row[t].status, "warned"}
    BY <1>1, <1>9 DEF WarnOne, ScheduleRows
  <2> HIDE DEF j
  <2>3. Lost' \subseteq Lost
    BY <1>1, <1>7, <2>1, <2>2 DEF Commits
  <2> QED
    BY <2>1, <2>3 DEF Commits, world
<1>10. ASSUME NEW e \in Engines, JobEnds(e)
       PROVE  Goal
  <2>1. row' = GivenUp(e) /\ Commits(e, job[e].failing, Free)
    BY <1>10 DEF JobEnds
  <2>2. Lost' \subseteq Lost
    BY <1>2, <1>7, <2>1 DEF Commits
  <2> QED
    BY <2>1, <2>2 DEF Commits, world
<1>11. ASSUME NEW e \in Engines, NEW j, Purges(e, j)
       PROVE  \A s \in Schedules : row'[s].status \in {GivenUp(e)[s].status, "purged"}
  <2>1. \A s \in Schedules : GivenUp(e)[s] \in ScheduleRows
    BY <1>1 DEF GivenUp, ScheduleRows, Statuses
  <2> DEFINE st == IF job[e].saw = "purged" THEN GivenUp(e)[job[e].at].status ELSE "purged"
  <2>2. row' = [GivenUp(e) EXCEPT ![job[e].at].status = st]
    BY <1>11 DEF Purges
  <2>3. st \in {GivenUp(e)[job[e].at].status, "purged"}
    OBVIOUS
  <2>4. GivenUp(e) = [s \in Schedules |-> GivenUp(e)[s]]
    BY DEF GivenUp
  <2> HIDE DEF st
  <2> QED
    BY <2>1, <2>2, <2>3, <2>4 DEF ScheduleRows
<1>12. ASSUME NEW e \in Engines
       PROVE  /\ Onward(e) \in JobStates /\ Onward(e).failing = job[e].failing
              /\ Renewed(e) \in JobStates /\ Renewed(e).failing = {}
  <2>1. Onward(e) \in JobStates /\ Onward(e).failing = job[e].failing
    BY <1>1 DEF Onward, JobStates, Statuses
  <2> QED
    BY <2>1 DEF Renewed, JobStates
<1>13. ASSUME NEW e \in Engines, PurgeCommits(e)
       PROVE  Goal
  <2>1. PICK j : Purges(e, j) /\ j \in JobStates /\ j.failing = {}
    BY <1>2, <1>12, <1>13 DEF PurgeCommits
  <2>2. Lost' \subseteq Lost
    BY <1>7, <1>11, <2>1 DEF Purges
  <2> QED
    BY <1>13, <2>2 DEF PurgeCommits
<1>14. ASSUME NEW e \in Engines, PurgeUnconfirmed(e)
       PROVE  Goal
  <2> DEFINE j == [Renewed(e) EXCEPT !.failing = {job[e].at}]
  <2>1. Purges(e, j) /\ SomethingFails
    BY <1>14 DEF PurgeUnconfirmed
  <2>2. job[e].at \in Schedules
    BY <1>1, <2>1 DEF Purges, JobStates
  <2>3. j \in JobStates /\ j.failing = {job[e].at}
    BY <1>12, <2>2 DEF JobStates
  <2> HIDE DEF j
  <2>4. \A s \in Schedules : row'[s].status \in {GivenUp(e)[s].status, "purged"}
    BY <1>11, <2>1
  <2>5. Writes(e, {job[e].at} \cup job[e].failing, j)
    BY <2>1 DEF Purges
  <2> DEFINE X == Lost \cup {job[e].at}
  <2>6. Lost \subseteq X /\ j.failing \subseteq X
    BY <2>3
  <2> HIDE DEF X
  <2>7. Lost' \subseteq X
    BY <1>7, <2>3, <2>4, <2>5, <2>6
  <2> QED
    BY <2>1, <2>7 DEF X
<1>15. ASSUME NEW e \in Engines, PurgeFails(e)
       PROVE  Goal
  <2> DEFINE F == IF job[e].saw = "failed" THEN job[e].failing ELSE job[e].failing \cup {job[e].at}
             j == [Onward(e) EXCEPT !.failing = F]
  <2>1. job' = [job EXCEPT ![e] = j] /\ SomethingFails /\ UNCHANGED row
    BY <1>12, <1>15 DEF PurgeFails
  <2>2. j.failing = F /\ F \subseteq Lost \cup {job[e].at}
    BY <1>1, <1>12 DEF JobStates
  <2> HIDE DEF j, F
  <2>3. Lost' \subseteq Lost \cup {job[e].at}
    BY <1>1, <2>1, <2>2, LostAfter
  <2> QED
    BY <2>1, <2>3
<1>16. ASSUME NEW s \in Schedules, ExemptionExpires(s)
       PROVE  Goal
  <2>1. /\ UNCHANGED <<job, failures>>
        /\ \A t \in Schedules : row'[t].status = row[t].status
    BY <1>1, <1>16, UsedStep DEF ExemptionExpires, world, RetentionInv
  <2> QED
    BY <2>1 DEF Lost
<1>17. ASSUME NEW e \in Engines, StartScheduler(e) \/ StopScheduler(e)
       PROVE  UNCHANGED <<row, job, failures>>
  BY <1>17 DEF StartScheduler, StopScheduler
<1>18. ASSUME TimePasses \/ \E p \in Policies : PolicyChanges(p)
       PROVE  UNCHANGED <<row, job, failures>>
  BY <1>18 DEF TimePasses, PolicyChanges
<1> QED
  BY <1>3, <1>4, <1>5, <1>6, <1>8, <1>9, <1>10, <1>13, <1>14, <1>15, <1>16, <1>17, <1>18
     DEF RetentionNext, JobStep

\* One failure costs one schedule at most: no more schedules are "failed", or
\* about to be, than there were failures.
THEOREM OneLostForEach == RetentionSpec => []OneLostPerFailure
<1>1. RetentionInit => OneLostPerFailure
  <2>1. RetentionInit => Lost = {} /\ failures = 0
    BY DEF RetentionInit, Lost, Unused, Free
  <2> QED
    BY <2>1, FS_EmptySet DEF OneLostPerFailure
<1>2. ASSUME RetentionInv, OneLostPerFailure, RetentionNext
      PROVE  OneLostPerFailure'
  <2>1. IsFiniteSet(Lost) /\ failures \in Nat /\ Cardinality(Lost) <= failures
    <3>1. Lost \subseteq 1 .. MaxSchedules
      BY DEF Lost, Schedules
    <3>2. IsFiniteSet(1 .. MaxSchedules)
      BY RetentionAssumption, FS_Interval
    <3>3. IsFiniteSet(Lost)
      BY <3>1, <3>2, FS_Subset
    <3> QED
      BY <1>2, <3>3, RetentionAssumption DEF RetentionInv, RetentionTypeOK, OneLostPerFailure
  <2>2. ASSUME NEW X, Lost' \subseteq X, IsFiniteSet(X)
        PROVE  Cardinality(Lost') <= Cardinality(X)
    BY <2>2, FS_Subset
  <2>3. CASE Lost' \subseteq Lost /\ (UNCHANGED failures \/ SomethingFails)
    <3>1. Cardinality(Lost') <= Cardinality(Lost) /\ Cardinality(Lost') \in Nat /\ Cardinality(Lost) \in Nat
      BY <2>1, <2>2, <2>3, FS_Subset, FS_CardinalityType
    <3> QED
      BY <2>1, <2>3, <3>1 DEF OneLostPerFailure, SomethingFails
  <2>4. CASE SomethingFails /\ \E s : Lost' \subseteq Lost \cup {s}
    <3>1. PICK s : Lost' \subseteq Lost \cup {s}
      BY <2>4
    <3>2. /\ IsFiniteSet(Lost \cup {s}) /\ Cardinality(Lost \cup {s}) <= Cardinality(Lost) + 1
          /\ Cardinality(Lost) \in Nat
      BY <2>1, FS_AddElement, FS_CardinalityType
    <3>3. Cardinality(Lost') <= Cardinality(Lost \cup {s}) /\ Cardinality(Lost') \in Nat
          /\ Cardinality(Lost \cup {s}) \in Nat
      BY <2>2, <3>1, <3>2, FS_Subset, FS_CardinalityType
    <3> QED
      BY <2>1, <2>4, <3>2, <3>3 DEF OneLostPerFailure, SomethingFails
  <2> QED
    BY <1>2, <2>3, <2>4, LostStep
<1>3. OneLostPerFailure /\ UNCHANGED retentionvars => OneLostPerFailure'
  BY DEF OneLostPerFailure, Lost, retentionvars
<1> QED
  BY <1>1, <1>2, <1>3, RetentionAlways, PTL DEF RetentionSpec

-------------------------------------------------------------------------------
(* Notification batching: the invariant                                    *)

\* As long as max_batch_size was not raised, one batch at most has room.
OpenOK == ~raised => \A b, c \in Open(size) : b = c

\* Until then no sender goes by a smaller one than the user has now.
OvertakenOK == ~raised => \A n \in Notices : HasRead(n).size >= size

\* What is dropped was sent by a larger one, or there is a failure for it.
DroppedOK ==
    ~raised => IsFiniteSet(dropped \ outdated) /\ Cardinality(dropped \ outdated) <= failing

\* What a pass has in hand: batches that are there, each one once, and of the one
\* it has loaded a part of the notifications, all but those that came late.
InHands(r) ==
    /\ r.todo \cup {r.batch} \subseteq DOMAIN batches \cup {0}
    /\ 0 \notin r.todo /\ r.batch \notin r.todo
    /\ r.unsent \subseteq r.loaded
    /\ r.batch # 0 => /\ r.loaded \subseteq NoticesOf(r.batch)
                      /\ NoticesOf(r.batch) \subseteq r.loaded \cup late

PassOK == \A p \in Passes : InHands(pass[p])

Has(r, b) == b = r.batch \/ b \in r.todo

\* Two passes have only batches in hand that are known to be shared.  One that
\* was combined was sent, and whoever still has it in hand shares it.
SharedOK ==
    /\ \A p, q \in Passes, b \in DOMAIN batches :
         p # q /\ Has(pass[p], b) /\ Has(pass[q], b) => b \in shared
    /\ \A i \in DOMAIN combined :
         LET b == combined[i].batch
         IN  /\ b \in DOMAIN batches /\ batches[b].status = "sent"
             /\ \A p \in Passes : Has(pass[p], b) => b \in shared

\* A notification is in a batch that is there or in none, as one is that is not
\* stored.
NoticesOK ==
    \A n \in Notices :
        /\ notices[n].batch \in DOMAIN batches \cup {0}
        /\ notices[n].status = "none" => notices[n].batch = 0

\* The inductive invariant.
BatchingInv ==
    /\ BatchingTypeOK
    /\ OpenOK /\ OvertakenOK /\ DroppedOK
    /\ PassOK /\ SharedOK /\ CombinedOnce
    /\ NoticesOK /\ AllReported

-------------------------------------------------------------------------------
(* Notification batching: what a step does                                 *)

\* The batches there are, a new one with number n at the end.
LEMMA BatchFacts ==
    ASSUME BatchingTypeOK
    PROVE  /\ Len(batches) \in Nat /\ DOMAIN batches = 1 .. Len(batches)
           /\ 0 \notin DOMAIN batches /\ DOMAIN batches \subseteq Nat
           /\ Len(batches) + 1 \notin DOMAIN batches /\ Len(batches) + 1 # 0
           /\ \A b \in DOMAIN batches : batches[b] \in Batch
           /\ Pending \subseteq DOMAIN batches /\ \A max : Open(max) \subseteq Pending
           /\ \A b \in DOMAIN batches : batches[b].count \in Nat
           /\ size \in Nat
           /\ \A n \in Notices : /\ HasRead(n).size \in 0 .. MaxBatchSize
                                 /\ HasRead(n) \in Preferences /\ HasRead(n) # NotOvertaken
<1>1. batches \in Seq(Batch) /\ size \in 1 .. MaxBatchSize
  BY DEF BatchingTypeOK
<1>2. /\ Len(batches) \in Nat /\ DOMAIN batches = 1 .. Len(batches)
      /\ \A b \in DOMAIN batches : batches[b] \in Batch
  BY <1>1, LenProperties, ElementOfSeq
<1>3. \A b \in DOMAIN batches : batches[b].count \in Nat
  BY <1>2 DEF Batch
<1>4. size \in Nat
  BY <1>1
<1>5. ASSUME NEW n \in Notices
      PROVE  /\ HasRead(n).size \in 0 .. MaxBatchSize
             /\ HasRead(n) \in Preferences /\ HasRead(n) # NotOvertaken
  <2>1. overtaken[n] \in Preferences /\ enabled \in BOOLEAN
    BY DEF BatchingTypeOK
  <2>2. CASE overtaken[n] = NotOvertaken
    <3>1. HasRead(n) = [enabled |-> enabled, size |-> size]
      BY <2>2 DEF HasRead
    <3>2. HasRead(n).size = size /\ size \in 0 .. MaxBatchSize /\ size # 0
      BY <1>1, <3>1, BatchingAssumption
    <3>3. HasRead(n) \in Preferences
      BY <2>1, <3>1, <3>2 DEF Preferences
    <3> QED
      BY <3>2, <3>3 DEF NotOvertaken
  <2>3. CASE overtaken[n] # NotOvertaken
    BY <2>1, <2>3 DEF HasRead, Preferences
  <2> QED
    BY <2>2, <2>3
<1> QED
  BY <1>2, <1>3, <1>4, <1>5 DEF Pending, Open

\* A batch that counts one more notification.
LEMMA CountedBatch ==
    ASSUME NEW c \in Batch, NEW max
    PROVE  /\ Counted(c, max) \in Batch /\ Counted(c, max).status = c.status
           /\ Counted(c, max).count = c.count + 1
<1> DEFINE d == c.due \/ c.count + 1 >= max
<1>1. Counted(c, max) = [c EXCEPT !.count = c.count + 1, !.due = d]
  BY DEF Counted
<1>2. d \in BOOLEAN
  OBVIOUS
<1> HIDE DEF d
<1>3. c.count + 1 \in Nat
  BY DEF Batch
<1> DEFINE k == c.count + 1
<1> HIDE DEF k
<1>4. [c EXCEPT !.count = k, !.due = d] \in Batch
  BY <1>2, <1>3 DEF Batch, k
<1> QED
  BY <1>1, <1>2, <1>4 DEF Batch, k

\* Batches are never removed, and what is sent stays so.
Grows ==
    /\ batches' \in Seq(Batch) /\ DOMAIN batches \subseteq DOMAIN batches'
    /\ 0 \notin DOMAIN batches' /\ DOMAIN batches' \subseteq Nat

\* The notification n is added to the batch b.
Added(n, b) ==
    /\ New(n) /\ Join(n, b) /\ Grows
    /\ b \in DOMAIN batches' /\ DOMAIN batches' = DOMAIN batches \cup {b}
    /\ b \in DOMAIN batches => batches[b].status = "pending"
    /\ batches'[b].status = "pending"
    /\ batches'[b].count = IF b \in DOMAIN batches THEN batches[b].count + 1 ELSE 1
    /\ batches'[b].count \in 1 .. MaxBatchSize
    /\ \A c \in DOMAIN batches \ {b} : batches'[c] = batches[c]
    /\ \A c \in Open(size)' : c \in Open(size) \/ (c = b /\ Open(HasRead(n).size) = {})

LEMMA AddEffect ==
    ASSUME BatchingTypeOK, NEW n \in Notices,
           AddToNewBatch(n) \/ \E b \in DOMAIN batches : AddToBatch(n, b)
    PROVE  \E b : Added(n, b)
<1>1. batches \in Seq(Batch)
  BY DEF BatchingTypeOK
<1>2. ASSUME AddToNewBatch(n)
      PROVE  Added(n, Len(batches) + 1)
  <2> DEFINE b == Len(batches) + 1
             c == Counted(NewBatch, HasRead(n).size)
  <2>1. c \in Batch /\ c.status = "pending" /\ c.count = 1
    <3>1. NewBatch \in Batch /\ NewBatch.status = "pending" /\ NewBatch.count + 1 = 1
      BY DEF NewBatch, Batch
    <3> QED
      BY <3>1, CountedBatch
  <2>2. New(n) /\ Join(n, b) /\ Open(HasRead(n).size) = {} /\ batches' = Append(batches, c)
    BY <1>2 DEF AddToNewBatch, Join, Goes
  <2> HIDE DEF c
  <2>3. /\ batches' \in Seq(Batch) /\ Len(batches') = Len(batches) + 1
        /\ \A i \in 1 .. Len(batches) : batches'[i] = batches[i]
        /\ batches'[b] = c
    BY <1>1, <2>1, <2>2, AppendProperties
  <2>4. DOMAIN batches' = DOMAIN batches \cup {b} /\ 0 \notin DOMAIN batches' /\ DOMAIN batches' \subseteq Nat
    BY <1>1, <2>3, LenProperties, BatchFacts
  <2>5. \A d \in DOMAIN batches : batches'[d] = batches[d]
    BY <2>3, BatchFacts
  <2>6. UNCHANGED size
    BY <2>2 DEF Join, Goes, preferences
  <2>7. \A d \in Open(size)' : d \in Open(size) \/ d = b
    BY <2>4, <2>5, <2>6 DEF Open, Pending
  <2>8. c.count \in 1 .. MaxBatchSize
    BY <2>1, BatchingAssumption
  <2> QED
    BY <2>1, <2>2, <2>3, <2>4, <2>5, <2>7, <2>8, BatchFacts DEF Added, Grows
<1>3. ASSUME NEW b \in DOMAIN batches, AddToBatch(n, b)
      PROVE  Added(n, b)
  <2> DEFINE c == Counted(batches[b], HasRead(n).size)
  <2>1. c \in Batch /\ c.status = batches[b].status /\ c.count = batches[b].count + 1
    BY BatchFacts, CountedBatch
  <2>2. /\ New(n) /\ Join(n, b) /\ Open(HasRead(n).size) = {b}
        /\ batches' = [batches EXCEPT ![b] = c]
    BY <1>3 DEF AddToBatch, Join, Goes
  <2> HIDE DEF c
  <2>3. /\ batches' \in Seq(Batch) /\ DOMAIN batches' = DOMAIN batches
        /\ \A d \in DOMAIN batches : batches'[d] = IF d = b THEN c ELSE batches[d]
    BY <1>1, <2>1, <2>2, ExceptSeq, LenProperties, BatchFacts
  <2>4. batches[b].status = "pending" /\ b # 0
    BY <2>2, BatchFacts DEF Open, Pending
  <2>5. UNCHANGED size
    BY <2>2 DEF Join, Goes, preferences
  <2>6. \A d \in Open(size)' : d \in Open(size)
    <3>1. size \in Nat /\ batches[b].count \in Nat
      BY BatchFacts
    <3> QED
      BY <2>1, <2>3, <2>5, <3>1 DEF Open, Pending
  <2>7. c.count \in 1 .. MaxBatchSize
    <3>1. /\ batches[b].count \in Nat /\ batches[b].count < HasRead(n).size
          /\ HasRead(n).size \in 0 .. MaxBatchSize
      BY <2>2, BatchFacts DEF Open
    <3> QED
      BY <2>1, <3>1, BatchingAssumption
  <2> QED
    BY <2>1, <2>2, <2>3, <2>4, <2>6, <2>7, BatchFacts DEF Added, Grows
<1> QED
  BY <1>2, <1>3

\* A notification that is added to no batch.
Alone(n) == SendNow(n) \/ SendNothing(n) \/ AddFails(n)

LEMMA AloneEffect ==
    ASSUME NEW n \in Notices, Alone(n)
    PROVE  /\ New(n) /\ overtaken' = [overtaken EXCEPT ![n] = NotOvertaken]
           /\ UNCHANGED <<batches, combined, pass, expiring, preferences, shared, late>>
           /\ UNCHANGED <<enabled, size, raised>>
           /\ \E st \in {"none", "pending", "sent", "failed"} :
                notices' = [notices EXCEPT ![n].status = st]
           /\ AddFails(n) \/ UNCHANGED <<dropped, outdated, failing>>
<1>1. CASE SendNow(n)
  BY <1>1 DEF SendNow, Sent, Goes, preferences
<1>2. CASE SendNothing(n)
  BY <1>2 DEF SendNothing, Goes, Left, preferences
<1>3. CASE AddFails(n)
  BY <1>3 DEF AddFails, Goes, Left, preferences
<1> QED
  BY <1>1, <1>2, <1>3 DEF Alone

ChangesPreferences ==
    \E on \in BOOLEAN, max \in 1 .. MaxBatchSize, S \in SUBSET Notices : SetPreferences(on, max, S)

LEMMA PreferencesEffect ==
    ASSUME ChangesPreferences
    PROVE  /\ UNCHANGED <<notices, batches, combined, pass, expiring, shared, late>>
           /\ UNCHANGED <<dropped, outdated, failing>>
           /\ raised => raised'
BY DEF ChangesPreferences, SetPreferences

\* A notification is sent, the preferences are changed, or something happens to
\* the batches alone or to a pass.
BatchingEffect ==
    \/ \E n \in Notices : \E b : Added(n, b)
    \/ \E n \in Notices : Alone(n)
    \/ ChangesPreferences
    \/ \E b \in DOMAIN batches : GetsDue(b)
    \/ \E p \in Passes, S \in SUBSET Pending : BeginPass(p, S)
    \/ \E p \in Passes, b \in DOMAIN batches : LoadBatch(p, b)
    \/ \E p \in Passes : ProcessBatch(p) \/ PassFails(p)
    \/ MarkExpired \/ \E S \in SUBSET Expirable : FindExpired(S)

LEMMA BatchingEffects ==
    ASSUME BatchingTypeOK, BatchingNext
    PROVE  BatchingEffect
<1>1. ASSUME NEW n \in Notices, NotifyUser(n)
      PROVE  BatchingEffect
  BY <1>1, AddEffect DEF NotifyUser, Alone, BatchingEffect
<1>2. ASSUME NEW p \in Passes, PassStep(p)
      PROVE  BatchingEffect
  <2>1. Ready \in SUBSET Pending
    BY DEF Ready
  <2>2. \A b : ForceSendBatch(p, b) => {b} \in SUBSET Pending /\ BeginPass(p, {b})
    BY DEF ForceSendBatch
  <2> QED
    BY <1>2, <2>1, <2>2 DEF PassStep, ProcessReadyBatches, BatchingEffect
<1>3. ASSUME NEW on \in BOOLEAN, NEW max \in 1 .. MaxBatchSize,
             NEW S \in SUBSET {n \in Notices : New(n)}, SetPreferences(on, max, S)
      PROVE  BatchingEffect
  <2>1. S \in SUBSET Notices
    OBVIOUS
  <2> QED
    BY <1>3, <2>1 DEF BatchingEffect, ChangesPreferences
<1> QED
  BY <1>1, <1>2, <1>3 DEF BatchingNext, BatchingEffect

\* What becomes of the batches, whatever the step.
BatchesKept ==
    /\ Grows
    /\ \A b \in DOMAIN batches : batches[b].status = "sent" => batches'[b].status = "sent"
    /\ \A b \in DOMAIN batches' \ DOMAIN batches : batches'[b].status = "pending"

\* A batch of which one field is set.
LEMMA SetBatch ==
    ASSUME BatchingTypeOK, BatchingInv,
           \/ \E b \in DOMAIN batches : GetsDue(b)
           \/ \E p \in Passes : ProcessBatch(p)
    PROVE  /\ batches' \in Seq(Batch) /\ DOMAIN batches' = DOMAIN batches
           /\ \A b \in DOMAIN batches :
                /\ batches'[b].count = batches[b].count
                /\ batches[b].status = "sent" => batches'[b].status = "sent"
           /\ \A b \in DOMAIN batches : GetsDue(b) =>
                \A c \in DOMAIN batches : batches'[c].status = batches[c].status
           /\ \A p \in Passes : ProcessBatch(p) =>
                /\ pass[p].batch \in DOMAIN batches
                /\ \A c \in DOMAIN batches :
                     batches'[c].status = IF c = pass[p].batch THEN "sent" ELSE batches[c].status
<1>1. batches \in Seq(Batch) /\ \A b \in DOMAIN batches : batches[b] \in Batch
  BY BatchFacts DEF BatchingTypeOK
<1>2. ASSUME NEW b \in DOMAIN batches, NEW c \in Batch, batches' = [batches EXCEPT ![b] = c]
      PROVE  /\ batches' \in Seq(Batch) /\ DOMAIN batches' = DOMAIN batches
             /\ \A d \in DOMAIN batches : batches'[d] = IF d = b THEN c ELSE batches[d]
  BY <1>1, <1>2, ExceptSeq, LenProperties
<1>3. ASSUME NEW b \in DOMAIN batches, GetsDue(b)
      PROVE  /\ batches' \in Seq(Batch) /\ DOMAIN batches' = DOMAIN batches
             /\ \A d \in DOMAIN batches : /\ batches'[d].status = batches[d].status
                                          /\ batches'[d].count = batches[d].count
  <2> DEFINE c == [batches[b] EXCEPT !.due = TRUE]
  <2>1. c \in Batch /\ c.status = batches[b].status /\ c.count = batches[b].count
    BY <1>1 DEF Batch
  <2>2. batches' = [batches EXCEPT ![b] = c]
    BY <1>3 DEF GetsDue
  <2> HIDE DEF c
  <2> QED
    BY <1>2, <2>1, <2>2
<1>4. ASSUME NEW p \in Passes, ProcessBatch(p)
      PROVE  /\ pass[p].batch \in DOMAIN batches
             /\ batches' \in Seq(Batch) /\ DOMAIN batches' = DOMAIN batches
             /\ \A d \in DOMAIN batches :
                  /\ batches'[d].status = IF d = pass[p].batch THEN "sent" ELSE batches[d].status
                  /\ batches'[d].count = batches[d].count
  <2> DEFINE b == pass[p].batch
             c == [batches[b] EXCEPT !.status = "sent"]
  <2>1. b \in DOMAIN batches
    BY <1>4 DEF ProcessBatch, BatchingInv, PassOK, InHands
  <2>2. c \in Batch /\ c.status = "sent" /\ c.count = batches[b].count
    BY <1>1, <2>1 DEF Batch
  <2>3. batches' = [batches EXCEPT ![b] = c]
    BY <1>4 DEF ProcessBatch
  <2> HIDE DEF b, c
  <2>4. /\ batches' \in Seq(Batch) /\ DOMAIN batches' = DOMAIN batches
        /\ \A d \in DOMAIN batches : batches'[d] = IF d = b THEN c ELSE batches[d]
    BY <1>2, <2>1, <2>2, <2>3
  <2> QED
    BY <2>1, <2>2, <2>4 DEF b
<1> QED
  BY <1>3, <1>4

LEMMA BatchesStep ==
    ASSUME BatchingInv, BatchingEffect
    PROVE  BatchesKept
<1>1. BatchingTypeOK /\ batches \in Seq(Batch)
  BY DEF BatchingInv, BatchingTypeOK
<1>2. ASSUME NEW n \in Notices, NEW b, Added(n, b)
      PROVE  BatchesKept
  BY <1>2 DEF Added, BatchesKept
<1>3. CASE UNCHANGED batches
  BY <1>1, <1>3, BatchFacts DEF BatchesKept, Grows
<1>4. CASE \/ \E b \in DOMAIN batches : GetsDue(b)
           \/ \E p \in Passes : ProcessBatch(p)
  BY <1>1, <1>4, SetBatch, BatchFacts DEF BatchesKept, Grows
<1> QED
  BY <1>2, <1>3, <1>4, AloneEffect, PreferencesEffect
     DEF BatchingEffect, BeginPass, LoadBatch, PassFails, MarkExpired, FindExpired

\* A batch becomes sent when a pass has processed it.
LEMMA SentSteps ==
    ASSUME BatchingInv, BatchingEffect
    PROVE  \A b \in DOMAIN batches : batches'[b].status = "sent" =>
             \/ batches[b].status = "sent"
             \/ \E p \in Passes : ProcessBatch(p) /\ pass[p].batch = b
<1>1. BatchingTypeOK
  BY DEF BatchingInv
<1>2. ASSUME NEW n \in Notices, NEW c, Added(n, c), NEW b \in DOMAIN batches,
             batches'[b].status = "sent"
      PROVE  batches[b].status = "sent"
  BY <1>2 DEF Added
<1>3. CASE \/ \E b \in DOMAIN batches : GetsDue(b)
           \/ \E p \in Passes : ProcessBatch(p)
  BY <1>1, <1>3, SetBatch
<1> QED
  BY <1>2, <1>3, AloneEffect, PreferencesEffect
     DEF BatchingEffect, BeginPass, LoadBatch, PassFails, MarkExpired, FindExpired

\* What becomes of a notification.  One that is in no batch is added to one, or
\* is sent or left without; for the others only the status may change.
LEMMA NoticesStep ==
    ASSUME BatchingInv, BatchingEffect
    PROVE  /\ notices' \in [Notices -> Notice]
           /\ \A n \in Notices :
                \/ \E b : Added(n, b) /\ notices'[n] = [status |-> "pending", batch |-> b]
                \/ /\ notices'[n].batch = notices[n].batch
                   /\ \/ notices'[n].status = notices[n].status
                      \/ notices'[n].status = "expired"
                      \/ notices'[n].status \in {"none", "pending", "sent", "failed"} /\ notices[n].batch = 0
                      \/ /\ notices'[n].status = "sent"
                         /\ \E p \in Passes : ProcessBatch(p) /\ n \in pass[p].loaded
<1>1. /\ BatchingTypeOK /\ OpenOK /\ notices \in [Notices -> Notice]
      /\ \A n \in Notices : New(n) => notices[n].batch = 0
  BY DEF BatchingInv, BatchingTypeOK, NoticesOK, New
<1> DEFINE Goal == /\ notices' \in [Notices -> Notice]
                   /\ \A n \in Notices :
                        \/ \E b : Added(n, b) /\ notices'[n] = [status |-> "pending", batch |-> b]
                        \/ /\ notices'[n].batch = notices[n].batch
                           /\ \/ notices'[n].status = notices[n].status
                              \/ notices'[n].status = "expired"
                              \/ notices'[n].status \in {"none", "pending", "sent", "failed"} /\ notices[n].batch = 0
                              \/ /\ notices'[n].status = "sent"
                                 /\ \E p \in Passes : ProcessBatch(p) /\ n \in pass[p].loaded
<1>2. ASSUME NEW n \in Notices, NEW b, Added(n, b)
      PROVE  Goal
  <2>1. notices' = [notices EXCEPT ![n] = [status |-> "pending", batch |-> b]] /\ b \in Nat
    BY <1>2 DEF Added, Join, Grows
  <2>2. [status |-> "pending", batch |-> b] \in Notice
    BY <2>1 DEF Notice
  <2> QED
    BY <1>1, <1>2, <2>1, <2>2
<1> DEFINE F(S, st) == [n \in Notices |->
                          IF n \in S THEN [notices[n] EXCEPT !.status = st] ELSE notices[n]]
<1>3. ASSUME NEW S \in SUBSET Notices,
             NEW st \in {"none", "pending", "sent", "failed", "expired"},
             notices' = F(S, st)
      PROVE  /\ notices' \in [Notices -> Notice]
             /\ \A n \in Notices : /\ notices'[n].batch = notices[n].batch
                                   /\ notices'[n].status = IF n \in S THEN st ELSE notices[n].status
  <2>1. ASSUME NEW n \in Notices
        PROVE  LET x == [notices[n] EXCEPT !.status = st]
               IN  x \in Notice /\ x.batch = notices[n].batch /\ x.status = st
    BY <1>1 DEF Notice
  <2> DEFINE x(n) == [notices[n] EXCEPT !.status = st]
  <2>2. notices' = [n \in Notices |-> IF n \in S THEN x(n) ELSE notices[n]]
    BY <1>3
  <2>3. \A n \in Notices : x(n) \in Notice /\ x(n).batch = notices[n].batch /\ x(n).status = st
    BY <2>1
  <2> HIDE DEF x
  <2> QED
    BY <1>1, <2>2, <2>3
<1> DEFINE SetTo(m, st) ==
             /\ notices' \in [Notices -> Notice]
             /\ \A n \in Notices : /\ notices'[n].batch = notices[n].batch
                                   /\ notices'[n].status = IF n = m THEN st ELSE notices[n].status
<1>4. ASSUME NEW m \in Notices, NEW st \in {"none", "pending", "sent", "failed"},
             notices' = [notices EXCEPT ![m].status = st]
      PROVE  SetTo(m, st)
  <2>1. notices' = F({m}, st)
    BY <1>1, <1>4
  <2> HIDE DEF F
  <2>2. /\ notices' \in [Notices -> Notice]
        /\ \A n \in Notices : /\ notices'[n].batch = notices[n].batch
                              /\ notices'[n].status = IF n \in {m} THEN st ELSE notices[n].status
    <3>1. {m} \in SUBSET Notices /\ st \in {"none", "pending", "sent", "failed", "expired"}
      OBVIOUS
    <3> QED
      BY <1>3, <2>1, <3>1
  <2> QED
    BY <2>2
<1>5. ASSUME NEW n \in Notices, Alone(n)
      PROVE  Goal
  <2>1. PICK st \in {"none", "pending", "sent", "failed"} :
            notices' = [notices EXCEPT ![n].status = st]
    BY <1>5, AloneEffect
  <2>2. notices[n].batch = 0
    BY <1>1, <1>5, AloneEffect
  <2> HIDE DEF F, SetTo, Goal
  <2>3. SetTo(n, st)
    BY <1>4, <2>1
  <2> QED
    BY <2>1, <2>2, <2>3 DEF Goal, SetTo
<1>6. ASSUME MarkExpired
      PROVE  Goal
  <2>1. /\ notices' \in [Notices -> Notice]
        /\ \A m \in Notices :
             /\ notices'[m].batch = notices[m].batch
             /\ notices'[m].status = IF m \in expiring THEN "expired" ELSE notices[m].status
    BY <1>1, <1>3, <1>6 DEF MarkExpired, BatchingTypeOK
  <2> QED
    BY <2>1
<1>7. ASSUME NEW p \in Passes, ProcessBatch(p)
      PROVE  Goal
  <2>1. pass[p].unsent \in SUBSET Notices /\ pass[p].unsent \subseteq pass[p].loaded
    BY <1>1 DEF BatchingTypeOK, Hands, BatchingInv, PassOK, InHands
  <2>2. /\ notices' \in [Notices -> Notice]
        /\ \A m \in Notices :
             /\ notices'[m].batch = notices[m].batch
             /\ notices'[m].status = IF m \in pass[p].unsent THEN "sent" ELSE notices[m].status
    BY <1>3, <1>7, <2>1 DEF ProcessBatch, Reported
  <2> QED
    BY <1>7, <2>1, <2>2
<1>8. CASE UNCHANGED notices
  BY <1>1, <1>8
<1> QED
  BY <1>2, <1>5, <1>6, <1>7, <1>8, PreferencesEffect
     DEF BatchingEffect, GetsDue, BeginPass, LoadBatch, PassFails, FindExpired

LEMMA NoticesOKStep ==
    ASSUME BatchingInv, BatchingEffect
    PROVE  NoticesOK'
<1>1. NoticesOK /\ BatchingTypeOK
  BY DEF BatchingInv
<1>2. DOMAIN batches \subseteq DOMAIN batches'
  BY BatchesStep DEF BatchesKept, Grows
<1>3. ASSUME NEW n \in Notices
      PROVE  /\ notices'[n].batch \in DOMAIN batches' \cup {0}
             /\ notices'[n].status = "none" => notices'[n].batch = 0
  <2>1. CASE \E b : Added(n, b) /\ notices'[n] = [status |-> "pending", batch |-> b]
    BY <2>1 DEF Added
  <2>2. CASE ~(\E b : Added(n, b) /\ notices'[n] = [status |-> "pending", batch |-> b])
    BY <1>1, <1>2, <2>2, NoticesStep DEF NoticesOK
  <2> QED
    BY <2>1, <2>2
<1> QED
  BY <1>3 DEF NoticesOK

\* The combined notifications are only added to, when a batch is processed.
LEMMA CombinedStep ==
    ASSUME BatchingInv, BatchingEffect
    PROVE  LET n == Len(combined) + 1
           IN  /\ combined' \in Seq([batch : Nat, of : SUBSET Notices])
               /\ \A i \in DOMAIN combined : i \in DOMAIN combined' /\ combined'[i] = combined[i]
               /\ \A i \in DOMAIN combined' \ DOMAIN combined :
                    /\ i = n
                    /\ \E p \in Passes : /\ ProcessBatch(p)
                                         /\ combined'[i].batch = pass[p].batch
               /\ \A p \in Passes : ProcessBatch(p) =>
                    /\ n \in DOMAIN combined'
                    /\ combined'[n] = [batch |-> pass[p].batch, of |-> pass[p].loaded]
<1> DEFINE n == Len(combined) + 1
           Report == [batch : Nat, of : SUBSET Notices]
<1>1. combined \in Seq(Report) /\ BatchingTypeOK
  BY DEF BatchingInv, BatchingTypeOK
<1>2. DOMAIN combined = 1 .. Len(combined) /\ Len(combined) \in Nat
  BY <1>1, LenProperties
<1>3. ASSUME NEW p \in Passes, ProcessBatch(p)
      PROVE  /\ combined' \in Seq(Report) /\ DOMAIN combined' = DOMAIN combined \cup {n}
             /\ \A i \in DOMAIN combined : combined'[i] = combined[i]
             /\ combined'[n] = [batch |-> pass[p].batch, of |-> pass[p].loaded]
  <2> DEFINE x == [batch |-> pass[p].batch, of |-> pass[p].loaded]
  <2>1. x \in Report
    BY <1>1 DEF BatchingTypeOK, Hands
  <2>2. combined' = Append(combined, x)
    BY <1>3 DEF ProcessBatch
  <2> HIDE DEF x, Report
  <2>3. /\ combined' \in Seq(Report) /\ Len(combined') = n
        /\ \A i \in 1 .. Len(combined) : combined'[i] = combined[i]
        /\ combined'[n] = x
    BY <1>1, <2>1, <2>2, AppendProperties
  <2>4. DOMAIN combined' = DOMAIN combined \cup {n}
    BY <1>2, <2>3, LenProperties
  <2>5. \A i \in DOMAIN combined : combined'[i] = combined[i]
    BY <1>2, <2>3
  <2>6. combined'[n] = [batch |-> pass[p].batch, of |-> pass[p].loaded]
    BY <2>3 DEF x
  <2> QED
    BY <2>3, <2>4, <2>5, <2>6
<1>4. CASE \E p \in Passes : ProcessBatch(p)
  <2>1. n \notin DOMAIN combined
    BY <1>2
  <2>2. PICK p \in Passes : ProcessBatch(p)
    BY <1>4
  <2>3. /\ combined' \in Seq(Report) /\ DOMAIN combined' = DOMAIN combined \cup {n}
        /\ \A i \in DOMAIN combined : combined'[i] = combined[i]
        /\ combined'[n] = [batch |-> pass[p].batch, of |-> pass[p].loaded]
    BY <1>3, <2>2
  <2>4. combined'[n].batch = pass[p].batch
    BY <2>3
  <2>5. \A q \in Passes : ProcessBatch(q) =>
           combined'[n] = [batch |-> pass[q].batch, of |-> pass[q].loaded]
    BY <1>3
  <2> HIDE DEF Report, n
  <2> QED
    BY <2>1, <2>2, <2>3, <2>4, <2>5 DEF Report, n
<1>5. CASE UNCHANGED combined /\ ~\E p \in Passes : ProcessBatch(p)
  BY <1>1, <1>5
<1> QED
  BY <1>4, <1>5, AloneEffect, PreferencesEffect
     DEF BatchingEffect, Added, Join, Goes, GetsDue, BeginPass, LoadBatch, PassFails, MarkExpired,
         FindExpired

\* What becomes of what the passes have in hand, and of what is known of it.
LEMMA PassesStep ==
    ASSUME BatchingInv, BatchingEffect
    PROVE  /\ pass' \in [Passes -> Hands] /\ PassOK'
           /\ shared \subseteq shared' /\ shared' \in SUBSET Nat
           /\ late \subseteq late' /\ late' \in SUBSET Notices
           /\ \A p \in Passes, b \in DOMAIN batches' : Has(pass'[p], b) =>
                \/ Has(pass[p], b)
                \/ /\ b \in Pending
                   /\ \A q \in Passes \ {p} : Has(pass'[q], b) => b \in shared'
           /\ \A p \in Passes : ProcessBatch(p) =>
                /\ pass'[p].batch = 0 /\ pass'[p].todo = pass[p].todo
                /\ \A q \in Passes \ {p} : pass'[q] = pass[q]
<1> DEFINE Goal == /\ pass' \in [Passes -> Hands] /\ PassOK'
                   /\ shared \subseteq shared' /\ shared' \in SUBSET Nat
                   /\ late \subseteq late' /\ late' \in SUBSET Notices
                   /\ \A p \in Passes, b \in DOMAIN batches' : Has(pass'[p], b) =>
                        \/ Has(pass[p], b)
                        \/ /\ b \in Pending
                           /\ \A q \in Passes \ {p} : Has(pass'[q], b) => b \in shared'
<1>1. /\ BatchingTypeOK /\ PassOK /\ NoticesOK
      /\ pass \in [Passes -> Hands] /\ shared \in SUBSET Nat /\ late \in SUBSET Notices
  BY DEF BatchingInv, BatchingTypeOK
<1>2. /\ DOMAIN batches \subseteq DOMAIN batches' /\ 0 \notin DOMAIN batches /\ 0 \notin DOMAIN batches'
      /\ DOMAIN batches \subseteq Nat /\ Pending \subseteq DOMAIN batches
  BY <1>1, BatchesStep, BatchFacts DEF BatchesKept, Grows
<1>3. ASSUME NEW n \in Notices, NEW b, Added(n, b)
      PROVE  Goal
  <2>1. /\ UNCHANGED <<pass, shared>> /\ b \in DOMAIN batches' /\ notices[n].batch = 0
        /\ notices' = [notices EXCEPT ![n] = [status |-> "pending", batch |-> b]]
        /\ late' = IF BatchLoaded(b) THEN late \cup {n} ELSE late
    BY <1>1, <1>3 DEF Added, Join, Goes, New, NoticesOK
  <2>2. /\ NoticesOf(b)' = NoticesOf(b) \cup {n}
        /\ \A c : c # b /\ c # 0 => NoticesOf(c)' = NoticesOf(c)
    BY <1>1, <2>1 DEF NoticesOf, BatchingTypeOK
  <2>3. ASSUME NEW p \in Passes
        PROVE  InHands(pass[p])'
    <3>1. InHands(pass[p]) /\ pass'[p] = pass[p] /\ (pass[p].batch = b => BatchLoaded(b))
      BY <1>1, <2>1 DEF PassOK, BatchLoaded
    <3> QED
      BY <1>2, <2>1, <2>2, <3>1 DEF InHands
  <2> QED
    BY <1>1, <2>1, <2>3 DEF PassOK
<1>4. ASSUME \A n \in Notices : notices'[n].batch = notices[n].batch, late' = late,
             NEW r, InHands(r)
      PROVE  /\ r.todo \cup {r.batch} \subseteq DOMAIN batches' \cup {0}
             /\ 0 \notin r.todo /\ r.batch \notin r.todo
             /\ r.unsent \subseteq r.loaded
             /\ r.batch # 0 => /\ r.loaded \subseteq NoticesOf(r.batch)'
                               /\ NoticesOf(r.batch)' \subseteq r.loaded \cup late'
  BY <1>2, <1>4 DEF InHands, NoticesOf
<1>5. ASSUME NEW p \in Passes, NEW r \in Hands, pass' = [pass EXCEPT ![p] = r], InHands(r),
             \A n \in Notices : notices'[n].batch = notices[n].batch, late' = late,
             shared \subseteq shared', shared' \in SUBSET Nat,
             \A b \in DOMAIN batches' : Has(r, b) =>
               \/ Has(pass[p], b)
               \/ b \in Pending /\ \A q \in Passes \ {p} : Has(pass[q], b) => b \in shared'
      PROVE  Goal
  <2>1. pass' \in [Passes -> Hands] /\ pass'[p] = r /\ \A q \in Passes \ {p} : pass'[q] = pass[q]
    BY <1>1, <1>5
  <2>2. ASSUME NEW q \in Passes
        PROVE  InHands(pass[q])'
    <3>1. InHands(pass'[q])
      BY <1>1, <1>5, <2>1 DEF PassOK
    <3> QED
      BY <1>4, <1>5, <3>1 DEF InHands
  <2> QED
    BY <1>1, <1>5, <2>1, <2>2 DEF PassOK
<1>6. ASSUME UNCHANGED <<pass, shared, late>>, \A n \in Notices : notices'[n].batch = notices[n].batch
      PROVE  Goal
  <2>1. ASSUME NEW q \in Passes
        PROVE  InHands(pass[q])'
    BY <1>1, <1>4, <1>6 DEF PassOK, InHands
  <2> QED
    BY <1>1, <1>6, <2>1 DEF PassOK
<1>7. ASSUME ~\E n \in Notices : \E b : Added(n, b)
      PROVE  Goal
  <2>1. \A n \in Notices : notices'[n].batch = notices[n].batch
    BY <1>7, NoticesStep
  <2>2. ASSUME NEW p \in Passes, NEW S \in SUBSET Pending, BeginPass(p, S)
        PROVE  Goal
    <3> DEFINE r == [pass[p] EXCEPT !.todo = S]
    <3>1. /\ pass' = [pass EXCEPT ![p] = r] /\ pass[p] = Idle /\ UNCHANGED late
          /\ shared' = shared \cup (S \cap Held)
      BY <2>2 DEF BeginPass
    <3>2. r \in Hands /\ r.todo = S /\ r.batch = 0 /\ r.unsent \subseteq r.loaded
      BY <1>2, <3>1 DEF Idle, Hands
    <3>3. shared' \in SUBSET Nat
      BY <1>1, <1>2, <3>1
    <3> HIDE DEF r
    <3>4. InHands(r)
      BY <1>2, <3>2 DEF InHands
    <3>5. ASSUME NEW b \in DOMAIN batches', Has(r, b)
          PROVE  b \in Pending /\ \A q \in Passes \ {p} : Has(pass[q], b) => b \in shared'
      BY <1>2, <3>1, <3>2, <3>5 DEF Has, Held
    <3> QED
      BY <1>5, <2>1, <3>1, <3>2, <3>3, <3>4, <3>5
  <2>3. ASSUME NEW p \in Passes, NEW b \in DOMAIN batches, LoadBatch(p, b)
        PROVE  Goal
    <3> DEFINE r == [todo |-> pass[p].todo \ {b}, batch |-> b, loaded |-> NoticesOf(b),
                     unsent |-> {n \in NoticesOf(b) : notices[n].status # "sent"}]
    <3>1. /\ pass' = [pass EXCEPT ![p] = r] /\ UNCHANGED <<shared, late>>
          /\ b \in pass[p].todo
      BY <2>3 DEF LoadBatch
    <3>2. pass[p] \in Hands /\ InHands(pass[p])
      BY <1>1 DEF PassOK
    <3>3. /\ r \in Hands /\ r.todo = pass[p].todo \ {b} /\ r.batch = b
          /\ r.loaded = NoticesOf(b) /\ r.unsent \subseteq r.loaded
      BY <1>2, <3>2 DEF Hands, NoticesOf
    <3> HIDE DEF r
    <3>4. InHands(r)
      BY <3>1, <3>2, <3>3 DEF InHands
    <3>5. \A c : Has(r, c) => Has(pass[p], c)
      BY <3>1, <3>3 DEF Has
    <3> QED
      BY <1>1, <1>5, <2>1, <3>1, <3>3, <3>4, <3>5
  <2>4. ASSUME NEW p \in Passes, ProcessBatch(p)
        PROVE  Goal
    <3> DEFINE r == [pass[p] EXCEPT !.batch = 0, !.loaded = {}, !.unsent = {}]
    <3>1. pass' = [pass EXCEPT ![p] = r] /\ UNCHANGED <<shared, late>>
      BY <2>4 DEF ProcessBatch, Release
    <3>2. pass[p] \in Hands /\ InHands(pass[p])
      BY <1>1 DEF PassOK
    <3>3. r \in Hands /\ r.todo = pass[p].todo /\ r.batch = 0 /\ r.unsent \subseteq r.loaded
      BY <3>2 DEF Hands
    <3> HIDE DEF r
    <3>4. InHands(r)
      BY <3>2, <3>3 DEF InHands
    <3>5. \A c \in DOMAIN batches' : Has(r, c) => Has(pass[p], c)
      BY <1>2, <3>3 DEF Has
    <3> QED
      BY <1>1, <1>5, <2>1, <3>1, <3>3, <3>4, <3>5
  <2>5. ASSUME NEW p \in Passes, PassFails(p)
        PROVE  Goal
    <3>1. pass' = [pass EXCEPT ![p] = Idle] /\ UNCHANGED <<shared, late>>
      BY <2>5 DEF PassFails
    <3>2. Idle \in Hands /\ Idle.todo = {} /\ Idle.batch = 0 /\ Idle.unsent \subseteq Idle.loaded
      BY DEF Idle, Hands
    <3>3. InHands(Idle) /\ \A c \in DOMAIN batches' : ~Has(Idle, c)
      BY <1>2, <3>2 DEF InHands, Has
    <3> QED
      BY <1>1, <1>5, <2>1, <3>1, <3>2, <3>3
  <2>6. CASE \/ \E n \in Notices : Alone(n)
             \/ ChangesPreferences
             \/ \E b \in DOMAIN batches : GetsDue(b)
             \/ MarkExpired \/ \E S \in SUBSET Expirable : FindExpired(S)
    <3>1. UNCHANGED <<pass, shared, late>>
      BY <2>6, AloneEffect, PreferencesEffect DEF GetsDue, MarkExpired, FindExpired
    <3> QED
      BY <1>6, <2>1, <3>1
  <2> HIDE DEF Goal
  <2> QED
    BY <1>7, <2>2, <2>3, <2>4, <2>5, <2>6 DEF BatchingEffect
<1>8. ASSUME NEW p \in Passes, ProcessBatch(p)
      PROVE  /\ pass'[p].batch = 0 /\ pass'[p].todo = pass[p].todo
             /\ \A q \in Passes \ {p} : pass'[q] = pass[q]
  <2>1. pass' = [pass EXCEPT ![p] = [pass[p] EXCEPT !.batch = 0, !.loaded = {}, !.unsent = {}]]
    BY <1>8 DEF ProcessBatch, Release
  <2>2. pass[p] \in Hands
    BY <1>1
  <2> QED
    BY <1>1, <2>1, <2>2 DEF Hands
<1>9. Goal
  BY <1>3, <1>7
<1> QED
  BY <1>8, <1>9

LEMMA BatchingTypeStep ==
    ASSUME BatchingInv, BatchingEffect
    PROVE  BatchingTypeOK'
<1>1. BatchingTypeOK
  BY DEF BatchingInv
<1>2. /\ notices' \in [Notices -> Notice] /\ batches' \in Seq(Batch)
      /\ combined' \in Seq([batch : Nat, of : SUBSET Notices])
  BY NoticesStep, BatchesStep, CombinedStep DEF BatchesKept, Grows
<1>3. /\ pass' \in [Passes -> Hands]
      /\ shared' \in SUBSET Nat /\ late' \in SUBSET Notices
  BY PassesStep
<1>4. expiring' \in SUBSET Notices
  BY <1>1, BatchingAssumption, AloneEffect, PreferencesEffect
     DEF BatchingTypeOK, BatchingEffect, Added, Join, Goes, GetsDue, BeginPass, LoadBatch,
         ProcessBatch, PassFails, MarkExpired, FindExpired
<1> DEFINE Goal == /\ enabled' \in BOOLEAN /\ size' \in 1 .. MaxBatchSize /\ raised' \in BOOLEAN
                   /\ overtaken' \in [Notices -> Preferences]
                   /\ dropped' \in SUBSET Notices /\ outdated' \in SUBSET Notices
                   /\ failing' \in 0 .. MaxErrors
<1>5. Goal
  <2>0. /\ overtaken \in [Notices -> Preferences] /\ NotOvertaken \in Preferences
        /\ dropped \in SUBSET Notices /\ outdated \in SUBSET Notices
        /\ failing \in 0 .. MaxErrors
    BY <1>1, BatchingAssumption DEF BatchingTypeOK, NotOvertaken, Preferences
  <2>1. CASE ChangesPreferences
    <3>1. \A n \in Notices : HasRead(n) \in Preferences
      BY <1>1, BatchFacts
    <3> QED
      BY <1>1, <2>0, <2>1, <3>1 DEF BatchingTypeOK, ChangesPreferences, SetPreferences
  <2>2. ASSUME NEW n \in Notices, Alone(n)
        PROVE  Goal
    <3>1. overtaken' \in [Notices -> Preferences]
      BY <2>0, <2>2, AloneEffect
    <3>2. CASE AddFails(n)
      <4>1. dropped' \in SUBSET Notices /\ outdated' \in SUBSET Notices
        BY <2>0, <3>2 DEF AddFails
      <4>2. failing' \in 0 .. MaxErrors
        BY <2>0, <3>2, BatchingAssumption DEF AddFails, DatabaseFails
      <4> QED
        BY <1>1, <2>2, <3>1, <4>1, <4>2, AloneEffect DEF BatchingTypeOK
    <3>3. CASE UNCHANGED <<dropped, outdated, failing>>
      BY <1>1, <2>0, <2>2, <3>1, <3>3, AloneEffect DEF BatchingTypeOK
    <3> QED
      BY <2>2, <3>2, <3>3, AloneEffect
  <2>3. ASSUME NEW n \in Notices, NEW b, Added(n, b)
        PROVE  Goal
    BY <1>1, <2>0, <2>3 DEF BatchingTypeOK, Added, Join, Goes, preferences
  <2>4. CASE UNCHANGED <<preferences, senders>>
    BY <1>1, <2>0, <2>4 DEF BatchingTypeOK, preferences, senders
  <2> HIDE DEF Goal
  <2> QED
    BY <2>1, <2>2, <2>3, <2>4
       DEF BatchingEffect, GetsDue, BeginPass, LoadBatch, ProcessBatch, PassFails, MarkExpired,
           FindExpired
<1> QED
  BY <1>2, <1>3, <1>4, <1>5 DEF BatchingTypeOK

LEMMA OpenStep ==
    ASSUME BatchingInv, BatchingEffect
    PROVE  OpenOK' /\ OvertakenOK'
<1>1. BatchingTypeOK /\ OpenOK /\ OvertakenOK /\ overtaken \in [Notices -> Preferences]
  BY DEF BatchingInv, BatchingTypeOK
<1>2. /\ size \in Nat /\ \A b \in DOMAIN batches : batches[b].count \in Nat
      /\ \A n \in Notices : HasRead(n).size \in Nat /\ HasRead(n) # NotOvertaken
  BY <1>1, BatchFacts, BatchingAssumption
\* With what a sender is done it goes by what the user has.
<1>3. ASSUME NEW n \in Notices, overtaken' = [overtaken EXCEPT ![n] = NotOvertaken],
             UNCHANGED <<enabled, size, raised>>
      PROVE  OvertakenOK'
  <2>1. ASSUME NEW m \in Notices
        PROVE  HasRead(m)'.size = HasRead(m).size \/ HasRead(m)'.size = size'
    BY <1>1, <1>3 DEF HasRead
  <2> QED
    BY <1>1, <1>2, <1>3, <2>1 DEF OvertakenOK
<1>4. ASSUME NEW n \in Notices, NEW b, Added(n, b)
      PROVE  OpenOK' /\ OvertakenOK'
  <2>1. UNCHANGED <<enabled, size, raised>> /\ overtaken' = [overtaken EXCEPT ![n] = NotOvertaken]
    BY <1>4 DEF Added, Join, Goes, preferences
  <2>2. ASSUME ~raised, Open(HasRead(n).size) = {}
        PROVE  Open(size) = {}
    BY <1>1, <1>2, <2>2 DEF OvertakenOK, Open, Pending
  <2>3. \A c \in Open(size)' : c \in Open(size) \/ (c = b /\ Open(HasRead(n).size) = {})
    BY <1>4 DEF Added
  <2>4. OpenOK'
    <3>1. SUFFICES ASSUME ~raised', NEW c \in Open(size)', NEW d \in Open(size)'
                   PROVE  c = d
      BY DEF OpenOK
    <3> QED
      BY <1>1, <2>1, <2>2, <2>3, <3>1 DEF OpenOK
  <2> QED
    BY <1>3, <2>1, <2>4
<1>5. ASSUME Open(size)' \subseteq Open(size), raised => raised'
      PROVE  OpenOK'
  BY <1>1, <1>5 DEF OpenOK
<1>6. ASSUME NEW on \in BOOLEAN, NEW max \in 1 .. MaxBatchSize, NEW S \in SUBSET Notices,
             SetPreferences(on, max, S)
      PROVE  OpenOK' /\ OvertakenOK'
  <2>1. /\ size' = max /\ batches' = batches /\ raised' = (raised \/ max > size) /\ max \in Nat
        /\ overtaken' = [n \in Notices |-> IF n \in S THEN HasRead(n) ELSE overtaken[n]]
    BY <1>6 DEF SetPreferences
  <2>2. CASE max > size
    BY <2>1, <2>2 DEF OpenOK, OvertakenOK
  <2>3. CASE ~(max > size)
    <3>1. Open(size)' \subseteq Open(size)
      BY <1>2, <2>1, <2>3 DEF Open, Pending
    <3>2. ASSUME NEW n \in Notices
          PROVE  HasRead(n)'.size = HasRead(n).size \/ HasRead(n)'.size = size'
      <4>1. CASE n \in S
        BY <1>2, <2>1, <4>1 DEF HasRead
      <4>2. CASE n \notin S
        BY <2>1, <4>2 DEF HasRead
      <4> QED
        BY <4>1, <4>2
    <3>3. OvertakenOK'
      <4>1. SUFFICES ASSUME ~raised, NEW n \in Notices
                     PROVE  HasRead(n)'.size >= max
        BY <2>1 DEF OvertakenOK
      <4>2. HasRead(n).size >= max
        BY <1>1, <1>2, <2>1, <2>3, <4>1 DEF OvertakenOK
      <4> QED
        BY <2>1, <3>2, <4>2
    <3> QED
      BY <1>5, <2>1, <3>1, <3>3
  <2> QED
    BY <2>2, <2>3
<1>7. ASSUME NEW n \in Notices, Alone(n)
      PROVE  OpenOK' /\ OvertakenOK'
  BY <1>3, <1>5, <1>7, AloneEffect DEF Open, Pending
<1>8. CASE \/ \E b \in DOMAIN batches : GetsDue(b)
           \/ \E p \in Passes : ProcessBatch(p)
  <2>1. /\ DOMAIN batches' = DOMAIN batches
        /\ \A b \in DOMAIN batches : /\ batches'[b].count = batches[b].count
                                     /\ batches'[b].status \in {batches[b].status, "sent"}
    BY <1>1, <1>8, SetBatch
  <2>2. UNCHANGED <<enabled, size, raised, overtaken>>
    BY <1>8 DEF GetsDue, ProcessBatch, preferences, senders
  <2>3. Open(size)' \subseteq Open(size)
    BY <2>1, <2>2 DEF Open, Pending
  <2> QED
    BY <1>1, <1>5, <2>2, <2>3 DEF OvertakenOK, HasRead
<1>9. CASE UNCHANGED <<batches, preferences, senders>>
  BY <1>1, <1>5, <1>9 DEF preferences, senders, Open, Pending, OvertakenOK, HasRead
<1> QED
  BY <1>4, <1>6, <1>7, <1>8, <1>9
     DEF BatchingEffect, ChangesPreferences, BeginPass, LoadBatch, PassFails, MarkExpired,
         FindExpired

\* Two batches are open for a sender only by a max_batch_size lowered since.
LEMMA DroppedStep ==
    ASSUME BatchingInv, BatchingEffect
    PROVE  DroppedOK'
<1>1. BatchingTypeOK /\ OpenOK /\ OvertakenOK /\ DroppedOK
  BY DEF BatchingInv
<1>2. raised => raised'
  BY AloneEffect, PreferencesEffect
     DEF BatchingEffect, Added, Join, Goes, GetsDue, BeginPass, LoadBatch, ProcessBatch, PassFails,
         MarkExpired, FindExpired, preferences
<1>3. CASE UNCHANGED <<dropped, outdated, failing>>
  BY <1>1, <1>2, <1>3 DEF DroppedOK
<1>4. ASSUME NEW n \in Notices, AddFails(n), ~raised
      PROVE  /\ IsFiniteSet(dropped' \ outdated')
             /\ Cardinality(dropped' \ outdated') <= failing'
  <2> DEFINE D == dropped \ outdated
             E == dropped' \ outdated'
  <2>1. IsFiniteSet(D) /\ Cardinality(D) \in Nat /\ Cardinality(D) <= failing /\ failing \in Nat
    BY <1>1, <1>4, FS_CardinalityType, BatchingAssumption DEF DroppedOK, BatchingTypeOK
  <2>2. /\ dropped' = dropped \cup {n}
        /\ outdated' = IF HasRead(n).size > size THEN outdated \cup {n} ELSE outdated
    BY <1>4 DEF AddFails
  <2>3. CASE failing' = failing + 1
    <3>1. E \subseteq D \cup {n}
      BY <2>2
    <3>2. IsFiniteSet(D \cup {n}) /\ Cardinality(D \cup {n}) <= Cardinality(D) + 1
      BY <2>1, FS_AddElement
    <3> HIDE DEF D, E
    <3>3. IsFiniteSet(E) /\ Cardinality(E) <= Cardinality(D \cup {n})
      BY <3>1, <3>2, FS_Subset
    <3>4. Cardinality(E) \in Nat /\ Cardinality(D \cup {n}) \in Nat
      BY <3>2, <3>3, FS_CardinalityType
    <3>5. IsFiniteSet(E) /\ Cardinality(E) <= failing'
      BY <2>1, <2>3, <3>2, <3>3, <3>4
    <3> QED
      BY <3>5 DEF E
  <2>4. CASE Cardinality(Open(HasRead(n).size)) > 1 /\ UNCHANGED failing
    <3>1. HasRead(n).size >= size /\ HasRead(n).size \in Nat /\ size \in Nat
      BY <1>1, <1>4, BatchFacts, BatchingAssumption DEF OvertakenOK
    <3>2. HasRead(n).size # size
      <4>1. SUFFICES Cardinality(Open(size)) \in {0, 1}
        BY <2>4
      <4>2. \A b, c \in Open(size) : b = c
        BY <1>1, <1>4 DEF OpenOK
      <4>3. CASE Open(size) = {}
        BY <4>3, FS_EmptySet
      <4>4. CASE Open(size) # {}
        <5>1. PICK b \in Open(size) : Open(size) = {b}
          BY <4>2, <4>4
        <5> QED
          BY <5>1, FS_Singleton
      <4> QED
        BY <4>3, <4>4
    <3>3. E \subseteq D
      BY <2>2, <3>1, <3>2
    <3> HIDE DEF D, E
    <3>4. IsFiniteSet(E) /\ Cardinality(E) <= Cardinality(D) /\ Cardinality(E) \in Nat
      BY <2>1, <3>3, FS_Subset, FS_CardinalityType
    <3>5. IsFiniteSet(E) /\ Cardinality(E) <= failing'
      BY <2>1, <2>4, <3>4
    <3> QED
      BY <3>5 DEF E
  <2> QED
    BY <1>4, <2>3, <2>4 DEF AddFails, DatabaseFails
<1>5. ASSUME NEW n \in Notices, AddFails(n)
      PROVE  DroppedOK'
  BY <1>2, <1>4, <1>5 DEF DroppedOK
<1> QED
  BY <1>3, <1>5, AloneEffect, PreferencesEffect
     DEF BatchingEffect, Added, Join, GetsDue, BeginPass, LoadBatch, ProcessBatch, PassFails,
         MarkExpired, FindExpired, senders

LEMMA SharedStep ==
    ASSUME BatchingInv, BatchingEffect
    PROVE  SharedOK' /\ CombinedOnce'
<1>1. BatchingTypeOK /\ PassOK /\ SharedOK /\ CombinedOnce
  BY DEF BatchingInv
<1>2. /\ DOMAIN batches \subseteq DOMAIN batches' /\ 0 \notin DOMAIN batches'
      /\ \A b \in DOMAIN batches : batches[b].status = "sent" => batches'[b].status = "sent"
  BY BatchesStep DEF BatchesKept, Grows
<1>3. /\ shared \subseteq shared'
      /\ \A p \in Passes, b \in DOMAIN batches' : Has(pass'[p], b) =>
           \/ Has(pass[p], b)
           \/ b \in Pending /\ \A q \in Passes \ {p} : Has(pass'[q], b) => b \in shared'
      /\ \A p \in Passes : ProcessBatch(p) =>
           /\ pass'[p].batch = 0 /\ pass'[p].todo = pass[p].todo
           /\ \A q \in Passes \ {p} : pass'[q] = pass[q]
  BY PassesStep
<1>4. \A p \in Passes, b \in DOMAIN batches' : Has(pass[p], b) => b \in DOMAIN batches
  BY <1>1, <1>2 DEF PassOK, InHands, Has
<1>5. ASSUME NEW p \in Passes, NEW q \in Passes, NEW b \in DOMAIN batches', p # q,
             Has(pass'[p], b), Has(pass'[q], b)
      PROVE  b \in shared'
  <2>1. CASE Has(pass[p], b) /\ Has(pass[q], b)
    BY <1>1, <1>3, <1>4, <2>1, <1>5 DEF SharedOK
  <2>2. CASE ~(Has(pass[p], b) /\ Has(pass[q], b))
    BY <1>3, <1>5, <2>2
  <2> QED
    BY <2>1, <2>2
<1>6. ASSUME NEW p \in Passes, ProcessBatch(p)
      PROVE  /\ pass[p].batch \in DOMAIN batches
             /\ batches'[pass[p].batch].status = "sent"
             /\ Has(pass[p], pass[p].batch) /\ ~Has(pass'[p], pass[p].batch)
  <2>1. pass[p].batch \in DOMAIN batches /\ batches'[pass[p].batch].status = "sent"
    BY <1>1, <1>6, SetBatch
  <2>2. pass[p].batch # 0 /\ pass[p].batch \notin pass[p].todo
    BY <1>1, <1>6 DEF ProcessBatch, PassOK, InHands
  <2> QED
    BY <1>3, <1>6, <2>1, <2>2 DEF Has
<1>7. /\ \A i \in DOMAIN combined : i \in DOMAIN combined' /\ combined'[i] = combined[i]
      /\ \A i \in DOMAIN combined' \ DOMAIN combined :
           /\ i = Len(combined) + 1
           /\ \E p \in Passes : ProcessBatch(p) /\ combined'[i].batch = pass[p].batch
  BY CombinedStep
<1>8. \A i \in DOMAIN combined :
        /\ combined[i].batch \in DOMAIN batches /\ batches[combined[i].batch].status = "sent"
        /\ \A p \in Passes : Has(pass[p], combined[i].batch) => combined[i].batch \in shared
  BY <1>1 DEF SharedOK
<1>9. ASSUME NEW i \in DOMAIN combined'
      PROVE  LET b == combined'[i].batch
             IN  /\ b \in DOMAIN batches' /\ batches'[b].status = "sent"
                 /\ \A p \in Passes : Has(pass'[p], b) => b \in shared'
  <2> DEFINE b == combined'[i].batch
  <2>1. CASE i \in DOMAIN combined
    <3>1. /\ b \in DOMAIN batches /\ batches[b].status = "sent"
          /\ \A p \in Passes : Has(pass[p], b) => b \in shared
      BY <1>7, <1>8, <2>1
    <3>2. b \notin Pending
      BY <3>1 DEF Pending
    <3> QED
      BY <1>2, <1>3, <3>1, <3>2
  <2>2. CASE i \notin DOMAIN combined
    <3>1. PICK p \in Passes : ProcessBatch(p) /\ b = pass[p].batch
      BY <1>7, <2>2
    <3>2. /\ b \in DOMAIN batches /\ b \in DOMAIN batches' /\ batches'[b].status = "sent"
          /\ Has(pass[p], b) /\ ~Has(pass'[p], b)
      BY <1>2, <1>6, <3>1
    <3>3. ASSUME NEW q \in Passes, Has(pass'[q], b)
          PROVE  b \in shared'
      <4>1. q # p
        BY <3>2, <3>3
      <4>2. Has(pass[q], b)
        BY <1>3, <3>1, <3>3, <4>1
      <4> QED
        BY <1>1, <1>3, <3>2, <4>1, <4>2 DEF SharedOK
    <3> QED
      BY <3>2, <3>3
  <2> QED
    BY <2>1, <2>2
<1>10. ASSUME NEW i \in DOMAIN combined', NEW j \in DOMAIN combined', i # j,
              combined'[i].batch = combined'[j].batch
       PROVE  combined'[i].batch \in shared'
  <2>1. ASSUME NEW k \in DOMAIN combined, NEW n \in DOMAIN combined' \ DOMAIN combined,
               combined'[k].batch = combined'[n].batch
        PROVE  combined'[k].batch \in shared'
    <3>1. PICK p \in Passes : ProcessBatch(p) /\ combined'[n].batch = pass[p].batch
      BY <1>7
    <3>2. combined[k].batch = pass[p].batch /\ Has(pass[p], combined[k].batch)
      BY <1>6, <1>7, <2>1, <3>1
    <3> QED
      BY <1>3, <1>7, <1>8, <3>2
  <2>2. CASE i \in DOMAIN combined /\ j \in DOMAIN combined
    BY <1>1, <1>3, <1>7, <1>10, <2>2 DEF CombinedOnce
  <2>3. i \in DOMAIN combined \/ j \in DOMAIN combined
    BY <1>7, <1>10
  <2> QED
    BY <1>10, <2>1, <2>2, <2>3
<1>11. SharedOK'
  BY <1>5, <1>9 DEF SharedOK
<1>12. CombinedOnce'
  BY <1>10 DEF CombinedOnce
<1> QED
  BY <1>11, <1>12

\* The combined notifications C tell of n as one of the batch b.
Told(C, n, b) == \E i \in DOMAIN C : C[i].batch = b /\ n \in C[i].of

LEMMA ReportedStep ==
    ASSUME BatchingInv, BatchingEffect
    PROVE  AllReported'
<1>1. BatchingTypeOK /\ PassOK /\ NoticesOK /\ AllReported
  BY DEF BatchingInv
<1>2. /\ DOMAIN batches \subseteq DOMAIN batches' /\ 0 \notin DOMAIN batches
      /\ \A b \in DOMAIN batches : batches[b].status = "sent" => batches'[b].status = "sent"
      /\ late \subseteq late'
  BY <1>1, BatchesStep, BatchFacts, PassesStep DEF BatchesKept, Grows
<1>3. \A n, b : Told(combined, n, b) => Told(combined', n, b)
  BY CombinedStep DEF Told
<1>4. ASSUME NEW p \in Passes, ProcessBatch(p), NEW n \in pass[p].loaded
      PROVE  Told(combined', n, pass[p].batch)
  <2> DEFINE k == Len(combined) + 1
  <2>1. k \in DOMAIN combined' /\ combined'[k] = [batch |-> pass[p].batch, of |-> pass[p].loaded]
    BY <1>4, CombinedStep
  <2>2. combined'[k].batch = pass[p].batch /\ n \in combined'[k].of
    BY <1>4, <2>1
  <2> HIDE DEF k
  <2> QED
    BY <2>1, <2>2 DEF Told
<1>5. ASSUME NEW p \in Passes, ProcessBatch(p)
      PROVE  /\ pass[p].loaded \subseteq NoticesOf(pass[p].batch)
             /\ NoticesOf(pass[p].batch) \subseteq pass[p].loaded \cup late
  BY <1>1, <1>5 DEF ProcessBatch, PassOK, InHands
<1>6. \A b \in DOMAIN batches : batches'[b].status = "sent" =>
        batches[b].status = "sent" \/ \E p \in Passes : ProcessBatch(p) /\ pass[p].batch = b
  BY SentSteps
<1>7. ASSUME NEW n \in Notices, notices'[n].batch # 0
      PROVE  LET b == notices'[n].batch
             IN  /\ batches'[b].status = "sent" => Told(combined', n, b) \/ n \in late'
                 /\ notices'[n].status = "sent" => Told(combined', n, b)
  <2> DEFINE b == notices'[n].batch
  <2>1. CASE \E c : Added(n, c) /\ notices'[n] = [status |-> "pending", batch |-> c]
    BY <2>1 DEF Added
  <2>2. CASE ~\E c : Added(n, c) /\ notices'[n] = [status |-> "pending", batch |-> c]
    <3>1. /\ b = notices[n].batch /\ b \in DOMAIN batches /\ n \in NoticesOf(b)
          /\ notices'[n].status = "sent" =>
               \/ notices[n].status = "sent"
               \/ \E p \in Passes : ProcessBatch(p) /\ n \in pass[p].loaded
      BY <1>1, <1>7, <2>2, NoticesStep DEF NoticesOK, NoticesOf
    <3>2. /\ batches[b].status = "sent" => Told(combined, n, b) \/ n \in late
          /\ notices[n].status = "sent" => Told(combined, n, b)
      BY <1>1, <1>7, <3>1 DEF AllReported, Told
    <3>3. ASSUME NEW p \in Passes, ProcessBatch(p), n \in pass[p].loaded
          PROVE  Told(combined', n, b)
      <4>1. pass[p].batch = b
        BY <1>5, <3>1, <3>3 DEF NoticesOf
      <4> QED
        BY <1>4, <3>3, <4>1
    <3>4. ASSUME NEW p \in Passes, ProcessBatch(p), pass[p].batch = b
          PROVE  Told(combined', n, b) \/ n \in late
      BY <1>5, <3>1, <3>3, <3>4
    <3> HIDE DEF b
    <3>5. batches'[b].status = "sent" => Told(combined', n, b) \/ n \in late'
      BY <1>2, <1>3, <1>6, <3>1, <3>2, <3>4
    <3>6. notices'[n].status = "sent" => Told(combined', n, b)
      BY <1>3, <3>1, <3>2, <3>3
    <3> QED
      BY <3>5, <3>6 DEF b
  <2> QED
    BY <2>1, <2>2
<1> QED
  BY <1>7 DEF AllReported, Told

-------------------------------------------------------------------------------
(* Notification batching: the theorems                                     *)

LEMMA BatchingInitially == BatchingInit => BatchingInv
<1> SUFFICES ASSUME BatchingInit
             PROVE  BatchingInv
  OBVIOUS
<1>1. /\ batches = <<>> /\ combined = <<>> /\ DOMAIN batches = {} /\ DOMAIN combined = {}
      /\ \A n \in Notices : notices[n].status = "none" /\ notices[n].batch = 0
      /\ \A p \in Passes : pass[p] = Idle
      /\ Idle.todo = {} /\ Idle.batch = 0
  BY DEF BatchingInit, Idle
<1>2. BatchingTypeOK
  <2>1. [status |-> "none", batch |-> 0] \in Notice
    BY DEF Notice
  <2>2. notices \in [Notices -> Notice]
    BY <2>1 DEF BatchingInit
  <2>3. Idle \in Hands
    BY DEF Idle, Hands
  <2>4. pass \in [Passes -> Hands]
    BY <2>3 DEF BatchingInit
  <2>5. batches \in Seq(Batch) /\ combined \in Seq([batch : Nat, of : SUBSET Notices])
    BY <1>1
  <2>6. /\ expiring \in SUBSET Notices /\ shared \in SUBSET Nat /\ late \in SUBSET Notices
        /\ enabled \in BOOLEAN /\ size \in 1 .. MaxBatchSize /\ raised \in BOOLEAN
    BY DEF BatchingInit
  <2>7. /\ overtaken \in [Notices -> Preferences]
        /\ dropped \in SUBSET Notices /\ outdated \in SUBSET Notices /\ failing \in 0 .. MaxErrors
    BY BatchingAssumption DEF BatchingInit, NotOvertaken, Preferences
  <2> QED
    BY <2>2, <2>4, <2>5, <2>6, <2>7 DEF BatchingTypeOK
<1>3. OpenOK /\ OvertakenOK /\ DroppedOK /\ PassOK /\ SharedOK
  <2>1. OpenOK /\ PassOK /\ SharedOK
    BY <1>1 DEF OpenOK, Open, Pending, PassOK, InHands, SharedOK, Idle
  <2>2. size \in Nat /\ \A n \in Notices : HasRead(n).size = size
    BY BatchingAssumption DEF BatchingInit, HasRead
  <2>3. dropped \ outdated = {} /\ failing = 0
    BY DEF BatchingInit
  <2> QED
    BY <2>1, <2>2, <2>3, FS_EmptySet DEF OvertakenOK, DroppedOK
<1>4. NoticesOK /\ CombinedOnce /\ AllReported
  BY <1>1 DEF NoticesOK, CombinedOnce, AllReported
<1> QED
  BY <1>2, <1>3, <1>4 DEF BatchingInv

LEMMA BatchingStep == BatchingInv /\ [BatchingNext]_batchingvars => BatchingInv'
<1>1. CASE BatchingInv /\ BatchingNext
  <2>1. BatchingEffect
    BY <1>1, BatchingEffects DEF BatchingInv
  <2>2. PassOK'
    BY <1>1, <2>1, PassesStep
  <2> QED
    BY <1>1, <2>1, <2>2, BatchingTypeStep, OpenStep, DroppedStep, SharedStep, NoticesOKStep,
       ReportedStep DEF BatchingInv
<1>2. CASE BatchingInv /\ UNCHANGED batchingvars
  <2>1. BatchingTypeOK' /\ OpenOK' /\ CombinedOnce'
    BY <1>2 DEF batchingvars, preferences, senders, BatchingInv, BatchingTypeOK, OpenOK, Open,
                Pending, CombinedOnce
  <2>2. PassOK' /\ SharedOK'
    BY <1>2 DEF batchingvars, BatchingInv, PassOK, InHands, NoticesOf, SharedOK, Has
  <2>3. NoticesOK' /\ AllReported'
    BY <1>2 DEF batchingvars, preferences, BatchingInv, NoticesOK, AllReported
  <2>4. OvertakenOK' /\ DroppedOK'
    BY <1>2 DEF batchingvars, preferences, senders, BatchingInv, OvertakenOK, HasRead, DroppedOK
  <2> QED
    BY <2>1, <2>2, <2>3, <2>4 DEF BatchingInv
<1> QED
  BY <1>1, <1>2

LEMMA BatchingAlways == BatchingSpec => []BatchingInv
BY BatchingInitially, BatchingStep, PTL DEF BatchingSpec

\* The variables of the model keep their types.
THEOREM BatchingTypes == BatchingSpec => []BatchingTypeOK
<1>1. BatchingInv => BatchingTypeOK
  BY DEF BatchingInv
<1> QED
  BY <1>1, BatchingAlways, PTL

\* Notifications whose senders are told of success are in no batch only for a
\* failure of the database each, for a sender that went by a max_batch_size lowered
\* since, or after it was raised: nothing else opens two batches for a sender.
THEOREM DropsExplained == BatchingSpec => []NoneDropped
<1>1. BatchingInv => NoneDropped
  BY DEF BatchingInv, DroppedOK, NoneDropped
<1> QED
  BY <1>1, BatchingAlways, PTL

\* A batch is combined twice only when two passes had it in hand at a time.
THEOREM CombinedTwiceIsShared == BatchingSpec => []CombinedOnce
<1>1. BatchingInv => CombinedOnce
  BY DEF BatchingInv
<1> QED
  BY <1>1, BatchingAlways, PTL

\* Whatever is added, expires or is combined meanwhile, a notification of a batch
\* that was sent is reported to the user unless it came while a pass had the
\* batch loaded, and it is marked as sent only if it is reported.
THEOREM BatchesReported == BatchingSpec => []AllReported
<1>1. BatchingInv => AllReported
  BY DEF BatchingInv
<1> QED
  BY <1>1, BatchingAlways, PTL

\* The notifications of a batch are as many as it counts.
CountsOK ==
    \A b \in DOMAIN batches :
        /\ IsFiniteSet(NoticesOf(b)) /\ batches[b].count = Cardinality(NoticesOf(b))
        /\ batches[b].count \in 1 .. MaxBatchSize

LEMMA CountsStep ==
    ASSUME BatchingInv, CountsOK, BatchingEffect
    PROVE  CountsOK'
<1>1. BatchingTypeOK /\ NoticesOK /\ notices \in [Notices -> Notice]
  BY DEF BatchingInv, BatchingTypeOK
<1>2. ASSUME NEW n \in Notices, NEW b, Added(n, b)
      PROVE  CountsOK'
  <2>1. /\ notices[n].batch = 0 /\ b # 0
        /\ notices' = [notices EXCEPT ![n] = [status |-> "pending", batch |-> b]]
    BY <1>1, <1>2 DEF Added, Join, Goes, New, NoticesOK, Grows
  <2>2. /\ NoticesOf(b)' = NoticesOf(b) \cup {n} /\ n \notin NoticesOf(b)
        /\ \A c : c # b /\ c # 0 => NoticesOf(c)' = NoticesOf(c)
    BY <1>1, <2>1 DEF NoticesOf
  <2>3. CASE b \in DOMAIN batches
    <3>1. IsFiniteSet(NoticesOf(b)) /\ batches[b].count = Cardinality(NoticesOf(b))
      BY <2>3 DEF CountsOK
    <3>2. IsFiniteSet(NoticesOf(b)') /\ batches'[b].count = Cardinality(NoticesOf(b)')
      BY <1>2, <2>2, <2>3, <3>1, FS_AddElement DEF Added
    <3> QED
      BY <1>2, <2>2, <3>2 DEF Added, CountsOK, Grows
  <2>4. CASE b \notin DOMAIN batches
    <3>1. NoticesOf(b) = {}
      BY <1>1, <2>1, <2>4 DEF NoticesOf, NoticesOK
    <3>2. NoticesOf(b)' = {n} /\ batches'[b].count = 1
      BY <1>2, <2>2, <2>4, <3>1 DEF Added
    <3>3. IsFiniteSet(NoticesOf(b)') /\ Cardinality(NoticesOf(b)') = 1
      BY <3>2, FS_Singleton
    <3> QED
      BY <1>2, <2>2, <3>2, <3>3 DEF Added, CountsOK, Grows
  <2> QED
    BY <2>3, <2>4
<1>3. ASSUME ~\E n \in Notices : \E b : Added(n, b)
      PROVE  CountsOK'
  <2>1. \A b : NoticesOf(b)' = NoticesOf(b)
    BY <1>3, NoticesStep DEF NoticesOf
  <2>2. DOMAIN batches' = DOMAIN batches /\ \A b \in DOMAIN batches : batches'[b].count = batches[b].count
    <3>1. CASE \/ \E b \in DOMAIN batches : GetsDue(b)
               \/ \E p \in Passes : ProcessBatch(p)
      BY <1>1, <3>1, SetBatch
    <3> QED
      BY <1>3, <3>1, AloneEffect, PreferencesEffect
         DEF BatchingEffect, BeginPass, LoadBatch, PassFails, MarkExpired, FindExpired
  <2> QED
    BY <2>1, <2>2 DEF CountsOK
<1> QED
  BY <1>2, <1>3

\* notification_count is what the batch holds, one at least and no more than
\* max_batch_size ever allowed, whichever pass works on the batch meanwhile.
THEOREM CountsAreExact == BatchingSpec => []CountsExact
<1>1. BatchingInit => CountsOK
  BY DEF BatchingInit, CountsOK
<1>2. BatchingInv /\ CountsOK /\ BatchingNext => CountsOK'
  BY BatchingEffects, CountsStep DEF BatchingInv
<1>3. CountsOK /\ UNCHANGED batchingvars => CountsOK'
  BY DEF CountsOK, NoticesOf, batchingvars
<1>4. CountsOK => CountsExact
  BY DEF CountsOK, CountsExact
<1> QED
  BY <1>1, <1>2, <1>3, <1>4, BatchingAlways, PTL DEF BatchingSpec
===============================================================================
