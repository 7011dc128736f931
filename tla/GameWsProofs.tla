---------------------------- MODULE GameWsProofs ----------------------------
(* Proofs about GameWs: the connections, the lobby and the waiting queue, and  *)
(* the local rooms and what players were told over the durable state, for any  *)
(* numbers of users, connections, rooms, open Puts and restarts.               *)
EXTENDS GameWs, GameStateProofs, SequenceTheorems

\* The connection x of user v, if there is one, has been closed, or it speaks
\* WebSocket and is registered for v.
Speaks(v, x) ==
    \/ x = NoConn
    \/ tcp[x] = "closed"
    \/ tcp[x] = "ws" /\ x \in DOMAIN connToUserId /\ connToUserId[x] = v

\* The lobby's entries name connections that speak for their users.
LobbyOK(l) ==
    /\ DOMAIN l \subseteq User
    /\ \A v \in DOMAIN l : l[v] \in Conn \cup {NoConn} /\ Speaks(v, l[v])

\* At most one user waits, and has a connection.
QueueOK(q) == q \in Seq(User) /\ Len(q) <= 1 /\ ToSet(q) \subseteq Range(connToUserId)

\* The inductive invariant of the connections.  A connection that has not been
\* upgraded, or whose Close frame has arrived, is nobody's.
ConnInv ==
    /\ tcp \in [Conn -> {"none", "http", "ws", "closed"}]
    /\ DOMAIN connToUserId \subseteq Conn
    /\ \A c \in DOMAIN connToUserId : connToUserId[c] \in User /\ tcp[c] \notin {"none", "http"}
    /\ DOMAIN userIdToConnPtr \subseteq User
    /\ \A v \in DOMAIN userIdToConnPtr : userIdToConnPtr[v] \in Conn /\ Speaks(v, userIdToConnPtr[v])
    /\ LobbyOK(lobby)
    /\ QueueOK(waitingQueue)

\* The connection that the map of users has for v, or none, is v's.
LEMMA ByUserSpeaks ==
    ASSUME ConnInv, NEW v
    PROVE  getConnectionByUserId(v) \in Conn \cup {NoConn} /\ Speaks(v, getConnectionByUserId(v))
  BY DEF ConnInv, getConnectionByUserId, Speaks

\* Changes of the lobby.
LEMMA LobbyWith ==
    ASSUME NEW l, LobbyOK(l), NEW v \in User, NEW x \in Conn \cup {NoConn}, Speaks(v, x)
    PROVE  LobbyOK(With(l, v, x))
  BY DEF LobbyOK, With

\* Taking a user out of the lobby keeps it sound.
LEMMA LobbyWithout ==
    ASSUME NEW l, LobbyOK(l), NEW v
    PROVE  LobbyOK(Without(l, v)) /\ v \notin DOMAIN Without(l, v)
  BY DEF LobbyOK, Without

\* leaveQueue takes the user out, and nobody else.
LEMMA LeaveQueue ==
    ASSUME ConnInv, NEW u
    PROVE  QueueOK(leaveQueue(u)) /\ u \notin ToSet(leaveQueue(u))
<1>. DEFINE at == {i \in DOMAIN waitingQueue : waitingQueue[i] = u}
            kept == {i \in DOMAIN waitingQueue : i \in at => \E j \in at : j < i}
<1>1. waitingQueue \in Seq(User) /\ Len(waitingQueue) <= 1 /\ ToSet(waitingQueue) \subseteq Range(connToUserId)
  BY DEF ConnInv, QueueOK
<1>2. Len(waitingQueue) \in Nat /\ DOMAIN waitingQueue = 1..Len(waitingQueue)
  BY <1>1
<1>3. kept \in SUBSET DOMAIN waitingQueue /\ \A i \in kept : waitingQueue[i] # u
  <2>1. \A i, j \in DOMAIN waitingQueue : ~(j < i)
    BY <1>1, <1>2
  <2>. QED BY <2>1
<1>4. IsFiniteSet(DOMAIN waitingQueue) /\ Cardinality(DOMAIN waitingQueue) = Len(waitingQueue)
  <2>1. \A n \in Nat : IsFiniteSet(1..n) /\ Cardinality(1..n) = n
    BY FS_Interval
  <2>. QED BY <1>2, <2>1
<1>5. Cardinality(kept) <= Len(waitingQueue) /\ Cardinality(kept) \in Nat
  BY <1>3, <1>4, FS_Subset, FS_CardinalityType
<1>. HIDE DEF kept
<1>6. /\ Kept(waitingQueue, kept) \in Seq(User)
      /\ ToSet(Kept(waitingQueue, kept)) = {waitingQueue[j] : j \in kept}
      /\ Len(Kept(waitingQueue, kept)) = Cardinality(kept)
  BY <1>1, <1>3, KeptElements
<1>7. leaveQueue(u) = Kept(waitingQueue, kept)
  BY DEF leaveQueue, kept
<1>8. {waitingQueue[j] : j \in kept} \subseteq ToSet(waitingQueue) /\ u \notin {waitingQueue[j] : j \in kept}
  BY <1>3 DEF ToSet
<1>9. Len(leaveQueue(u)) <= 1
  BY <1>1, <1>2, <1>5, <1>6, <1>7
<1>. QED BY <1>1, <1>6, <1>7, <1>8, <1>9 DEF QueueOK

\* A step that leaves the connections and their users alone.
LEMMA HallStep ==
    ASSUME ConnInv, UNCHANGED connVars, LobbyOK(lobby'), QueueOK(waitingQueue')
    PROVE  ConnInv'
  BY DEF ConnInv, connVars, LobbyOK, QueueOK, Speaks, Range

\* A Close frame of u on c: no other user's entry names c.
LEMMA CloseStep ==
    ASSUME ConnInv, NEW c \in Conn, NEW u \in User, Plays(c, u), Closed(c, u),
           LobbyOK(lobby'), u \notin DOMAIN lobby'
    PROVE  ConnInv'
<1>1. /\ tcp[c] = "ws" /\ c \in DOMAIN connToUserId /\ connToUserId[c] = u
      /\ tcp' = [tcp EXCEPT ![c] = "http"]
      /\ connToUserId' = Without(connToUserId, c)
      /\ userIdToConnPtr' = Without(userIdToConnPtr, u)
      /\ waitingQueue' = leaveQueue(u)
  BY DEF Plays, getUserId, Closed
<1>2. /\ tcp \in [Conn -> {"none", "http", "ws", "closed"}]
      /\ DOMAIN connToUserId \subseteq Conn
      /\ \A x \in DOMAIN connToUserId : connToUserId[x] \in User /\ tcp[x] \notin {"none", "http"}
      /\ DOMAIN userIdToConnPtr \subseteq User
      /\ \A v \in DOMAIN userIdToConnPtr : userIdToConnPtr[v] \in Conn /\ Speaks(v, userIdToConnPtr[v])
  BY DEF ConnInv
<1>3. /\ tcp' \in [Conn -> {"none", "http", "ws", "closed"}] /\ tcp'[c] = "http"
      /\ \A x \in Conn : x # c => tcp'[x] = tcp[x]
  BY <1>1, <1>2
<1>4. DOMAIN connToUserId' = DOMAIN connToUserId \ {c} /\ \A x \in DOMAIN connToUserId' : connToUserId'[x] = connToUserId[x]
  BY <1>1 DEF Without
<1>5. ASSUME NEW v, v # u, NEW x \in Conn \cup {NoConn}, Speaks(v, x)
      PROVE  x = NoConn \/ tcp'[x] = "closed" \/ (tcp'[x] = "ws" /\ x \in DOMAIN connToUserId' /\ connToUserId'[x] = v)
  <2>1. x # c
    BY <1>1, <1>5, WsAssumption DEF Speaks
  <2>2. x # NoConn => tcp'[x] = tcp[x]
    BY <1>3, <2>1
  <2>. QED BY <1>4, <1>5, <2>1, <2>2 DEF Speaks
<1>6. DOMAIN userIdToConnPtr' = DOMAIN userIdToConnPtr \ {u} /\ \A v \in DOMAIN userIdToConnPtr' : userIdToConnPtr'[v] = userIdToConnPtr[v]
  BY <1>1 DEF Without
<1>7. \A v \in DOMAIN userIdToConnPtr' : userIdToConnPtr'[v] \in Conn /\ Speaks(v, userIdToConnPtr[v])'
  BY <1>2, <1>5, <1>6 DEF Speaks
<1>8. LobbyOK(lobby)'
  <2>1. DOMAIN lobby' \subseteq User /\ \A v \in DOMAIN lobby' : lobby'[v] \in Conn \cup {NoConn} /\ Speaks(v, lobby'[v])
    BY DEF LobbyOK
  <2>2. \A v \in DOMAIN lobby' : Speaks(v, lobby[v])'
    BY <1>5, <2>1 DEF Speaks
  <2>. QED BY <2>1, <2>2 DEF LobbyOK
<1>9. QueueOK(waitingQueue)'
  <2>1. QueueOK(waitingQueue') /\ u \notin ToSet(waitingQueue')
    BY <1>1, LeaveQueue
  <2>2. ToSet(waitingQueue') \subseteq Range(connToUserId')
    <3>1. ASSUME NEW v \in ToSet(waitingQueue') PROVE v \in Range(connToUserId')
      <4>1. PICK x \in DOMAIN connToUserId : v = connToUserId[x]
        BY <2>1 DEF QueueOK, Range
      <4>2. x # c
        BY <1>1, <2>1, <4>1
      <4>. QED BY <1>4, <4>1, <4>2 DEF Range
    <3>. QED BY <3>1
  <2>. QED BY <2>1, <2>2 DEF QueueOK
<1>10. \A x \in DOMAIN connToUserId' : connToUserId'[x] \in User /\ tcp'[x] \notin {"none", "http"}
  BY <1>2, <1>3, <1>4
<1>. QED BY <1>2, <1>3, <1>4, <1>6, <1>7, <1>8, <1>9, <1>10 DEF ConnInv

\* The upgrade of c for u: nobody's entry named c before.
LEMMA HandleStep ==
    ASSUME ConnInv, NEW c \in Conn, NEW u \in User, handle(c, u)
    PROVE  ConnInv'
<1>1. /\ tcp[c] = "http" /\ tcp' = [tcp EXCEPT ![c] = "ws"]
      /\ connToUserId' = With(connToUserId, c, u) /\ userIdToConnPtr' = With(userIdToConnPtr, u, c)
      /\ lobby' = With(lobby, u, c) /\ waitingQueue' = waitingQueue
  BY DEF handle
<1>2. /\ tcp \in [Conn -> {"none", "http", "ws", "closed"}]
      /\ DOMAIN connToUserId \subseteq Conn
      /\ \A x \in DOMAIN connToUserId : connToUserId[x] \in User /\ tcp[x] \notin {"none", "http"}
      /\ DOMAIN userIdToConnPtr \subseteq User
      /\ \A v \in DOMAIN userIdToConnPtr : userIdToConnPtr[v] \in Conn /\ Speaks(v, userIdToConnPtr[v])
      /\ LobbyOK(lobby) /\ QueueOK(waitingQueue)
  BY DEF ConnInv
<1>3. c \notin DOMAIN connToUserId /\ c # NoConn
  BY <1>1, <1>2, WsAssumption
<1>4. /\ tcp' \in [Conn -> {"none", "http", "ws", "closed"}] /\ tcp'[c] = "ws"
      /\ \A x \in Conn : x # c => tcp'[x] = tcp[x]
  BY <1>1, <1>2
<1>5. /\ DOMAIN connToUserId' = DOMAIN connToUserId \cup {c} /\ connToUserId'[c] = u
      /\ \A x \in DOMAIN connToUserId : connToUserId'[x] = connToUserId[x]
  BY <1>1, <1>3 DEF With
<1>6. ASSUME NEW v, NEW x \in Conn \cup {NoConn}, Speaks(v, x)
      PROVE  x = NoConn \/ tcp'[x] = "closed" \/ (tcp'[x] = "ws" /\ x \in DOMAIN connToUserId' /\ connToUserId'[x] = v)
  <2>1. x # c
    BY <1>1, <1>3, <1>6 DEF Speaks
  <2>2. x # NoConn => tcp'[x] = tcp[x]
    BY <1>4, <2>1
  <2>. QED BY <1>5, <1>6, <2>2 DEF Speaks
<1>7. /\ DOMAIN userIdToConnPtr' = DOMAIN userIdToConnPtr \cup {u} /\ userIdToConnPtr'[u] = c
      /\ \A v \in DOMAIN userIdToConnPtr : v # u => userIdToConnPtr'[v] = userIdToConnPtr[v]
  BY <1>1 DEF With
<1>8. \A v \in DOMAIN userIdToConnPtr' : userIdToConnPtr'[v] \in Conn /\ Speaks(v, userIdToConnPtr[v])'
  <2>1. ASSUME NEW v \in DOMAIN userIdToConnPtr, v # u
        PROVE  userIdToConnPtr'[v] \in Conn /\ Speaks(v, userIdToConnPtr[v])'
    BY <1>2, <1>6, <1>7, <2>1 DEF Speaks
  <2>2. userIdToConnPtr'[u] \in Conn /\ Speaks(u, userIdToConnPtr[u])'
    BY <1>4, <1>5, <1>7 DEF Speaks
  <2>. QED BY <1>7, <2>1, <2>2
<1>9. /\ DOMAIN lobby' = DOMAIN lobby \cup {u} /\ lobby'[u] = c
      /\ \A v \in DOMAIN lobby : v # u => lobby'[v] = lobby[v]
  BY <1>1 DEF With
<1>10. LobbyOK(lobby)'
  <2>1. DOMAIN lobby \subseteq User /\ \A v \in DOMAIN lobby : lobby[v] \in Conn \cup {NoConn} /\ Speaks(v, lobby[v])
    BY <1>2 DEF LobbyOK
  <2>2. \A v \in DOMAIN lobby' : lobby'[v] \in Conn \cup {NoConn} /\ Speaks(v, lobby[v])'
    <3>1. ASSUME NEW v \in DOMAIN lobby, v # u
          PROVE  lobby'[v] \in Conn \cup {NoConn} /\ Speaks(v, lobby[v])'
      BY <1>6, <1>9, <2>1, <3>1 DEF Speaks
    <3>2. lobby'[u] \in Conn \cup {NoConn} /\ Speaks(u, lobby[u])'
      BY <1>4, <1>5, <1>9 DEF Speaks
    <3>. QED BY <1>9, <3>1, <3>2
  <2>. QED BY <1>9, <2>1, <2>2 DEF LobbyOK
<1>11. QueueOK(waitingQueue)'
  <2>1. Range(connToUserId) \subseteq Range(connToUserId')
    BY <1>5 DEF Range
  <2>. QED BY <1>1, <1>2, <2>1 DEF QueueOK
<1>12. \A x \in DOMAIN connToUserId' : connToUserId'[x] \in User /\ tcp'[x] \notin {"none", "http"}
  BY <1>2, <1>3, <1>4, <1>5
<1>. QED BY <1>2, <1>4, <1>5, <1>7, <1>8, <1>10, <1>11, <1>12 DEF ConnInv

\* TCP comes and goes, and the process starts again.
LEMMA TcpSteps ==
    ASSUME ConnInv,
           \/ \E c \in Conn : onConnection(c) \/ onDisconnection(c)
           \/ Restart
    PROVE  ConnInv'
<1>0. /\ tcp \in [Conn -> {"none", "http", "ws", "closed"}]
      /\ DOMAIN connToUserId \subseteq Conn
      /\ \A x \in DOMAIN connToUserId : connToUserId[x] \in User /\ tcp[x] \notin {"none", "http"}
      /\ DOMAIN userIdToConnPtr \subseteq User
      /\ \A v \in DOMAIN userIdToConnPtr : userIdToConnPtr[v] \in Conn /\ Speaks(v, userIdToConnPtr[v])
      /\ LobbyOK(lobby) /\ QueueOK(waitingQueue)
  BY DEF ConnInv
<1>1. ASSUME NEW c \in Conn, NEW s \in {"http", "closed"}, s = "http" => tcp[c] = "none",
             tcp' = [tcp EXCEPT ![c] = s],
             UNCHANGED <<connToUserId, userIdToConnPtr, hallVars>>
      PROVE  ConnInv'
  <2>1. UNCHANGED <<connToUserId, userIdToConnPtr, lobby, waitingQueue>>
    BY <1>1 DEF hallVars
  <2>2. /\ tcp' \in [Conn -> {"none", "http", "ws", "closed"}] /\ tcp'[c] = s
        /\ \A x \in Conn : x # c => tcp'[x] = tcp[x]
    BY <1>0, <1>1
  <2>3. \A x \in DOMAIN connToUserId' : connToUserId'[x] \in User /\ tcp'[x] \notin {"none", "http"}
    BY <1>0, <1>1, <2>1, <2>2
  <2>4. ASSUME NEW v, NEW x \in Conn \cup {NoConn}, Speaks(v, x)
        PROVE  x = NoConn \/ tcp'[x] = "closed" \/ (tcp'[x] = "ws" /\ x \in DOMAIN connToUserId' /\ connToUserId'[x] = v)
    <3>1. CASE x # c
      BY <2>1, <2>2, <2>4, <3>1 DEF Speaks
    <3>2. CASE x = c
      BY <1>1, <2>2, <2>4, <3>2 DEF Speaks
    <3>. QED BY <3>1, <3>2
  <2>5. \A v \in DOMAIN userIdToConnPtr' : userIdToConnPtr'[v] \in Conn /\ Speaks(v, userIdToConnPtr[v])'
    BY SMTT(60), <1>0, <2>1, <2>4 DEF Speaks
  <2>6. LobbyOK(lobby)'
    BY <1>0, <2>1, <2>4 DEF Speaks, LobbyOK
  <2>7. QueueOK(waitingQueue)'
    BY <1>0, <2>1 DEF QueueOK
  <2>. QED BY <1>0, <2>1, <2>2, <2>3, <2>5, <2>6, <2>7 DEF ConnInv
<1>2. CASE Restart
  <2>1. /\ tcp' = [c \in Conn |-> IF tcp[c] = "none" THEN "none" ELSE "closed"]
        /\ connToUserId' = <<>> /\ userIdToConnPtr' = <<>> /\ waitingQueue' = <<>> /\ lobby' = <<>>
    BY <1>2 DEF Restart, Nothing
  <2>2. tcp' \in [Conn -> {"none", "http", "ws", "closed"}]
    BY <2>1
  <2>3. DOMAIN connToUserId' = {} /\ DOMAIN userIdToConnPtr' = {} /\ DOMAIN lobby' = {} /\ DOMAIN waitingQueue' = {}
    BY <2>1
  <2>4. waitingQueue' \in Seq(User) /\ Len(waitingQueue') <= 1
    BY <2>1
  <2>. QED BY <2>2, <2>3, <2>4 DEF ConnInv, LobbyOK, QueueOK, ToSet
<1>3. ASSUME NEW c \in Conn, onConnection(c) PROVE ConnInv'
  BY <1>1, <1>3 DEF onConnection
<1>4. ASSUME NEW c \in Conn, onDisconnection(c) PROVE ConnInv'
  BY <1>1, <1>4 DEF onDisconnection
<1>. QED BY <1>2, <1>3, <1>4

-----------------------------------------------------------------------------

\* Room ids are given out in order, and nobody plays against themselves.
Whole(env) ==
    /\ DOMAIN env.room \subseteq 1..(env.next - 1)
    /\ \A r \in DOMAIN env.room : env.room[r].player1 # env.room[r].player2

\* Types; every envelope that was put or may be put is whole.
GameTypes ==
    /\ store \in Stored /\ Whole(store)
    /\ late \in Seq(Late) /\ \A i \in DOMAIN late : late[i].inc <= incarnation /\ Whole(late[i].env)
    /\ incarnation \in Nat
    /\ DOMAIN gameRooms \subseteq RoomId
    /\ \A r \in DOMAIN gameRooms : gameRooms[r] \in Room /\ gameRooms[r].player1 # gameRooms[r].player2
    /\ DOMAIN told \subseteq User
    /\ \A u \in DOMAIN told : told[u].id \in RoomId /\ told[u].room \in Room

\* Those who were told what no open Put can take back.
Sure == {u \in DOMAIN told : told[u].how # "forked"}

\* The envelope carries on the games that users were told of.
KeepsTold(env) ==
    \A u \in Sure : told[u].id \in DOMAIN env.room /\ Extends(env.room[told[u].id], told[u].room)

\* Who was told that a game is over is not found in it, or in a room that is over.
Free(u) ==
    told[u].room.gameOver /\ told[u].id \in DOMAIN gameRooms
        => told[u].how = "state" /\ gameRooms[told[u].id].gameOver

\* What is open in this incarnation carries on what was told, as the store does.
ToldInv ==
    ~overrun =>
        /\ KeepsTold(store)
        /\ \A i \in DOMAIN late : late[i].inc = incarnation => KeepsTold(late[i].env)
        /\ \A u \in Sure : Free(u)

\* The local rooms are behind the store, and the store is behind what is open in
\* this incarnation: all of it was made from what is stored now.
LocalInv ==
    ~overrun /\ ~forked =>
        /\ CarriesOn(store.room, gameRooms)
        /\ \A i \in DOMAIN late : late[i].inc = incarnation => CarriesOn(late[i].env.room, store.room)

\* The inductive invariant of the games.
GameInv == GameTypes /\ ToldInv /\ LocalInv

\* An envelope that an operation of the service may put.
Candidate(env) == env \in Stored /\ Whole(env) /\ CarriesOn(env.room, store.room)

\* A new room, of two different users, under the next id.
LEMMA CreatedCandidate ==
    ASSUME GameInv, NEW p1 \in User, NEW p2 \in User, p1 # p2, store.next <= MaxRooms
    PROVE  /\ Candidate(Created(p1, p2)) /\ store.next \in RoomId
           /\ store.next \in DOMAIN Created(p1, p2).room /\ store.next \notin DOMAIN store.room
           /\ Created(p1, p2).room[store.next] = NewRoom(p1, p2) /\ ~NewRoom(p1, p2).gameOver
<1>. DEFINE n == store.next
            env1 == WithRoom(store, n, NewRoom(p1, p2))
            env2 == WithActive(env1, Append(store.active, n))
            env3 == WithNext(env2, n + 1)
<1>1. store \in Stored /\ Whole(store)
  BY DEF GameInv, GameTypes
<1>2. n \in RoomId /\ n \in Nat /\ n >= 1
  BY <1>1, StoredType, GameAssumption DEF RoomId
<1>3. /\ NewRoom(p1, p2) \in Room /\ ~NewRoom(p1, p2).gameOver
      /\ NewRoom(p1, p2).player1 # NewRoom(p1, p2).player2
  <2>1. <<>> \in Seq(Cell)
    OBVIOUS
  <2>. QED BY <2>1 DEF NewRoom, Room
<1>4. n \notin DOMAIN store.room
  BY <1>1, <1>2 DEF Whole
<1>5. /\ env1 \in Stored /\ DOMAIN env1.room = DOMAIN store.room \cup {n} /\ env1.room[n] = NewRoom(p1, p2)
      /\ \A x \in DOMAIN store.room : x # n => env1.room[x] = store.room[x]
  BY <1>1, <1>2, <1>3, WithRoomStored
<1>6. Append(store.active, n) \in Seq(RoomId)
  BY <1>1, <1>2, StoredType
<1>. HIDE DEF env1
<1>7. env2 \in Stored /\ env2.room = env1.room
  BY <1>5, <1>6, WithActiveStored
<1>. HIDE DEF env2
<1>8. env3 \in Stored /\ env3.room = env2.room /\ env3.next = n + 1
  BY <1>2, <1>7, WithNextStored
<1>. HIDE DEF env3
<1>9. Created(p1, p2) = env3
  BY DEF Created, env1, env2, env3
<1>10. CarriesOn(env3.room, store.room)
  <2>1. ASSUME NEW x \in DOMAIN store.room PROVE x \in DOMAIN env3.room /\ Extends(env3.room[x], store.room[x])
    <3>1. x # n /\ store.room[x] \in Room
      BY <1>1, <1>4, StoredType
    <3>2. env3.room[x] = store.room[x] /\ x \in DOMAIN env3.room
      BY <1>5, <1>7, <1>8, <3>1
    <3>. QED BY <3>1, <3>2, ExtendsItself
  <2>. QED BY <2>1 DEF CarriesOn
<1>11. Whole(env3)
  <2>1. DOMAIN env3.room \subseteq 1..(env3.next - 1)
    BY <1>1, <1>2, <1>5, <1>7, <1>8 DEF Whole
  <2>2. \A r \in DOMAIN env3.room : env3.room[r].player1 # env3.room[r].player2
    BY <1>1, <1>3, <1>5, <1>7, <1>8 DEF Whole
  <2>. QED BY <2>1, <2>2 DEF Whole
<1>. QED BY <1>2, <1>3, <1>4, <1>5, <1>7, <1>8, <1>9, <1>10, <1>11 DEF Candidate

\* A stored room that goes on, or ends.
LEMMA UpdatedCandidate ==
    ASSUME GameInv, NEW r, HasRoom(store, r), NEW new \in Room, Extends(new, store.room[r])
    PROVE  /\ Candidate(Updated(r, new)) /\ r \in RoomId
           /\ r \in DOMAIN Updated(r, new).room /\ Updated(r, new).room[r] = new
<1>. DEFINE env1 == WithRoom(store, r, new)
            env == Updated(r, new)
<1>1. store \in Stored /\ Whole(store) /\ r \in DOMAIN store.room
  BY DEF GameInv, GameTypes, HasRoom
<1>2. r \in RoomId /\ store.active \in Seq(RoomId)
  BY <1>1, StoredType
<1>3. /\ env1 \in Stored /\ DOMAIN env1.room = DOMAIN store.room \cup {r} /\ env1.room[r] = new
      /\ \A x \in DOMAIN store.room : x # r => env1.room[x] = store.room[x]
      /\ env1.next = store.next
  BY <1>1, <1>2, WithRoomStored
<1>4. WithoutRoom(store.active, r) \in Seq(RoomId)
  BY <1>2, IndexChanges
<1>5. env = IF new.gameOver THEN WithActive(env1, WithoutRoom(store.active, r)) ELSE env1
  BY DEF Updated
<1>. HIDE DEF env1, env
<1>6. env \in Stored /\ env.room = env1.room /\ env.next = env1.next
  BY <1>3, <1>4, <1>5, WithActiveStored
<1>7. CarriesOn(env.room, store.room)
  <2>1. ASSUME NEW x \in DOMAIN store.room PROVE x \in DOMAIN env.room /\ Extends(env.room[x], store.room[x])
    <3>1. store.room[x] \in Room
      BY <1>1, StoredType
    <3>2. CASE x = r
      BY <1>3, <1>6, <3>2
    <3>3. CASE x # r
      BY <1>3, <1>6, <3>1, <3>3, ExtendsItself
    <3>. QED BY <3>2, <3>3
  <2>. QED BY <2>1 DEF CarriesOn
<1>8. Whole(env)
  <2>1. new.player1 # new.player2
    BY <1>1 DEF Whole, Extends
  <2>. QED BY <1>1, <1>3, <1>6, <2>1 DEF Whole
<1>. QED BY <1>1, <1>2, <1>3, <1>6, <1>7, <1>8 DEF Candidate, env

\* What carries on the store carries on what it carries on.
LEMMA CandidateKeepsTold ==
    ASSUME GameTypes, NEW env, Candidate(env), KeepsTold(store)
    PROVE  KeepsTold(env)
<1>. SUFFICES ASSUME NEW u \in Sure
              PROVE  told[u].id \in DOMAIN env.room /\ Extends(env.room[told[u].id], told[u].room)
  BY DEF KeepsTold
<1>. DEFINE r == told[u].id
<1>1. r \in DOMAIN store.room /\ Extends(store.room[r], told[u].room) /\ told[u].room \in Room
  BY DEF KeepsTold, GameTypes, Sure
<1>. HIDE DEF r
<1>2. r \in DOMAIN env.room /\ Extends(env.room[r], store.room[r])
  BY <1>1 DEF Candidate, CarriesOn
<1>3. store.room[r] \in Room /\ env.room[r] \in Room
  BY <1>1, <1>2, StoredType DEF GameTypes, Candidate
<1>4. Extends(env.room[r], told[u].room)
  BY <1>1, <1>2, <1>3, ExtendsOn
<1>. QED BY <1>2, <1>4 DEF r

\* What an operation is about to store continues the local rooms.
LEMMA CandidateCarriesLocal ==
    ASSUME GameTypes, NEW env, Candidate(env), CarriesOn(store.room, gameRooms)
    PROVE  CarriesOn(env.room, gameRooms)
<1>. SUFFICES ASSUME NEW r \in DOMAIN gameRooms
              PROVE  r \in DOMAIN env.room /\ Extends(env.room[r], gameRooms[r])
  BY DEF CarriesOn
<1>1. r \in DOMAIN store.room /\ Extends(store.room[r], gameRooms[r]) /\ gameRooms[r] \in Room
  BY DEF CarriesOn, GameTypes
<1>2. r \in DOMAIN env.room /\ Extends(env.room[r], store.room[r])
  BY <1>1 DEF Candidate, CarriesOn
<1>3. store.room[r] \in Room /\ env.room[r] \in Room
  BY <1>1, <1>2, StoredType DEF GameTypes, Candidate
<1>. QED BY <1>1, <1>2, <1>3, ExtendsOn

\* An operation commits: r is the room it is about, us are those who are told.
LEMMA CommitStep ==
    ASSUME GameInv, NEW env, Candidate(env), Committed(env), NEW r \in DOMAIN env.room,
           NEW us \in SUBSET User, Tell(us, r, env.room[r]),
           r \in DOMAIN gameRooms \/ r \notin DOMAIN store.room,
           \A x \in DOMAIN gameRooms' : x # r => x \in DOMAIN gameRooms /\ gameRooms'[x] = gameRooms[x],
           env.room[r].gameOver => r \notin DOMAIN gameRooms',
           r \in DOMAIN gameRooms' => gameRooms'[r] = env.room[r]
    PROVE  GameInv'
<1>1. /\ store' = env /\ late' = AfterPut(late, incarnation, Len(late) + 1)
      /\ incarnation' = incarnation /\ overrun' = overrun /\ forked' = forked
  BY DEF Committed
<1>2. GameTypes /\ ToldInv /\ LocalInv
  BY DEF GameInv
<1>3. env \in Stored /\ Whole(env) /\ env.room[r] \in Room /\ r \in RoomId /\ CarriesOn(env.room, store.room)
  BY StoredType DEF Candidate
<1>4. /\ DOMAIN told' = DOMAIN told \cup us
      /\ \A u \in DOMAIN told' : \/ u \in us /\ told'[u].id = r /\ told'[u].room = env.room[r]
                                 \/ u \in DOMAIN told /\ told'[u] = told[u]
  BY DEF Tell, ToldAs
<1>5. /\ late' \in Seq(Late)
      /\ \A i \in DOMAIN late' : \E j \in DOMAIN late : late'[i] = late[j] /\ late[j].inc # incarnation
  <2>. DEFINE end == Len(late) + 1
              rest == AfterPut(late, incarnation, end)
  <2>1. late \in Seq(Late) /\ incarnation \in Nat
    BY <1>2 DEF GameTypes
  <2>2. end \in Nat /\ \A j \in DOMAIN late : ~(j > end)
    BY <2>1
  <2>. HIDE DEF end
  <2>3. /\ rest \in Seq(Late)
        /\ \A i \in DOMAIN rest : \E j \in DOMAIN late :
              rest[i] = late[j] /\ (j > end \/ late[j].inc # incarnation)
    BY ZenonT(60), <2>1, <2>2, AfterPutLeaves
  <2>. HIDE DEF rest
  <2>4. \A i \in DOMAIN rest : \E j \in DOMAIN late : rest[i] = late[j] /\ late[j].inc # incarnation
    BY <2>2, <2>3
  <2>. QED BY <1>1, <2>3, <2>4 DEF rest, end
<1>6. Extends(env.room[r], env.room[r])
  BY <1>3, ExtendsItself
<1>7. GameTypes'
  <2>1. \A i \in DOMAIN late' : late'[i].inc <= incarnation /\ Whole(late'[i].env)
    BY <1>2, <1>5 DEF GameTypes
  <2>2. /\ DOMAIN gameRooms' \subseteq RoomId
        /\ \A x \in DOMAIN gameRooms' : gameRooms'[x] \in Room /\ gameRooms'[x].player1 # gameRooms'[x].player2
    BY <1>2, <1>3 DEF GameTypes, Whole
  <2>3. DOMAIN told' \subseteq User /\ \A u \in DOMAIN told' : told'[u].id \in RoomId /\ told'[u].room \in Room
    BY <1>2, <1>3, <1>4 DEF GameTypes
  <2>. QED BY <1>1, <1>2, <1>3, <1>5, <2>1, <2>2, <2>3 DEF GameTypes, Whole
<1>8. ToldInv'
  <2>. SUFFICES ASSUME ~overrun' PROVE ToldInv'
    BY DEF ToldInv
  <2>1. /\ ~overrun /\ KeepsTold(store)
        /\ \A u \in Sure : Free(u)
    BY <1>1, <1>2 DEF ToldInv
  <2>2. KeepsTold(env)
    BY <1>2, <2>1, CandidateKeepsTold
  <2>3. \A u \in Sure' : \/ told'[u].id = r /\ told'[u].room = env.room[r]
                         \/ u \in Sure /\ told'[u] = told[u]
    BY <1>4 DEF Sure
  <2>4. KeepsTold(store)'
    BY <1>1, <1>6, <2>2, <2>3 DEF KeepsTold
  <2>5. ASSUME NEW u \in Sure' PROVE Free(u)'
    <3>1. CASE told'[u].id = r /\ told'[u].room = env.room[r]
      BY <3>1 DEF Free
    <3>2. CASE u \in Sure /\ told'[u] = told[u] /\ told[u].id # r
      BY <2>1, <3>2 DEF Free
    <3>3. CASE u \in Sure /\ told'[u] = told[u] /\ told[u].id = r
      <4>1. told[u].room.gameOver => env.room[r].gameOver
        BY <2>2, <3>3 DEF KeepsTold, Extends
      <4>. QED BY <3>3, <4>1 DEF Free
    <3>. QED BY <2>3, <3>1, <3>2, <3>3
  <2>6. \A i \in DOMAIN late' : late'[i].inc # incarnation'
    BY <1>1, <1>5
  <2>. QED BY <2>4, <2>5, <2>6 DEF ToldInv
<1>9. LocalInv'
  <2>. SUFFICES ASSUME ~overrun', ~forked' PROVE LocalInv'
    BY DEF LocalInv
  <2>1. CarriesOn(store.room, gameRooms)
    BY <1>1, <1>2 DEF LocalInv
  <2>2. CarriesOn(env.room, gameRooms)
    BY <1>2, <2>1, CandidateCarriesLocal
  <2>3. CarriesOn(env.room, gameRooms')
    BY <1>6, <2>2 DEF CarriesOn
  <2>4. \A i \in DOMAIN late' : late'[i].inc # incarnation'
    BY <1>1, <1>5
  <2>. QED BY <1>1, <2>3, <2>4 DEF LocalInv, CarriesOn
<1>. QED BY <1>7, <1>8, <1>9 DEF GameInv

\* An operation is reported unavailable, its Put of unknown outcome.
LEMMA UnknownStep ==
    ASSUME GameInv, NEW env, Candidate(env), Unknown(env), UNCHANGED <<gameRooms, told>>
    PROVE  GameInv'
<1>1. /\ late' = Append(late, LatePut(incarnation, env)) /\ store' = store
      /\ incarnation' = incarnation /\ overrun' = overrun /\ forked' = forked
      /\ gameRooms' = gameRooms /\ told' = told
  BY DEF Unknown
<1>2. GameTypes /\ ToldInv /\ LocalInv
  BY DEF GameInv
<1>3. env \in Stored /\ Whole(env) /\ CarriesOn(env.room, store.room)
  BY DEF Candidate
<1>4. incarnation \in Nat /\ late \in Seq(Late)
  BY <1>2 DEF GameTypes
<1>5. /\ late' \in Seq(Late)
      /\ \A i \in DOMAIN late' : \/ i \in DOMAIN late /\ late'[i] = late[i]
                                 \/ late'[i].inc = incarnation /\ late'[i].env = env
  BY <1>1, <1>3, <1>4, AppendLate
<1>6. GameTypes'
  <2>1. \A i \in DOMAIN late' : late'[i].inc <= incarnation /\ Whole(late'[i].env)
    BY <1>2, <1>3, <1>4, <1>5 DEF GameTypes
  <2>. QED BY <1>1, <1>2, <1>5, <2>1 DEF GameTypes, Whole
<1>7. ToldInv'
  <2>. SUFFICES ASSUME ~overrun' PROVE ToldInv'
    BY DEF ToldInv
  <2>1. /\ KeepsTold(store)
        /\ \A i \in DOMAIN late : late[i].inc = incarnation => KeepsTold(late[i].env)
        /\ \A u \in Sure : Free(u)
    BY <1>1, <1>2 DEF ToldInv
  <2>2. KeepsTold(env)
    BY <1>2, <2>1, CandidateKeepsTold
  <2>3. \A i \in DOMAIN late' : late'[i].inc = incarnation => KeepsTold(late'[i].env)
    BY <1>5, <2>1, <2>2
  <2>. QED BY <1>1, <2>1, <2>3 DEF ToldInv, KeepsTold, Free, Sure
<1>8. LocalInv'
  <2>. SUFFICES ASSUME ~overrun', ~forked' PROVE LocalInv'
    BY DEF LocalInv
  <2>1. /\ CarriesOn(store.room, gameRooms)
        /\ \A i \in DOMAIN late : late[i].inc = incarnation => CarriesOn(late[i].env.room, store.room)
    BY <1>1, <1>2 DEF LocalInv
  <2>2. \A i \in DOMAIN late' : late'[i].inc = incarnation => CarriesOn(late'[i].env.room, store.room)
    BY <1>3, <1>5, <2>1
  <2>. QED BY <1>1, <2>1, <2>2 DEF LocalInv, CarriesOn
<1>. QED BY <1>6, <1>7, <1>8 DEF GameInv

\* Nothing that the games depend on changes.
LEMMA SameGames ==
    ASSUME GameInv, UNCHANGED <<gameRooms, durable, told>>
    PROVE  GameInv'
<1>1. UNCHANGED <<gameRooms, store, late, incarnation, overrun, forked, told>>
  BY DEF durable
<1>2. GameTypes'
  BY <1>1 DEF GameInv, GameTypes, Whole
<1>3. ToldInv'
  BY <1>1 DEF GameInv, ToldInv, KeepsTold, Free, Sure
<1>4. LocalInv'
  BY <1>1 DEF GameInv, LocalInv, CarriesOn
<1>. QED BY <1>2, <1>3, <1>4 DEF GameInv

\* The stored snapshot replaces the local room and is told to u.  As long as nothing
\* is forked, whatever is open carries it on.
LEMMA StateRequestStep ==
    ASSUME GameInv, NEW u \in User, NEW r \in DOMAIN gameRooms, HasRoom(store, r),
           gameRooms' = [gameRooms EXCEPT ![r] = store.room[r]], stateResult(u, r), UNCHANGED durable
    PROVE  GameInv'
<1>1. UNCHANGED <<store, late, incarnation, overrun, forked>>
  BY DEF durable
<1>2. GameTypes /\ ToldInv /\ LocalInv
  BY DEF GameInv
<1>3. /\ DOMAIN gameRooms' = DOMAIN gameRooms /\ gameRooms'[r] = store.room[r]
      /\ \A x \in DOMAIN gameRooms : x # r => gameRooms'[x] = gameRooms[x]
  OBVIOUS
<1>4. /\ r \in DOMAIN store.room /\ r \in RoomId
      /\ store.room[r] \in Room /\ store.room[r].player1 # store.room[r].player2
  BY <1>2, StoredType DEF GameTypes, Whole, HasRoom
<1>5. Extends(store.room[r], store.room[r])
  BY <1>4, ExtendsItself
<1>6. /\ DOMAIN told' = DOMAIN told \cup {u}
      /\ told'[u].id = r /\ told'[u].room = store.room[r]
      /\ told'[u].how = IF forked THEN "forked" ELSE "state"
      /\ \A v \in DOMAIN told' : v # u => v \in DOMAIN told /\ told'[v] = told[v]
  BY DEF stateResult, ToldAs
<1>7. GameTypes'
  <2>1. DOMAIN told' \subseteq User /\ \A v \in DOMAIN told' : told'[v].id \in RoomId /\ told'[v].room \in Room
    BY <1>2, <1>4, <1>6 DEF GameTypes
  <2>. QED BY <1>1, <1>2, <1>3, <1>4, <2>1 DEF GameTypes, Whole
<1>8. ToldInv'
  <2>. SUFFICES ASSUME ~overrun' PROVE ToldInv'
    BY DEF ToldInv
  <2>1. /\ KeepsTold(store)
        /\ \A i \in DOMAIN late : late[i].inc = incarnation => KeepsTold(late[i].env)
        /\ \A v \in Sure : Free(v)
    BY <1>1, <1>2 DEF ToldInv
  <2>2. \A v \in Sure' : \/ v = u /\ ~forked
                         \/ v \in Sure /\ told'[v] = told[v]
    BY <1>6 DEF Sure
  <2>3. KeepsTold(store)'
    BY <1>1, <1>4, <1>5, <1>6, <2>1, <2>2 DEF KeepsTold
  <2>4. ASSUME NEW i \in DOMAIN late, late[i].inc = incarnation, NEW v \in Sure'
        PROVE  told'[v].id \in DOMAIN late[i].env.room /\ Extends(late[i].env.room[told'[v].id], told'[v].room)
    <3>1. CASE v = u /\ ~forked
      <4>1. CarriesOn(late[i].env.room, store.room)
        BY <1>1, <1>2, <2>4, <3>1 DEF LocalInv
      <4>. QED BY <1>4, <1>6, <3>1, <4>1 DEF CarriesOn
    <3>2. CASE v \in Sure /\ told'[v] = told[v]
      BY <2>1, <2>4, <3>2 DEF KeepsTold
    <3>. QED BY <2>2, <3>1, <3>2
  <2>5. ASSUME NEW v \in Sure' PROVE Free(v)'
    <3>1. CASE v = u /\ ~forked
      BY <1>3, <1>6, <3>1 DEF Free
    <3>2. CASE v \in Sure /\ told'[v] = told[v] /\ told[v].id = r
      <4>1. told[v].room.gameOver => store.room[r].gameOver
        BY <2>1, <3>2 DEF KeepsTold, Extends
      <4>. QED BY <1>3, <2>1, <3>2, <4>1 DEF Free
    <3>3. CASE v \in Sure /\ told'[v] = told[v] /\ told[v].id # r
      BY <1>3, <2>1, <3>3 DEF Free
    <3>. QED BY <2>2, <3>1, <3>2, <3>3
  <2>6. \A i \in DOMAIN late' : late'[i].inc = incarnation' => KeepsTold(late[i].env)'
    BY <1>1, <2>4 DEF KeepsTold
  <2>. QED BY <1>1, <2>3, <2>5, <2>6 DEF ToldInv
<1>9. LocalInv'
  BY <1>1, <1>2, <1>3, <1>5 DEF LocalInv, CarriesOn
<1>. QED BY <1>7, <1>8, <1>9 DEF GameInv

\* An open Put lands: if no later one of this incarnation is open, none is left.
LEMMA LandStep ==
    ASSUME GameInv, NEW i \in Nat, Land(i)
    PROVE  GameInv'
<1>1. /\ i \in DOMAIN late /\ store' = late[i].env /\ late' = AfterPut(late, late[i].inc, i)
      /\ incarnation' = incarnation /\ gameRooms' = gameRooms /\ told' = told
  BY DEF Land
<1>2. ~overrun' => ~overrun /\ late[i].inc = incarnation
  BY Zenon DEF Land
<1>3. ~forked' => ~forked /\ ~\E j \in DOMAIN late : j > i /\ late[j].inc = late[i].inc
  BY Zenon DEF Land
<1>4. GameTypes /\ ToldInv /\ LocalInv
  BY DEF GameInv
<1>5. late \in Seq(Late) /\ late[i].inc \in Nat /\ late[i].env \in Stored /\ Whole(late[i].env)
  BY <1>1, <1>4, LateTyped DEF GameTypes
<1>6. /\ late' \in Seq(Late)
      /\ \A k \in DOMAIN late' : \E j \in DOMAIN late :
            late'[k] = late[j] /\ (j > i \/ late[j].inc # late[i].inc)
  <2>. DEFINE rest == AfterPut(late, late[i].inc, i)
  <2>1. /\ rest \in Seq(Late)
        /\ \A k \in DOMAIN rest : \E j \in DOMAIN late :
              rest[k] = late[j] /\ (j > i \/ late[j].inc # late[i].inc)
    BY <1>5, AfterPutLeaves
  <2>. QED BY <1>1, <2>1
<1>7. GameTypes'
  <2>1. \A k \in DOMAIN late' : late'[k].inc <= incarnation /\ Whole(late'[k].env)
    BY <1>4, <1>6 DEF GameTypes
  <2>. QED BY <1>1, <1>4, <1>5, <1>6, <2>1 DEF GameTypes, Whole
<1>8. ToldInv'
  <2>. SUFFICES ASSUME ~overrun' PROVE ToldInv'
    BY DEF ToldInv
  <2>1. /\ \A j \in DOMAIN late : late[j].inc = incarnation => KeepsTold(late[j].env)
        /\ \A u \in Sure : Free(u)
        /\ late[i].inc = incarnation
    BY <1>2, <1>4 DEF ToldInv
  <2>2. KeepsTold(late[i].env) /\ \A k \in DOMAIN late' : late'[k].inc = incarnation => KeepsTold(late'[k].env)
    BY <1>1, <1>6, <2>1
  <2>. QED BY <1>1, <2>1, <2>2 DEF ToldInv, KeepsTold, Free, Sure
<1>9. LocalInv'
  <2>. SUFFICES ASSUME ~overrun', ~forked' PROVE LocalInv'
    BY DEF LocalInv
  <2>1. /\ CarriesOn(store.room, gameRooms) /\ late[i].inc = incarnation
        /\ CarriesOn(late[i].env.room, store.room)
    BY <1>1, <1>2, <1>3, <1>4 DEF LocalInv
  <2>2. Candidate(late[i].env)
    BY <1>5, <2>1 DEF Candidate
  <2>3. CarriesOn(late[i].env.room, gameRooms)
    BY <1>4, <2>1, <2>2, CandidateCarriesLocal
  <2>4. \A k \in DOMAIN late' : late'[k].inc # incarnation
    BY <1>3, <1>6, <2>1
  <2>. QED BY <1>1, <2>3, <2>4 DEF LocalInv, CarriesOn
<1>. QED BY <1>7, <1>8, <1>9 DEF GameInv

\* A new process: nothing that is open is of its incarnation, and a game that is
\* over in the store is not recovered.
LEMMA RestartStep ==
    ASSUME GameInv, Restart
    PROVE  GameInv'
<1>1. /\ incarnation' = incarnation + 1 /\ store' = store /\ late' = late /\ overrun' = overrun /\ told' = told
      /\ gameRooms' \in {[r \in recoverActiveRooms(store) |-> store.room[r]], <<>>}
  BY DEF Restart, Nothing
<1>2. GameTypes /\ ToldInv
  BY DEF GameInv
<1>3. \A r \in DOMAIN gameRooms' : /\ r \in DOMAIN store.room /\ gameRooms'[r] = store.room[r]
                                   /\ ~store.room[r].gameOver
  BY <1>1 DEF recoverActiveRooms, HasRoom
<1>4. incarnation \in Nat /\ \A i \in DOMAIN late : late[i].inc <= incarnation /\ late[i].inc \in Nat
  BY <1>2, LateTyped DEF GameTypes
<1>5. \A i \in DOMAIN late' : late'[i].inc <= incarnation' /\ late'[i].inc # incarnation'
  BY <1>1, <1>4
<1>6. \A r \in DOMAIN store.room : r \in RoomId /\ store.room[r] \in Room
  BY <1>2, StoredType DEF GameTypes
<1>7. GameTypes'
  <2>1. /\ DOMAIN gameRooms' \subseteq RoomId
        /\ \A x \in DOMAIN gameRooms' : gameRooms'[x] \in Room /\ gameRooms'[x].player1 # gameRooms'[x].player2
    BY <1>2, <1>3, <1>6 DEF GameTypes, Whole
  <2>2. incarnation' \in Nat
    BY <1>1, <1>4
  <2>. QED BY <1>1, <1>2, <1>5, <2>1, <2>2 DEF GameTypes, Whole
<1>8. ToldInv'
  <2>. SUFFICES ASSUME ~overrun' PROVE ToldInv'
    BY DEF ToldInv
  <2>1. KeepsTold(store)
    BY <1>1, <1>2 DEF ToldInv
  <2>2. ASSUME NEW u \in Sure, told[u].room.gameOver PROVE told[u].id \notin DOMAIN gameRooms'
    <3>1. Extends(store.room[told[u].id], told[u].room)
      BY <2>1 DEF KeepsTold
    <3>2. store.room[told[u].id].gameOver
      BY <2>2, <3>1 DEF Extends
    <3>. QED BY <1>3, <3>2
  <2>. QED BY <1>1, <1>5, <2>1, <2>2 DEF ToldInv, KeepsTold, Free, Sure
<1>9. LocalInv'
  <2>1. CarriesOn(store.room, gameRooms')
    <3>1. ASSUME NEW r \in DOMAIN gameRooms' PROVE r \in DOMAIN store.room /\ Extends(store.room[r], gameRooms'[r])
      BY <1>3, <1>6, ExtendsItself
    <3>. QED BY <3>1 DEF CarriesOn
  <2>. QED BY <1>1, <1>5, <2>1 DEF LocalInv, CarriesOn
<1>. QED BY <1>7, <1>8, <1>9 DEF GameInv

-----------------------------------------------------------------------------

\* The inductive invariant.
WsInv == ConnInv /\ GameInv

\* An operation on a stored room, as the handlers see it: it commits, and the
\* local room follows, or it is reported unavailable.
RoomOperation(r, new, us) ==
    \/ Committed(Updated(r, new)) /\ LocalRoomAfterCommit(r, new) /\ Tell(us, r, new)
    \/ (Unknown(Updated(r, new)) \/ UNCHANGED durable) /\ UNCHANGED <<gameRooms, told>>

\* It keeps the games in order when the new room continues the stored one.
LEMMA RoomOperationStep ==
    ASSUME GameInv, NEW r \in DOMAIN gameRooms, HasRoom(store, r), NEW new \in Room,
           Extends(new, store.room[r]), NEW us \in SUBSET User, RoomOperation(r, new, us)
    PROVE  GameInv'
<1>. DEFINE env == Updated(r, new)
<1>1. Candidate(env) /\ r \in DOMAIN env.room /\ env.room[r] = new
  BY UpdatedCandidate
<1>. HIDE DEF env
<1>2. CASE Committed(env) /\ LocalRoomAfterCommit(r, new) /\ Tell(us, r, new)
  <2>1. Tell(us, r, env.room[r])
    BY <1>1, <1>2
  <2>2. /\ \A x \in DOMAIN gameRooms' : x # r => x \in DOMAIN gameRooms /\ gameRooms'[x] = gameRooms[x]
        /\ new.gameOver => r \notin DOMAIN gameRooms'
        /\ r \in DOMAIN gameRooms' => gameRooms'[r] = new
    <3>1. CASE new.gameOver
      BY <1>2, <3>1 DEF LocalRoomAfterCommit, Without
    <3>2. CASE ~new.gameOver
      BY <1>2, <3>2 DEF LocalRoomAfterCommit
    <3>. QED BY <3>1, <3>2
  <2>. QED BY <1>1, <1>2, <2>1, <2>2, CommitStep
<1>3. CASE Unknown(env) /\ UNCHANGED <<gameRooms, told>>
  BY <1>1, <1>3, UnknownStep
<1>4. CASE UNCHANGED durable /\ UNCHANGED <<gameRooms, told>>
  BY <1>4, SameGames
<1>. QED BY <1>2, <1>3, <1>4 DEF RoomOperation, env

\* The room that finish() leaves continues the stored one.
LEMMA FinishedContinues ==
    ASSUME GameInv, NEW r, HasRoom(store, r), NEW w \in User
    PROVE  Finished(r, w) \in Room /\ Extends(Finished(r, w), store.room[r])
<1>1. store.room[r] \in Room
  BY StoredType DEF GameInv, GameTypes, HasRoom
<1>. QED BY <1>1, ExtendsItself, ForfeitContinues DEF Finished

\* Who plays in a local room has an opponent.
LEMMA Opponent ==
    ASSUME GameInv, NEW u, NEW r \in getRoomByUserId(u)
    PROVE  /\ r \in DOMAIN gameRooms
           /\ getOpponent(gameRooms[r], u) \in User /\ getOpponent(gameRooms[r], u) # u
<1>1. r \in DOMAIN gameRooms /\ u \in {gameRooms[r].player1, gameRooms[r].player2}
  BY DEF getRoomByUserId
<1>2. gameRooms[r] \in Room /\ gameRooms[r].player1 # gameRooms[r].player2
  BY <1>1 DEF GameInv, GameTypes
<1>. QED BY <1>1, <1>2 DEF getOpponent, Room

\* Those who are reached are users.
LEMMA ReachedUsers ==
    ASSUME NEW u \in User
    PROVE  Reached(u) \in SUBSET User
  BY DEF Reached

\* The queue: waiting, being matched, cancelling.
LEMMA QueueSteps ==
    ASSUME WsInv, NEW c \in Conn, NEW u \in User,
           handleMatchRequestWaiting(c, u) \/ handleMatchCancel(c, u)
    PROVE  WsInv'
<1>1. LobbyOK(lobby) /\ QueueOK(waitingQueue)
  BY DEF WsInv, ConnInv
<1>2. CASE handleMatchRequestWaiting(c, u)
  <2>1. waitingQueue' = Append(<<>>, u)
    BY <1>2 DEF handleMatchRequestWaiting, Waits
  <2>2. waitingQueue' \in Seq(User) /\ Len(waitingQueue') = 1 /\ ToSet(waitingQueue') = {u}
    BY <2>1 DEF ToSet
  <2>3. u \in Range(connToUserId)
    BY <1>2 DEF handleMatchRequestWaiting, Plays, getUserId, Range
  <2>4. QueueOK(waitingQueue')
    BY <2>2, <2>3 DEF QueueOK
  <2>. QED BY <1>1, <1>2, <2>4, HallStep, SameGames DEF WsInv, handleMatchRequestWaiting
<1>3. CASE handleMatchCancel(c, u)
  BY <1>1, <1>3, LeaveQueue, HallStep, SameGames DEF WsInv, handleMatchCancel
<1>. QED BY <1>2, <1>3

\* A match found keeps the invariant (handleMatchRequest with somebody waiting).
LEMMA MatchStep ==
    ASSUME WsInv, NEW c \in Conn, NEW u \in User, handleMatchRequest(c, u)
    PROVE  WsInv'
<1>. DEFINE opponent == Head(waitingQueue)
            env == Created(u, opponent)
            r == store.next
<1>1. /\ waitingQueue # <<>> /\ ~Contains(waitingQueue, u) /\ waitingQueue' = Tail(waitingQueue)
      /\ store.next <= MaxRooms /\ UNCHANGED connVars
  BY DEF handleMatchRequest, Matched
<1>2. LobbyOK(lobby) /\ QueueOK(waitingQueue)
  BY DEF WsInv, ConnInv
<1>3. waitingQueue \in Seq(User) /\ Len(waitingQueue) <= 1
  BY <1>2 DEF QueueOK
<1>4. Len(waitingQueue) = 1 /\ waitingQueue[1] = opponent
  <2>1. Len(waitingQueue) # 0
    BY <1>1, <1>3, EmptySeq
  <2>2. Len(waitingQueue) \in Nat
    BY <1>3
  <2>3. Head(waitingQueue) = waitingQueue[1]
    BY <1>3
  <2>4. Len(waitingQueue) = 1
    <3>1. \A n \in Nat : n <= 1 /\ n # 0 => n = 1
      OBVIOUS
    <3>2. Len(waitingQueue) <= 1
      BY <1>3
    <3>. QED BY <3>1, <3>2, <2>1, <2>2, Zenon
  <2>. QED BY <2>3, <2>4 DEF opponent
<1>5. opponent \in User /\ opponent # u
  BY <1>1, <1>3, <1>4 DEF Contains
<1>6. waitingQueue' = <<>>
  BY <1>1, <1>3, <1>4
<1>7. QueueOK(waitingQueue')
  <2>1. <<>> \in Seq(User) /\ Len(<<>>) <= 1 /\ DOMAIN <<>> = {}
    OBVIOUS
  <2>. QED BY <1>6, <2>1 DEF QueueOK, ToSet
<1>. HIDE DEF opponent
<1>8. /\ Candidate(env) /\ r \in RoomId /\ r \in DOMAIN env.room /\ r \notin DOMAIN store.room
      /\ env.room[r] = NewRoom(u, opponent) /\ ~env.room[r].gameOver
  BY <1>1, <1>5, CreatedCandidate DEF WsInv
<1>. HIDE DEF env
<1>9. CASE /\ Committed(env) /\ gameRooms' = With(gameRooms, r, env.room[r])
           /\ lobby' = Without(Without(lobby, u), opponent)
           /\ Tell({u} \cup Reached(opponent), r, env.room[r])
  <2>1. LobbyOK(lobby')
    BY <1>2, <1>9, LobbyWithout
  <2>2. {u} \cup Reached(opponent) \in SUBSET User
    BY <1>5, ReachedUsers
  <2>3. /\ \A x \in DOMAIN gameRooms' : x # r => x \in DOMAIN gameRooms /\ gameRooms'[x] = gameRooms[x]
        /\ gameRooms'[r] = env.room[r]
    BY <1>9 DEF With
  <2>. HIDE DEF r
  <2>4. GameInv'
    BY <1>8, <1>9, <2>2, <2>3, CommitStep DEF WsInv
  <2>. QED BY <1>1, <1>7, <2>1, <2>4, HallStep DEF WsInv
<1>10. CASE (Unknown(env) \/ UNCHANGED durable) /\ UNCHANGED <<gameRooms, lobby, told>>
  <2>1. GameInv'
    BY <1>8, <1>10, UnknownStep, SameGames DEF WsInv
  <2>2. ConnInv'
    BY <1>1, <1>2, <1>7, <1>10, HallStep DEF WsInv
  <2>. QED BY <2>1, <2>2 DEF WsInv
<1>. QED BY <1>9, <1>10 DEF handleMatchRequest, env, opponent

\* A request for the state of a room.
LEMMA StateStep ==
    ASSUME WsInv, NEW c \in Conn, NEW u \in User, NEW r, handleStateRequest(c, u, r)
    PROVE  WsInv'
<1>1. r \in DOMAIN gameRooms /\ HasRoom(store, r)
  BY DEF handleStateRequest, getRoomByUserId
<1>2. GameInv'
  BY <1>1, StateRequestStep DEF WsInv, handleStateRequest
<1>3. LobbyOK(lobby') /\ QueueOK(waitingQueue') /\ UNCHANGED connVars
  BY DEF WsInv, ConnInv, handleStateRequest, hallVars
<1>. QED BY <1>2, <1>3, HallStep DEF WsInv

\* A legal move.
LEMMA MoveStep ==
    ASSUME WsInv, NEW c \in Conn, NEW u \in User, NEW r, NEW cell, NEW win \in BOOLEAN,
           handleMove(c, u, r, cell, win)
    PROVE  WsInv'
<1>. DEFINE new == makeMove(store.room[r], u, cell, win)
            opponent == getOpponent(new, u)
            oppConn == getConnectionByUserId(opponent)
            mine == With(lobby, u, c)
            us == {u} \cup Reached(opponent)
<1>1. /\ Plays(c, u) /\ HasRoom(store, r) /\ makeMoveStatus(store.room[r], u, cell) = "kOk"
      /\ UNCHANGED <<connVars, waitingQueue>> /\ r \in DOMAIN gameRooms
  BY DEF handleMove, getRoomByUserId
<1>2. store.room[r] \in Room
  BY <1>1, StoredType DEF WsInv, GameInv, GameTypes, HasRoom
<1>3. new \in Room /\ Extends(new, store.room[r])
  BY <1>1, <1>2, MoveContinues
<1>4. /\ \/ /\ Committed(Updated(r, new)) /\ LocalRoomAfterCommit(r, new) /\ Tell(us, r, new)
            /\ lobby' = (IF ~new.gameOver THEN lobby
                         ELSE IF connected(oppConn) THEN With(mine, opponent, oppConn) ELSE mine)
         \/ Unknown(Updated(r, new)) /\ UNCHANGED gameRooms /\ UNCHANGED <<lobby, told>>
  BY DEF handleMove, LocalRoomAfterUnknown
<1>. HIDE DEF new
<1>5. opponent \in User
  BY <1>3 DEF getOpponent, Room
<1>. HIDE DEF opponent
<1>6. us \in SUBSET User
  BY <1>5, ReachedUsers
<1>. HIDE DEF us
<1>7. RoomOperation(r, new, us)
  BY <1>4 DEF RoomOperation
<1>8. GameInv'
  BY <1>1, <1>3, <1>6, <1>7, RoomOperationStep DEF WsInv
<1>9. LobbyOK(lobby) /\ QueueOK(waitingQueue)
  BY DEF WsInv, ConnInv
<1>10. LobbyOK(mine)
  <2>1. Speaks(u, c)
    BY <1>1 DEF Speaks, Plays, getUserId
  <2>. QED BY <1>9, <2>1, LobbyWith
<1>11. oppConn \in Conn \cup {NoConn} /\ Speaks(opponent, oppConn)
  BY ByUserSpeaks DEF WsInv
<1>. HIDE DEF mine, oppConn
<1>12. LobbyOK(With(mine, opponent, oppConn))
  BY <1>5, <1>10, <1>11, LobbyWith
<1>13. LobbyOK(lobby')
  BY <1>4, <1>9, <1>10, <1>12
<1>. QED BY <1>1, <1>8, <1>9, <1>13, HallStep DEF WsInv

\* A player leaves the game.
LEMMA LeaveStep ==
    ASSUME WsInv, NEW c \in Conn, NEW u \in User, NEW r, handleLeaveGame(c, u, r)
    PROVE  WsInv'
<1>. DEFINE opponent == getOpponent(gameRooms[r], u)
            new == Finished(r, opponent)
            Back(l, x) == IF connected(getConnectionByUserId(x))
                          THEN With(l, x, getConnectionByUserId(x)) ELSE l
<1>1. /\ HasRoom(store, r) /\ r \in getRoomByUserId(u) /\ UNCHANGED <<connVars, waitingQueue>>
      /\ \/ /\ Committed(Updated(r, new)) /\ LocalRoomAfterCommit(r, new) /\ Tell(Reached(opponent), r, new)
            /\ lobby' = Back(Back(lobby, opponent), u)
         \/ Unknown(Updated(r, new)) /\ UNCHANGED <<gameRooms, lobby, told>>
  BY DEF handleLeaveGame
<1>2. r \in DOMAIN gameRooms /\ opponent \in User
  BY <1>1, Opponent DEF WsInv
<1>. HIDE DEF opponent
<1>3. new \in Room /\ Extends(new, store.room[r])
  BY <1>1, <1>2, FinishedContinues DEF WsInv
<1>. HIDE DEF new
<1>4. Reached(opponent) \in SUBSET User
  BY <1>2, ReachedUsers
<1>5. RoomOperation(r, new, Reached(opponent))
  BY <1>1 DEF RoomOperation
<1>6. GameInv'
  BY <1>1, <1>2, <1>3, <1>4, <1>5, RoomOperationStep DEF WsInv
<1>7. LobbyOK(lobby) /\ QueueOK(waitingQueue)
  BY DEF WsInv, ConnInv
<1>8. ASSUME NEW l, LobbyOK(l), NEW x \in User PROVE LobbyOK(Back(l, x))
  BY <1>8, ByUserSpeaks, LobbyWith DEF WsInv
<1>9. LobbyOK(Back(lobby, opponent))
  BY <1>2, <1>7, <1>8
<1>10. LobbyOK(Back(Back(lobby, opponent), u))
  <2>. DEFINE l == Back(lobby, opponent)
  <2>. HIDE DEF l
  <2>1. LobbyOK(Back(l, u))
    BY <1>8, <1>9 DEF l
  <2>. QED BY <2>1 DEF l
<1>11. LobbyOK(lobby')
  BY <1>1, <1>7, <1>10
<1>. QED BY <1>1, <1>6, <1>7, <1>11, HallStep DEF WsInv

\* A Close frame of a player, and of somebody who does not play.
LEMMA CloseSteps ==
    ASSUME WsInv, NEW c \in Conn, NEW u \in User,
           onCloseIdle(c, u) \/ \E r \in DOMAIN gameRooms : onClosePlaying(c, u, r)
    PROVE  WsInv'
<1>1. LobbyOK(LeavesLobby(u)) /\ u \notin DOMAIN LeavesLobby(u)
  BY LobbyWithout DEF WsInv, ConnInv, LeavesLobby
<1>2. CASE onCloseIdle(c, u)
  <2>1. Plays(c, u) /\ Closed(c, u) /\ lobby' = LeavesLobby(u) /\ UNCHANGED <<gameRooms, durable, told>>
    BY <1>2 DEF onCloseIdle
  <2>. QED BY <1>1, <2>1, CloseStep, SameGames DEF WsInv
<1>3. ASSUME NEW r \in DOMAIN gameRooms, onClosePlaying(c, u, r) PROVE WsInv'
  <2>. DEFINE opponent == getOpponent(gameRooms[r], u)
              oppConn == getConnectionByUserId(opponent)
              new == Finished(r, opponent)
  <2>1. /\ HasRoom(store, r) /\ r \in getRoomByUserId(u) /\ Plays(c, u) /\ Closed(c, u)
        /\ \/ /\ Committed(Updated(r, new)) /\ LocalRoomAfterCommit(r, new) /\ Tell(Reached(opponent), r, new)
              /\ lobby' = With(LeavesLobby(u), opponent, oppConn)
           \/ /\ Unknown(Updated(r, new)) \/ UNCHANGED durable
              /\ UNCHANGED <<gameRooms, told>> /\ lobby' = LeavesLobby(u)
    BY <1>3 DEF onClosePlaying
  <2>2. opponent \in User /\ opponent # u
    BY <2>1, Opponent DEF WsInv
  <2>. HIDE DEF opponent
  <2>3. new \in Room /\ Extends(new, store.room[r])
    BY <2>1, <2>2, FinishedContinues DEF WsInv
  <2>. HIDE DEF new
  <2>4. Reached(opponent) \in SUBSET User
    BY <2>2, ReachedUsers
  <2>5. RoomOperation(r, new, Reached(opponent))
    BY <2>1 DEF RoomOperation
  <2>6. GameInv'
    BY <2>1, <2>3, <2>4, <2>5, RoomOperationStep DEF WsInv
  <2>7. oppConn \in Conn \cup {NoConn} /\ Speaks(opponent, oppConn)
    BY ByUserSpeaks DEF WsInv
  <2>. HIDE DEF oppConn
  <2>8. LobbyOK(With(LeavesLobby(u), opponent, oppConn))
    BY <1>1, <2>2, <2>7, LobbyWith
  <2>9. u \notin DOMAIN With(LeavesLobby(u), opponent, oppConn)
    BY <1>1, <2>2 DEF With
  <2>10. LobbyOK(lobby') /\ u \notin DOMAIN lobby'
    BY <1>1, <2>1, <2>8, <2>9
  <2>. QED BY <2>1, <2>6, <2>10, CloseStep DEF WsInv
<1>. QED BY <1>2, <1>3

\* A logout.
LEMMA LogoutSteps ==
    ASSUME WsInv, NEW u \in User,
           LogoutIdle(u) \/ \E r \in DOMAIN gameRooms : LogoutPlaying(u, r)
    PROVE  WsInv'
<1>1. LobbyOK(LeavesLobby(u))
  BY LobbyWithout DEF WsInv, ConnInv, LeavesLobby
<1>2. QueueOK(leaveQueue(u))
  BY LeaveQueue DEF WsInv
<1>3. CASE LogoutIdle(u)
  BY <1>1, <1>2, <1>3, HallStep, SameGames DEF WsInv, LogoutIdle
<1>4. ASSUME NEW r \in DOMAIN gameRooms, LogoutPlaying(u, r) PROVE WsInv'
  <2>. DEFINE opponent == getOpponent(gameRooms[r], u)
              oppConn == getConnectionByUserId(opponent)
              new == Finished(r, opponent)
  <2>1. /\ HasRoom(store, r) /\ r \in getRoomByUserId(u)
        /\ \/ /\ Committed(Updated(r, new)) /\ LocalRoomAfterCommit(r, new) /\ Tell(Reached(opponent), r, new)
              /\ lobby' = (IF connected(oppConn) THEN With(LeavesLobby(u), opponent, oppConn) ELSE LeavesLobby(u))
           \/ /\ Unknown(Updated(r, new)) \/ UNCHANGED durable
              /\ UNCHANGED <<gameRooms, told>> /\ lobby' = LeavesLobby(u)
        /\ waitingQueue' = leaveQueue(u) /\ UNCHANGED connVars
    BY <1>4 DEF LogoutPlaying
  <2>2. opponent \in User
    BY <2>1, Opponent DEF WsInv
  <2>. HIDE DEF opponent
  <2>3. new \in Room /\ Extends(new, store.room[r])
    BY <2>1, <2>2, FinishedContinues DEF WsInv
  <2>. HIDE DEF new
  <2>4. Reached(opponent) \in SUBSET User
    BY <2>2, ReachedUsers
  <2>5. RoomOperation(r, new, Reached(opponent))
    BY <2>1 DEF RoomOperation
  <2>6. GameInv'
    BY <2>1, <2>3, <2>4, <2>5, RoomOperationStep DEF WsInv
  <2>7. oppConn \in Conn \cup {NoConn} /\ Speaks(opponent, oppConn)
    BY ByUserSpeaks DEF WsInv
  <2>. HIDE DEF oppConn
  <2>8. LobbyOK(With(LeavesLobby(u), opponent, oppConn))
    BY <1>1, <2>2, <2>7, LobbyWith
  <2>9. LobbyOK(lobby') /\ QueueOK(waitingQueue')
    BY <1>1, <1>2, <2>1, <2>8
  <2>. QED BY <2>1, <2>6, <2>9, HallStep DEF WsInv
<1>. QED BY <1>3, <1>4

\* Before the first connection.
LEMMA WsInit == Init => WsInv
<1>. SUFFICES ASSUME Init PROVE WsInv
  OBVIOUS
<1>1. /\ tcp = [c \in Conn |-> "none"] /\ connToUserId = <<>> /\ userIdToConnPtr = <<>>
      /\ waitingQueue = <<>> /\ lobby = <<>> /\ gameRooms = <<>> /\ store = EmptyEnvelope
      /\ late = <<>> /\ incarnation = 0 /\ told = <<>>
  BY DEF Init, Nothing
<1>2. /\ DOMAIN connToUserId = {} /\ DOMAIN userIdToConnPtr = {} /\ DOMAIN lobby = {} /\ DOMAIN gameRooms = {}
      /\ DOMAIN told = {} /\ DOMAIN late = {} /\ DOMAIN waitingQueue = {}
      /\ waitingQueue \in Seq(User) /\ Len(waitingQueue) <= 1 /\ late \in Seq(Late)
  BY <1>1
<1>3. tcp \in [Conn -> {"none", "http", "ws", "closed"}]
  BY <1>1
<1>4. ConnInv
  BY <1>2, <1>3 DEF ConnInv, LobbyOK, QueueOK, ToSet
<1>5. store \in Stored /\ DOMAIN store.room = {}
  BY <1>1, EmptyStored
<1>6. GameTypes
  BY <1>1, <1>2, <1>5 DEF GameTypes, Whole
<1>7. ToldInv /\ LocalInv
  BY <1>2 DEF ToldInv, LocalInv, KeepsTold, CarriesOn, Sure
<1>. QED BY <1>4, <1>6, <1>7 DEF WsInv, GameInv

\* Every step of the server keeps the invariant.
LEMMA WsNext ==
    ASSUME WsInv, [Next]_vars
    PROVE  WsInv'
<1>0. ConnInv /\ GameInv
  BY DEF WsInv
<1>1. ASSUME NEW c \in Conn, onConnection(c) \/ onDisconnection(c) PROVE WsInv'
  <2>1. ConnInv'
    BY <1>0, <1>1, TcpSteps
  <2>2. GameInv'
    BY <1>0, <1>1, SameGames DEF onConnection, onDisconnection
  <2>. QED BY <2>1, <2>2 DEF WsInv
<1>2. ASSUME NEW c \in Conn, NEW u \in User, Message(c, u) PROVE WsInv'
  <2>1. CASE handle(c, u)
    <3>1. GameInv'
      BY <1>0, <2>1, SameGames DEF handle
    <3>. QED BY <1>0, <2>1, <3>1, HandleStep DEF WsInv
  <2>2. ASSUME NEW r \in DOMAIN gameRooms, NEW cell \in Cell \cup {OffBoard}, NEW win \in BOOLEAN,
               handleMove(c, u, r, cell, win)
        PROVE  WsInv'
    BY <2>2, MoveStep
  <2>. QED BY <1>2, <2>1, <2>2, QueueSteps, MatchStep, StateStep, LeaveStep, CloseSteps DEF Message
<1>3. ASSUME NEW u \in User, LogoutIdle(u) \/ \E r \in DOMAIN gameRooms : LogoutPlaying(u, r) PROVE WsInv'
  BY <1>3, LogoutSteps
<1>4. ASSUME NEW i \in 1..MaxUnknown, Land(i) PROVE WsInv'
  <2>1. GameInv'
    BY <1>0, <1>4, LandStep, GameAssumption
  <2>2. UNCHANGED connVars /\ LobbyOK(lobby') /\ QueueOK(waitingQueue')
    BY <1>0, <1>4 DEF Land, hallVars, ConnInv
  <2>. QED BY <1>0, <2>1, <2>2, HallStep DEF WsInv
<1>5. CASE Restart
  BY <1>0, <1>5, TcpSteps, RestartStep DEF WsInv
<1>6. CASE UNCHANGED vars
  <2>1. GameInv'
    BY <1>0, <1>6, SameGames DEF vars
  <2>2. UNCHANGED connVars /\ LobbyOK(lobby') /\ QueueOK(waitingQueue')
    BY <1>0, <1>6 DEF vars, hallVars, ConnInv
  <2>. QED BY <1>0, <2>1, <2>2, HallStep DEF WsInv
<1>. QED BY <1>1, <1>2, <1>3, <1>4, <1>5, <1>6 DEF Next

\* The invariant holds in every reachable state.
LEMMA WsInvariant == Spec => []WsInv
  BY WsInit, WsNext, PTL DEF Spec

\* Players are never told more than the store holds and will hold, and local rooms
\* are behind it: the handlers act only on what PvpGameService has committed or read,
\* and a committed Put makes all open ones of its clerk void.  A state read after two
\* Puts made from one state forked is excepted.
THEOREM LocalBehindStoreCorrect == Spec => []LocalBehindStore
<1>1. WsInv => LocalBehindStore
  BY DEF WsInv, GameInv, ToldInv, LocalInv, KeepsTold, Sure, CarriesOn, LocalBehindStore, HasRoom
<1>. QED BY <1>1, WsInvariant, PTL

\* Frames go only to WebSockets: a Close frame takes every entry out that names
\* its connection, because entries name only connections registered for the user.
THEOREM FramesToWebSocketsCorrect == Spec => []FramesToWebSockets
<1>1. WsInv => FramesToWebSockets
  BY DEF WsInv, ConnInv, LobbyOK, Speaks, FramesToWebSockets, connected, Range
<1>. QED BY <1>1, WsInvariant, PTL

\* The queue holds at most one user, who has a registered connection, and nobody
\* plays against themselves.
THEOREM QueueSoundCorrect == Spec => []QueueSound
<1>1. WsInv => QueueSound
  <2>. SUFFICES ASSUME WsInv PROVE QueueSound
    OBVIOUS
  <2>1. ConnInv /\ GameTypes
    BY DEF WsInv, GameInv
  <2>2. /\ DOMAIN connToUserId \subseteq Conn /\ Range(connToUserId) \subseteq User
        /\ DOMAIN userIdToConnPtr \subseteq User /\ Range(userIdToConnPtr) \subseteq Conn
        /\ DOMAIN lobby \subseteq User /\ Range(lobby) \subseteq Conn \cup {NoConn}
    BY <2>1 DEF ConnInv, LobbyOK, Range
  <2>3. \A r \in DOMAIN store.room : r \in RoomId /\ store.room[r] \in Room
    BY <2>1, StoredType DEF GameTypes
  <2>4. TypeOK
    BY <2>1, <2>2, <2>3 DEF TypeOK, ConnInv, QueueOK, GameTypes
  <2>. QED BY <2>1, <2>4 DEF QueueSound, ConnInv, QueueOK, GameTypes, Whole
<1>. QED BY <1>1, WsInvariant, PTL

\* Whoever was told that a game is over is not found in it again, or, told by a state
\* request, in a room that is over: the store keeps the result, and a new room has an
\* id that nobody was told of.
THEOREM OverIsOverCorrect == Spec => []OverIsOver
<1>1. WsInv => OverIsOver
  BY DEF WsInv, GameInv, ToldInv, Sure, Free, OverIsOver
<1>. QED BY <1>1, WsInvariant, PTL
=============================================================================
