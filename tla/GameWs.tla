------------------------------- MODULE GameWs -------------------------------
(* The WebSocket side of the game server: TCP connections and their upgrade    *)
(* (HttpServer, WebSocketServer), who plays on which connection and the        *)
(* message handlers (GameWsHandler), the waiting queue (MatchmakingPool), the  *)
(* lobby (ChatManager) and the local rooms (GomokuServer), over the durable    *)
(* state of GameState.                                                         *)
(*                                                                             *)
(* One I/O loop runs all handlers, so a handler is one action, the operation   *)
(* of PvpGameService in it included: it commits, or it is reported unavailable *)
(* with its Put not sent or of unknown outcome.  What may land inside such an  *)
(* operation is the subject of PvpGame.  Requests that change nothing (errors, *)
(* chat, pings, a move that is refused) are not actions.                       *)
EXTENDS GameState

CONSTANTS
    Conn,         \* TCP connections, each opened at most once
    NoConn,       \* a null connection pointer
    MaxRestarts   \* bound: restarts of the application

ASSUME WsAssumption == NoConn \notin Conn /\ MaxRestarts \in Nat

VARIABLES
    tcp,          \* each connection: "none", "http", "ws" (in contexts_) or "closed"
    connToUserId, \* GameWsHandler's maps
    userIdToConnPtr,
    waitingQueue, \* MatchmakingPool
    lobby,        \* ChatManager::lobbyConnections_
    gameRooms,    \* GomokuServer::gameRooms_
    store, late,  \* the durable state and Puts of unknown outcome
    incarnation, overrun,
    forked,       \* history: a Put landed in this incarnation while a later one was open
    told          \* history: what each user was last told to be committed, and how

connVars  == <<tcp, connToUserId, userIdToConnPtr>>
hallVars  == <<waitingQueue, lobby>>
durable   == <<store, late, incarnation, overrun, forked>>
vars      == <<connVars, hallVars, gameRooms, durable, told>>

Nothing == <<>>

Init ==
    /\ tcp = [c \in Conn |-> "none"]
    /\ connToUserId = Nothing /\ userIdToConnPtr = Nothing
    /\ waitingQueue = <<>> /\ lobby = Nothing /\ gameRooms = Nothing
    /\ store = EmptyEnvelope /\ late = <<>> /\ incarnation = 0 /\ overrun = FALSE
    /\ forked = FALSE
    /\ told = Nothing

-----------------------------------------------------------------------------
(* Maps of the code as functions on the keys they have. *)

With(f, k, v) == [x \in DOMAIN f \cup {k} |-> IF x = k THEN v ELSE f[x]]
Without(f, k) == [x \in DOMAIN f \ {k} |-> f[x]]

\* connToUserId_.find(conn->name()); a connection without a user has id 0.
getUserId(c, u) == c \in DOMAIN connToUserId /\ connToUserId[c] = u

getConnectionByUserId(u) ==
    IF u \in DOMAIN userIdToConnPtr THEN userIdToConnPtr[u] ELSE NoConn

connected(c) == c # NoConn /\ tcp[c] \in {"http", "ws"}

\* The rooms that getRoomByUserId may find: the map has no order.
getRoomByUserId(u) == {r \in DOMAIN gameRooms : u \in {gameRooms[r].player1, gameRooms[r].player2}}

\* The users us hear of the room's state: as the "result" of an operation that was
\* committed, or as the stored "state" they asked for, which is a "forked" one when
\* an open Put was made from a state before it.
ToldAs(how, us, r, room) ==
    told' = [u \in DOMAIN told \cup us |->
                IF u \in us THEN [id |-> r, room |-> room, how |-> how] ELSE told[u]]

Tell(us, r, room) == ToldAs("result", us, r, room)

Reached(u) == IF connected(getConnectionByUserId(u)) THEN {u} ELSE {}

-----------------------------------------------------------------------------
(* PvpGameService, one operation at a time. *)

Committed(env) ==
    /\ store' = env
    /\ late' = AfterPut(late, incarnation, Len(late) + 1)
    /\ UNCHANGED <<incarnation, overrun, forked>>

Unknown(env) ==
    /\ Len(late) < MaxUnknown
    /\ late' = Append(late, LatePut(incarnation, env))
    /\ UNCHANGED <<store, incarnation, overrun, forked>>

Created(p1, p2) ==
    WithNext(WithActive(WithRoom(store, store.next, NewRoom(p1, p2)),
                        Append(store.active, store.next)), store.next + 1)

Updated(r, new) ==
    IF new.gameOver
    THEN WithActive(WithRoom(store, r, new), WithoutRoom(store.active, r))
    ELSE WithRoom(store, r, new)

\* The room as finish() leaves it: a game that is over keeps its result.
Finished(r, winner) ==
    IF store.room[r].gameOver THEN store.room[r] ELSE forfeit(store.room[r], winner)

-----------------------------------------------------------------------------
(* Connections: HttpServer and WebSocketServer. *)

onConnection(c) ==
    /\ tcp[c] = "none"
    /\ tcp' = [tcp EXCEPT ![c] = "http"]
    /\ UNCHANGED <<connToUserId, userIdToConnPtr, hallVars, gameRooms, durable, told>>

\* GET /ws with a session of u: 101, the connection is registered, then the user.
\* (Without a login, or without a valid upgrade, the answer closes the connection.)
handle(c, u) ==
    /\ tcp[c] = "http"
    /\ tcp' = [tcp EXCEPT ![c] = "ws"]
    /\ connToUserId' = With(connToUserId, c, u)
    /\ userIdToConnPtr' = With(userIdToConnPtr, u, c)
    /\ lobby' = With(lobby, u, c)
    /\ UNCHANGED <<waitingQueue, gameRooms, durable, told>>

\* The TCP connection goes away: the WebSocket context is removed, and the TLS
\* connection, but the handler is not called.
onDisconnection(c) ==
    /\ connected(c)
    /\ tcp' = [tcp EXCEPT ![c] = "closed"]
    /\ UNCHANGED <<connToUserId, userIdToConnPtr, hallVars, gameRooms, durable, told>>

-----------------------------------------------------------------------------
(* MatchmakingPool and the messages of GameWsHandler. *)

Plays(c, u) == tcp[c] = "ws" /\ getUserId(c, u)

\* Mutant of Waits: somebody who waits already is put in again.
WaitsAgain(u) == waitingQueue = <<>> \/ Contains(waitingQueue, u)

\* tryMatch answers -1 and u waits; -2, u waits already, changes nothing.
Waits(u) == waitingQueue = <<>>

\* The first occurrence of u, if there is one, is taken out.
leaveQueue(u) ==
    LET at == {i \in DOMAIN waitingQueue : waitingQueue[i] = u}
    IN  Kept(waitingQueue, {i \in DOMAIN waitingQueue : i \in at => \E j \in at : j < i})

handleMatchRequestWaiting(c, u) ==
    /\ Plays(c, u)
    /\ Waits(u)
    /\ waitingQueue' = Append(waitingQueue, u)
    /\ UNCHANGED <<connVars, lobby, gameRooms, durable, told>>

\* tryMatch answers the first who waits, whom it takes out of the queue.
Matched(c, u) ==
    /\ Plays(c, u)
    /\ waitingQueue # <<>> /\ ~Contains(waitingQueue, u)
    /\ waitingQueue' = Tail(waitingQueue)
    /\ store.next <= MaxRooms

handleMatchRequest(c, u) ==
    LET opponent == Head(waitingQueue)
        env == Created(u, opponent)
        r == store.next
    IN  /\ Matched(c, u)
        /\ \/ /\ Committed(env)
              /\ gameRooms' = With(gameRooms, r, env.room[r])
              /\ lobby' = Without(Without(lobby, u), opponent)
              /\ Tell({u} \cup Reached(opponent), r, env.room[r])
           \/ /\ Unknown(env) \/ UNCHANGED durable
              /\ UNCHANGED <<gameRooms, lobby, told>>
        /\ UNCHANGED connVars

handleMatchCancel(c, u) ==
    /\ Plays(c, u)
    /\ Contains(waitingQueue, u)
    /\ waitingQueue' = leaveQueue(u)
    /\ UNCHANGED <<connVars, lobby, gameRooms, durable, told>>

\* The frame that answers a state request: the snapshot just read.
stateResult(u, r) == ToldAs(IF forked THEN "forked" ELSE "state", {u}, r, store.room[r])

\* loadGameRoom: the stored snapshot replaces the local room, a finished one too,
\* and the player is sent it.
handleStateRequest(c, u, r) ==
    /\ Plays(c, u)
    /\ r \in getRoomByUserId(u)
    /\ HasRoom(store, r)
    /\ gameRooms' = [gameRooms EXCEPT ![r] = store.room[r]]
    /\ stateResult(u, r)
    /\ UNCHANGED <<connVars, hallVars, durable>>

\* Mutant of LocalRoomAfterUnknown: the local room takes the candidate state.
LocalRoomAhead(r, new) == gameRooms' = [gameRooms EXCEPT ![r] = new]

\* moveGameRoom and finishGameRoom return before they touch the local room.
LocalRoomAfterUnknown(r, new) == UNCHANGED gameRooms

\* Mutant of LocalRoomAfterCommit: a finished game is not taken out.
LocalRoomKept(r, new) == gameRooms' = [gameRooms EXCEPT ![r] = new]

\* gameRooms_[roomId] = room, and removeGameRoom at the end of the handler once the
\* game is over.
LocalRoomAfterCommit(r, new) ==
    gameRooms' = IF new.gameOver THEN Without(gameRooms, r)
                 ELSE [gameRooms EXCEPT ![r] = new]

\* The move is submitted; only a committed one is told and ends the game.
handleMove(c, u, r, cell, win) ==
    LET new == makeMove(store.room[r], u, cell, win)
        opponent == getOpponent(new, u)
        oppConn == getConnectionByUserId(opponent)
        mine == With(lobby, u, c)
    IN  /\ Plays(c, u)
        /\ r \in getRoomByUserId(u)
        /\ HasRoom(store, r)
        /\ makeMoveStatus(store.room[r], u, cell) = "kOk"
        /\ \/ /\ Committed(Updated(r, new))
              /\ LocalRoomAfterCommit(r, new)
              /\ Tell({u} \cup Reached(opponent), r, new)
              /\ lobby' = IF ~new.gameOver THEN lobby
                          ELSE IF connected(oppConn) THEN With(mine, opponent, oppConn) ELSE mine
           \/ /\ Unknown(Updated(r, new))
              /\ LocalRoomAfterUnknown(r, new)
              /\ UNCHANGED <<lobby, told>>
        /\ UNCHANGED <<connVars, waitingQueue>>

\* The opponent wins; both go back to the lobby if they are connected.
handleLeaveGame(c, u, r) ==
    LET opponent == getOpponent(gameRooms[r], u)
        new == Finished(r, opponent)
        Back(l, x) == IF connected(getConnectionByUserId(x))
                      THEN With(l, x, getConnectionByUserId(x)) ELSE l
    IN  /\ Plays(c, u)
        /\ r \in getRoomByUserId(u)
        /\ HasRoom(store, r)
        /\ \/ /\ Committed(Updated(r, new))
              /\ LocalRoomAfterCommit(r, new)
              /\ Tell(Reached(opponent), r, new)
              /\ lobby' = Back(Back(lobby, opponent), u)
           \/ /\ Unknown(Updated(r, new))
              /\ UNCHANGED <<gameRooms, lobby, told>>
        /\ UNCHANGED <<connVars, waitingQueue>>

\* Mutant of LeavesLobby: removeFromLobby is forgotten.
StaysInLobby(u) == lobby

LeavesLobby(u) == Without(lobby, u)

\* What a Close frame does in every case: the user leaves the queue, the lobby and
\* both maps, and the connection is an HTTP connection again.
Closed(c, u) ==
    /\ tcp' = [tcp EXCEPT ![c] = "http"]
    /\ connToUserId' = Without(connToUserId, c)
    /\ userIdToConnPtr' = Without(userIdToConnPtr, u)
    /\ waitingQueue' = leaveQueue(u)

\* The user plays: the opponent wins and goes to the lobby, with or without a
\* connection.  If that cannot be committed the room stays.
onClosePlaying(c, u, r) ==
    LET opponent == getOpponent(gameRooms[r], u)
        new == Finished(r, opponent)
    IN  /\ Plays(c, u)
        /\ r \in getRoomByUserId(u)
        /\ HasRoom(store, r)
        /\ Closed(c, u)
        /\ \/ /\ Committed(Updated(r, new))
              /\ LocalRoomAfterCommit(r, new)
              /\ Tell(Reached(opponent), r, new)
              /\ lobby' = With(LeavesLobby(u), opponent, getConnectionByUserId(opponent))
           \/ /\ Unknown(Updated(r, new)) \/ UNCHANGED durable
              /\ UNCHANGED <<gameRooms, told>>
              /\ lobby' = LeavesLobby(u)

onCloseIdle(c, u) ==
    /\ Plays(c, u)
    /\ getRoomByUserId(u) = {}
    /\ Closed(c, u)
    /\ lobby' = LeavesLobby(u)
    /\ UNCHANGED <<gameRooms, durable, told>>

\* LogoutHandler, for a player: a request on a connection of its own, while the
\* WebSocket, if there is one, stays open and registered.
LogoutPlaying(u, r) ==
    LET opponent == getOpponent(gameRooms[r], u)
        oppConn == getConnectionByUserId(opponent)
        new == Finished(r, opponent)
    IN  /\ r \in getRoomByUserId(u)
        /\ HasRoom(store, r)
        /\ \/ /\ Committed(Updated(r, new))
              /\ LocalRoomAfterCommit(r, new)
              /\ Tell(Reached(opponent), r, new)
              /\ lobby' = IF connected(oppConn) THEN With(LeavesLobby(u), opponent, oppConn) ELSE LeavesLobby(u)
           \/ /\ Unknown(Updated(r, new)) \/ UNCHANGED durable
              /\ UNCHANGED <<gameRooms, told>>
              /\ lobby' = LeavesLobby(u)
        /\ waitingQueue' = leaveQueue(u)
        /\ UNCHANGED connVars

LogoutIdle(u) ==
    /\ getRoomByUserId(u) = {}
    /\ lobby' = LeavesLobby(u)
    /\ waitingQueue' = leaveQueue(u)
    /\ UNCHANGED <<connVars, gameRooms, durable, told>>

-----------------------------------------------------------------------------

Land(i) ==
    /\ i \in DOMAIN late
    /\ store' = late[i].env
    /\ late' = AfterPut(late, late[i].inc, i)
    /\ overrun' = (overrun \/ late[i].inc # incarnation)
    /\ forked' = (forked \/ \E j \in DOMAIN late : j > i /\ late[j].inc = late[i].inc)
    /\ UNCHANGED <<connVars, hallVars, gameRooms, incarnation, told>>

\* A new process: no connection, no queue, and the rooms that the store names.
Restart ==
    /\ incarnation < MaxRestarts
    /\ incarnation' = incarnation + 1
    /\ tcp' = [c \in Conn |-> IF tcp[c] = "none" THEN "none" ELSE "closed"]
    /\ connToUserId' = Nothing /\ userIdToConnPtr' = Nothing
    /\ waitingQueue' = <<>> /\ lobby' = Nothing
    /\ gameRooms' \in {[r \in recoverActiveRooms(store) |-> store.room[r]], Nothing}
    /\ forked' = FALSE
    /\ UNCHANGED <<store, late, overrun, told>>

Message(c, u) ==
    \/ handle(c, u)
    \/ handleMatchRequestWaiting(c, u) \/ handleMatchRequest(c, u) \/ handleMatchCancel(c, u)
    \/ onCloseIdle(c, u)
    \/ \E r \in DOMAIN gameRooms :
          \/ handleStateRequest(c, u, r) \/ handleLeaveGame(c, u, r) \/ onClosePlaying(c, u, r)
          \/ \E cell \in Cell \cup {OffBoard}, win \in BOOLEAN : handleMove(c, u, r, cell, win)

Next ==
    \/ \E c \in Conn : onConnection(c) \/ onDisconnection(c) \/ \E u \in User : Message(c, u)
    \/ \E u \in User : LogoutIdle(u) \/ \E r \in DOMAIN gameRooms : LogoutPlaying(u, r)
    \/ \E i \in 1..MaxUnknown : Land(i)
    \/ Restart

Spec == Init /\ [][Next]_vars

-----------------------------------------------------------------------------

\* The maps and queues of the server and the envelope have their types; a stored
\* board has stones on cells only (GameRoom::makeMove checks the coordinates).
TypeOK ==
    /\ tcp \in [Conn -> {"none", "http", "ws", "closed"}]
    /\ DOMAIN connToUserId \subseteq Conn /\ Range(connToUserId) \subseteq User
    /\ DOMAIN userIdToConnPtr \subseteq User /\ Range(userIdToConnPtr) \subseteq Conn
    /\ waitingQueue \in Seq(User)
    /\ DOMAIN lobby \subseteq User /\ Range(lobby) \subseteq Conn \cup {NoConn}
    /\ \A r \in DOMAIN gameRooms : r \in RoomId /\ gameRooms[r] \in Room
    /\ \A r \in DOMAIN store.room : r \in RoomId /\ store.room[r] \in Room

\* The application never shows or keeps a game that is ahead of the store, whatever
\* was reported unavailable and landed later or never (docs/data-flow.md:75: the
\* old local state is kept; GomokuServer.cpp:264-295): what a player was told to be
\* committed, by the result of an operation or by the answer to a state request
\* (GameWsHandler.cpp:295), and the local room, are states the stored game has come
\* through.  What a state request showed or copied only as long as no two open Puts
\* were made from one state: of two, the first may land and be shown, and the
\* second overwrite it.
LocalBehindStore ==
    ~overrun =>
        /\ \A u \in DOMAIN told : told[u].how # "forked" =>
              HasRoom(store, told[u].id) /\ Extends(store.room[told[u].id], told[u].room)
        /\ ~forked => \A r \in DOMAIN gameRooms :
              HasRoom(store, r) /\ Extends(store.room[r], gameRooms[r])

\* Frames go only to connections that speak WebSocket: whoever the lobby or the
\* map of users names is, as long as TCP is up, still registered with the
\* WebSocketServer, though its Close frame leaves TCP open for HTTP, and a user may
\* have several connections (GameWsHandler.cpp:119-174, ChatManager.cpp:35-56).
FramesToWebSockets ==
    \A c \in Range(lobby) \cup Range(userIdToConnPtr) : connected(c) => tcp[c] = "ws"

\* At most one user waits, and it is one whom a Close frame has not taken out: a
\* player is never matched with themselves nor with somebody who said goodbye
\* (MatchmakingPool.cpp:5-38, GameWsHandler.cpp:124-128).
QueueSound ==
    /\ TypeOK
    /\ Len(waitingQueue) <= 1
    /\ ToSet(waitingQueue) \subseteq Range(connToUserId)
    /\ \A r \in DOMAIN store.room : store.room[r].player1 # store.room[r].player2

\* Whoever was told that a game is over, as the result of an operation, is free for
\* the next one: getRoomByUserId no longer finds the room (GameWsHandler.cpp:399-414,
\* 489-492), not after a restart either.  Who learns it from a state request, of a
\* Put that landed late, is still found in the room, but in a room that is over: no
\* move is possible in it and leaving it keeps the result (GomokuServer.cpp:275-284).
OverIsOver ==
    ~overrun => \A u \in DOMAIN told :
        LET r == told[u].id
        IN  told[u].room.gameOver /\ told[u].how # "forked" /\ r \in DOMAIN gameRooms
                => told[u].how = "state" /\ gameRooms[r].gameOver
=============================================================================
