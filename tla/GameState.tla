----------------------------- MODULE GameState ------------------------------
(* The durable state of the player-versus-player games: a room, and the one    *)
(* JSON envelope in the key-value store that holds every room's snapshot, the  *)
(* index of active rooms and the next room id.  No variables: PvpGame and      *)
(* GameWs give these operators their state.                                    *)
(*                                                                             *)
(* Abstractions.  The board is the sequence of the cells played, whose turns   *)
(* alternate; whether a stone makes five in a row is a free choice.  Keys that *)
(* are absent from the envelope are read as the default that the service puts  *)
(* in their place (no rooms, no active room, next id 1).                       *)
EXTENDS Naturals, Sequences, FiniteSets, SequencesExt

CONSTANTS
    User,       \* players
    Cell,       \* the cells of the board
    OffBoard,   \* a coordinate outside the board
    MaxRooms,   \* bound: rooms created
    MaxUnknown  \* bound: Puts reported unavailable whose fate is still open

ASSUME GameAssumption ==
    /\ OffBoard \notin Cell
    /\ MaxRooms \in Nat
    /\ MaxUnknown \in Nat

RoomId == 1..MaxRooms

\* No winner yet, and the winner of a drawn game (0 and -1 in the code).
NoWinner == "none"
Draw == "draw"

Room == [player1 : User, player2 : User, currentTurn : User, board : Seq(Cell),
         gameOver : BOOLEAN, winner : User \cup {NoWinner, Draw}]

NewRoom(p1, p2) ==
    [player1 |-> p1, player2 |-> p2, currentTurn |-> p1, board |-> <<>>,
     gameOver |-> FALSE, winner |-> NoWinner]

getOpponent(room, u) == IF u = room.player1 THEN room.player2 ELSE room.player1

\* The order of the tests of makeMove: over, turn, then the coordinates.
makeMoveStatus(room, u, c) ==
    IF room.gameOver THEN "kGameOver"
    ELSE IF u # room.currentTurn THEN "kNotYourTurn"
    ELSE IF c \notin Cell \/ Contains(room.board, c) THEN "kInvalidMove" ELSE "kOk"

\* A full board; the last stone may still win.
isDraw(board) == Len(board) >= Cardinality(Cell)

\* The room after a legal move of u on c; win is what checkWin said.
makeMove(room, u, c, win) ==
    LET board == Append(room.board, c)
    IN  IF win THEN [room EXCEPT !.board = board, !.gameOver = TRUE, !.winner = u]
        ELSE IF isDraw(board)
             THEN [room EXCEPT !.board = board, !.gameOver = TRUE, !.winner = Draw]
             ELSE [room EXCEPT !.board = board, !.currentTurn = getOpponent(room, u)]

forfeit(room, winner) == [room EXCEPT !.gameOver = TRUE, !.winner = winner]

-----------------------------------------------------------------------------
(* The envelope under the key "gomoku:state". *)

Envelope == [room : UNION {[s -> Room] : s \in SUBSET RoomId},
             active : Seq(RoomId), next : Nat]

EmptyEnvelope == [room |-> <<>>, active |-> <<>>, next |-> 1]

HasRoom(env, r) == r \in DOMAIN env.room

\* envelope[roomKey(r)] = room, the other records stay.
WithRoom(env, r, room) ==
    [env EXCEPT !.room = [x \in DOMAIN env.room \cup {r} |->
                             IF x = r THEN room ELSE env.room[x]]]

WithActive(env, active) == [env EXCEPT !.active = active]

WithNext(env, next) == [env EXCEPT !.next = next]

\* What is left of sequence s when only the positions in kept are.
Kept(s, kept) ==
    [i \in 1..Cardinality(kept) |->
        s[CHOOSE j \in kept : Cardinality({k \in kept : k <= j}) = i]]

\* erase(remove(...)): every occurrence of the room goes.
WithoutRoom(active, r) == Kept(active, {i \in DOMAIN active : active[i] # r})

\* The rooms an application restart brings back.
recoverActiveRooms(env) ==
    {r \in ToSet(env.active) : HasRoom(env, r) /\ ~env.room[r].gameOver}

-----------------------------------------------------------------------------
(* What the clerk promises of a Put it reported unavailable: it may be applied  *)
(* later, or never.  The requests of one clerk carry increasing ids and the    *)
(* state machine skips those below the last one it has executed, so a Put that *)
(* is applied makes all earlier ones of the same clerk void.  This is assumed: *)
(* a Get that was given up and executes late sets the number back on its       *)
(* server (kvServer.cpp:53, KvServer's setBack), and an older copy could pass. *)
(* A restarted application is a new clerk.  late is the sequence of such Puts  *)
(* in the order of their requests: the clerk's incarnation and the envelope.   *)

LatePut(inc, env) == [inc |-> inc, env |-> env]

\* What is left of late when the Put at position upTo of incarnation inc, or a
\* new one beyond its end, has been applied.
AfterPut(late, inc, upTo) ==
    Kept(late, {i \in DOMAIN late : i > upTo \/ late[i].inc # inc})

\* later is the state of a room that a game at earlier can lead to.
Extends(later, earlier) ==
    /\ later.player1 = earlier.player1 /\ later.player2 = earlier.player2
    /\ IsPrefix(earlier.board, later.board)
    /\ earlier.gameOver => later = earlier
=============================================================================
