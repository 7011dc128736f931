------------------------------- MODULE AiGame -------------------------------
(* The game of one user against the program: class AiGame, the handlers that    *)
(* start a game, play a move and answer, and the entry of the user in aiGames_. *)
(* A request is handled in one step (one I/O thread, which also sleeps through  *)
(* the program's 500 ms).                                                       *)
EXTENDS Integers, Sequences, FiniteSets

CONSTANTS BOARD_SIZE,   \* 15 in the code
          LineLength,   \* 5 in the code
          Reach         \* 2 in the code: how far evaluateThreat looks
ASSUME AiAssumption == BOARD_SIZE \in Nat \ {0} /\ LineLength \in Nat \ {0} /\ Reach \in Nat

Index == 0..(BOARD_SIZE - 1)
Cell == Index \X Index

VARIABLES
    board_,     \* cell -> "empty", "human" (black), "ai" (white)
    moveCount_,
    present,    \* the user has an entry in aiGames_
    answer,     \* last answer: "none" before one, "invalid", or what it says of the winner
    shown,      \* the board that answer shows
    threats     \* history: where the human could have won before the program's last move

aiVars == <<board_, moveCount_, present, answer, shown, threats>>

NewBoard == [c \in Cell |-> "empty"]

AiInit ==
    /\ board_ = NewBoard /\ moveCount_ = 0 /\ present = FALSE
    /\ answer = "start" /\ shown = NewBoard /\ threats = {}

-----------------------------------------------------------------------------
Directions == {<<1, 0>>, <<0, 1>>, <<1, 1>>, <<1, -1>>}

At(c, d, i) == <<c[1] + d[1] * i, c[2] + d[2] * i>>
isInBoard(c) == c \in Cell

\* The loop of checkWin in one direction: stones of p in a row beside c.
RunFrom(b, c, d, sign, p) ==
    Cardinality({i \in 1..(LineLength - 1) : \A j \in 1..i : isInBoard(At(c, d, sign * j)) /\ b[At(c, d, sign * j)] = p})

checkWin(b, c, p) ==
    \E d \in Directions : 1 + RunFrom(b, c, d, 1, p) + RunFrom(b, c, d, -1, p) >= LineLength

evaluateThreat(b, c) ==
    LET steps == {s \in Directions \X (1..Reach) : isInBoard(At(c, s[1], s[2])) /\ b[At(c, s[1], s[2])] = "human"}
    IN  4 + Cardinality(steps)

\* Row by row, as the loops of getBestMove go.
Before(c, e) == c[1] < e[1] \/ (c[1] = e[1] /\ c[2] < e[2])
First(S) == CHOOSE c \in S : \A e \in S \ {c} : Before(c, e)

Empty(b) == {c \in Cell : b[c] = "empty"}

\* The empty cells with which p would have a line.
Wins(b, p) == {c \in Empty(b) : checkWin(b, c, p)}

\* Mutant of Urgent: the program looks only for its own line.
OwnLineOnly(b) == Wins(b, "ai")

\* Step 1 of getBestMove: cells that win the game or keep the human from it.
Urgent(b) == Wins(b, "ai") \cup Wins(b, "human")

\* Step 2: the first cell with the highest threat.  Every empty cell has one, so
\* steps 3 (near another stone) and 4 (the first cell) are never reached.
MostThreatened(b) ==
    {c \in Empty(b) : \A e \in Empty(b) : evaluateThreat(b, c) >= evaluateThreat(b, e)}

getBestMove(b) == IF Urgent(b) # {} THEN First(Urgent(b)) ELSE First(MostThreatened(b))

isDraw(n) == n >= BOARD_SIZE * BOARD_SIZE

-----------------------------------------------------------------------------
\* /aiBot/start and /aiBot/restart: a new game in place of the old one.
Start ==
    /\ board_' = NewBoard /\ moveCount_' = 0 /\ present' = TRUE
    /\ answer' = "start" /\ shown' = NewBoard /\ threats' = {}

\* isValidMove, of a game that is in aiGames_ (never over: see Ends).
isValidMove(c) == isInBoard(c) /\ board_[c] = "empty" /\ ~isDraw(moveCount_)

\* The handler erases the game with the answer that ends it, and makes a new
\* one for a move that finds none.
Ends(b, winner) ==
    /\ board_' = NewBoard /\ moveCount_' = 0 /\ present' = FALSE
    /\ answer' = winner /\ shown' = b

InvalidMove(c) ==
    /\ ~isValidMove(c)
    /\ present' = TRUE /\ answer' = "invalid" /\ shown' = board_
    /\ UNCHANGED <<board_, moveCount_, threats>>

\* humanMove, then the two checks before the program's turn.
HumanEnds(c) ==
    LET b == [board_ EXCEPT ![c] = "human"]
    IN  /\ isValidMove(c)
        /\ checkWin(b, c, "human") \/ isDraw(moveCount_ + 1)
        /\ Ends(b, IF checkWin(b, c, "human") THEN "human" ELSE "draw")
        /\ UNCHANGED threats

\* humanMove and aiMove.
Turn(c) ==
    LET b == [board_ EXCEPT ![c] = "human"]
        m == getBestMove(b)
        e == [b EXCEPT ![m] = "ai"]
    IN  /\ isValidMove(c)
        /\ ~checkWin(b, c, "human") /\ ~isDraw(moveCount_ + 1)
        /\ threats' = Wins(b, "human")
        /\ IF checkWin(e, m, "ai") \/ isDraw(moveCount_ + 2)
           THEN Ends(e, IF checkWin(e, m, "ai") THEN "ai" ELSE "draw")
           ELSE /\ board_' = e /\ moveCount_' = moveCount_ + 2 /\ present' = TRUE
                /\ answer' = "none" /\ shown' = e

\* Logging out erases the game.
Leave ==
    /\ present
    /\ present' = FALSE /\ board_' = NewBoard /\ moveCount_' = 0
    /\ answer' = "start" /\ shown' = NewBoard /\ threats' = {}

AiNext ==
    \/ Start \/ Leave
    \/ \E c \in Cell \cup {<<-1, 0>>, <<0, BOARD_SIZE>>} : InvalidMove(c)
    \/ \E c \in Cell : HumanEnds(c) \/ Turn(c)

AiSpec == AiInit /\ [][AiNext]_aiVars

-----------------------------------------------------------------------------
\* The board and the counters of AiGame have their types.
AiTypeOK ==
    /\ board_ \in [Cell -> {"empty", "human", "ai"}] /\ moveCount_ \in 0..(BOARD_SIZE * BOARD_SIZE)
    /\ present \in BOOLEAN /\ answer \in {"start", "invalid", "none", "human", "ai", "draw"}
    /\ threats \subseteq Cell

\* Reference definition of a line, over the whole board.
HasLine(b, p) ==
    \E c \in Cell, d \in Directions :
        \A i \in 0..(LineLength - 1) : isInBoard(At(c, d, i)) /\ b[At(c, d, i)] = p

Stones(b, p) == Cardinality({c \in Cell : b[c] = p})

\* What the answer says of the winner is what the board it shows says, though
\* checkWin looks only along the last stone: a winner is the one who has a
\* line, a draw is a full board without a line, and a game that goes on has
\* neither; and the program has answered every stone of the human.
AnswerTrue ==
    LET full == Stones(shown, "empty") = 0
    IN  /\ answer \in {"human", "ai", "draw", "none"} =>
             /\ (answer = "human") <=> HasLine(shown, "human")
             /\ (answer = "ai") <=> HasLine(shown, "ai")
             /\ (answer = "draw") <=> full /\ ~HasLine(shown, "human") /\ ~HasLine(shown, "ai")
        /\ Stones(board_, "human") = Stones(board_, "ai")
        /\ moveCount_ = Stones(board_, "human") + Stones(board_, "ai")

\* getBestMove blocks (its comment: win, or keep the player from winning): the
\* human wins only where, before the program's last move, there were two ways
\* to win, of which one move can close only one.
WinsOnlyByTwoThreats == answer = "human" /\ LineLength > 1 => Cardinality(threats) >= 2

\* The game keeps its word and defends itself (AiGame::checkWin, getBestMove).
GameSound == AiTypeOK /\ AnswerTrue /\ WinsOnlyByTwoThreats
=============================================================================
