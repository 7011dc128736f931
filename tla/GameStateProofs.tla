--------------------------- MODULE GameStateProofs --------------------------
(* Facts about the operators of GameState that the proofs about PvpGame and    *)
(* GameWs share: what is left of a sequence, how a game continues another, and *)
(* the types of rooms and envelopes.                                           *)
EXTENDS GameState, FiniteSetTheorems, TLAPS

\* The sequence Kept leaves has exactly the elements at the positions it keeps
\* (std::remove and erase in PvpGameService, the state machine's duplicate test).
LEMMA KeptElements ==
    ASSUME NEW S, NEW s \in Seq(S), NEW kept \in SUBSET DOMAIN s
    PROVE  /\ Kept(s, kept) \in Seq(S)
           /\ ToSet(Kept(s, kept)) = {s[j] : j \in kept}
           /\ Len(Kept(s, kept)) = Cardinality(kept)
<1>. DEFINE n == Cardinality(kept)
            below(j) == {k \in kept : k <= j}
            rank == [j \in kept |-> Cardinality(below(j))]
<1>1. DOMAIN s = 1..Len(s) /\ Len(s) \in Nat /\ kept \subseteq Nat
  OBVIOUS
<1>2. IsFiniteSet(kept)
  <2>1. IsFiniteSet(1..Len(s))
    BY <1>1, FS_Interval
  <2>. QED BY <1>1, <2>1, FS_Subset
<1>3. n \in Nat
  BY <1>2, FS_CardinalityType
<1>4. ASSUME NEW j \in kept PROVE /\ IsFiniteSet(below(j))
                                     /\ Cardinality(below(j)) \in Nat
                                     /\ Cardinality(below(j)) \in 1..n
  <2>1. IsFiniteSet(below(j)) /\ Cardinality(below(j)) <= n
    BY <1>2, FS_Subset
  <2>2. Cardinality(below(j)) \in Nat
    BY <2>1, FS_CardinalityType
  <2>3. j \in below(j)
    BY <1>1
  <2>4. Cardinality(below(j)) # 0
    BY <2>1, <2>3, FS_EmptySet
  <2>. QED BY <2>1, <2>2, <2>4, <1>3
<1>5. ASSUME NEW i \in kept, NEW j \in kept, i < j PROVE Cardinality(below(i)) < Cardinality(below(j))
  <2>1. below(i) \in SUBSET below(j) /\ j \in below(j) /\ j \notin below(i)
    BY <1>1, <1>5
  <2>2. Cardinality(below(i)) <= Cardinality(below(j)) /\ Cardinality(below(i)) # Cardinality(below(j))
    BY <2>1, <1>4, FS_Subset
  <2>3. Cardinality(below(i)) \in Nat /\ Cardinality(below(j)) \in Nat
    BY <1>3, <1>4
  <2>. HIDE DEF below
  <2>. QED BY <2>2, <2>3
<1>6. rank \in Injection(kept, 1..n)
  <2>1. rank \in [kept -> 1..n]
    BY <1>4
  <2>2. ASSUME NEW i \in kept, NEW j \in kept, rank[i] = rank[j] PROVE i = j
    <3>1. i \in Nat /\ j \in Nat
      BY <1>1
    <3>2. Cardinality(below(i)) = Cardinality(below(j)) /\ Cardinality(below(i)) \in Nat
      BY <2>2, <1>3, <1>4
    <3>. HIDE DEF below
    <3>3. ~(i < j) /\ ~(j < i)
      BY <3>2, <1>5
    <3>. QED BY <3>1, <3>3
  <2>. QED BY <2>1, <2>2 DEF Injection, IsInjective
<1>7. IsFiniteSet(1..n) /\ Cardinality(1..n) = n
  BY <1>3, FS_Interval
<1>8. rank \in Surjection(kept, 1..n)
  BY <1>6, <1>7, FS_Injection
<1>9. \A i \in 1..n : \E j \in kept : rank[j] = i
  BY <1>8 DEF Surjection
<1>10. ASSUME NEW i \in 1..n
       PROVE  (CHOOSE j \in kept : Cardinality(below(j)) = i) \in kept
  BY <1>9
<1>11. ASSUME NEW j \in kept
       PROVE  /\ Cardinality(below(j)) \in 1..n
              /\ (CHOOSE k \in kept : Cardinality(below(k)) = Cardinality(below(j))) = j
  <2>1. PICK k \in kept : k = CHOOSE m \in kept : Cardinality(below(m)) = Cardinality(below(j))
    BY <1>10, <1>4
  <2>2. Cardinality(below(k)) = Cardinality(below(j))
    BY <2>1
  <2>3. k = j
    BY <2>2, <1>6 DEF Injection, IsInjective
  <2>. QED BY <2>1, <2>3, <1>4
<1>12. Kept(s, kept) = [i \in 1..n |-> s[CHOOSE j \in kept : Cardinality(below(j)) = i]]
  BY DEF Kept
<1>13. \A i \in 1..n : Kept(s, kept)[i] \in S /\ Kept(s, kept)[i] \in {s[j] : j \in kept}
  <2>1. TAKE i \in 1..n
  <2>2. PICK j \in kept : j = CHOOSE k \in kept : Cardinality(below(k)) = i
    BY <1>10
  <2>3. Kept(s, kept)[i] = s[j]
    BY <1>12, <2>2
  <2>4. s[j] \in S
    BY <1>1
  <2>. QED BY <2>3, <2>4
<1>14. \A j \in kept : Kept(s, kept)[Cardinality(below(j))] = s[j] /\ Cardinality(below(j)) \in 1..n
  BY <1>11, <1>12
<1>15. Kept(s, kept) \in [1..n -> S] /\ DOMAIN Kept(s, kept) = 1..n
  <2>. HIDE DEF n
  <2>. QED BY <1>12, <1>13
<1>16. Kept(s, kept) \in Seq(S) /\ Len(Kept(s, kept)) = n
  BY <1>15, <1>3
<1>17. ToSet(Kept(s, kept)) = {s[j] : j \in kept}
  BY <1>13, <1>14, <1>15 DEF ToSet
<1>. QED BY <1>16, <1>17


\* The rooms of one state carry on those of an earlier one.
CarriesOn(rooms, earlier) ==
    \A r \in DOMAIN earlier : r \in DOMAIN rooms /\ Extends(rooms[r], earlier[r])

\* Every game continues itself.
LEMMA ExtendsItself ==
    ASSUME NEW room \in Room
    PROVE  Extends(room, room)
<1>1. Len(room.board) \in Nat
  BY DEF Room
<1>. QED BY <1>1 DEF Extends, IsPrefix

\* A game that continues one that continues a third continues the third.
LEMMA ExtendsOn ==
    ASSUME NEW a \in Room, NEW b \in Room, NEW c \in Room, Extends(b, a), Extends(c, b)
    PROVE  Extends(c, a)
<1>1. a.board \in Seq(Cell) /\ b.board \in Seq(Cell) /\ c.board \in Seq(Cell)
  BY DEF Room
<1>2. IsPrefix(a.board, b.board) /\ IsPrefix(b.board, c.board)
  BY DEF Extends
<1>3. Len(a.board) \in Nat /\ Len(b.board) \in Nat /\ Len(c.board) \in Nat
  BY <1>1
<1>4. Len(a.board) <= Len(b.board) /\ Len(b.board) <= Len(c.board)
  BY <1>2 DEF IsPrefix
<1>5. \A i \in 1..Len(a.board) : SubSeq(a.board, 1, Len(a.board))[i] = a.board[i]
                              /\ SubSeq(b.board, 1, Len(a.board))[i] = b.board[i]
                              /\ SubSeq(c.board, 1, Len(a.board))[i] = c.board[i]
  BY <1>1, <1>3, <1>4
<1>6. \A i \in 1..Len(b.board) : SubSeq(b.board, 1, Len(b.board))[i] = b.board[i]
                              /\ SubSeq(c.board, 1, Len(b.board))[i] = c.board[i]
  BY <1>1, <1>3, <1>4
<1>7. \A i \in 1..Len(a.board) : a.board[i] = b.board[i]
  BY <1>2, <1>5 DEF IsPrefix
<1>8. \A i \in 1..Len(b.board) : b.board[i] = c.board[i]
  BY <1>2, <1>6 DEF IsPrefix
<1>9. \A i \in 1..Len(a.board) : SubSeq(a.board, 1, Len(a.board))[i] = SubSeq(c.board, 1, Len(a.board))[i]
  BY <1>3, <1>4, <1>5, <1>7, <1>8
<1>10. SubSeq(a.board, 1, Len(a.board)) = SubSeq(c.board, 1, Len(a.board))
  BY <1>1, <1>3, <1>4, <1>9
<1>11. IsPrefix(a.board, c.board)
  BY <1>3, <1>4, <1>10 DEF IsPrefix
<1>. QED BY <1>11 DEF Extends

\* A legal move leads to a room that continues the one it was made in
\* (PvpGameService::move tests the move on a copy of the stored room).
LEMMA MoveContinues ==
    ASSUME NEW room \in Room, NEW u \in User, NEW c, NEW win \in BOOLEAN,
           makeMoveStatus(room, u, c) = "kOk"
    PROVE  /\ makeMove(room, u, c, win) \in Room
           /\ Extends(makeMove(room, u, c, win), room)
           /\ ~room.gameOver
<1>1. ~room.gameOver /\ c \in Cell
  BY DEF makeMoveStatus
<1>. DEFINE board == Append(room.board, c)
            new == makeMove(room, u, c, win)
<1>2. room.board \in Seq(Cell) /\ room.player1 \in User /\ room.player2 \in User
  BY DEF Room
<1>3. board \in Seq(Cell) /\ IsPrefix(room.board, board)
  <2>1. board \in Seq(Cell) /\ Len(board) = Len(room.board) + 1 /\ Len(room.board) \in Nat
    BY <1>1, <1>2
  <2>2. \A i \in 1..Len(room.board) : SubSeq(room.board, 1, Len(room.board))[i] = SubSeq(board, 1, Len(room.board))[i]
    BY <1>2, <2>1
  <2>3. SubSeq(room.board, 1, Len(room.board)) = SubSeq(board, 1, Len(room.board))
    BY <1>2, <2>1, <2>2
  <2>. QED BY <2>1, <2>3 DEF IsPrefix
<1>4. getOpponent(room, u) \in User
  BY <1>2 DEF getOpponent
<1>. HIDE DEF board
<1>5. \/ new = [room EXCEPT !.board = board, !.gameOver = TRUE, !.winner = u]
      \/ new = [room EXCEPT !.board = board, !.gameOver = TRUE, !.winner = Draw]
      \/ new = [room EXCEPT !.board = board, !.currentTurn = getOpponent(room, u)]
  BY DEF makeMove, board
<1>6. new \in Room
  BY <1>3, <1>4, <1>5 DEF Room
<1>7. new.player1 = room.player1 /\ new.player2 = room.player2 /\ new.board = board
  BY <1>5 DEF Room
<1>. HIDE DEF new
<1>8. Extends(new, room)
  BY <1>1, <1>3, <1>7 DEF Extends
<1>. QED BY <1>1, <1>6, <1>8 DEF new

\* So does the end of a game by forfeit, and it is over then.
LEMMA ForfeitContinues ==
    ASSUME NEW room \in Room, NEW w \in User, ~room.gameOver
    PROVE  forfeit(room, w) \in Room /\ Extends(forfeit(room, w), room) /\ forfeit(room, w).gameOver
<1>1. forfeit(room, w) \in Room /\ forfeit(room, w).gameOver
  BY DEF forfeit, Room
<1>2. /\ forfeit(room, w).player1 = room.player1 /\ forfeit(room, w).player2 = room.player2
      /\ forfeit(room, w).board = room.board
  BY DEF forfeit, Room
<1>3. IsPrefix(room.board, room.board)
  BY DEF Room, IsPrefix
<1>. QED BY <1>1, <1>2, <1>3 DEF Extends

\* The envelopes that the service writes: the next id is one more than an id.
Stored == {env \in Envelope : env.next \in 1..(MaxRooms + 1)}

\* Puts of unknown outcome.
Late == [inc : Nat, env : Stored]

\* What it takes to be such an envelope.
LEMMA StoredType ==
    ASSUME NEW env \in Stored
    PROVE  /\ DOMAIN env.room \subseteq RoomId
           /\ \A r \in DOMAIN env.room : env.room[r] \in Room
           /\ env.active \in Seq(RoomId) /\ env.next \in Nat
           /\ env.next >= 1 /\ env.next <= MaxRooms + 1
<1>1. env \in Envelope /\ env.next \in 1..(MaxRooms + 1)
  BY DEF Stored
<1>2. PICK s \in SUBSET RoomId : env.room \in [s -> Room]
  BY <1>1 DEF Envelope
<1>3. env.active \in Seq(RoomId) /\ env.next \in Nat
  BY <1>1 DEF Envelope
<1>4. MaxRooms \in Nat
  BY GameAssumption
<1>. QED BY <1>1, <1>2, <1>3, <1>4

\* The store before the first game.
LEMMA EmptyStored ==
    /\ EmptyEnvelope \in Stored /\ DOMAIN EmptyEnvelope.room = {}
    /\ EmptyEnvelope.active = <<>> /\ EmptyEnvelope.next = 1
<1>1. MaxRooms \in Nat
  BY GameAssumption
<1>2. <<>> \in [{} -> Room] /\ {} \in SUBSET RoomId /\ <<>> \in Seq(RoomId)
  OBVIOUS
<1>3. <<>> \in UNION {[s -> Room] : s \in SUBSET RoomId}
  BY <1>2
<1>4. EmptyEnvelope \in Envelope
  BY <1>2, <1>3 DEF EmptyEnvelope, Envelope
<1>. QED BY <1>1, <1>4 DEF EmptyEnvelope, Stored

\* A room written into the envelope: it is there, and the rest is as it was.
LEMMA WithRoomStored ==
    ASSUME NEW env \in Stored, NEW r \in RoomId, NEW room \in Room
    PROVE  /\ WithRoom(env, r, room) \in Stored
           /\ DOMAIN WithRoom(env, r, room).room = DOMAIN env.room \cup {r}
           /\ WithRoom(env, r, room).room[r] = room
           /\ \A x \in DOMAIN env.room : x # r => WithRoom(env, r, room).room[x] = env.room[x]
           /\ WithRoom(env, r, room).active = env.active
           /\ WithRoom(env, r, room).next = env.next
<1>. DEFINE f == [x \in DOMAIN env.room \cup {r} |-> IF x = r THEN room ELSE env.room[x]]
            new == WithRoom(env, r, room)
<1>1. DOMAIN env.room \subseteq RoomId /\ \A x \in DOMAIN env.room : env.room[x] \in Room
  BY StoredType
<1>2. f \in [DOMAIN env.room \cup {r} -> Room] /\ (DOMAIN env.room \cup {r}) \in SUBSET RoomId
  BY <1>1
<1>3. f \in UNION {[s -> Room] : s \in SUBSET RoomId}
  BY <1>2
<1>4. env \in [room : UNION {[s -> Room] : s \in SUBSET RoomId}, active : Seq(RoomId), next : Nat]
  BY DEF Stored, Envelope
<1>5. new = [env EXCEPT !.room = f]
  BY DEF WithRoom
<1>6. DOMAIN f = DOMAIN env.room \cup {r} /\ f[r] = room /\ \A x \in DOMAIN env.room : x # r => f[x] = env.room[x]
  OBVIOUS
<1>. HIDE DEF f
<1>7. new.room = f /\ new.active = env.active /\ new.next = env.next /\ new \in Envelope
  BY <1>3, <1>4, <1>5 DEF Envelope
<1>. HIDE DEF new
<1>8. new \in Stored
  BY <1>7 DEF Stored
<1>. QED BY <1>6, <1>7, <1>8 DEF new

\* The index and the next id, written.
LEMMA WithActiveStored ==
    ASSUME NEW env \in Stored, NEW active \in Seq(RoomId)
    PROVE  /\ WithActive(env, active) \in Stored
           /\ WithActive(env, active).room = env.room
           /\ WithActive(env, active).active = active
           /\ WithActive(env, active).next = env.next
<1>1. env \in [room : UNION {[s -> Room] : s \in SUBSET RoomId}, active : Seq(RoomId), next : Nat]
  BY DEF Stored, Envelope
<1>. DEFINE new == [env EXCEPT !.active = active]
<1>2. new.room = env.room /\ new.active = active /\ new.next = env.next /\ new \in Envelope
  BY <1>1 DEF Envelope
<1>. HIDE DEF new
<1>3. new \in Stored
  BY <1>2 DEF Stored
<1>. QED BY <1>2, <1>3 DEF new, WithActive

\* The next id after a new room (nextRoomIdKey).
LEMMA WithNextStored ==
    ASSUME NEW env \in Stored, NEW r \in RoomId
    PROVE  /\ WithNext(env, r + 1) \in Stored
           /\ WithNext(env, r + 1).room = env.room
           /\ WithNext(env, r + 1).active = env.active
           /\ WithNext(env, r + 1).next = r + 1
<1>1. env \in [room : UNION {[s -> Room] : s \in SUBSET RoomId}, active : Seq(RoomId), next : Nat]
  BY DEF Stored, Envelope
<1>2. r + 1 \in Nat /\ r + 1 \in 1..(MaxRooms + 1)
  BY GameAssumption DEF RoomId
<1>. DEFINE new == [env EXCEPT !.next = r + 1]
<1>3. new.room = env.room /\ new.active = env.active /\ new.next = r + 1 /\ new \in Envelope
  BY <1>1, <1>2 DEF Envelope
<1>. HIDE DEF new
<1>4. new \in Stored
  BY <1>2, <1>3 DEF Stored
<1>. QED BY <1>3, <1>4 DEF new, WithNext

\* A room taken out of the index, and one put in.
LEMMA IndexChanges ==
    ASSUME NEW active \in Seq(RoomId), NEW r \in RoomId
    PROVE  /\ WithoutRoom(active, r) \in Seq(RoomId)
           /\ ToSet(WithoutRoom(active, r)) = ToSet(active) \ {r}
           /\ Append(active, r) \in Seq(RoomId)
           /\ ToSet(Append(active, r)) = ToSet(active) \cup {r}
<1>. DEFINE kept == {i \in DOMAIN active : active[i] # r}
<1>1. /\ Kept(active, kept) \in Seq(RoomId)
      /\ ToSet(Kept(active, kept)) = {active[j] : j \in kept}
  BY KeptElements, kept \in SUBSET DOMAIN active
<1>2. {active[j] : j \in kept} = ToSet(active) \ {r}
  BY DEF ToSet
<1>3. Append(active, r) \in Seq(RoomId)
  OBVIOUS
<1>4. /\ DOMAIN Append(active, r) = DOMAIN active \cup {Len(active) + 1}
      /\ Append(active, r)[Len(active) + 1] = r
      /\ \A i \in DOMAIN active : Append(active, r)[i] = active[i]
  OBVIOUS
<1>5. ToSet(Append(active, r)) = ToSet(active) \cup {r}
  BY <1>4 DEF ToSet
<1>. QED BY <1>1, <1>2, <1>3, <1>5 DEF WithoutRoom

\* An applied Put leaves only Puts that were open before: later ones of the same
\* clerk, and those of other clerks (KvServer::ifRequestDuplicate).
LEMMA AfterPutLeaves ==
    ASSUME NEW late \in Seq(Late), NEW inc \in Nat, NEW upTo \in Nat
    PROVE  /\ AfterPut(late, inc, upTo) \in Seq(Late)
           /\ \A i \in DOMAIN AfterPut(late, inc, upTo) :
                 \E j \in DOMAIN late : /\ AfterPut(late, inc, upTo)[i] = late[j]
                                        /\ j > upTo \/ late[j].inc # inc
<1>. DEFINE kept == {i \in DOMAIN late : i > upTo \/ late[i].inc # inc}
            rest == Kept(late, kept)
<1>1. rest \in Seq(Late) /\ ToSet(rest) = {late[j] : j \in kept}
  BY KeptElements, kept \in SUBSET DOMAIN late
<1>. HIDE DEF rest
<1>2. \A i \in DOMAIN rest : rest[i] \in {late[j] : j \in kept}
  BY <1>1 DEF ToSet
<1>. QED BY <1>1, <1>2 DEF AfterPut, rest

\* A Put added to the open ones.
LEMMA AppendLate ==
    ASSUME NEW late \in Seq(Late), NEW inc \in Nat, NEW env \in Stored
    PROVE  /\ Append(late, LatePut(inc, env)) \in Seq(Late)
           /\ \A i \in DOMAIN Append(late, LatePut(inc, env)) :
                 \/ i \in DOMAIN late /\ Append(late, LatePut(inc, env))[i] = late[i]
                 \/ /\ Append(late, LatePut(inc, env))[i].inc = inc
                    /\ Append(late, LatePut(inc, env))[i].env = env
<1>1. LatePut(inc, env) \in Late /\ LatePut(inc, env).inc = inc /\ LatePut(inc, env).env = env
  BY DEF LatePut, Late
<1>. QED BY <1>1

\* The clerk and the envelope of an open Put.
LEMMA LateTyped ==
    ASSUME NEW late \in Seq(Late), NEW i \in DOMAIN late
    PROVE  late[i].inc \in Nat /\ late[i].env \in Stored
<1>1. late[i] \in Late
  OBVIOUS
<1>. QED BY <1>1 DEF Late
=============================================================================
