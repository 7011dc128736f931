------------------------------ MODULE PvpGame -------------------------------
(* PvpGameService over RaftGameStateStore: threads of the application call the *)
(* service, which takes writerMutex_ for a whole operation; each operation is  *)
(* a few Gets of the envelope and one Put, and between any two of them a Put   *)
(* that was reported unavailable earlier may land.  The application may be     *)
(* killed and started again between any two steps.                             *)
EXTENDS GameState

CONSTANTS
    Thread,       \* threads that call the service
    Nil,          \* nobody holds the mutex
    MaxRestarts,  \* bound: restarts of the application
    MaxCrossed    \* bound: late Puts that land inside an operation

ASSUME PvpAssumption == Nil \notin Thread /\ MaxRestarts \in Nat /\ MaxCrossed \in Nat

VARIABLES
    store,        \* the committed envelope
    late,         \* Puts reported unavailable that may still be applied
    incarnation,  \* how often the application was restarted
    writerMutex,  \* the thread inside the service
    svc,          \* what each thread's operation has read so far
    gameRooms,    \* ids of the rooms the application knows
    acked,        \* history: per room the furthest snapshot returned with kOk
    crossed,      \* history: late Puts that landed inside an operation
    overrun       \* history: a Put of an earlier incarnation landed

vars == <<store, late, incarnation, writerMutex, svc, gameRooms, acked, crossed, overrun>>

\* The local variables of an operation: pc names its next access to the store,
\* new the room it will write, active the index it will write, if it does.
Idle == [pc |-> "idle"]

Init ==
    /\ store = EmptyEnvelope /\ late = <<>> /\ incarnation = 0
    /\ writerMutex = Nil /\ svc = [t \in Thread |-> Idle]
    /\ gameRooms = {} /\ acked = <<>> /\ crossed = 0 /\ overrun = FALSE

-----------------------------------------------------------------------------

At(t, pc) == svc[t].pc = pc

Continue(t, work) == svc' = [svc EXCEPT ![t] = work] /\ UNCHANGED writerMutex

\* The operation returns; the lock_guard goes out of scope.
Return(t) == svc' = [svc EXCEPT ![t] = Idle] /\ writerMutex' = Nil

ReadOnly == UNCHANGED <<store, late, incarnation, gameRooms, acked, crossed, overrun>>

\* The snapshot is returned with kOk.  One that does not continue what was
\* reported before leaves the history as it is, and AckedKept false.
Reported(r, room) ==
    IF r \in DOMAIN acked /\ ~Extends(room, acked[r]) THEN acked
    ELSE [x \in DOMAIN acked \cup {r} |-> IF x = r THEN room ELSE acked[x]]

\* Mutant of Begin: the service is entered without the lock.
BeginUnlocked(t, work) ==
    /\ svc[t] = Idle
    /\ writerMutex' = t
    /\ svc' = [svc EXCEPT ![t] = work]
    /\ ReadOnly

\* lock_guard lock(writerMutex_) at the head of an operation, and its first Get.
\* When that fails, or finds that there is nothing to write, the operation returns
\* and no state has changed: load() as a whole, and a move on a room that is not
\* there, out of turn, or illegal.
Begin(t, work) ==
    /\ svc[t] = Idle
    /\ writerMutex = Nil
    /\ writerMutex' = t
    /\ svc' = [svc EXCEPT ![t] = work]
    /\ ReadOnly

\* load(nextRoomIdKey()) names the room.
createRoom(t, p1, p2) ==
    /\ store.next <= MaxRooms
    /\ Begin(t, [pc |-> "active", op |-> "create", id |-> store.next,
                 new |-> NewRoom(p1, p2)])

\* loadLocked() reads the room and the move is made on a copy.
move(t, r, u, c) ==
    /\ HasRoom(store, r)
    /\ makeMoveStatus(store.room[r], u, c) = "kOk"
    /\ \E win \in BOOLEAN :
          LET new == makeMove(store.room[r], u, c, win)
          IN  Begin(t, [pc |-> IF new.gameOver THEN "active" ELSE "replace",
                        op |-> "move", id |-> r, new |-> new])

\* loadLocked() reads the room; a game that is over keeps its result.
finish(t, r, w) ==
    /\ HasRoom(store, r)
    /\ Begin(t, [pc |-> "active", op |-> "finish", id |-> r,
                 new |-> IF store.room[r].gameOver THEN store.room[r]
                         ELSE forfeit(store.room[r], w)])

\* A later client_->get fails or times out: kUnavailable, nothing was written.
GetUnavailable(t) ==
    /\ svc[t].pc \in {"active", "replace"}
    /\ Return(t) /\ ReadOnly

\* Mutant of LoadActive: a new room replaces the index instead of joining it.
LoadActiveReplaced(t) ==
    /\ At(t, "active")
    /\ Continue(t, [pc |-> "replace", op |-> svc[t].op, id |-> svc[t].id, new |-> svc[t].new,
                    active |-> IF svc[t].op = "create" THEN <<svc[t].id>>
                               ELSE WithoutRoom(store.active, svc[t].id)])
    /\ ReadOnly

\* load(activeRoomIdsKey()): the index that the operation will write.
LoadActive(t) ==
    /\ At(t, "active")
    /\ Continue(t, [pc |-> "replace", op |-> svc[t].op, id |-> svc[t].id, new |-> svc[t].new,
                    active |-> IF svc[t].op = "create" THEN Append(store.active, svc[t].id)
                               ELSE WithoutRoom(store.active, svc[t].id)])
    /\ ReadOnly

\* replace(), first half: get the envelope again and set the records in it.
ReplaceGet(t) ==
    /\ At(t, "replace")
    /\ LET w == svc[t]
           env == WithRoom(store, w.id, w.new)
           indexed == IF "active" \in DOMAIN w THEN WithActive(env, w.active) ELSE env
       IN  Continue(t, [pc |-> "put", op |-> w.op, id |-> w.id, new |-> w.new,
                        env |-> IF w.op = "create" THEN WithNext(indexed, w.id + 1)
                                ELSE indexed])
    /\ ReadOnly

\* replace(), second half: the Put is applied and answered; the caller keeps the
\* room that it gets back.
PutOk(t) ==
    /\ At(t, "put")
    /\ store' = svc[t].env
    /\ late' = AfterPut(late, incarnation, Len(late) + 1)
    /\ acked' = Reported(svc[t].id, svc[t].new)
    /\ gameRooms' = gameRooms \cup {svc[t].id}
    /\ Return(t)
    /\ UNCHANGED <<incarnation, crossed, overrun>>

\* ... or the deadline passes first; the Put may be applied later, or never.
PutUnavailable(t) ==
    /\ At(t, "put")
    /\ Len(late) < MaxUnknown
    /\ late' = Append(late, LatePut(incarnation, svc[t].env))
    /\ Return(t)
    /\ UNCHANGED <<store, incarnation, gameRooms, acked, crossed, overrun>>

\* A Put of unknown outcome is applied now.
Land(i) ==
    /\ i \in DOMAIN late
    /\ writerMutex # Nil => crossed < MaxCrossed
    /\ store' = late[i].env
    /\ late' = AfterPut(late, late[i].inc, i)
    /\ crossed' = IF writerMutex = Nil THEN crossed ELSE crossed + 1
    /\ overrun' = (overrun \/ late[i].inc # incarnation)
    /\ UNCHANGED <<incarnation, writerMutex, svc, gameRooms, acked>>

\* The application is killed and started again.  A Put that a thread was waiting
\* for may have been sent.
Restart ==
    /\ incarnation < MaxRestarts
    /\ incarnation' = incarnation + 1
    /\ writerMutex' = Nil
    /\ svc' = [t \in Thread |-> Idle]
    /\ \/ UNCHANGED late
       \/ \E t \in Thread :
             /\ At(t, "put") /\ Len(late) < MaxUnknown
             /\ late' = Append(late, LatePut(incarnation, svc[t].env))
    /\ gameRooms' \in {recoverActiveRooms(store), {}}  \* {}: the store did not answer
    /\ UNCHANGED <<store, acked, crossed, overrun>>

\* The application asks only for rooms that it has.
Call(t) ==
    \/ \E p1, p2 \in User : p1 # p2 /\ createRoom(t, p1, p2)
    \/ \E r \in gameRooms, u \in User, c \in Cell \cup {OffBoard} : move(t, r, u, c)
    \/ \E r \in gameRooms \cap DOMAIN store.room :
          \E w \in {store.room[r].player1, store.room[r].player2} : finish(t, r, w)

Step(t) ==
    \/ GetUnavailable(t) \/ LoadActive(t) \/ ReplaceGet(t) \/ PutOk(t) \/ PutUnavailable(t)

Next ==
    \/ \E t \in Thread : Call(t) \/ Step(t)
    \/ \E i \in 1..MaxUnknown : Land(i)
    \/ Restart

Spec == Init /\ [][Next]_vars

-----------------------------------------------------------------------------
\* The envelope and the operations of PvpGameService have their types: a stored
\* board has stones on its cells only, whoever asked for which coordinates.
TypeOK ==
    /\ store \in [room : {store.room}, active : Seq(RoomId), next : 1..(MaxRooms + 1)]
    /\ DOMAIN store.room \subseteq RoomId
    /\ \A r \in DOMAIN store.room : store.room[r] \in Room
    /\ incarnation \in 0..MaxRestarts
    /\ writerMutex \in Thread \cup {Nil}
    /\ \A t \in Thread : svc[t].pc \in {"idle", "active", "replace", "put"}

\* A move, a new room or a result that was reported as committed is never undone:
\* the stored room is always one that the reported game can lead to, and a result
\* stays as it was, whatever Puts of unknown outcome land when (README "one move is
\* broadcast only after a majority committed it"; PvpGameService.cpp:68, 79, 110).
\* Not so once a Put of an application that was killed lands in its successor's
\* time: the new clerk's requests do not make the old clerk's void.  Nor if a Put
\* landed inside an operation and the application was restarted after that: the
\* next id may then be that of a game which only the restart brought back.
AckedKept ==
    ~overrun /\ (crossed > 0 => incarnation = 0) => \A r \in DOMAIN acked :
        HasRoom(store, r) /\ Extends(store.room[r], acked[r])

\* The index and the next id always fit the rooms: exactly the games that go on
\* are in the index, and the next id is free, so that a restart recovers every
\* game and no id is given twice (replace() writes all records in one Put,
\* RaftGameStateStore.cpp:72-76).  Not so once a Put of unknown outcome has landed
\* between the reads and the write of an operation: the index written back then
\* lacks its game.
IndexFits ==
    /\ TypeOK
    /\ ~overrun /\ crossed = 0 =>
          /\ ToSet(store.active) = {r \in DOMAIN store.room : ~store.room[r].gameOver}
          /\ DOMAIN store.room = 1..(store.next - 1)
=============================================================================
