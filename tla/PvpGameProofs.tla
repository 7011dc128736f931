---------------------------- MODULE PvpGameProofs ---------------------------
(* Proofs about PvpGame: what was reported committed is never undone, and the  *)
(* index and the next id fit the rooms, for any numbers of users, rooms,       *)
(* threads, Puts of unknown outcome and restarts.                              *)
EXTENDS PvpGame, GameStateProofs

\* The operations of the service.
Op == {"create", "move", "finish"}

\* What an operation holds between two accesses to the store.
Reading == [pc : {"active"}, op : Op, id : RoomId, new : Room]
Writing == [pc : {"replace"}, op : {"move"}, id : RoomId, new : Room]
WritingIndex == [pc : {"replace"}, op : Op, id : RoomId, new : Room, active : Seq(RoomId)]
Putting == [pc : {"put"}, op : Op, id : RoomId, new : Room, env : Stored]
Work == {Idle} \cup Reading \cup Writing \cup WritingIndex \cup Putting

\* All types, and who is inside an operation holds writerMutex_.
ServiceTypes ==
    /\ store \in Stored
    /\ late \in Seq(Late) /\ \A i \in DOMAIN late : late[i].inc <= incarnation
    /\ incarnation \in 0..MaxRestarts /\ crossed \in Nat
    /\ writerMutex \in Thread \cup {Nil}
    /\ svc \in [Thread -> Work]
    /\ \A t \in Thread : svc[t] # Idle => writerMutex = t
    /\ gameRooms \subseteq RoomId
    /\ DOMAIN acked \subseteq RoomId /\ \A r \in DOMAIN acked : acked[r] \in Room

\* Nothing landed inside an operation, and nothing from an earlier incarnation.
Undisturbed == ~overrun /\ crossed = 0

\* Exactly the games that go on are in the index, and the next id is free.
Fits(env) ==
    /\ ToSet(env.active) = {r \in DOMAIN env.room : ~env.room[r].gameOver}
    /\ DOMAIN env.room = 1..(env.next - 1)

\* What an operation has read is still what the store holds, and what it will
\* write fits.
WorkFits(w) ==
    /\ w.pc \in {"active", "replace"} =>
          IF w.op = "create" THEN w.id = store.next /\ ~w.new.gameOver
          ELSE HasRoom(store, w.id)
    /\ w \in Reading /\ w.op # "create" => w.new.gameOver
    /\ w \in Writing => ~store.room[w.id].gameOver /\ ~w.new.gameOver
    /\ w \in WritingIndex =>
          IF w.op = "create" THEN w.active = Append(store.active, w.id)
          ELSE w.active = WithoutRoom(store.active, w.id) /\ w.new.gameOver
    /\ w \in Putting => Fits(w.env) /\ w.id \in DOMAIN w.env.room

\* The store, what may still land and what is being prepared have a fitting index.
FitsInv ==
    Undisturbed =>
        /\ Fits(store)
        /\ \A i \in DOMAIN late : late[i].inc = incarnation => Fits(late[i].env)
        /\ \A t \in Thread : svc[t] # Idle => WorkFits(svc[t])

\* The premise of AckedKept.
Sound == ~overrun /\ (crossed > 0 => incarnation = 0)

\* The envelope carries on all that was reported, and its next id is beyond it.
Keeps(env) ==
    /\ CarriesOn(env.room, acked)
    /\ \A r \in DOMAIN acked : r < env.next

\* What an operation will write continues what was reported of its room.
WorkKeeps(w) ==
    /\ w.op = "create" => \A r \in DOMAIN acked : r < w.id
    /\ w.op # "create" /\ incarnation = 0 => w.id \in DOMAIN acked
    /\ w.id \in DOMAIN acked => Extends(w.new, acked[w.id])
    /\ w \in Putting => /\ Keeps(w.env)
                        /\ w.id \in DOMAIN w.env.room /\ w.env.room[w.id] = w.new
                        /\ w.op = "create" => w.env.next = w.id + 1

\* The store, what may still land and what is being prepared keep what was acknowledged.
KeepsInv ==
    Sound =>
        /\ incarnation = 0 => gameRooms \subseteq DOMAIN acked
        /\ Keeps(store)
        /\ \A i \in DOMAIN late : late[i].inc = incarnation => Keeps(late[i].env)
        /\ \A t \in Thread : svc[t] # Idle => WorkKeeps(svc[t])

\* The inductive invariant.  What landed in whose time and inside which operation
\* decides how much of it holds.
PvpInv == ServiceTypes /\ FitsInv /\ KeepsInv

-----------------------------------------------------------------------------

\* The kinds of work do not overlap.
LEMMA WorkKinds ==
    ASSUME NEW w \in Work
    PROVE  /\ w.pc = "idle" <=> w = Idle
           /\ w.pc = "active" <=> w \in Reading
           /\ w.pc = "replace" <=> w \in Writing \/ w \in WritingIndex
           /\ w \in WritingIndex => "active" \in DOMAIN w
           /\ w \in Writing => "active" \notin DOMAIN w
           /\ w.pc = "put" <=> w \in Putting
           /\ w # Idle => w.id \in RoomId /\ w.new \in Room /\ w.op \in Op
<1>1. CASE w = Idle
  BY <1>1 DEF Idle, Reading, Writing, WritingIndex, Putting
<1>2. CASE w \in Reading
  BY <1>2 DEF Idle, Reading, Writing, WritingIndex, Putting
<1>3. CASE w \in Writing
  BY <1>3 DEF Idle, Reading, Writing, WritingIndex, Putting, Op
<1>4. CASE w \in WritingIndex
  BY <1>4 DEF Idle, Reading, Writing, WritingIndex, Putting
<1>5. CASE w \in Putting
  BY <1>5 DEF Idle, Reading, Writing, WritingIndex, Putting
<1>. QED BY <1>1, <1>2, <1>3, <1>4, <1>5 DEF Work

\* Before the first call.
LEMMA PvpInit == Init => PvpInv
<1>. SUFFICES ASSUME Init PROVE PvpInv
  OBVIOUS
<1>1. /\ store = EmptyEnvelope /\ late = <<>> /\ incarnation = 0 /\ writerMutex = Nil
      /\ gameRooms = {} /\ acked = <<>> /\ crossed = 0 /\ svc = [t \in Thread |-> Idle]
  BY DEF Init
<1>2. DOMAIN acked = {} /\ DOMAIN late = {} /\ late \in Seq(Late)
  BY <1>1
<1>3. svc \in [Thread -> Work] /\ \A t \in Thread : svc[t] = Idle
  BY <1>1 DEF Work
<1>4. store \in Stored /\ DOMAIN store.room = {} /\ store.active = <<>> /\ store.next = 1
  BY <1>1, EmptyStored
<1>5. incarnation \in 0..MaxRestarts
  BY <1>1, PvpAssumption
<1>6. ServiceTypes
  BY <1>1, <1>2, <1>3, <1>4, <1>5 DEF ServiceTypes
<1>7. ToSet(store.active) = {} /\ 1..(store.next - 1) = {}
  BY <1>4 DEF ToSet
<1>8. Fits(store)
  BY <1>4, <1>7 DEF Fits
<1>9. FitsInv
  BY <1>2, <1>3, <1>8 DEF FitsInv
<1>10. KeepsInv
  BY <1>1, <1>2, <1>3 DEF KeepsInv, Keeps, CarriesOn
<1>. QED BY <1>6, <1>9, <1>10 DEF PvpInv

\* A step inside one operation that only reads: the invariant holds after it when
\* it holds of the work that the operation then has.
LEMMA WorkStep ==
    ASSUME PvpInv, NEW t \in Thread, NEW w \in Work, ReadOnly,
           svc' = [svc EXCEPT ![t] = w],
           writerMutex \in {t, Nil}, writerMutex' = (IF w = Idle THEN Nil ELSE t),
           w # Idle /\ Undisturbed => WorkFits(w),
           w # Idle /\ Sound => WorkKeeps(w)
    PROVE  PvpInv'
<1>1. /\ store' = store /\ late' = late /\ incarnation' = incarnation /\ gameRooms' = gameRooms
      /\ acked' = acked /\ crossed' = crossed /\ overrun' = overrun
  BY DEF ReadOnly
<1>2. ServiceTypes /\ FitsInv /\ KeepsInv
  BY DEF PvpInv
<1>3. \A s \in Thread : svc'[s] = (IF s = t THEN w ELSE Idle)
  BY <1>2, PvpAssumption DEF ServiceTypes
<1>4. svc' \in [Thread -> Work]
  BY <1>2 DEF ServiceTypes
<1>5. ServiceTypes'
  BY <1>1, <1>2, <1>3, <1>4 DEF ServiceTypes
<1>6. w # Idle /\ Undisturbed => WorkFits(w)'
  BY <1>1 DEF WorkFits
<1>7. w # Idle /\ Sound => WorkKeeps(w)'
  BY <1>1 DEF WorkKeeps, Keeps, CarriesOn
<1>8. FitsInv'
  BY <1>1, <1>2, <1>3, <1>6 DEF FitsInv, Undisturbed, Fits, WorkFits
<1>9. KeepsInv'
  <2>. SUFFICES ASSUME Sound' PROVE KeepsInv'
    BY DEF KeepsInv
  <2>1. Sound
    BY <1>1 DEF Sound
  <2>2. /\ incarnation = 0 => gameRooms \subseteq DOMAIN acked
        /\ Keeps(store)
        /\ \A i \in DOMAIN late : late[i].inc = incarnation => Keeps(late[i].env)
    BY <1>2, <2>1 DEF KeepsInv
  <2>3. Keeps(store)' /\ \A i \in DOMAIN late : late[i].inc = incarnation => Keeps(late[i].env)'
    BY <1>1, <2>2 DEF Keeps, CarriesOn
  <2>4. \A s \in Thread : svc'[s] # Idle => WorkKeeps(svc[s])'
    BY <1>3, <1>7, <2>1 DEF WorkKeeps, Keeps, CarriesOn
  <2>. QED BY <1>1, <2>2, <2>3, <2>4 DEF KeepsInv
<1>. QED BY <1>5, <1>8, <1>9 DEF PvpInv

\* createRoom enters with the next id, which is beyond all that was reported.
LEMMA CreateBegins ==
    ASSUME PvpInv, NEW t \in Thread, NEW p1 \in User, NEW p2 \in User, createRoom(t, p1, p2)
    PROVE  PvpInv'
<1>. DEFINE w == [pc |-> "active", op |-> "create", id |-> store.next, new |-> NewRoom(p1, p2)]
<1>1. Begin(t, w) /\ store.next <= MaxRooms
  BY DEF createRoom
<1>2. ServiceTypes /\ FitsInv /\ KeepsInv
  BY DEF PvpInv
<1>3. store.next \in RoomId
  BY <1>1, <1>2, StoredType, GameAssumption DEF ServiceTypes, RoomId
<1>4. NewRoom(p1, p2) \in Room /\ ~NewRoom(p1, p2).gameOver
  <2>1. <<>> \in Seq(Cell)
    OBVIOUS
  <2>. QED BY <2>1 DEF NewRoom, Room
<1>5. w \in Reading /\ w \in Work /\ w # Idle /\ w \notin Writing /\ w \notin WritingIndex /\ w \notin Putting
  <2>1. w \in Reading
    BY <1>3, <1>4 DEF Reading, Op
  <2>. QED BY <2>1, WorkKinds DEF Work, Idle
<1>6. WorkFits(w)
  BY <1>4, <1>5 DEF WorkFits
<1>7. Sound => WorkKeeps(w)
  BY <1>2, <1>5, <1>3 DEF KeepsInv, Keeps, WorkKeeps, RoomId
<1>8. svc' = [svc EXCEPT ![t] = w] /\ writerMutex = Nil /\ writerMutex' = t /\ ReadOnly
  BY <1>1 DEF Begin
<1>. HIDE DEF w
<1>. QED BY <1>5, <1>6, <1>7, <1>8, WorkStep

\* move and finish enter with a room that continues the stored one.
LEMMA OldRoomBegins ==
    ASSUME PvpInv, NEW t \in Thread, NEW r \in gameRooms, HasRoom(store, r),
           NEW w \in Reading \cup Writing, w.id = r, w.op # "create",
           Extends(w.new, store.room[r]), Begin(t, w),
           w \in Reading => w.new.gameOver,
           w \in Writing => ~store.room[r].gameOver /\ ~w.new.gameOver
    PROVE  PvpInv'
<1>1. ServiceTypes /\ FitsInv /\ KeepsInv
  BY DEF PvpInv
<1>2. w \in Work /\ w # Idle /\ w \notin WritingIndex /\ w \notin Putting
  BY WorkKinds DEF Work, Idle
<1>3. WorkFits(w)
  BY <1>2 DEF WorkFits
<1>4. Sound => WorkKeeps(w)
  <2>. SUFFICES ASSUME Sound PROVE WorkKeeps(w)
    OBVIOUS
  <2>1. Keeps(store) /\ (incarnation = 0 => r \in DOMAIN acked)
    BY <1>1 DEF KeepsInv
  <2>2. ASSUME r \in DOMAIN acked PROVE Extends(w.new, acked[r])
    <3>1. Extends(store.room[r], acked[r])
      BY <2>1, <2>2 DEF Keeps, CarriesOn
    <3>2. acked[r] \in Room /\ store.room[r] \in Room /\ w.new \in Room
      BY <1>1, <1>2, <2>2, StoredType, WorkKinds DEF ServiceTypes, HasRoom
    <3>. QED BY <3>1, <3>2, ExtendsOn
  <2>. QED BY <1>2, <2>1, <2>2 DEF WorkKeeps
<1>5. svc' = [svc EXCEPT ![t] = w] /\ writerMutex = Nil /\ writerMutex' = t /\ ReadOnly
  BY DEF Begin
<1>. QED BY <1>2, <1>3, <1>4, <1>5, WorkStep

\* The beginning of a move keeps the invariant (PvpGameService::move).
LEMMA MoveBegins ==
    ASSUME PvpInv, NEW t \in Thread, NEW r \in gameRooms, NEW u \in User, NEW c, move(t, r, u, c)
    PROVE  PvpInv'
<1>1. PICK win \in BOOLEAN :
         LET new == makeMove(store.room[r], u, c, win)
         IN  Begin(t, [pc |-> IF new.gameOver THEN "active" ELSE "replace",
                       op |-> "move", id |-> r, new |-> new])
  BY DEF move
<1>. DEFINE new == makeMove(store.room[r], u, c, win)
            w == [pc |-> IF new.gameOver THEN "active" ELSE "replace",
                  op |-> "move", id |-> r, new |-> new]
<1>2. HasRoom(store, r) /\ makeMoveStatus(store.room[r], u, c) = "kOk" /\ Begin(t, w)
  BY <1>1 DEF move
<1>3. store.room[r] \in Room /\ r \in RoomId
  BY <1>2, StoredType DEF PvpInv, ServiceTypes, HasRoom
<1>4. new \in Room /\ Extends(new, store.room[r]) /\ ~store.room[r].gameOver
  BY <1>2, <1>3, MoveContinues
<1>. HIDE DEF new
<1>5. new.gameOver \in BOOLEAN
  BY <1>4 DEF Room
<1>6. w.id = r /\ w.op = "move" /\ w.new = new
  OBVIOUS
<1>7. IF new.gameOver THEN w \in Reading /\ w \notin Writing ELSE w \in Writing /\ w \notin Reading
  BY <1>3, <1>4, <1>5 DEF Reading, Writing, Op
<1>. HIDE DEF w
<1>8. Extends(w.new, store.room[r])
  BY <1>4, <1>6
<1>9. /\ w \in Reading => w.new.gameOver
      /\ w \in Writing => ~store.room[r].gameOver /\ ~w.new.gameOver
      /\ w \in Reading \cup Writing /\ w.op # "create"
  BY <1>4, <1>5, <1>6, <1>7
<1>. QED BY <1>2, <1>6, <1>8, <1>9, OldRoomBegins

\* The beginning of a forfeit or a disconnect keeps the invariant (PvpGameService::finish).
LEMMA FinishBegins ==
    ASSUME PvpInv, NEW t \in Thread, NEW r \in gameRooms, NEW p \in User, finish(t, r, p)
    PROVE  PvpInv'
<1>. DEFINE new == IF store.room[r].gameOver THEN store.room[r] ELSE forfeit(store.room[r], p)
            w == [pc |-> "active", op |-> "finish", id |-> r, new |-> new]
<1>1. HasRoom(store, r) /\ Begin(t, w)
  BY DEF finish
<1>2. store.room[r] \in Room /\ r \in RoomId
  BY <1>1, StoredType DEF PvpInv, ServiceTypes, HasRoom
<1>3. new \in Room /\ Extends(new, store.room[r]) /\ new.gameOver
  BY <1>2, ForfeitContinues, ExtendsItself
<1>. HIDE DEF new
<1>4. w.id = r /\ w.op = "finish" /\ w.new = new /\ w.pc = "active"
  OBVIOUS
<1>5. w \in Reading /\ w \notin Writing
  BY <1>2, <1>3 DEF Reading, Writing, Op
<1>. HIDE DEF w
<1>6. Extends(w.new, store.room[r]) /\ w.new.gameOver /\ w.op # "create" /\ w \in Reading \cup Writing
  BY <1>3, <1>4, <1>5
<1>. QED BY <1>1, <1>4, <1>5, <1>6, OldRoomBegins

\* What the invariant says of a thread that is inside an operation.
LEMMA Inside ==
    ASSUME PvpInv, NEW t \in Thread, svc[t] # Idle
    PROVE  /\ writerMutex = t /\ svc[t] \in Work
           /\ svc[t].id \in RoomId /\ svc[t].new \in Room /\ svc[t].op \in Op
           /\ Undisturbed => WorkFits(svc[t])
           /\ Sound => WorkKeeps(svc[t])
<1>1. svc[t] \in Work /\ writerMutex = t
  BY DEF PvpInv, ServiceTypes
<1>2. /\ Undisturbed => WorkFits(svc[t])
      /\ Sound => WorkKeeps(svc[t])
  BY DEF PvpInv, FitsInv, KeepsInv
<1>. QED BY <1>1, <1>2, WorkKinds

\* A Get that fails: the operation returns.
LEMMA GetUnavailableStep ==
    ASSUME PvpInv, NEW t \in Thread, GetUnavailable(t)
    PROVE  PvpInv'
<1>1. svc[t] # Idle
  BY DEF GetUnavailable, Idle
<1>2. svc' = [svc EXCEPT ![t] = Idle] /\ writerMutex' = Nil /\ ReadOnly
  BY DEF GetUnavailable, Return
<1>3. Idle \in Work
  BY DEF Work
<1>. QED BY <1>1, <1>2, <1>3, Inside, WorkStep

\* The index is read.
LEMMA LoadActiveStep ==
    ASSUME PvpInv, NEW t \in Thread, LoadActive(t)
    PROVE  PvpInv'
<1>. DEFINE v == svc[t]
            active == IF v.op = "create" THEN Append(store.active, v.id)
                      ELSE WithoutRoom(store.active, v.id)
            w == [pc |-> "replace", op |-> v.op, id |-> v.id, new |-> v.new, active |-> active]
<1>1. v.pc = "active" /\ svc' = [svc EXCEPT ![t] = w] /\ writerMutex' = writerMutex /\ ReadOnly
  BY DEF LoadActive, Continue, At
<1>2. v # Idle /\ v \in Reading /\ v \notin Writing /\ v \notin WritingIndex /\ v \notin Putting
  <2>1. v \in Work
    BY DEF PvpInv, ServiceTypes
  <2>2. v # Idle
    BY <1>1 DEF Idle
  <2>3. v \in Reading
    BY <1>1, <2>1, WorkKinds
  <2>. QED BY <2>2, <2>3 DEF Reading, Writing, WritingIndex, Putting
<1>3. /\ writerMutex = t /\ v.id \in RoomId /\ v.new \in Room /\ v.op \in Op
      /\ Undisturbed => WorkFits(v)
      /\ Sound => WorkKeeps(v)
  BY <1>2, Inside
<1>4. active \in Seq(RoomId)
  <2>1. store.active \in Seq(RoomId)
    BY StoredType DEF PvpInv, ServiceTypes
  <2>. QED BY <1>3, <2>1, IndexChanges
<1>5. IF v.op = "create" THEN active = Append(store.active, v.id)
      ELSE active = WithoutRoom(store.active, v.id)
  OBVIOUS
<1>. HIDE DEF v, active
<1>6. w \in WritingIndex /\ w.op = v.op /\ w.id = v.id /\ w.new = v.new /\ w.active = active /\ w.pc = "replace"
  BY <1>3, <1>4 DEF WritingIndex
<1>. HIDE DEF w
<1>7. w \in Work /\ w # Idle /\ w \notin Reading /\ w \notin Writing /\ w \notin Putting
  <2>1. w \in Work
    BY <1>6 DEF Work
  <2>. QED BY <1>6, <2>1, WorkKinds DEF Idle
<1>8. Undisturbed => WorkFits(w)
  BY <1>1, <1>2, <1>3, <1>5, <1>6, <1>7 DEF WorkFits
<1>9. Sound => WorkKeeps(w)
  BY <1>2, <1>3, <1>6, <1>7 DEF WorkKeeps
<1>. QED BY <1>1, <1>3, <1>7, <1>8, <1>9, WorkStep

\* What replace() makes of the envelope it has read.
Replaced(w) ==
    LET env == WithRoom(store, w.id, w.new)
        indexed == IF "active" \in DOMAIN w THEN WithActive(env, w.active) ELSE env
    IN  IF w.op = "create" THEN WithNext(indexed, w.id + 1) ELSE indexed

\* Its records.
LEMMA ReplacedRecords ==
    ASSUME store \in Stored, NEW w \in Writing \cup WritingIndex
    PROVE  /\ Replaced(w) \in Stored
           /\ DOMAIN Replaced(w).room = DOMAIN store.room \cup {w.id}
           /\ Replaced(w).room[w.id] = w.new
           /\ \A x \in DOMAIN store.room : x # w.id => Replaced(w).room[x] = store.room[x]
           /\ Replaced(w).active = (IF w \in WritingIndex THEN w.active ELSE store.active)
           /\ Replaced(w).next = (IF w.op = "create" THEN w.id + 1 ELSE store.next)
<1>. DEFINE env == WithRoom(store, w.id, w.new)
            indexed == IF "active" \in DOMAIN w THEN WithActive(env, w.active) ELSE env
<1>1. /\ w.id \in RoomId /\ w.new \in Room
      /\ "active" \in DOMAIN w <=> w \in WritingIndex
      /\ w \in WritingIndex => w.active \in Seq(RoomId)
  BY WorkKinds DEF Work, WritingIndex, Idle, Writing
<1>2. /\ env \in Stored /\ DOMAIN env.room = DOMAIN store.room \cup {w.id}
      /\ env.room[w.id] = w.new /\ env.active = store.active /\ env.next = store.next
      /\ \A x \in DOMAIN store.room : x # w.id => env.room[x] = store.room[x]
  BY <1>1, WithRoomStored
<1>. HIDE DEF env
<1>3. /\ indexed \in Stored /\ indexed.room = env.room /\ indexed.next = env.next
      /\ indexed.active = (IF w \in WritingIndex THEN w.active ELSE env.active)
  BY <1>1, <1>2, WithActiveStored
<1>. HIDE DEF indexed
<1>4. /\ WithNext(indexed, w.id + 1) \in Stored /\ WithNext(indexed, w.id + 1).room = indexed.room
      /\ WithNext(indexed, w.id + 1).active = indexed.active /\ WithNext(indexed, w.id + 1).next = w.id + 1
  BY <1>1, <1>3, WithNextStored
<1>5. Replaced(w) = IF w.op = "create" THEN WithNext(indexed, w.id + 1) ELSE indexed
  BY DEF Replaced, indexed, env
<1>6. CASE w.op = "create"
  <2>1. Replaced(w) = WithNext(indexed, w.id + 1)
    BY <1>5, <1>6
  <2>. HIDE DEF Replaced
  <2>. QED BY <1>2, <1>3, <1>4, <1>6, <2>1
<1>7. CASE w.op # "create"
  <2>1. Replaced(w) = indexed
    BY <1>5, <1>7
  <2>. QED BY <1>2, <1>3, <1>7, <2>1
<1>. QED BY <1>6, <1>7

\* An operation whose reads still stand writes an envelope that fits.
LEMMA ReplacedFits ==
    ASSUME store \in Stored, Fits(store), NEW w \in Writing \cup WritingIndex, WorkFits(w)
    PROVE  Fits(Replaced(w))
<1>. DEFINE new == Replaced(w)
<1>1. /\ DOMAIN new.room = DOMAIN store.room \cup {w.id} /\ new.room[w.id] = w.new
      /\ \A x \in DOMAIN store.room : x # w.id => new.room[x] = store.room[x]
      /\ new.active = (IF w \in WritingIndex THEN w.active ELSE store.active)
      /\ new.next = (IF w.op = "create" THEN w.id + 1 ELSE store.next)
  BY ReplacedRecords
<1>. HIDE DEF new
<1>2. w.pc = "replace" /\ w.id \in RoomId
  BY DEF Writing, WritingIndex
<1>3. store.next \in Nat /\ store.next >= 1 /\ store.active \in Seq(RoomId)
  BY StoredType
<1>4. CASE w.op = "create"
  <2>1. w \in WritingIndex /\ w.id = store.next /\ ~w.new.gameOver /\ new.active = Append(store.active, w.id)
    BY <1>1, <1>2, <1>4 DEF WorkFits, Writing
  <2>2. ToSet(new.active) = ToSet(store.active) \cup {w.id}
    BY <1>2, <1>3, <2>1, IndexChanges
  <2>3. w.id \notin DOMAIN store.room /\ DOMAIN new.room = 1..(new.next - 1)
    BY <1>1, <1>3, <1>4, <2>1 DEF Fits
  <2>4. ToSet(new.active) = {r \in DOMAIN new.room : ~new.room[r].gameOver}
    BY <1>1, <2>1, <2>2, <2>3 DEF Fits
  <2>. QED BY <2>3, <2>4 DEF Fits, new
<1>5. CASE w.op # "create"
  <2>1. w.id \in DOMAIN store.room
    BY <1>2, <1>5 DEF WorkFits, HasRoom
  <2>2. DOMAIN new.room = 1..(new.next - 1)
    BY <1>1, <1>5, <2>1 DEF Fits
  <2>3. CASE w \in WritingIndex
    <3>1. w.new.gameOver /\ new.active = WithoutRoom(store.active, w.id)
      BY <1>1, <1>5, <2>3 DEF WorkFits
    <3>2. ToSet(new.active) = ToSet(store.active) \ {w.id}
      BY <1>2, <1>3, <3>1, IndexChanges
    <3>3. ToSet(new.active) = {r \in DOMAIN new.room : ~new.room[r].gameOver}
      BY <1>1, <2>1, <3>1, <3>2 DEF Fits
    <3>. QED BY <2>2, <3>3 DEF Fits, new
  <2>4. CASE w \notin WritingIndex
    <3>1. ~w.new.gameOver /\ ~store.room[w.id].gameOver /\ new.active = store.active
      BY <1>1, <2>4 DEF WorkFits
    <3>2. ToSet(new.active) = {r \in DOMAIN new.room : ~new.room[r].gameOver}
      BY <1>1, <2>1, <3>1 DEF Fits
    <3>. QED BY <2>2, <3>2 DEF Fits, new
  <2>. QED BY <2>3, <2>4
<1>. QED BY <1>4, <1>5

\* The envelope an operation writes carries on what was reported.
LEMMA ReplacedKeeps ==
    ASSUME ServiceTypes, Keeps(store), NEW w \in Writing \cup WritingIndex, WorkKeeps(w)
    PROVE  Keeps(Replaced(w))
<1>. DEFINE new == Replaced(w)
<1>0. store \in Stored /\ DOMAIN acked \subseteq Nat
  BY DEF ServiceTypes, RoomId
<1>1. /\ DOMAIN new.room = DOMAIN store.room \cup {w.id} /\ new.room[w.id] = w.new
      /\ \A x \in DOMAIN store.room : x # w.id => new.room[x] = store.room[x]
      /\ new.next = (IF w.op = "create" THEN w.id + 1 ELSE store.next)
  BY <1>0, ReplacedRecords
<1>. HIDE DEF new
<1>2. w.id \in Nat
  BY DEF Writing, WritingIndex, RoomId
<1>3. \A r \in DOMAIN acked : r \in DOMAIN new.room /\ Extends(new.room[r], acked[r])
  BY <1>1 DEF Keeps, CarriesOn, WorkKeeps
<1>4. \A r \in DOMAIN acked : r < new.next
  BY <1>0, <1>1, <1>2 DEF Keeps, WorkKeeps
<1>. QED BY <1>3, <1>4 DEF Keeps, CarriesOn, new

\* The envelope is read again and the records are set in it.
LEMMA ReplaceGetStep ==
    ASSUME PvpInv, NEW t \in Thread, ReplaceGet(t)
    PROVE  PvpInv'
<1>. DEFINE v == svc[t]
            env == Replaced(v)
            w == [pc |-> "put", op |-> v.op, id |-> v.id, new |-> v.new, env |-> env]
<1>1. v.pc = "replace" /\ svc' = [svc EXCEPT ![t] = w] /\ writerMutex' = writerMutex /\ ReadOnly
  BY DEF ReplaceGet, Continue, At, Replaced
<1>2. v # Idle /\ v \in Writing \cup WritingIndex /\ v \notin Putting
  <2>1. v \in Work
    BY DEF PvpInv, ServiceTypes
  <2>2. v # Idle
    BY <1>1 DEF Idle
  <2>3. v \in Writing \cup WritingIndex
    BY <1>1, <2>1, WorkKinds
  <2>. QED BY <2>2, <2>3 DEF Writing, WritingIndex, Putting
<1>3. /\ writerMutex = t /\ v.id \in RoomId /\ v.new \in Room /\ v.op \in Op
      /\ Undisturbed => WorkFits(v)
      /\ Sound => WorkKeeps(v)
  BY <1>2, Inside
<1>4. ServiceTypes /\ store \in Stored /\ (Undisturbed => Fits(store)) /\ (Sound => Keeps(store))
  BY DEF PvpInv, FitsInv, KeepsInv, ServiceTypes
<1>5. /\ env \in Stored /\ v.id \in DOMAIN env.room /\ env.room[v.id] = v.new
      /\ v.op = "create" => env.next = v.id + 1
  BY <1>2, <1>4, ReplacedRecords
<1>6. Undisturbed => Fits(env)
  BY <1>2, <1>3, <1>4, ReplacedFits
<1>7. Sound => Keeps(env)
  BY <1>2, <1>3, <1>4, ReplacedKeeps
<1>. HIDE DEF v, env
<1>8. w \in Putting /\ w.op = v.op /\ w.id = v.id /\ w.new = v.new /\ w.env = env /\ w.pc = "put"
  BY <1>3, <1>5 DEF Putting
<1>. HIDE DEF w
<1>9. w \in Work /\ w # Idle /\ w \notin Reading /\ w \notin Writing /\ w \notin WritingIndex
  <2>1. w \in Work
    BY <1>8 DEF Work
  <2>. QED BY <1>8, <2>1, WorkKinds DEF Idle
<1>10. Undisturbed => WorkFits(w)
  BY <1>5, <1>6, <1>8, <1>9 DEF WorkFits
<1>11. Sound => WorkKeeps(w)
  BY <1>3, <1>5, <1>7, <1>8 DEF WorkKeeps
<1>. QED BY <1>1, <1>3, <1>9, <1>10, <1>11, WorkStep

\* The operation at its Put.
LEMMA AtPut ==
    ASSUME PvpInv, NEW t \in Thread, At(t, "put")
    PROVE  /\ svc[t] \in Putting /\ svc[t] # Idle /\ writerMutex = t
           /\ svc[t].env \in Stored /\ svc[t].id \in RoomId /\ svc[t].new \in Room
           /\ \A s \in Thread : s # t => svc[s] = Idle
           /\ Undisturbed => Fits(svc[t].env) /\ svc[t].id \in DOMAIN svc[t].env.room
           /\ Sound => WorkKeeps(svc[t])
<1>1. svc[t] \in Work /\ svc[t].pc = "put"
  BY DEF PvpInv, ServiceTypes, At
<1>2. svc[t] \in Putting /\ svc[t] # Idle
  BY <1>1, WorkKinds DEF Idle
<1>3. svc[t].env \in Stored
  BY <1>2 DEF Putting
<1>4. writerMutex = t /\ \A s \in Thread : s # t => svc[s] = Idle
  BY <1>2 DEF PvpInv, ServiceTypes
<1>. QED BY <1>2, <1>3, <1>4, Inside DEF WorkFits

\* The Put is answered: it makes all open Puts of this clerk void.
LEMMA PutOkStep ==
    ASSUME PvpInv, NEW t \in Thread, PutOk(t)
    PROVE  PvpInv'
<1>. DEFINE w == svc[t]
<1>1. /\ store' = w.env /\ late' = AfterPut(late, incarnation, Len(late) + 1)
      /\ acked' = Reported(w.id, w.new) /\ gameRooms' = gameRooms \cup {w.id}
      /\ svc' = [svc EXCEPT ![t] = Idle] /\ writerMutex' = Nil
      /\ incarnation' = incarnation /\ crossed' = crossed /\ overrun' = overrun
  BY DEF PutOk, Return
<1>2. /\ w \in Putting /\ w # Idle /\ w.env \in Stored /\ w.id \in RoomId /\ w.new \in Room
      /\ \A s \in Thread : s # t => svc[s] = Idle
      /\ Undisturbed => Fits(w.env) /\ w.id \in DOMAIN w.env.room
      /\ Sound => WorkKeeps(w)
  BY AtPut DEF PutOk
<1>. HIDE DEF w
<1>3. ServiceTypes
  BY DEF PvpInv
<1>4. incarnation \in Nat /\ Len(late) \in Nat /\ late \in Seq(Late)
  BY <1>3, PvpAssumption DEF ServiceTypes
<1>5. /\ late' \in Seq(Late)
      /\ \A i \in DOMAIN late' : \E j \in DOMAIN late : late'[i] = late[j] /\ late[j].inc # incarnation
  <2>1. Len(late) + 1 \in Nat /\ DOMAIN late = 1..Len(late)
    BY <1>4
  <2>2. /\ late' \in Seq(Late)
        /\ \A i \in DOMAIN late' : \E j \in DOMAIN late :
              late'[i] = late[j] /\ (j > Len(late) + 1 \/ late[j].inc # incarnation)
    <3>. DEFINE rest == AfterPut(late, incarnation, Len(late) + 1)
    <3>1. /\ rest \in Seq(Late)
          /\ \A i \in DOMAIN rest : \E j \in DOMAIN late :
                rest[i] = late[j] /\ (j > Len(late) + 1 \/ late[j].inc # incarnation)
      BY <1>4, <2>1, AfterPutLeaves
    <3>. QED BY <1>1, <3>1
  <2>. QED BY <1>4, <2>1, <2>2
<1>6. \A s \in Thread : svc'[s] = Idle
  BY <1>1, <1>2, <1>3 DEF ServiceTypes
<1>7. /\ DOMAIN acked' \subseteq DOMAIN acked \cup {w.id}
      /\ \A r \in DOMAIN acked' : acked'[r] \in Room
      /\ \A r \in DOMAIN acked' : r # w.id => acked'[r] = acked[r]
      /\ \A r \in DOMAIN acked : r \in DOMAIN acked'
      /\ (w.id \in DOMAIN acked => Extends(w.new, acked[w.id])) =>
             w.id \in DOMAIN acked' /\ acked'[w.id] = w.new
  BY <1>1, <1>2, <1>3 DEF Reported, ServiceTypes
<1>8. ServiceTypes'
  <2>1. svc' \in [Thread -> Work]
    BY <1>1, <1>3 DEF ServiceTypes, Work
  <2>2. DOMAIN acked' \subseteq RoomId /\ \A r \in DOMAIN acked' : acked'[r] \in Room
    BY <1>2, <1>3, <1>7 DEF ServiceTypes
  <2>3. \A i \in DOMAIN late' : late'[i].inc <= incarnation
    BY <1>3, <1>5 DEF ServiceTypes
  <2>. QED BY <1>1, <1>2, <1>3, <1>5, <1>6, <2>1, <2>2, <2>3 DEF ServiceTypes
<1>9. FitsInv'
  BY <1>1, <1>2, <1>5, <1>6 DEF FitsInv, Undisturbed, Fits
<1>10. KeepsInv'
  <2>. SUFFICES ASSUME Sound' PROVE KeepsInv'
    BY DEF KeepsInv
  <2>1. Sound
    BY <1>1 DEF Sound
  <2>2. /\ WorkKeeps(w) /\ Keeps(w.env) /\ w.id \in DOMAIN w.env.room /\ w.env.room[w.id] = w.new
        /\ w.op = "create" => w.env.next = w.id + 1
    BY <1>2, <2>1 DEF WorkKeeps
  <2>3. w.id \in DOMAIN acked' /\ acked'[w.id] = w.new
    BY <1>7, <2>2 DEF WorkKeeps
  <2>4. \A r \in DOMAIN acked' : r \in DOMAIN w.env.room /\ Extends(w.env.room[r], acked'[r])
    <3>1. Extends(w.new, w.new)
      BY <1>2, ExtendsItself
    <3>2. ASSUME NEW r \in DOMAIN acked', r # w.id PROVE r \in DOMAIN w.env.room /\ Extends(w.env.room[r], acked'[r])
      BY <1>7, <2>2, <3>2 DEF Keeps, CarriesOn
    <3>. QED BY <2>2, <2>3, <3>1, <3>2
  <2>5. w.id < w.env.next
    <3>0. w.id \in Nat /\ w.env.next \in Nat
      BY <1>2, StoredType DEF RoomId
    <3>1. CASE w.op = "create"
      BY <2>2, <3>0, <3>1
    <3>2. CASE w.op # "create" /\ incarnation = 0
      BY <2>2, <3>2 DEF WorkKeeps, Keeps
    <3>3. CASE incarnation # 0
      <4>1. crossed = 0
        BY <1>3, <2>1, <3>3 DEF Sound, ServiceTypes
      <4>2. DOMAIN w.env.room = 1..(w.env.next - 1)
        BY <1>2, <2>1, <4>1 DEF Undisturbed, Sound, Fits
      <4>. QED BY <2>2, <3>0, <4>2
    <3>. QED BY <3>1, <3>2, <3>3
  <2>6. \A r \in DOMAIN acked' : r < w.env.next
    BY <1>7, <2>2, <2>5 DEF Keeps
  <2>7. Keeps(store)'
    BY <1>1, <2>4, <2>6 DEF Keeps, CarriesOn
  <2>8. incarnation' = 0 => gameRooms' \subseteq DOMAIN acked'
    BY <1>1, <1>7, <2>1, <2>3 DEF PvpInv, KeepsInv
  <2>9. \A i \in DOMAIN late' : late'[i].inc # incarnation'
    BY <1>1, <1>5
  <2>. QED BY <1>6, <2>7, <2>8, <2>9 DEF KeepsInv
<1>. QED BY <1>8, <1>9, <1>10 DEF PvpInv

\* The deadline passes first: the Put joins those of unknown outcome.
LEMMA PutUnavailableStep ==
    ASSUME PvpInv, NEW t \in Thread, PutUnavailable(t)
    PROVE  PvpInv'
<1>. DEFINE w == svc[t]
<1>1. /\ late' = Append(late, LatePut(incarnation, w.env))
      /\ svc' = [svc EXCEPT ![t] = Idle] /\ writerMutex' = Nil
      /\ store' = store /\ incarnation' = incarnation /\ gameRooms' = gameRooms
      /\ acked' = acked /\ crossed' = crossed /\ overrun' = overrun
  BY DEF PutUnavailable, Return
<1>2. /\ w \in Putting /\ w.env \in Stored
      /\ \A s \in Thread : s # t => svc[s] = Idle
      /\ Undisturbed => Fits(w.env)
      /\ Sound => Keeps(w.env)
  BY AtPut DEF PutUnavailable, WorkKeeps
<1>. HIDE DEF w
<1>3. ServiceTypes /\ FitsInv /\ KeepsInv
  BY DEF PvpInv
<1>4. incarnation \in Nat /\ late \in Seq(Late)
  BY <1>3, PvpAssumption DEF ServiceTypes
<1>5. /\ late' \in Seq(Late)
      /\ \A i \in DOMAIN late' : \/ i \in DOMAIN late /\ late'[i] = late[i]
                                 \/ late'[i].inc = incarnation /\ late'[i].env = w.env
  BY <1>1, <1>2, <1>4, AppendLate
<1>6. \A s \in Thread : svc'[s] = Idle
  BY <1>1, <1>2, <1>3 DEF ServiceTypes
<1>7. ServiceTypes'
  <2>1. svc' \in [Thread -> Work]
    BY <1>1, <1>3 DEF ServiceTypes, Work
  <2>2. \A i \in DOMAIN late' : late'[i].inc <= incarnation
    BY <1>3, <1>4, <1>5 DEF ServiceTypes
  <2>. QED BY <1>1, <1>3, <1>5, <1>6, <2>1, <2>2 DEF ServiceTypes
<1>8. FitsInv'
  BY <1>1, <1>2, <1>3, <1>5, <1>6 DEF FitsInv, Undisturbed, Fits
<1>9. KeepsInv'
  <2>. SUFFICES ASSUME Sound' PROVE KeepsInv'
    BY DEF KeepsInv
  <2>1. Sound
    BY <1>1 DEF Sound
  <2>2. \A i \in DOMAIN late' : late'[i].inc = incarnation' => Keeps(late[i].env)'
    BY <1>1, <1>2, <1>3, <1>5, <2>1 DEF KeepsInv, Keeps, CarriesOn
  <2>3. Keeps(store)' /\ (incarnation' = 0 => gameRooms' \subseteq DOMAIN acked')
    BY <1>1, <1>3, <2>1 DEF KeepsInv, Keeps, CarriesOn
  <2>. QED BY <1>6, <2>2, <2>3 DEF KeepsInv
<1>. QED BY <1>7, <1>8, <1>9 DEF PvpInv

\* A Put of unknown outcome lands: if it is of this incarnation and outside an
\* operation, what it brings fits; in any case it carries on what was reported.
LEMMA LandStep ==
    ASSUME PvpInv, NEW i \in Nat, Land(i)
    PROVE  PvpInv'
<1>1. /\ i \in DOMAIN late /\ store' = late[i].env /\ late' = AfterPut(late, late[i].inc, i)
      /\ crossed' = (IF writerMutex = Nil THEN crossed ELSE crossed + 1)
      /\ incarnation' = incarnation /\ writerMutex' = writerMutex /\ svc' = svc
      /\ gameRooms' = gameRooms /\ acked' = acked
  BY DEF Land
<1>0. ~overrun' => ~overrun /\ late[i].inc = incarnation
  BY Zenon DEF Land
<1>2. ServiceTypes /\ FitsInv /\ KeepsInv
  BY DEF PvpInv
<1>3. late[i].env \in Stored /\ late[i].inc \in Nat /\ late \in Seq(Late) /\ crossed \in Nat
  BY <1>1, <1>2, LateTyped DEF ServiceTypes
<1>4. late' \in Seq(Late) /\ \A k \in DOMAIN late' : \E j \in DOMAIN late : late'[k] = late[j]
  <2>. DEFINE rest == AfterPut(late, late[i].inc, i)
  <2>1. /\ rest \in Seq(Late)
        /\ \A k \in DOMAIN rest : \E j \in DOMAIN late :
              rest[k] = late[j] /\ (j > i \/ late[j].inc # late[i].inc)
    BY <1>3, AfterPutLeaves
  <2>. QED BY <1>1, <2>1
<1>5. crossed' \in Nat /\ crossed' >= crossed
  BY <1>1, <1>3
<1>6. ServiceTypes'
  <2>1. \A k \in DOMAIN late' : late'[k].inc <= incarnation'
    BY <1>1, <1>2, <1>4 DEF ServiceTypes
  <2>. QED BY <1>1, <1>2, <1>3, <1>4, <1>5, <2>1 DEF ServiceTypes
<1>7. FitsInv'
  <2>. SUFFICES ASSUME Undisturbed' PROVE FitsInv'
    BY DEF FitsInv
  <2>1. Undisturbed /\ late[i].inc = incarnation /\ writerMutex = Nil
    BY <1>0, <1>1, <1>3 DEF Undisturbed
  <2>2. \A s \in Thread : svc'[s] = Idle
    BY <1>1, <1>2, <2>1, PvpAssumption DEF ServiceTypes
  <2>3. \A j \in DOMAIN late : late[j].inc = incarnation => Fits(late[j].env)
    BY <1>2, <2>1 DEF FitsInv
  <2>4. Fits(store') /\ \A k \in DOMAIN late' : late'[k].inc = incarnation' => Fits(late'[k].env)
    BY <1>1, <1>4, <2>1, <2>3
  <2>. QED BY <2>2, <2>4 DEF FitsInv, Fits
<1>8. KeepsInv'
  <2>. SUFFICES ASSUME Sound' PROVE KeepsInv'
    BY DEF KeepsInv
  <2>1. Sound /\ late[i].inc = incarnation
    BY <1>0, <1>1, <1>3, <1>5 DEF Sound
  <2>2. \A j \in DOMAIN late : late[j].inc = incarnation => Keeps(late[j].env)
    BY <1>2, <2>1 DEF KeepsInv
  <2>3. Keeps(store)'
    BY <1>1, <2>1, <2>2 DEF Keeps, CarriesOn
  <2>4. \A k \in DOMAIN late' : late'[k].inc = incarnation' => Keeps(late[k].env)'
    BY <1>1, <1>4, <2>2 DEF Keeps, CarriesOn
  <2>5. \A s \in Thread : svc[s] # Idle => WorkKeeps(svc[s])'
    BY <1>1, <1>2, <2>1 DEF KeepsInv, WorkKeeps, Keeps, CarriesOn
  <2>6. incarnation' = 0 => gameRooms' \subseteq DOMAIN acked'
    BY <1>1, <1>2, <2>1 DEF KeepsInv
  <2>. QED BY <1>1, <2>3, <2>4, <2>5, <2>6 DEF KeepsInv
<1>. QED BY <1>6, <1>7, <1>8 DEF PvpInv

\* A restart: nothing that is open is of the new incarnation.
LEMMA RestartStep ==
    ASSUME PvpInv, Restart
    PROVE  PvpInv'
<1>1. /\ incarnation < MaxRestarts /\ incarnation' = incarnation + 1 /\ writerMutex' = Nil
      /\ svc' = [t \in Thread |-> Idle]
      /\ gameRooms' \in {recoverActiveRooms(store), {}}
      /\ store' = store /\ acked' = acked /\ crossed' = crossed /\ overrun' = overrun
  BY DEF Restart
<1>2. ServiceTypes /\ FitsInv /\ KeepsInv
  BY DEF PvpInv
<1>3. incarnation \in Nat /\ late \in Seq(Late) /\ MaxRestarts \in Nat
  BY <1>2, PvpAssumption DEF ServiceTypes
<1>4. late' \in Seq(Late) /\ \A i \in DOMAIN late' : late'[i].inc <= incarnation /\ late'[i].inc \in Nat
  <2>0. late \in Seq(Late) /\ \A i \in DOMAIN late : late[i].inc <= incarnation /\ late[i].inc \in Nat
    BY <1>2, LateTyped DEF ServiceTypes
  <2>1. CASE late' = late
    BY <2>0, <2>1
  <2>2. ASSUME NEW t \in Thread, At(t, "put"), late' = Append(late, LatePut(incarnation, svc[t].env))
        PROVE  late' \in Seq(Late) /\ \A i \in DOMAIN late' : late'[i].inc <= incarnation /\ late'[i].inc \in Nat
    <3>1. svc[t].env \in Stored
      BY <2>2, AtPut
    <3>2. /\ late' \in Seq(Late)
          /\ \A i \in DOMAIN late' : \/ i \in DOMAIN late /\ late'[i] = late[i]
                                     \/ late'[i].inc = incarnation
      BY <1>3, <2>2, <3>1, AppendLate
    <3>. QED BY <1>3, <2>0, <3>2
  <2>. QED BY <2>1, <2>2 DEF Restart
<1>5. \A s \in Thread : svc'[s] = Idle
  BY <1>1
<1>6. \A i \in DOMAIN late' : late'[i].inc # incarnation'
  BY <1>1, <1>3, <1>4
<1>7. gameRooms' \subseteq RoomId
  <2>1. recoverActiveRooms(store) \subseteq DOMAIN store.room
    BY DEF recoverActiveRooms, HasRoom
  <2>2. DOMAIN store.room \subseteq RoomId
    BY <1>2, StoredType DEF ServiceTypes
  <2>. QED BY <1>1, <2>1, <2>2
<1>8. ServiceTypes'
  <2>1. svc' \in [Thread -> Work]
    BY <1>1 DEF Work
  <2>2. incarnation' \in 0..MaxRestarts /\ \A i \in DOMAIN late' : late'[i].inc <= incarnation'
    BY <1>1, <1>3, <1>4
  <2>. QED BY <1>1, <1>2, <1>4, <1>5, <1>7, <2>1, <2>2 DEF ServiceTypes
<1>9. FitsInv'
  BY <1>1, <1>2, <1>5, <1>6 DEF FitsInv, Undisturbed, Fits
<1>10. KeepsInv'
  <2>. SUFFICES ASSUME Sound' PROVE KeepsInv'
    BY DEF KeepsInv
  <2>1. Sound /\ incarnation' # 0
    BY <1>1, <1>3 DEF Sound
  <2>2. Keeps(store)'
    BY <1>1, <1>2, <2>1 DEF KeepsInv, Keeps, CarriesOn
  <2>. QED BY <1>5, <1>6, <2>1, <2>2 DEF KeepsInv
<1>. QED BY <1>8, <1>9, <1>10 DEF PvpInv

\* Every step of the service keeps the invariant.
LEMMA PvpNext ==
    ASSUME PvpInv, [Next]_vars
    PROVE  PvpInv'
<1>1. ASSUME NEW t \in Thread, Call(t) PROVE PvpInv'
  <2>1. ASSUME NEW p1 \in User, NEW p2 \in User, createRoom(t, p1, p2) PROVE PvpInv'
    BY <2>1, CreateBegins
  <2>2. ASSUME NEW r \in gameRooms, NEW u \in User, NEW c \in Cell \cup {OffBoard}, move(t, r, u, c) PROVE PvpInv'
    BY <2>2, MoveBegins
  <2>3. ASSUME NEW r \in gameRooms \cap DOMAIN store.room,
               NEW w \in {store.room[r].player1, store.room[r].player2}, finish(t, r, w)
        PROVE  PvpInv'
    <3>1. store.room[r] \in Room
      BY <2>3, StoredType DEF PvpInv, ServiceTypes
    <3>2. w \in User
      BY <2>3, <3>1 DEF Room
    <3>. QED BY <2>3, <3>2, FinishBegins
  <2>. QED BY <1>1, <2>1, <2>2, <2>3 DEF Call
<1>2. ASSUME NEW t \in Thread, Step(t) PROVE PvpInv'
  BY <1>2, GetUnavailableStep, LoadActiveStep, ReplaceGetStep, PutOkStep, PutUnavailableStep DEF Step
<1>3. ASSUME NEW i \in 1..MaxUnknown, Land(i) PROVE PvpInv'
  BY <1>3, LandStep, GameAssumption
<1>4. CASE Restart
  BY <1>4, RestartStep
<1>5. CASE UNCHANGED vars
  <2>1. ServiceTypes'
    BY <1>5 DEF PvpInv, ServiceTypes, vars
  <2>2. FitsInv'
    BY <1>5 DEF PvpInv, FitsInv, Undisturbed, Fits, WorkFits, vars
  <2>3. KeepsInv'
    BY <1>5 DEF PvpInv, KeepsInv, Sound, WorkKeeps, Keeps, CarriesOn, vars
  <2>. QED BY <2>1, <2>2, <2>3 DEF PvpInv
<1>. QED BY <1>1, <1>2, <1>3, <1>4, <1>5 DEF Next

\* The invariant holds in every reachable state.
LEMMA PvpInvariant == Spec => []PvpInv
  BY PvpInit, PvpNext, PTL DEF Spec

\* What the service reported as committed is never undone, whatever Puts of
\* unknown outcome land when: PvpGameService holds writerMutex_ from its first Get
\* to its Put, and an answered Put makes all earlier ones of its clerk void.
THEOREM AckedKeptCorrect == Spec => []AckedKept
<1>1. PvpInv => AckedKept
  BY DEF PvpInv, KeepsInv, Sound, Keeps, CarriesOn, AckedKept, HasRoom
<1>. QED BY <1>1, PvpInvariant, PTL

\* The index holds exactly the games that go on and the next id is free, as long
\* as no Put landed inside an operation: replace() writes all records in one Put.
THEOREM IndexFitsCorrect == Spec => []IndexFits
<1>1. PvpInv => IndexFits
  <2>. SUFFICES ASSUME PvpInv PROVE IndexFits
    OBVIOUS
  <2>1. /\ store \in Stored /\ incarnation \in 0..MaxRestarts /\ writerMutex \in Thread \cup {Nil}
        /\ svc \in [Thread -> Work]
    BY DEF PvpInv, ServiceTypes
  <2>2. /\ DOMAIN store.room \subseteq RoomId /\ \A r \in DOMAIN store.room : store.room[r] \in Room
    BY <2>1, StoredType
  <2>3. store \in [room : {store.room}, active : Seq(RoomId), next : 1..(MaxRooms + 1)]
    BY <2>1 DEF Stored, Envelope
  <2>4. \A t \in Thread : svc[t].pc \in {"idle", "active", "replace", "put"}
    BY <2>1 DEF Work, Idle, Reading, Writing, WritingIndex, Putting
  <2>5. TypeOK
    BY <2>1, <2>2, <2>3, <2>4 DEF TypeOK
  <2>. QED BY <2>5 DEF PvpInv, FitsInv, Undisturbed, Fits, IndexFits
<1>. QED BY <1>1, PvpInvariant, PTL
=============================================================================
