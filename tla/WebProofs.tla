----------------------------- MODULE WebProofs ------------------------------
(* The web server: accounts and the pool of database connections, for every    *)
(* number of users, browsers, sessions, threads and connections; the game      *)
(* against the computer, for every board; and a connection, for everything a   *)
(* client may send and however it is cut on its way.                           *)
EXTENDS Accounts, DbPool, AiGame, Http, FiniteSetTheorems, SequenceTheorems, WellFoundedInduction, TLAPS

-----------------------------------------------------------------------------
(* Accounts. *)

\* A session as SessionManager keeps it.
SessionType == [user : User \cup {NoUser}, isLoggedIn : BOOLEAN, expired : BOOLEAN]

\* A request that comes with session i is served as its user.
Live(i) == sessions[i].isLoggedIn /\ ~sessions[i].expired

\* Ids in use were generated before, so the next one is new.
IdsUsed ==
    /\ DOMAIN sessions \subseteq 1..(nextId - 1)
    /\ \A b \in Browser : cookie[b] < nextId

\* A session has a user exactly when it is logged in.
UserWhenLoggedIn == \A i \in DOMAIN sessions : sessions[i].isLoggedIn <=> sessions[i].user # NoUser

\* Two live sessions of one user are the same, and their user is online.
LiveOnce ==
    /\ \A i, j \in DOMAIN sessions : Live(i) /\ Live(j) /\ sessions[i].user = sessions[j].user => i = j
    /\ \A i \in DOMAIN sessions : Live(i) => sessions[i].user \in onlineUsers

\* The inductive invariant behind OneSessionPerUser.
AccInv == AccTypeOK /\ IdsUsed /\ UserWhenLoggedIn /\ LiveOnce

\* The session a request gets: the stored one of its cookie, or a new one without
\* a user.
LEMMA SessionFound ==
    ASSUME AccInv, NEW b \in Browser
    PROVE  /\ SessionOf(b) \in SessionType
           /\ SessionOf(b).isLoggedIn <=> SessionOf(b).user # NoUser
           /\ ~SessionOf(b).expired
           /\ load(b) => /\ SessionId(b) \in DOMAIN sessions
                         /\ SessionOf(b) = sessions[SessionId(b)]
           /\ ~load(b) => SessionId(b) = nextId /\ SessionOf(b).user = NoUser
BY AccountsAssumption
   DEF AccInv, AccTypeOK, IdsUsed, UserWhenLoggedIn, SessionType, SessionOf, SessionId, load, NewSession

\* getSession stores s under the session's id and leaves the others, except an
\* expired one, which it may erase.
LEMMA SessionStored ==
    ASSUME AccInv, NEW b \in Browser, NEW s \in SessionType, getSession(b, s)
    PROVE  /\ SessionId(b) \in 1..MaxSessions /\ SessionId(b) \in 1..(nextId' - 1)
           /\ SessionId(b) \in DOMAIN sessions'
           /\ sessions'[SessionId(b)] = [s EXCEPT !.expired = FALSE]
           /\ \A i \in DOMAIN sessions' \ {SessionId(b)} :
                 i \in DOMAIN sessions /\ sessions'[i] = sessions[i]
           /\ sessions' \in [DOMAIN sessions' -> SessionType]
           /\ DOMAIN sessions' \subseteq 1..MaxSessions
           /\ IdsUsed'
           /\ nextId' \in 1..(MaxSessions + 1)
           /\ cookie' \in [Browser -> 0..MaxSessions]
<1> DEFINE D == (DOMAIN sessions \ (IF load(b) THEN {} ELSE {cookie[b]})) \cup {SessionId(b)}
<1>1. /\ nextId \in 1..(MaxSessions + 1) /\ MaxSessions \in Nat
      /\ DOMAIN sessions \subseteq 1..MaxSessions /\ DOMAIN sessions \subseteq 1..(nextId - 1)
      /\ sessions \in [DOMAIN sessions -> SessionType]
      /\ cookie \in [Browser -> 0..MaxSessions]
      /\ \A a \in Browser : cookie[a] < nextId
  BY AccountsAssumption DEF AccInv, AccTypeOK, IdsUsed, SessionType
<1>2. /\ SessionId(b) \in 1..MaxSessions /\ SessionId(b) \in 1..(nextId' - 1)
      /\ nextId' \in 1..(MaxSessions + 1) /\ nextId' >= nextId
  BY <1>1 DEF getSession, SessionId, load
<1>3. /\ DOMAIN sessions' = D
      /\ \A i \in D : sessions'[i] = IF i = SessionId(b) THEN [s EXCEPT !.expired = FALSE] ELSE sessions[i]
      /\ sessions' = [i \in D |-> sessions'[i]]
  BY DEF getSession
<1>4. \A i \in D \ {SessionId(b)} : i \in DOMAIN sessions /\ sessions'[i] = sessions[i]
  BY <1>3
<1>5. sessions'[SessionId(b)] = [s EXCEPT !.expired = FALSE] /\ [s EXCEPT !.expired = FALSE] \in SessionType
  BY <1>3 DEF SessionType
<1>6. \A i \in D : sessions'[i] \in SessionType
  BY <1>1, <1>3, <1>4, <1>5
<1>7. D \subseteq 1..MaxSessions /\ D \subseteq 1..(nextId' - 1)
  BY <1>1, <1>2
<1>8. cookie' \in [Browser -> 0..MaxSessions] /\ \A a \in Browser : cookie'[a] < nextId'
  BY <1>1, <1>2 DEF getSession
<1> QED BY <1>2, <1>3, <1>4, <1>5, <1>6, <1>7, <1>8 DEF IdsUsed

\* A request that leaves the user of its session as it is keeps the invariant.
LEMMA VisitKeeps ==
    ASSUME AccInv, NEW b \in Browser, getSession(b, SessionOf(b)),
           UNCHANGED <<users, onlineUsers>>, aiGames' \subseteq User
    PROVE  AccInv'
<1> DEFINE id == SessionId(b)
<1>1. SessionOf(b) \in SessionType
  BY SessionFound
<1>2. /\ id \in DOMAIN sessions' /\ sessions'[id] = [SessionOf(b) EXCEPT !.expired = FALSE]
      /\ \A i \in DOMAIN sessions' \ {id} : i \in DOMAIN sessions /\ sessions'[i] = sessions[i]
      /\ sessions' \in [DOMAIN sessions' -> SessionType] /\ DOMAIN sessions' \subseteq 1..MaxSessions
      /\ IdsUsed' /\ nextId' \in 1..(MaxSessions + 1) /\ cookie' \in [Browser -> 0..MaxSessions]
  BY <1>1, SessionStored
<1>3. AccTypeOK'
  BY <1>2 DEF AccInv, AccTypeOK, SessionType
<1>4. /\ sessions'[id].isLoggedIn = SessionOf(b).isLoggedIn /\ sessions'[id].user = SessionOf(b).user
      /\ SessionOf(b).isLoggedIn <=> SessionOf(b).user # NoUser
  BY <1>1, <1>2, SessionFound DEF SessionType
<1>5. UserWhenLoggedIn'
  BY <1>2, <1>4 DEF AccInv, UserWhenLoggedIn
<1>6. ASSUME NEW i \in DOMAIN sessions', Live(i)'
      PROVE  i \in DOMAIN sessions /\ Live(i) /\ sessions'[i].user = sessions[i].user
  BY <1>2, <1>4, <1>6, SessionFound DEF Live
<1>7. LiveOnce'
  BY <1>6 DEF AccInv, LiveOnce
<1> QED BY <1>2, <1>3, <1>5, <1>7 DEF AccInv

\* A login binds the session to a user who is online nowhere else.
LEMMA LoginKeeps ==
    ASSUME AccInv, NEW b \in Browser, NEW u \in User, Login(b, u)
    PROVE  AccInv'
<1> DEFINE id == SessionId(b)
           s == [SessionOf(b) EXCEPT !.user = u, !.isLoggedIn = TRUE]
<1>1. SessionOf(b) \in SessionType /\ ~SessionOf(b).expired
  BY SessionFound
<1>2. s \in SessionType /\ s.user = u /\ s.isLoggedIn /\ ~s.expired
  BY <1>1 DEF SessionType
<1>3. getSession(b, s) /\ u \notin onlineUsers /\ onlineUsers' = onlineUsers \cup {u} /\ UNCHANGED <<users, aiGames>>
  BY DEF Login, MayLogin
<1> HIDE DEF s
<1>4. /\ id \in DOMAIN sessions' /\ sessions'[id] = [s EXCEPT !.expired = FALSE]
      /\ \A i \in DOMAIN sessions' \ {id} : i \in DOMAIN sessions /\ sessions'[i] = sessions[i]
      /\ sessions' \in [DOMAIN sessions' -> SessionType] /\ DOMAIN sessions' \subseteq 1..MaxSessions
      /\ IdsUsed' /\ nextId' \in 1..(MaxSessions + 1) /\ cookie' \in [Browser -> 0..MaxSessions]
  BY <1>2, <1>3, SessionStored
<1>5. AccTypeOK'
  BY <1>3, <1>4 DEF AccInv, AccTypeOK, SessionType
<1>6. sessions'[id].isLoggedIn /\ sessions'[id].user = u
  BY <1>2, <1>4 DEF SessionType
<1>7. UserWhenLoggedIn'
  BY <1>4, <1>6, AccountsAssumption DEF AccInv, UserWhenLoggedIn
<1>8. ASSUME NEW i \in DOMAIN sessions', Live(i)', i # id
      PROVE  /\ i \in DOMAIN sessions /\ Live(i) /\ sessions'[i].user = sessions[i].user
             /\ sessions[i].user \in onlineUsers /\ sessions[i].user # u
  BY <1>3, <1>4, <1>8 DEF Live, AccInv, LiveOnce
<1>9. LiveOnce'
  <2>1. ASSUME NEW i \in DOMAIN sessions', NEW j \in DOMAIN sessions', Live(i)', Live(j)',
               sessions'[i].user = sessions'[j].user
        PROVE  i = j
    BY <1>6, <1>8, <2>1 DEF AccInv, LiveOnce
  <2>2. ASSUME NEW i \in DOMAIN sessions', Live(i)' PROVE sessions'[i].user \in onlineUsers'
    BY <1>3, <1>6, <1>8, <2>2
  <2> QED BY <2>1, <2>2 DEF LiveOnce
<1> QED BY <1>4, <1>5, <1>7, <1>9 DEF AccInv

\* A logout takes the user off the list only together with the one live session.
LEMMA LogoutKeeps ==
    ASSUME AccInv, NEW b \in Browser, NEW body, Logout(b, body)
    PROVE  AccInv'
<1> DEFINE id == cookie[b]
           u == sessions[id].user
<1>1. id \in DOMAIN sessions /\ ~sessions[id].expired /\ u # NoUser /\ SessionOf(b) = sessions[id]
  BY DEF Logout, load, SessionOf
<1>2. Live(id)
  BY <1>1 DEF AccInv, UserWhenLoggedIn, Live
<1>3. /\ DOMAIN sessions' = DOMAIN sessions \ {id}
      /\ \A i \in DOMAIN sessions' : sessions'[i] = sessions[i]
      /\ sessions' = [i \in DOMAIN sessions' |-> sessions'[i]]
      /\ onlineUsers' \in {onlineUsers, onlineUsers \ {u}}
      /\ aiGames' \subseteq aiGames /\ UNCHANGED <<users, nextId, cookie>>
  BY <1>1 DEF Logout, Destroyed, Without
<1>4. AccTypeOK'
  BY <1>3 DEF AccInv, AccTypeOK
<1>5. IdsUsed' /\ UserWhenLoggedIn'
  BY <1>3 DEF AccInv, IdsUsed, UserWhenLoggedIn
<1>6. \A i \in DOMAIN sessions' : Live(i)' => Live(i)
  BY <1>3 DEF Live
<1>7. LiveOnce'
  <2>1. ASSUME NEW i \in DOMAIN sessions', Live(i)' PROVE sessions[i].user # u
    BY <1>1, <1>2, <1>3, <1>6, <2>1 DEF AccInv, LiveOnce
  <2> QED BY <1>3, <1>6, <2>1 DEF AccInv, LiveOnce
<1> QED BY <1>4, <1>5, <1>7 DEF AccInv

\* Every handler, expiry and a restart keep the invariant.
LEMMA AccInvStep == AccInv /\ [AccNext]_accVars => AccInv'
<1> SUFFICES ASSUME AccInv, [AccNext]_accVars PROVE AccInv'
  OBVIOUS
<1>1. CASE UNCHANGED accVars
  BY <1>1 DEF accVars, AccInv, AccTypeOK, IdsUsed, UserWhenLoggedIn, LiveOnce, Live
<1>2. ASSUME NEW u \in User, Register(u) PROVE AccInv'
  BY <1>2 DEF Register, AccInv, AccTypeOK, IdsUsed, UserWhenLoggedIn, LiveOnce, Live
<1>3. ASSUME NEW b \in Browser, ForgetCookie(b) PROVE AccInv'
  BY <1>3, AccountsAssumption DEF ForgetCookie, AccInv, AccTypeOK, IdsUsed, UserWhenLoggedIn, LiveOnce, Live
<1>4. ASSUME NEW b \in Browser, Visit(b) PROVE AccInv'
  BY <1>4, VisitKeeps DEF Visit, AccInv, AccTypeOK
<1>5. ASSUME NEW b \in Browser, NEW ends \in BOOLEAN, PlayAi(b, ends) PROVE AccInv'
  <2>1. SessionOf(b) \in SessionType /\ SessionOf(b).user \in User
    BY <1>5, SessionFound DEF PlayAi, SessionType
  <2>2. aiGames' \subseteq User
    BY <1>5, <2>1 DEF PlayAi, AccInv, AccTypeOK
  <2> QED BY <1>5, <2>2, VisitKeeps DEF PlayAi
<1>6. ASSUME NEW id \in 1..MaxSessions, Expire(id) PROVE AccInv'
  <2>1. /\ DOMAIN sessions' = DOMAIN sessions /\ UNCHANGED <<users, nextId, cookie, onlineUsers, aiGames>>
        /\ sessions' \in [DOMAIN sessions -> SessionType]
        /\ \A i \in DOMAIN sessions : /\ sessions'[i].user = sessions[i].user
                                      /\ sessions'[i].isLoggedIn = sessions[i].isLoggedIn
                                      /\ Live(i)' => Live(i)
    BY <1>6 DEF Expire, AccInv, AccTypeOK, SessionType, Live
  <2> QED BY <2>1 DEF AccInv, AccTypeOK, SessionType, IdsUsed, UserWhenLoggedIn, LiveOnce
<1>7. CASE Restart
  BY <1>7 DEF Restart, AccInv, AccTypeOK, IdsUsed, UserWhenLoggedIn, LiveOnce, Live
<1> QED BY <1>1, <1>2, <1>3, <1>4, <1>5, <1>6, <1>7, LoginKeeps, LogoutKeeps DEF AccNext

\* OneSessionPerUser: for any number of users, browsers and sessions an account is
\* logged in at one place at a time and whoever is served as a user is online,
\* although LoginHandler and LogoutHandler keep that fact in two records.
THEOREM OneSessionPerUserCorrect == AccSpec => []OneSessionPerUser
<1>1. AccInit => AccInv
  BY AccountsAssumption DEF AccInit, AccInv, AccTypeOK, IdsUsed, UserWhenLoggedIn, LiveOnce, Live
<1>2. AccInv => OneSessionPerUser
  <2> SUFFICES ASSUME AccInv, NEW u \in User
               PROVE  Cardinality(LiveSessions(u)) <= 1 /\ (LiveSessions(u) # {} => u \in onlineUsers)
    BY DEF AccInv, OneSessionPerUser
  <2>1. \A i, j \in LiveSessions(u) : i = j
    BY DEF LiveSessions, AccInv, LiveOnce, Live
  <2>2. LiveSessions(u) # {} => u \in onlineUsers
    BY DEF LiveSessions, AccInv, LiveOnce, Live
  <2>3. LiveSessions(u) = {} \/ \E i : LiveSessions(u) = {i}
    BY <2>1
  <2>4. Cardinality(LiveSessions(u)) <= 1
    BY SMTT(60), <2>3, FS_EmptySet, FS_Singleton
  <2> QED BY <2>2, <2>4
<1> QED BY <1>1, <1>2, AccInvStep, PTL DEF AccSpec

-----------------------------------------------------------------------------
(* The pool of database connections. *)

\* A connection is queued once, lent once, and never both.
NotShared ==
    /\ \A i, j \in DOMAIN connections : connections[i] = connections[j] => i = j
    /\ \A w, v \in Worker : conn[w] = conn[v] /\ conn[w] # NoConn => w = v
    /\ \A w \in Worker : \A i \in DOMAIN connections : conn[w] # connections[i]

\* Once the pool is filled no connection is lost; before, there is none.
NotLost ==
    /\ initialized => \A c \in Conn : (\E i \in DOMAIN connections : connections[i] = c)
                                      \/ (\E w \in Worker : conn[w] = c)
    /\ ~initialized => /\ connections = <<>> /\ Waiting = {}
                       /\ \A w \in Worker : conn[w] = NoConn

\* A worker has a connection between getConnection and its return.
HeldWhileUsed == \A w \in Worker : conn[w] # NoConn <=> dbPc[w] \in {"ping", "use", "failed"}

\* The inductive invariant behind PoolSound.
PoolInv ==
    /\ DbTypeOK /\ NotShared /\ NotLost /\ HeldWhileUsed /\ NoSleeperForgotten
    /\ checkPc = "ping" => connsToCheck # <<>>

\* The sets of workers are finite.
LEMMA WorkersFinite == IsFiniteSet(Waiting) /\ IsFiniteSet(Woken) /\ Cardinality(Woken) \in Nat
BY DbAssumption, FS_Subset, FS_CardinalityType DEF Waiting, Woken

\* Steps that touch neither the queue nor what the workers hold, and take nobody
\* out of woken unless the queue is empty.
LEMMA PoolFrame ==
    ASSUME PoolInv, DbTypeOK', UNCHANGED <<initialized, connections, conn>>,
           HeldWhileUsed', checkPc' = "ping" => connsToCheck' # <<>>,
           \/ Waiting' \subseteq Waiting /\ Woken \subseteq Woken'
           \/ connections = <<>> /\ (initialized \/ Waiting' = {})
    PROVE  PoolInv'
<1>1. NotShared'
  BY DEF PoolInv, NotShared
<1>2. NotLost'
  BY DEF PoolInv, NotLost
<1>3. NoSleeperForgotten'
  <2>1. Woken' \subseteq Worker /\ IsFiniteSet(Woken') /\ Cardinality(Woken') \in Nat /\ Cardinality(Woken) \in Nat
    BY DbAssumption, FS_Subset, FS_CardinalityType, WorkersFinite DEF Woken
  <2>2. CASE Waiting' \subseteq Waiting /\ Woken \subseteq Woken'
    <3>1. Cardinality(Woken) <= Cardinality(Woken')
      BY <2>1, <2>2, FS_Subset
    <3> QED BY <2>1, <2>2, <3>1 DEF PoolInv, NoSleeperForgotten, DbTypeOK
  <2>3. CASE connections = <<>>
    BY <2>1, <2>3 DEF NoSleeperForgotten
  <2> QED BY <2>2, <2>3
<1> QED BY <1>1, <1>2, <1>3 DEF PoolInv

\* init fills the queue with every connection once.
LEMMA InitKeeps == PoolInv /\ init => PoolInv'
<1> SUFFICES ASSUME PoolInv, init PROVE PoolInv'
  OBVIOUS
<1>1. /\ ~initialized /\ initialized' /\ initialized' \in BOOLEAN
      /\ connections' \in [1..Cardinality(Conn) -> Conn]
      /\ \A i, j \in DOMAIN connections' : connections'[i] = connections'[j] => i = j
      /\ UNCHANGED <<dbPc, conn, checkPc, connsToCheck>>
  BY DEF init
<1>2. Cardinality(Conn) \in Nat
  BY DbAssumption, FS_CardinalityType
<1>3. connections' \in Seq(Conn) /\ DOMAIN connections' = 1..Cardinality(Conn)
  BY <1>1, <1>2
<1>4. connections' \in Surjection(1..Cardinality(Conn), Conn)
  <2>1. connections' \in Injection(1..Cardinality(Conn), Conn)
    BY <1>1, <1>3 DEF Injection, IsInjective
  <2>2. Cardinality(1..Cardinality(Conn)) = Cardinality(Conn)
    BY <1>2, FS_Interval
  <2> QED BY <2>1, <2>2, DbAssumption, FS_Injection
<1>5. \A c \in Conn : \E i \in DOMAIN connections' : connections'[i] = c
  BY <1>3, <1>4 DEF Surjection
<1>6. \A w \in Worker : conn[w] = NoConn
  BY <1>1 DEF PoolInv, NotLost
<1>7. Waiting' = {}
  BY <1>1 DEF PoolInv, NotLost, Waiting
<1>8. DbTypeOK'
  BY <1>1, <1>3 DEF PoolInv, DbTypeOK
<1>9. NotShared'
  BY <1>1, <1>3, <1>6, DbAssumption DEF NotShared
<1>10. NotLost'
  BY <1>1, <1>5 DEF NotLost
<1>11. HeldWhileUsed' /\ NoSleeperForgotten' /\ (checkPc' = "ping" => connsToCheck' # <<>>)
  BY <1>1, <1>7 DEF PoolInv, HeldWhileUsed, NoSleeperForgotten
<1> QED BY <1>8, <1>9, <1>10, <1>11 DEF PoolInv

\* getConnection moves the head of the queue to the worker.
LEMMA GetKeeps ==
    ASSUME PoolInv, NEW w \in Worker, getConnection(w)
    PROVE  PoolInv'
<1> DEFINE c == connections[1]
<1>1. /\ connections \in Seq(Conn) /\ connections # <<>> /\ c \in Conn /\ c # NoConn
      /\ dbPc[w] \in {"want", "woken"} /\ conn[w] = NoConn
      /\ conn' = [conn EXCEPT ![w] = c] /\ dbPc' = [dbPc EXCEPT ![w] = "ping"]
      /\ connections' = Tail(connections)
      /\ UNCHANGED <<initialized, checkPc, connsToCheck>>
  BY DbAssumption DEF PoolInv, DbTypeOK, HeldWhileUsed, getConnection, AtLock, Popped
<1>2. /\ connections' \in Seq(Conn) /\ Len(connections') = Len(connections) - 1
      /\ DOMAIN connections = 1..Len(connections) /\ DOMAIN connections' = 1..(Len(connections) - 1)
      /\ \A i \in DOMAIN connections' : i + 1 \in DOMAIN connections /\ connections'[i] = connections[i + 1]
      /\ 1 \in DOMAIN connections /\ Len(connections) \in Nat
  BY <1>1
<1>3. DbTypeOK'
  BY <1>1, <1>2 DEF PoolInv, DbTypeOK
<1>4. \A v \in Worker : conn'[v] = IF v = w THEN c ELSE conn[v]
  BY <1>1 DEF PoolInv, DbTypeOK
<1>5. NotShared'
  <2>1. \A i, j \in DOMAIN connections' : connections'[i] = connections'[j] => i = j
    BY <1>2 DEF PoolInv, NotShared
  <2>2. \A v, x \in Worker : conn'[v] = conn'[x] /\ conn'[v] # NoConn => v = x
    BY <1>2, <1>4 DEF PoolInv, NotShared
  <2>3. \A v \in Worker : \A i \in DOMAIN connections' : conn'[v] # connections'[i]
    <3> SUFFICES ASSUME NEW v \in Worker, NEW i \in DOMAIN connections' PROVE conn'[v] # connections[i + 1]
      BY <1>2
    <3>1. connections[i + 1] # c
      BY <1>2 DEF PoolInv, NotShared
    <3> QED BY <1>2, <1>4, <3>1 DEF PoolInv, NotShared
  <2> QED BY <2>1, <2>2, <2>3 DEF NotShared
<1>6. initialized' => \A x \in Conn : (\E i \in DOMAIN connections' : connections'[i] = x)
                                      \/ (\E v \in Worker : conn'[v] = x)
  <2> SUFFICES ASSUME initialized, NEW x \in Conn
               PROVE  (\E i \in DOMAIN connections' : connections'[i] = x) \/ (\E v \in Worker : conn'[v] = x)
    BY <1>1
  <2>1. CASE \E v \in Worker : conn[v] = x
    BY <1>1, <1>4, <2>1, DbAssumption
  <2>2. CASE \E i \in DOMAIN connections : connections[i] = x
    <3>1. PICK i \in DOMAIN connections : connections[i] = x
      BY <2>2
    <3>2. CASE i = 1
      BY <1>4, <3>1, <3>2
    <3>3. CASE i # 1
      <4>1. i - 1 \in DOMAIN connections' /\ (i - 1) + 1 = i
        BY <1>2, <3>3
      <4> QED BY <1>2, <3>1, <4>1
    <3> QED BY <3>2, <3>3
  <2> QED BY <2>1, <2>2 DEF PoolInv, NotLost
<1>7. initialized
  BY <1>1 DEF PoolInv, NotLost
<1>8. HeldWhileUsed'
  BY <1>1, <1>4 DEF PoolInv, DbTypeOK, HeldWhileUsed
<1>9. NoSleeperForgotten'
  <2>1. Waiting' = Waiting /\ Woken' = Woken \ {w}
    BY <1>1 DEF PoolInv, DbTypeOK, Waiting, Woken
  <2>2. Cardinality(Woken) \in Nat /\ Cardinality(Woken') >= Cardinality(Woken) - 1 /\ Cardinality(Woken') \in Nat
    <3>1. /\ IsFiniteSet(Woken \ {w})
          /\ Cardinality(Woken \ {w}) = IF w \in Woken THEN Cardinality(Woken) - 1 ELSE Cardinality(Woken)
      BY WorkersFinite, FS_RemoveElement
    <3>2. Cardinality(Woken \ {w}) \in Nat
      BY <3>1, FS_CardinalityType
    <3> QED BY <2>1, <3>1, <3>2, WorkersFinite
  <2> QED BY <1>2, <2>1, <2>2 DEF PoolInv, NoSleeperForgotten
<1> QED BY <1>1, <1>3, <1>5, <1>6, <1>7, <1>8, <1>9 DEF PoolInv, NotLost

\* The deleter puts the connection back and wakes one of those who wait.
LEMMA GiveBackKeeps ==
    ASSUME PoolInv, NEW w \in Worker, GiveBack(w)
    PROVE  PoolInv'
<1> DEFINE c == conn[w]
           n == Len(connections)
<1>1. /\ connections \in Seq(Conn) /\ c \in Conn /\ c # NoConn /\ dbPc[w] \in {"use", "failed"}
      /\ conn' = [conn EXCEPT ![w] = NoConn] /\ connections' = Append(connections, c)
      /\ UNCHANGED <<initialized, checkPc, connsToCheck>>
      /\ initialized
  BY DbAssumption DEF PoolInv, DbTypeOK, HeldWhileUsed, NotLost, GiveBack
<1>2. /\ connections' \in Seq(Conn) /\ Len(connections') = n + 1 /\ n \in Nat
      /\ DOMAIN connections = 1..n /\ DOMAIN connections' = 1..(n + 1)
      /\ \A i \in DOMAIN connections' : connections'[i] = IF i = n + 1 THEN c ELSE connections[i]
      /\ \A i \in DOMAIN connections' : i # n + 1 => i \in DOMAIN connections
  BY <1>1
<1>3. \A v \in Worker : conn'[v] = IF v = w THEN NoConn ELSE conn[v]
  BY <1>1 DEF PoolInv, DbTypeOK
<1>4. /\ dbPc' \in [Worker -> {"idle", "want", "waiting", "woken", "ping", "use", "failed"}]
      /\ dbPc'[w] = "idle"
      /\ \A v \in Worker \ {w} : dbPc'[v] = dbPc[v] \/ (dbPc[v] = "waiting" /\ dbPc'[v] = "woken")
      /\ \/ Waiting = {} /\ Waiting' = {}
         \/ \E v \in Waiting : Woken' = Woken \cup {v} /\ Waiting' \subseteq Waiting
  <2>1. CASE Waiting = {} /\ dbPc' = [dbPc EXCEPT ![w] = "idle"]
    BY <2>1 DEF PoolInv, DbTypeOK, Waiting, Woken
  <2>2. ASSUME NEW v \in Waiting, dbPc' = [dbPc EXCEPT ![w] = "idle", ![v] = "woken"]
        PROVE  /\ dbPc' \in [Worker -> {"idle", "want", "waiting", "woken", "ping", "use", "failed"}]
               /\ dbPc'[w] = "idle"
               /\ \A x \in Worker \ {w} : dbPc'[x] = dbPc[x] \/ (dbPc[x] = "waiting" /\ dbPc'[x] = "woken")
               /\ Woken' = Woken \cup {v} /\ Waiting' \subseteq Waiting
    BY <1>1, <2>2 DEF PoolInv, DbTypeOK, Waiting, Woken
  <2> QED BY <2>1, <2>2 DEF GiveBack, notify_one
<1>5. DbTypeOK'
  BY <1>1, <1>2, <1>3, <1>4 DEF PoolInv, DbTypeOK
<1>6. NotShared'
  <2>1. \A i \in DOMAIN connections : connections[i] # c
    BY DEF PoolInv, NotShared
  <2>2. \A i, j \in DOMAIN connections' : connections'[i] = connections'[j] => i = j
    BY <1>2, <2>1 DEF PoolInv, NotShared
  <2>3. \A v, x \in Worker : conn'[v] = conn'[x] /\ conn'[v] # NoConn => v = x
    BY <1>3 DEF PoolInv, NotShared
  <2>4. \A v \in Worker \ {w} : conn[v] # c
    BY <1>1 DEF PoolInv, NotShared
  <2>5. \A v \in Worker : \A i \in DOMAIN connections' : conn'[v] # connections'[i]
    <3> SUFFICES ASSUME NEW v \in Worker, NEW i \in DOMAIN connections' PROVE conn'[v] # connections'[i]
      OBVIOUS
    <3>1. connections'[i] \in Conn
      BY <1>2
    <3>2. CASE v = w
      BY <1>3, <3>1, <3>2, DbAssumption
    <3>3. CASE v # w
      BY <1>2, <1>3, <2>4, <3>3 DEF PoolInv, NotShared
    <3> QED BY <3>2, <3>3
  <2> QED BY <2>2, <2>3, <2>5 DEF NotShared
<1>7. NotLost'
  <2> SUFFICES ASSUME NEW x \in Conn
               PROVE  (\E i \in DOMAIN connections' : connections'[i] = x) \/ (\E v \in Worker : conn'[v] = x)
    BY <1>1 DEF NotLost
  <2>1. CASE x = c
    <3>1. n + 1 \in DOMAIN connections' /\ connections'[n + 1] = c
      BY <1>2
    <3> QED BY <2>1, <3>1
  <2>2. CASE x # c /\ \E v \in Worker : conn[v] = x
    BY <1>3, <2>2
  <2>3. CASE \E i \in DOMAIN connections : connections[i] = x
    <3>1. PICK i \in DOMAIN connections : connections[i] = x
      BY <2>3
    <3>2. i \in DOMAIN connections' /\ i # n + 1
      BY <1>2
    <3> QED BY <1>2, <3>1, <3>2
  <2> QED BY <1>1, <2>1, <2>2, <2>3 DEF PoolInv, NotLost
<1>8. HeldWhileUsed'
  BY <1>3, <1>4 DEF PoolInv, HeldWhileUsed
<1>9. NoSleeperForgotten'
  <2>1. CASE Waiting' = {}
    BY <2>1 DEF NoSleeperForgotten
  <2>2. ASSUME NEW v \in Waiting, Woken' = Woken \cup {v} PROVE NoSleeperForgotten'
    <3>1. v \notin Woken
      BY DEF Waiting, Woken
    <3>2. Cardinality(Woken') = Cardinality(Woken) + 1
      BY <2>2, <3>1, WorkersFinite, FS_AddElement
    <3> QED BY <1>2, <2>2, <3>2, WorkersFinite DEF PoolInv, NoSleeperForgotten
  <2> QED BY <1>4, <2>1, <2>2
<1> QED BY <1>1, <1>5, <1>6, <1>7, <1>8, <1>9 DEF PoolInv

\* Every thread's steps keep the invariant.
LEMMA PoolInvStep == PoolInv /\ [DbNext]_dbVars => PoolInv'
<1> SUFFICES ASSUME PoolInv, [DbNext]_dbVars PROVE PoolInv'
  OBVIOUS
<1> USE DEF PoolInv
<1>1. CASE UNCHANGED dbVars
  BY <1>1, PoolFrame DEF dbVars, DbTypeOK, HeldWhileUsed, Waiting, Woken
<1>2. CASE Checker
  <2>1. DbTypeOK' /\ (checkPc' = "ping" => connsToCheck' # <<>>) /\ UNCHANGED <<initialized, connections, dbPc, conn>>
    <3>1. CASE CheckOne
      <4>1. connsToCheck \in Seq(Conn) /\ connsToCheck # <<>> /\ connsToCheck' = Tail(connsToCheck)
        BY <3>1 DEF CheckOne, DbTypeOK
      <4>2. connsToCheck' \in Seq(Conn)
        BY <4>1
      <4> QED BY <3>1, <4>2 DEF CheckOne, DbTypeOK
    <3>2. CASE CheckNothing \/ CheckAgain \/ CopyQueue
      BY <3>2 DEF CheckNothing, CheckAgain, CopyQueue, DbTypeOK
    <3> QED BY <1>2, <3>1, <3>2 DEF Checker
  <2> QED BY <2>1, PoolFrame DEF HeldWhileUsed, Waiting, Woken
<1>3. ASSUME NEW w \in Worker, Ask(w) PROVE PoolInv'
  BY <1>3, PoolFrame DEF Ask, DbTypeOK, HeldWhileUsed, Waiting, Woken
<1>4. ASSUME NEW w \in Worker, NotInitialized(w) PROVE PoolInv'
  BY <1>4, PoolFrame DEF NotInitialized, AtLock, DbTypeOK, HeldWhileUsed, Waiting, Woken, NotLost
<1>5. ASSUME NEW w \in Worker, Wait(w) PROVE PoolInv'
  BY <1>5, PoolFrame DEF Wait, AtLock, DbTypeOK, HeldWhileUsed, Waiting, Woken
<1>6. ASSUME NEW w \in Worker, ping(w) PROVE PoolInv'
  BY <1>6, PoolFrame DEF ping, DbTypeOK, HeldWhileUsed, Waiting, Woken
<1>7. ASSUME NEW w \in Worker, SpuriousWakeup(w) PROVE PoolInv'
  BY <1>7, PoolFrame DEF SpuriousWakeup, DbTypeOK, HeldWhileUsed, Waiting, Woken
<1> QED BY <1>1, <1>2, <1>3, <1>4, <1>5, <1>6, <1>7, InitKeeps, GetKeeps, GiveBackKeeps DEF DbNext

\* With NotShared and NotLost every connection is in exactly one place.
LEMMA PoolInvOnePlace == PoolInv => OnePlace
<1> SUFFICES ASSUME PoolInv, initialized, NEW c \in Conn
             PROVE  Cardinality({i \in DOMAIN connections : connections[i] = c})
                       + Cardinality({w \in Worker : conn[w] = c}) = 1
  BY DEF OnePlace
<1> DEFINE I == {i \in DOMAIN connections : connections[i] = c}
           W == {w \in Worker : conn[w] = c}
<1>1. CASE \E i \in DOMAIN connections : connections[i] = c
  <2>1. PICK i \in DOMAIN connections : connections[i] = c
    BY <1>1
  <2>2. I = {i} /\ W = {}
    BY <2>1 DEF PoolInv, NotShared
  <2> HIDE DEF I, W
  <2>3. Cardinality(I) = 1 /\ Cardinality(W) = 0
    BY <2>2, FS_Singleton, FS_EmptySet
  <2> QED BY <2>3 DEF I, W
<1>2. CASE \E w \in Worker : conn[w] = c
  <2>1. PICK w \in Worker : conn[w] = c
    BY <1>2
  <2>2. I = {} /\ W = {w}
    BY <2>1, DbAssumption DEF PoolInv, NotShared
  <2> HIDE DEF I, W
  <2>3. Cardinality(I) = 0 /\ Cardinality(W) = 1
    BY <2>2, FS_Singleton, FS_EmptySet
  <2> QED BY <2>3 DEF I, W
<1> QED BY <1>1, <1>2 DEF PoolInv, NotLost

\* PoolSound: for any number of threads and connections, with every ping failing
\* or not, no connection is lost or lent twice, and no thread sleeps in cv_.wait
\* beside more free connections than there are threads woken for them.
THEOREM PoolSoundCorrect == DbSpec => []PoolSound
<1>1. DbInit => PoolInv
  <2> SUFFICES ASSUME DbInit PROVE PoolInv
    OBVIOUS
  <2>1. DbTypeOK
    <3>1. connections \in Seq(Conn) /\ connsToCheck \in Seq(Conn)
      BY DEF DbInit
    <3>2. initialized \in BOOLEAN /\ checkPc \in {"run", "asleep", "ping", "rest"}
      BY DEF DbInit
    <3>3. /\ dbPc \in [Worker -> {"idle", "want", "waiting", "woken", "ping", "use", "failed"}]
          /\ conn \in [Worker -> Conn \cup {NoConn}]
      BY DEF DbInit
    <3> QED BY <3>1, <3>2, <3>3 DEF DbTypeOK
  <2>3. HeldWhileUsed
    BY DEF DbInit, HeldWhileUsed
  <2>4. NotShared
    <3>1. DOMAIN connections = {}
      BY DEF DbInit
    <3> QED BY <3>1 DEF DbInit, NotShared
  <2>2. Waiting = {}
    BY DEF DbInit, Waiting
  <2> QED BY <2>1, <2>2, <2>3, <2>4 DEF DbInit, PoolInv, NotLost, NoSleeperForgotten
<1>2. PoolInv => PoolSound
  BY PoolInvOnePlace DEF PoolInv, PoolSound
<1> QED BY <1>1, <1>2, PoolInvStep, PTL DEF DbSpec

-----------------------------------------------------------------------------
(* Numbers. *)

\* Some natural numbers have a least one.
LEMMA LeastNat ==
    ASSUME NEW T \in SUBSET Nat, T # {}
    PROVE  \E n \in T : \A m \in T : n <= m
<1>1. PICK n \in T : \A m \in T : ~(<<m, n>> \in OpToRel(<, Nat))
  BY NatLessThanWellFounded, WFMin
<1>2. \A m \in T : ~(m < n)
  BY <1>1 DEF OpToRel
<1> QED BY <1>2

\* Natural numbers below a bound have a greatest one.
LEMMA GreatestNat ==
    ASSUME NEW T \in SUBSET Nat, T # {}, NEW b \in Nat, \A n \in T : n <= b
    PROVE  \E n \in T : \A m \in T : m <= n
<1> DEFINE U == {b - n : n \in T}
<1>0. PICK n0 \in T : TRUE
  OBVIOUS
<1>1. U \in SUBSET Nat /\ b - n0 \in U
  OBVIOUS
<1>2. PICK u \in U : \A v \in U : u <= v
  BY <1>1, LeastNat
<1>3. PICK n \in T : u = b - n
  BY <1>2
<1>4. ASSUME NEW m \in T PROVE m <= n
  <2>1. b - m \in U
    OBVIOUS
  <2> QED BY <1>2, <1>3, <2>1
<1> QED BY <1>4

\* A set of numbers from 1 that is closed downward is an interval.
LEMMA PrefixCard ==
    ASSUME NEW n \in Nat, NEW S \in SUBSET (1..n), \A i \in S : \A j \in 1..i : j \in S
    PROVE  Cardinality(S) \in 0..n /\ S = 1..Cardinality(S)
<1> DEFINE T == {k \in Nat : k >= 1 /\ k \notin S}
<1>1. T \in SUBSET Nat /\ n + 1 \in T
  OBVIOUS
<1>2. PICK m \in T : \A k \in T : m <= k
  BY <1>1, LeastNat
<1>3. m - 1 \in 0..n
  BY <1>1, <1>2
<1>4. S = 1..(m - 1)
  <2>1. ASSUME NEW k \in S PROVE k \in 1..(m - 1)
    <3>1. ~(k >= m)
      BY <1>2
    <3> QED BY <3>1, <1>3
  <2>2. ASSUME NEW k \in 1..(m - 1) PROVE k \in S
    BY <1>2
  <2> QED BY <2>1, <2>2
<1>5. Cardinality(S) = m - 1
  BY <1>3, <1>4, FS_Interval
<1> QED BY <1>3, <1>4, <1>5

-----------------------------------------------------------------------------
(* The game against the computer. *)

\* Cell c, i steps on in direction d, is on the board and belongs to p.
Own(b, c, d, i, p) == isInBoard(At(c, d, i)) /\ b[At(c, d, i)] = p

\* A board of the game.
Board == [Cell -> {"empty", "human", "ai"}]

\* Steps along a direction: they add up, and leave the cell.
LEMMA Steps ==
    ASSUME NEW c \in Int \X Int, NEW d \in Directions
    PROVE  /\ \A i \in Int : At(c, d, i) \in Int \X Int
           /\ \A i, j \in Int : At(At(c, d, i), d, j) = At(c, d, i + j)
           /\ At(c, d, 0) = c
           /\ \A i \in Int \ {0} : At(c, d, i) # c
<1>1. CASE d = <<1, 0>>
  BY <1>1 DEF At
<1>2. CASE d = <<0, 1>>
  BY <1>2 DEF At
<1>3. CASE d = <<1, 1>>
  BY <1>3 DEF At
<1>4. CASE d = <<1, -1>>
  BY <1>4 DEF At
<1> QED BY <1>1, <1>2, <1>3, <1>4 DEF Directions

\* The cells are pairs, and finitely many.
LEMMA CellType == Cell \subseteq Int \X Int /\ IsFiniteSet(Cell) /\ Cardinality(Cell) = BOARD_SIZE * BOARD_SIZE
<1>1. IsFiniteSet(Index) /\ Cardinality(Index) = BOARD_SIZE
  BY AiAssumption, FS_Interval DEF Index
<1>2. IsFiniteSet(Cell) /\ Cardinality(Cell) = BOARD_SIZE * BOARD_SIZE
  BY <1>1, FS_Product DEF Cell
<1>3. Cell \subseteq Int \X Int
  BY AiAssumption DEF Cell, Index
<1> QED BY <1>2, <1>3

\* RunFrom counts the stones up to the first that is not p's.
LEMMA RunCounts ==
    ASSUME NEW b, NEW c, NEW d, NEW p, NEW sign
    PROVE  LET r == RunFrom(b, c, d, sign, p)
           IN  /\ r \in 0..(LineLength - 1)
               /\ \A j \in 1..r : Own(b, c, d, sign * j, p)
               /\ \A k \in 0..(LineLength - 1) : (\A j \in 1..k : Own(b, c, d, sign * j, p)) => k <= r
<1> DEFINE S == {i \in 1..(LineLength - 1) : \A j \in 1..i : Own(b, c, d, sign * j, p)}
           r == Cardinality(S)
<1>1. RunFrom(b, c, d, sign, p) = r
  BY DEF RunFrom, Own
<1>2. LineLength - 1 \in Nat
  BY AiAssumption
<1>3. ASSUME NEW i \in S, NEW j \in 1..i PROVE j \in S
  <2>1. i \in 1..(LineLength - 1) /\ \A k \in 1..i : Own(b, c, d, sign * k, p)
    OBVIOUS
  <2>2. j \in 1..(LineLength - 1) /\ \A k \in 1..j : k \in 1..i
    BY <1>2, <2>1
  <2> QED BY <2>1, <2>2
<1>4. r \in 0..(LineLength - 1) /\ S = 1..r
  BY <1>2, <1>3, PrefixCard
<1>5. \A j \in 1..r : Own(b, c, d, sign * j, p)
  BY <1>2, <1>4
<1>6. ASSUME NEW k \in 0..(LineLength - 1), \A j \in 1..k : Own(b, c, d, sign * j, p) PROVE k <= r
  <2>1. k = 0 \/ k \in S
    BY <1>2, <1>6
  <2> QED BY <1>2, <1>4, <2>1
<1> QED BY <1>1, <1>4, <1>5, <1>6

\* checkWin finds exactly the lines through the last stone.
LEMMA WinIsLine ==
    ASSUME NEW b, NEW c \in Cell, NEW p, b[c] = p
    PROVE  checkWin(b, c, p) <=>
             \E d \in Directions, k \in 0..(LineLength - 1) : \A i \in 0..(LineLength - 1) : Own(b, c, d, i - k, p)
<1>0. LineLength \in Nat \ {0}
  BY AiAssumption
<1>1. ASSUME NEW d \in Directions
      PROVE  (1 + RunFrom(b, c, d, 1, p) + RunFrom(b, c, d, -1, p) >= LineLength) <=>
             \E k \in 0..(LineLength - 1) : \A i \in 0..(LineLength - 1) : Own(b, c, d, i - k, p)
  <2> DEFINE r == RunFrom(b, c, d, 1, p)
             s == RunFrom(b, c, d, -1, p)
  <2>1. /\ r \in 0..(LineLength - 1)
        /\ \A j \in 1..r : Own(b, c, d, 1 * j, p)
        /\ \A k \in 0..(LineLength - 1) : (\A j \in 1..k : Own(b, c, d, 1 * j, p)) => k <= r
    BY RunCounts
  <2>2. /\ s \in 0..(LineLength - 1)
        /\ \A j \in 1..s : Own(b, c, d, -1 * j, p)
        /\ \A k \in 0..(LineLength - 1) : (\A j \in 1..k : Own(b, c, d, -1 * j, p)) => k <= s
    BY RunCounts
  <2>3. Own(b, c, d, 0, p)
    BY ZenonT(60), CellType, Steps DEF Own, isInBoard
  <2> HIDE DEF r, s
  <2>4. ASSUME 1 + r + s >= LineLength
        PROVE  \E k \in 0..(LineLength - 1) : \A i \in 0..(LineLength - 1) : Own(b, c, d, i - k, p)
    <3>1. s \in 0..(LineLength - 1)
      BY <2>2
    <3>2. ASSUME NEW i \in 0..(LineLength - 1) PROVE Own(b, c, d, i - s, p)
      <4>1. CASE i = s
        BY <2>3, <3>1, <4>1, <1>0
      <4>2. CASE i > s
        <5>1. i - s \in 1..r
          BY <1>0, <2>1, <2>4, <3>1, <4>2
        <5>2. 1 * (i - s) = i - s
          BY <1>0, <3>1
        <5> QED BY <2>1, <5>1, <5>2
      <4>3. CASE i < s
        <5>1. s - i \in 1..s
          BY <1>0, <3>1, <4>3
        <5>2. -1 * (s - i) = i - s
          BY <1>0, <3>1
        <5> QED BY <2>2, <5>1, <5>2
      <4> QED BY <4>1, <4>2, <4>3, <3>1, <1>0
    <3> QED BY <3>1, <3>2
  <2>5. ASSUME NEW k \in 0..(LineLength - 1), \A i \in 0..(LineLength - 1) : Own(b, c, d, i - k, p)
        PROVE  1 + r + s >= LineLength
    <3>1. LineLength - 1 - k <= r
      <4>1. LineLength - 1 - k \in 0..(LineLength - 1)
        BY <1>0
      <4>2. ASSUME NEW j \in 1..(LineLength - 1 - k) PROVE Own(b, c, d, 1 * j, p)
        <5>1. j + k \in 0..(LineLength - 1) /\ (j + k) - k = 1 * j
          BY <1>0
        <5> QED BY <2>5, <5>1
      <4> QED BY <2>1, <4>1, <4>2
    <3>2. k <= s
      <4>1. ASSUME NEW j \in 1..k PROVE Own(b, c, d, -1 * j, p)
        <5>1. k - j \in 0..(LineLength - 1) /\ (k - j) - k = -1 * j
          BY <1>0
        <5> QED BY <2>5, <5>1
      <4> QED BY <2>2, <4>1
    <3> QED BY <1>0, <2>1, <2>2, <3>1, <3>2
  <2> QED BY <2>4, <2>5 DEF r, s
<1> QED BY <1>1 DEF checkWin

\* A stone on an empty cell makes a line exactly if checkWin finds one through it.
LEMMA NewLine ==
    ASSUME NEW b \in Board, NEW c \in Cell, NEW p, b[c] # p, ~HasLine(b, p),
           NEW e, e = [b EXCEPT ![c] = p]
    PROVE  HasLine(e, p) <=> checkWin(e, c, p)
<1>0. LineLength \in Nat \ {0} /\ c \in Int \X Int /\ e[c] = p
  BY AiAssumption, CellType DEF Board
<1>1. ASSUME HasLine(e, p) PROVE checkWin(e, c, p)
  <2>1. PICK c0 \in Cell, d \in Directions : \A i \in 0..(LineLength - 1) : Own(e, c0, d, i, p)
    BY <1>1 DEF HasLine, Own
  <2>2. PICK k \in 0..(LineLength - 1) : At(c0, d, k) = c
    <3>1. SUFFICES ASSUME \A k \in 0..(LineLength - 1) : At(c0, d, k) # c PROVE FALSE
      OBVIOUS
    <3>2. \A i \in 0..(LineLength - 1) : isInBoard(At(c0, d, i)) /\ b[At(c0, d, i)] = p
      BY <2>1, <3>1 DEF Own, isInBoard, Board
    <3> QED BY <3>2 DEF HasLine
  <2>3. ASSUME NEW i \in 0..(LineLength - 1) PROVE Own(e, c, d, i - k, p)
    <3>1. At(c, d, i - k) = At(c0, d, k + (i - k))
      BY <1>0, <2>2, CellType, Steps
    <3>2. k + (i - k) = i
      BY <1>0
    <3> QED BY <2>1, <3>1, <3>2 DEF Own
  <2> QED BY <1>0, <2>3, WinIsLine
<1>2. ASSUME checkWin(e, c, p) PROVE HasLine(e, p)
  <2>1. PICK d \in Directions, k \in 0..(LineLength - 1) : \A i \in 0..(LineLength - 1) : Own(e, c, d, i - k, p)
    BY <1>0, <1>2, WinIsLine
  <2> DEFINE c0 == At(c, d, 0 - k)
  <2>2. c0 \in Cell
    BY <1>0, <2>1 DEF Own, isInBoard
  <2>3. ASSUME NEW i \in 0..(LineLength - 1) PROVE isInBoard(At(c0, d, i)) /\ e[At(c0, d, i)] = p
    <3>0. 0 - k \in Int /\ i \in Int
      BY <1>0
    <3>1. At(c0, d, i) = At(c, d, (0 - k) + i)
      BY <1>0, <3>0, Steps
    <3>2. (0 - k) + i = i - k
      BY <1>0
    <3> QED BY <2>1, <3>1, <3>2 DEF Own
  <2> QED BY <2>2, <2>3 DEF HasLine
<1> QED BY <1>1, <1>2

\* What checkWin finds it also finds where p has more stones; it never looks at
\* the cell itself.
LEMMA WinMonotone ==
    ASSUME NEW b, NEW e, NEW c \in Cell, NEW p, \A x \in Cell \ {c} : e[x] = p => b[x] = p, checkWin(e, c, p)
    PROVE  checkWin(b, c, p)
<1>0. LineLength \in Nat \ {0}
  BY AiAssumption
<1>1. ASSUME NEW d \in Directions, NEW sign \in {1, -1}
      PROVE  RunFrom(e, c, d, sign, p) <= RunFrom(b, c, d, sign, p)
  <2> DEFINE r == RunFrom(e, c, d, sign, p)
  <2>1. r \in 0..(LineLength - 1) /\ \A j \in 1..r : Own(e, c, d, sign * j, p)
    BY RunCounts
  <2>2. ASSUME NEW j \in 1..r PROVE Own(b, c, d, sign * j, p)
    <3>1. sign * j \in Int \ {0}
      <4>1. j \in Nat \ {0}
        BY <2>1, <1>0
      <4>2. 1 * j = j /\ -1 * j = -j
        BY <4>1
      <4> QED BY <4>1, <4>2
    <3>2. At(c, d, sign * j) # c
      BY <3>1, CellType, Steps
    <3> QED BY <2>1, <3>2 DEF Own, isInBoard
  <2> HIDE DEF r
  <2>3. r <= RunFrom(b, c, d, sign, p)
    BY <2>1, <2>2, RunCounts
  <2> QED BY <2>3 DEF r
<1>2. PICK d \in Directions : 1 + RunFrom(e, c, d, 1, p) + RunFrom(e, c, d, -1, p) >= LineLength
  BY DEF checkWin
<1>3. /\ RunFrom(e, c, d, 1, p) \in Int /\ RunFrom(e, c, d, -1, p) \in Int
      /\ RunFrom(b, c, d, 1, p) \in Int /\ RunFrom(b, c, d, -1, p) \in Int
  BY <1>0, RunCounts
<1>4. RunFrom(e, c, d, 1, p) <= RunFrom(b, c, d, 1, p) /\ RunFrom(e, c, d, -1, p) <= RunFrom(b, c, d, -1, p)
  BY <1>1
<1>5. 1 + RunFrom(b, c, d, 1, p) + RunFrom(b, c, d, -1, p) >= LineLength
  BY <1>0, <1>2, <1>3, <1>4
<1> QED BY <1>5 DEF checkWin

\* The loops of getBestMove find the first of any cells.
LEMMA FirstFound ==
    ASSUME NEW S \in SUBSET Cell, S # {}
    PROVE  First(S) \in S
<1> DEFINE rows == {c[1] : c \in S}
<1>0. \A c \in Cell : c[1] \in Nat /\ c[2] \in Nat /\ c = <<c[1], c[2]>>
  BY AiAssumption DEF Cell, Index
<1>1. rows \in SUBSET Nat /\ rows # {}
  <2>1. PICK c \in S : TRUE
    OBVIOUS
  <2>2. c[1] \in rows
    OBVIOUS
  <2> QED BY <1>0, <2>2
<1>2. PICK r \in rows : \A q \in rows : r <= q
  BY <1>1, LeastNat
<1> DEFINE cols == {c[2] : c \in {x \in S : x[1] = r}}
<1>3. cols \in SUBSET Nat /\ cols # {}
  <2>1. PICK c \in S : c[1] = r
    BY <1>2
  <2>2. c[2] \in cols
    BY <2>1
  <2> QED BY <1>0, <2>2
<1>4. PICK k \in cols : \A q \in cols : k <= q
  BY <1>3, LeastNat
<1>5. PICK c \in S : c[1] = r /\ c[2] = k
  BY <1>4
<1>6. ASSUME NEW e \in S \ {c} PROVE Before(c, e)
  <2>1. e[1] \in rows /\ (e[1] = r => e[2] \in cols)
    OBVIOUS
  <2>2. r <= e[1] /\ (e[1] = r => k <= e[2])
    BY <1>2, <1>4, <2>1
  <2>3. e[1] # c[1] \/ e[2] # c[2]
    BY <1>0
  <2> QED BY <1>0, <1>5, <2>2, <2>3 DEF Before
<1>7. \E x \in S : \A e \in S \ {x} : Before(x, e)
  BY <1>6
<1> QED BY <1>7 DEF First

\* evaluateThreat counts finitely many stones.
LEMMA ThreatsCounted ==
    ASSUME NEW b
    PROVE  \E n \in Nat : \A c \in Cell : evaluateThreat(b, c) \in 0..n
<1> DEFINE A == Directions \X (1..Reach)
           Near(c) == {s \in A : isInBoard(At(c, s[1], s[2])) /\ b[At(c, s[1], s[2])] = "human"}
<1>1. IsFiniteSet(A)
  <2>1. IsFiniteSet(Directions)
    <3> DEFINE D1 == {} \cup {<<1, 0>>}
               D2 == D1 \cup {<<0, 1>>}
               D3 == D2 \cup {<<1, 1>>}
               D4 == D3 \cup {<<1, -1>>}
    <3>1. D4 = Directions
      BY DEF Directions
    <3>2. IsFiniteSet({})
      BY FS_EmptySet
    <3>3. IsFiniteSet(D1)
      BY ONLY <3>2, FS_AddElement
    <3> HIDE DEF D1
    <3>4. IsFiniteSet(D2)
      BY ONLY <3>3, FS_AddElement
    <3> HIDE DEF D2
    <3>5. IsFiniteSet(D3)
      BY ONLY <3>4, FS_AddElement
    <3> HIDE DEF D3
    <3>6. IsFiniteSet(D4)
      BY ONLY <3>5, FS_AddElement
    <3> HIDE DEF D4
    <3> QED BY <3>1, <3>6
  <2>2. IsFiniteSet(1..Reach)
    BY AiAssumption, FS_Interval
  <2> QED BY <2>1, <2>2, FS_Product
<1>2. Cardinality(A) \in Nat
  BY <1>1, FS_CardinalityType
<1> HIDE DEF A
<1>3. ASSUME NEW c \in Cell PROVE evaluateThreat(b, c) \in 0..(4 + Cardinality(A))
  <2>1. IsFiniteSet(Near(c)) /\ Cardinality(Near(c)) <= Cardinality(A)
    BY <1>1, FS_Subset
  <2>2. Cardinality(Near(c)) \in Nat
    BY <2>1, FS_CardinalityType
  <2>3. evaluateThreat(b, c) = 4 + Cardinality(Near(c))
    BY DEF evaluateThreat, A
  <2> QED BY <1>2, <2>1, <2>2, <2>3
<1>4. 4 + Cardinality(A) \in Nat
  BY <1>2
<1> QED BY <1>3, <1>4

\* getBestMove answers an empty cell, an urgent one if there is one.
LEMMA BestMove ==
    ASSUME NEW b, Empty(b) # {}
    PROVE  /\ getBestMove(b) \in Empty(b)
           /\ Urgent(b) # {} => getBestMove(b) \in Urgent(b)
<1>1. Urgent(b) \subseteq Empty(b) /\ Empty(b) \subseteq Cell
  BY DEF Urgent, Wins, Empty
<1>2. CASE Urgent(b) # {}
  BY <1>1, <1>2, FirstFound DEF getBestMove
<1>3. CASE Urgent(b) = {}
  <2>1. PICK n \in Nat : \A c \in Cell : evaluateThreat(b, c) \in 0..n
    BY ThreatsCounted
  <2> DEFINE T == {evaluateThreat(b, c) : c \in Empty(b)}
  <2>2. T \in SUBSET Nat /\ T # {} /\ \A t \in T : t <= n
    <3>1. PICK c0 \in Empty(b) : TRUE
      OBVIOUS
    <3>2. evaluateThreat(b, c0) \in T
      OBVIOUS
    <3>3. ASSUME NEW t \in T PROVE t \in Nat /\ t <= n
      <4>1. PICK c \in Empty(b) : t = evaluateThreat(b, c)
        OBVIOUS
      <4> QED BY <1>1, <2>1, <4>1
    <3> QED BY <3>2, <3>3
  <2>3. PICK t \in T : \A u \in T : u <= t
    BY <2>2, GreatestNat
  <2>4. PICK c \in Empty(b) : t = evaluateThreat(b, c)
    BY <2>3
  <2>5. ASSUME NEW e \in Empty(b) PROVE evaluateThreat(b, c) >= evaluateThreat(b, e)
    <3>1. evaluateThreat(b, e) \in T /\ evaluateThreat(b, c) \in T
      OBVIOUS
    <3> QED BY <2>2, <2>3, <2>4, <3>1
  <2>6. c \in MostThreatened(b) /\ MostThreatened(b) \subseteq Empty(b)
    BY <2>5 DEF MostThreatened
  <2> QED BY <1>1, <1>3, <2>6, FirstFound DEF getBestMove
<1> QED BY <1>2, <1>3

\* The sizes of two disjoint finite sets add up.
LEMMA DisjointSizes ==
    ASSUME NEW S, IsFiniteSet(S), NEW T, IsFiniteSet(T), S \cap T = {}
    PROVE  IsFiniteSet(S \cup T) /\ Cardinality(S \cup T) = Cardinality(S) + Cardinality(T)
<1>1. Cardinality(S \cap T) = 0
  BY FS_EmptySet
<1>2. Cardinality(S) \in Nat /\ Cardinality(T) \in Nat
  BY FS_CardinalityType
<1>3. IsFiniteSet(S \cup T) /\ Cardinality(S \cup T) = Cardinality(S) + Cardinality(T) - Cardinality(S \cap T)
  BY FS_Union, Zenon
<1> QED BY <1>1, <1>2, <1>3

\* The stones on a board, and one more of them.
LEMMA StonesType ==
    ASSUME NEW b \in Board
    PROVE  /\ \A p : IsFiniteSet({c \in Cell : b[c] = p}) /\ Stones(b, p) \in Nat
           /\ Stones(b, "empty") + Stones(b, "human") + Stones(b, "ai") = BOARD_SIZE * BOARD_SIZE
<1> DEFINE CellsOf(p) == {c \in Cell : b[c] = p}
<1>1. ASSUME NEW p PROVE IsFiniteSet(CellsOf(p)) /\ Cardinality(CellsOf(p)) \in Nat
  BY CellType, FS_Subset, FS_CardinalityType
<1>2. Cell = (CellsOf("empty") \cup CellsOf("human")) \cup CellsOf("ai")
  BY DEF Board
<1>3. CellsOf("empty") \cap CellsOf("human") = {} /\ (CellsOf("empty") \cup CellsOf("human")) \cap CellsOf("ai") = {}
  OBVIOUS
<1>4. Stones(b, "empty") = Cardinality(CellsOf("empty")) /\ Stones(b, "human") = Cardinality(CellsOf("human"))
      /\ Stones(b, "ai") = Cardinality(CellsOf("ai"))
  BY DEF Stones
<1>5. \A p : IsFiniteSet({c \in Cell : b[c] = p}) /\ Stones(b, p) \in Nat
  BY <1>1 DEF Stones
<1> HIDE DEF CellsOf
<1>6. /\ IsFiniteSet(CellsOf("empty") \cup CellsOf("human"))
      /\ Cardinality(CellsOf("empty") \cup CellsOf("human")) = Cardinality(CellsOf("empty")) + Cardinality(CellsOf("human"))
  BY <1>1, <1>3, DisjointSizes, Zenon
<1>7. Cardinality(Cell) = Cardinality(CellsOf("empty") \cup CellsOf("human")) + Cardinality(CellsOf("ai"))
  BY <1>1, <1>2, <1>3, <1>6, DisjointSizes, Zenon
<1> QED BY <1>4, <1>5, <1>6, <1>7, CellType

\* A stone on an empty cell is one more of its side and none of the other.
LEMMA StonesPut ==
    ASSUME NEW b \in Board, NEW c \in Cell, b[c] = "empty", NEW p \in {"human", "ai"},
           NEW e, e = [b EXCEPT ![c] = p]
    PROVE  /\ e \in Board
           /\ p = "human" => Stones(e, "human") = Stones(b, "human") + 1 /\ Stones(e, "ai") = Stones(b, "ai")
           /\ p = "ai" => Stones(e, "ai") = Stones(b, "ai") + 1 /\ Stones(e, "human") = Stones(b, "human")
           /\ \A x \in Empty(e) : x \in Empty(b) /\ x # c
<1>1. e \in Board
  BY DEF Board
<1>2. {x \in Cell : e[x] = p} = {x \in Cell : b[x] = p} \cup {c}
  BY DEF Board
<1>3. ASSUME NEW q \in {"human", "ai"} \ {p} PROVE {x \in Cell : e[x] = q} = {x \in Cell : b[x] = q}
  BY DEF Board
<1>4. \A x \in Empty(e) : x \in Empty(b) /\ x # c
  BY DEF Empty, Board
<1>5. Stones(e, p) = Stones(b, p) + 1
  <2>1. IsFiniteSet({x \in Cell : b[x] = p}) /\ c \notin {x \in Cell : b[x] = p}
    BY StonesType
  <2> QED BY <1>2, <2>1, FS_AddElement DEF Stones
<1>6. \A q \in {"human", "ai"} \ {p} : Stones(e, q) = Stones(b, q)
  BY <1>3 DEF Stones
<1> QED BY <1>1, <1>4, <1>5, <1>6

\* A stone makes and breaks no line of the other side.
LEMMA OtherLines ==
    ASSUME NEW b \in Board, NEW c \in Cell, b[c] = "empty", NEW p \in {"human", "ai"},
           NEW q \in {"human", "ai"}, q # p, NEW e, e = [b EXCEPT ![c] = p]
    PROVE  HasLine(e, q) <=> HasLine(b, q)
<1>1. \A x \in Cell : e[x] = q <=> b[x] = q
  BY DEF Board
<1> QED BY <1>1 DEF HasLine, isInBoard

\* An empty board has no line and no stone.
LEMMA NewBoardPlain ==
    /\ NewBoard \in Board
    /\ \A p \in {"human", "ai"} : ~HasLine(NewBoard, p) /\ Stones(NewBoard, p) = 0
    /\ LineLength > 1 => \A c \in Cell : ~checkWin(NewBoard, c, "human")
<1>0. LineLength \in Nat \ {0}
  BY AiAssumption
<1>1. NewBoard \in Board
  BY DEF NewBoard, Board
<1>2. ASSUME NEW p \in {"human", "ai"} PROVE ~HasLine(NewBoard, p)
  <2>1. 0 \in 0..(LineLength - 1)
    BY <1>0
  <2>2. \A x \in Cell : NewBoard[x] # p
    BY DEF NewBoard
  <2> QED BY <2>1, <2>2 DEF HasLine, isInBoard
<1>3. ASSUME NEW p \in {"human", "ai"} PROVE Stones(NewBoard, p) = 0
  <2>1. {x \in Cell : NewBoard[x] = p} = {}
    BY DEF NewBoard
  <2> QED BY <2>1, FS_EmptySet DEF Stones
<1>4. ASSUME LineLength > 1, NEW c \in Cell PROVE ~checkWin(NewBoard, c, "human")
  <2>1. ASSUME NEW d \in Directions, NEW sign PROVE RunFrom(NewBoard, c, d, sign, "human") = 0
    <3> DEFINE r == RunFrom(NewBoard, c, d, sign, "human")
    <3>1. r \in 0..(LineLength - 1) /\ \A j \in 1..r : Own(NewBoard, c, d, sign * j, "human")
      BY RunCounts
    <3>2. \A j \in 1..r : FALSE
      BY <3>1 DEF Own, isInBoard, NewBoard
    <3> HIDE DEF r
    <3>3. r = 0
      BY <1>0, <3>1, <3>2
    <3> QED BY <3>3 DEF r
  <2> QED BY <1>0, <1>4, <2>1 DEF checkWin
<1> QED BY <1>1, <1>2, <1>3, <1>4

\* The board of a game that goes on: no line, as many stones of each side, a
\* cell left; and after the program's move the human can win only if there were
\* two ways before it.
GoesOn ==
    /\ ~HasLine(board_, "human") /\ ~HasLine(board_, "ai")
    /\ Stones(board_, "human") = Stones(board_, "ai")
    /\ moveCount_ = Stones(board_, "human") + Stones(board_, "ai")
    /\ moveCount_ < BOARD_SIZE * BOARD_SIZE

\* Where the human can win next, two threats stood before the program's move.
TwoWays ==
    LineLength > 1 => \A c \in Empty(board_) : checkWin(board_, c, "human") => Cardinality(threats) >= 2

\* The inductive invariant behind GameSound.
AiInv == AiTypeOK /\ GoesOn /\ TwoWays /\ AnswerTrue /\ WinsOnlyByTwoThreats

\* A game has at least no moves.
LEMMA NoMoves == 0 \in 0..(BOARD_SIZE * BOARD_SIZE)
<1>1. BOARD_SIZE * BOARD_SIZE \in Nat
  BY AiAssumption
<1> QED BY <1>1

\* A new game is as the invariant wants it.
LEMMA FreshGame ==
    ASSUME board_' = NewBoard, moveCount_' = 0
    PROVE  GoesOn' /\ TwoWays'
<1>1. BOARD_SIZE * BOARD_SIZE > 0
  BY AiAssumption
<1>2. GoesOn'
  BY <1>1, NewBoardPlain DEF GoesOn
<1>3. TwoWays'
  BY NewBoardPlain DEF TwoWays, Empty
<1> QED BY <1>2, <1>3

\* A full board is one on which every cell was played.
LEMMA FullBoard ==
    ASSUME NEW b \in Board, NEW n \in Nat, n = Stones(b, "human") + Stones(b, "ai")
    PROVE  /\ isDraw(n) <=> Stones(b, "empty") = 0
           /\ ~isDraw(n) => Empty(b) # {}
           /\ n <= BOARD_SIZE * BOARD_SIZE
<1>1. BOARD_SIZE * BOARD_SIZE \in Nat
  BY AiAssumption
<1>2. /\ Stones(b, "empty") \in Nat /\ Stones(b, "human") \in Nat /\ Stones(b, "ai") \in Nat
      /\ Stones(b, "empty") + Stones(b, "human") + Stones(b, "ai") = BOARD_SIZE * BOARD_SIZE
  BY StonesType
<1>3. isDraw(n) <=> Stones(b, "empty") = 0
  BY <1>1, <1>2 DEF isDraw
<1>4. Empty(b) = {} => Stones(b, "empty") = 0
  BY FS_EmptySet DEF Empty, Stones
<1> QED BY <1>1, <1>2, <1>3, <1>4

\* The human's stone ends the game.
LEMMA HumanEndsStep ==
    ASSUME AiInv, NEW c \in Cell, HumanEnds(c)
    PROVE  AiInv'
<1> DEFINE b == [board_ EXCEPT ![c] = "human"]
<1>0. board_ \in Board /\ moveCount_ \in Nat /\ board_[c] = "empty" /\ BOARD_SIZE * BOARD_SIZE \in Nat
  BY AiAssumption DEF AiInv, AiTypeOK, Board, HumanEnds, isValidMove
<1>1. /\ b \in Board /\ Stones(b, "human") = Stones(board_, "human") + 1
      /\ Stones(b, "ai") = Stones(board_, "ai")
  BY <1>0, StonesPut
<1>2. HasLine(b, "human") <=> checkWin(b, c, "human")
  BY <1>0, NewLine DEF AiInv, GoesOn
<1>3. ~HasLine(b, "ai")
  BY <1>0, OtherLines DEF AiInv, GoesOn
<1>4. isDraw(moveCount_ + 1) <=> Stones(b, "empty") = 0
  <2>0. /\ Stones(board_, "human") \in Nat /\ Stones(board_, "ai") \in Nat
        /\ moveCount_ = Stones(board_, "human") + Stones(board_, "ai")
    BY <1>0, StonesType DEF AiInv, GoesOn
  <2>1. moveCount_ + 1 = Stones(b, "human") + Stones(b, "ai")
    BY <1>1, <2>0
  <2> QED BY <1>0, <1>1, <2>1, FullBoard
<1>5. /\ checkWin(b, c, "human") \/ isDraw(moveCount_ + 1)
      /\ board_' = NewBoard /\ moveCount_' = 0 /\ present' = FALSE /\ shown' = b /\ threats' = threats
      /\ answer' = IF checkWin(b, c, "human") THEN "human" ELSE "draw"
  BY DEF HumanEnds, Ends
<1> HIDE DEF b
<1>6. GoesOn' /\ TwoWays'
  BY <1>5, FreshGame
<1>7. AiTypeOK'
  BY <1>5, NoMoves, NewBoardPlain DEF AiInv, AiTypeOK, Board
<1>8. AnswerTrue'
  BY <1>2, <1>3, <1>4, <1>5, <1>6 DEF AnswerTrue, GoesOn
<1>9. WinsOnlyByTwoThreats'
  <2> SUFFICES ASSUME checkWin(b, c, "human"), LineLength > 1 PROVE Cardinality(threats) >= 2
    BY <1>5 DEF WinsOnlyByTwoThreats
  <2>1. checkWin(board_, c, "human")
    <3>1. \A x \in Cell \ {c} : b[x] = "human" => board_[x] = "human"
      BY <1>0 DEF b, Board
    <3> QED BY <3>1, WinMonotone
  <2>2. c \in Empty(board_)
    BY <1>0 DEF Empty
  <2> QED BY <2>1, <2>2 DEF AiInv, TwoWays
<1> QED BY <1>6, <1>7, <1>8, <1>9 DEF AiInv

\* Both play and the game goes on, or the program's stone ends it.
LEMMA TurnStep ==
    ASSUME AiInv, NEW c \in Cell, Turn(c)
    PROVE  AiInv'
<1> DEFINE b == [board_ EXCEPT ![c] = "human"]
           m == getBestMove(b)
           e == [b EXCEPT ![m] = "ai"]
<1>0. board_ \in Board /\ moveCount_ \in Nat /\ board_[c] = "empty" /\ BOARD_SIZE * BOARD_SIZE \in Nat
  BY AiAssumption DEF AiInv, AiTypeOK, Board, Turn, isValidMove
<1>1. /\ b \in Board /\ Stones(b, "human") = Stones(board_, "human") + 1
      /\ Stones(b, "ai") = Stones(board_, "ai")
  BY <1>0, StonesPut
<1>2. /\ ~checkWin(b, c, "human") /\ ~isDraw(moveCount_ + 1) /\ threats' = Wins(b, "human")
      /\ IF checkWin(e, m, "ai") \/ isDraw(moveCount_ + 2)
         THEN Ends(e, IF checkWin(e, m, "ai") THEN "ai" ELSE "draw")
         ELSE /\ board_' = e /\ moveCount_' = moveCount_ + 2 /\ present' = TRUE
              /\ answer' = "none" /\ shown' = e
  BY DEF Turn
<1>3. ~HasLine(b, "human") /\ ~HasLine(b, "ai")
  BY <1>0, <1>2, NewLine, OtherLines DEF AiInv, GoesOn
<1>4. m \in Empty(b) /\ (Urgent(b) # {} => m \in Urgent(b))
  <2>0. /\ Stones(board_, "human") \in Nat /\ Stones(board_, "ai") \in Nat
        /\ moveCount_ = Stones(board_, "human") + Stones(board_, "ai")
    BY <1>0, StonesType DEF AiInv, GoesOn
  <2>1. moveCount_ + 1 = Stones(b, "human") + Stones(b, "ai")
    BY <1>1, <2>0
  <2>2. Empty(b) # {}
    <3>1. moveCount_ + 1 \in Nat
      BY <1>0
    <3> QED BY <1>1, <1>2, <2>1, <3>1, FullBoard
  <2> QED BY <2>2, BestMove
<1> HIDE DEF b, m
<1>5. m \in Cell /\ b[m] = "empty"
  BY <1>4 DEF Empty
<1>6. /\ e \in Board /\ Stones(e, "ai") = Stones(b, "ai") + 1 /\ Stones(e, "human") = Stones(b, "human")
      /\ \A x \in Empty(e) : x \in Empty(b) /\ x # m
  BY <1>1, <1>5, StonesPut
<1>7. HasLine(e, "ai") <=> checkWin(e, m, "ai")
  BY <1>1, <1>3, <1>5, NewLine
<1>8. ~HasLine(e, "human")
  BY <1>1, <1>3, <1>5, OtherLines
<1>9. /\ moveCount_ + 2 = Stones(e, "human") + Stones(e, "ai")
      /\ Stones(e, "human") = Stones(e, "ai")
      /\ isDraw(moveCount_ + 2) <=> Stones(e, "empty") = 0
      /\ moveCount_ + 2 <= BOARD_SIZE * BOARD_SIZE
  <2>0. /\ Stones(board_, "human") \in Nat /\ Stones(board_, "ai") \in Nat
        /\ moveCount_ = Stones(board_, "human") + Stones(board_, "ai")
        /\ Stones(board_, "human") = Stones(board_, "ai")
    BY <1>0, StonesType DEF AiInv, GoesOn
  <2>1. /\ moveCount_ + 2 = Stones(e, "human") + Stones(e, "ai")
        /\ Stones(e, "human") = Stones(e, "ai")
    BY <1>1, <1>6, <2>0
  <2> QED BY <1>0, <1>6, <2>1, FullBoard
<1>10. threats' \subseteq Cell
  BY <1>2 DEF Wins, Empty
<1> HIDE DEF e
<1>11. CASE checkWin(e, m, "ai") \/ isDraw(moveCount_ + 2)
  <2>1. /\ board_' = NewBoard /\ moveCount_' = 0 /\ present' = FALSE /\ shown' = e
        /\ answer' = IF checkWin(e, m, "ai") THEN "ai" ELSE "draw"
    BY <1>2, <1>11 DEF Ends
  <2>2. GoesOn' /\ TwoWays'
    BY <2>1, FreshGame
  <2>3. AiTypeOK'
    BY <1>10, <2>1, NoMoves, NewBoardPlain DEF AiTypeOK, Board
  <2>4. AnswerTrue'
    BY <1>7, <1>8, <1>9, <1>11, <2>1, <2>2 DEF AnswerTrue, GoesOn
  <2>5. WinsOnlyByTwoThreats'
    BY <2>1 DEF WinsOnlyByTwoThreats
  <2> QED BY <2>2, <2>3, <2>4, <2>5 DEF AiInv
<1>12. CASE ~checkWin(e, m, "ai") /\ ~isDraw(moveCount_ + 2)
  <2>1. board_' = e /\ moveCount_' = moveCount_ + 2 /\ present' = TRUE /\ answer' = "none" /\ shown' = e
    BY <1>2, <1>12
  <2>2. GoesOn'
    BY <1>0, <1>7, <1>8, <1>9, <1>12, <2>1 DEF GoesOn, isDraw
  <2>3. AiTypeOK'
    BY <1>0, <1>6, <1>9, <1>10, <2>1 DEF AiTypeOK, Board
  <2>4. AnswerTrue'
    BY <1>7, <1>8, <1>9, <1>12, <2>1, <2>2 DEF AnswerTrue, GoesOn
  <2>5. WinsOnlyByTwoThreats'
    BY <2>1 DEF WinsOnlyByTwoThreats
  <2>6. TwoWays'
    <3> SUFFICES ASSUME LineLength > 1, NEW x \in Empty(e), checkWin(e, x, "human")
                 PROVE  Cardinality(Wins(b, "human")) >= 2
      BY <1>2, <2>1 DEF TwoWays
    <3>1. x \in Empty(b) /\ x # m /\ x \in Cell
      BY <1>6 DEF Empty
    <3>2. x \in Wins(b, "human")
      <4>1. \A y \in Cell \ {x} : e[y] = "human" => b[y] = "human"
        BY <1>1, <1>5 DEF e, Board
      <4>2. checkWin(b, x, "human")
        BY <3>1, <4>1, WinMonotone
      <4> QED BY <3>1, <4>2 DEF Wins
    <3>3. m \in Urgent(b)
      BY <1>4, <3>2 DEF Urgent
    <3>4. m \notin Wins(b, "ai")
      <4>1. \A y \in Cell \ {m} : b[y] = "ai" => e[y] = "ai"
        BY <1>1, <1>5 DEF e, Board
      <4>2. ~checkWin(b, m, "ai")
        BY <1>5, <1>12, <4>1, WinMonotone
      <4> QED BY <4>2 DEF Wins
    <3>5. m \in Wins(b, "human")
      BY <3>3, <3>4 DEF Urgent
    <3>6. IsFiniteSet(Wins(b, "human"))
      BY CellType, FS_Subset DEF Wins, Empty
    <3>7. Cardinality({x} \cup {m}) = 2
      <4>1. IsFiniteSet({x}) /\ Cardinality({x}) = 1 /\ m \notin {x}
        BY <3>1, FS_Singleton
      <4>2. Cardinality({x} \cup {m}) = Cardinality({x}) + 1
        BY <4>1, FS_AddElement
      <4> QED BY <4>1, <4>2
    <3>8. Cardinality({x} \cup {m}) <= Cardinality(Wins(b, "human"))
      BY <3>2, <3>5, <3>6, FS_Subset
    <3>9. Cardinality(Wins(b, "human")) \in Nat
      BY <3>6, FS_CardinalityType
    <3> QED BY <3>7, <3>8, <3>9
  <2> QED BY <2>2, <2>3, <2>4, <2>5, <2>6 DEF AiInv
<1> QED BY <1>11, <1>12

\* For every size of board, length of line and reach: what the answer says of the
\* winner is what the board says, though checkWin looks only along the last
\* stone, and the human wins only by two threats at once (getBestMove).
THEOREM GameSoundCorrect == AiSpec => []GameSound
<1>1. AiInit => AiInv
  <2> SUFFICES ASSUME AiInit PROVE AiInv
    OBVIOUS
  <2>1. BOARD_SIZE * BOARD_SIZE > 0 /\ BOARD_SIZE * BOARD_SIZE \in Nat
    BY AiAssumption
  <2>2. AiTypeOK
    BY NoMoves, NewBoardPlain DEF AiTypeOK, Board, AiInit
  <2>3. GoesOn
    BY <2>1, NewBoardPlain DEF GoesOn, AiInit
  <2>4. TwoWays
    BY NewBoardPlain DEF TwoWays, Empty, AiInit
  <2>5. AnswerTrue /\ WinsOnlyByTwoThreats
    BY <2>3 DEF AnswerTrue, WinsOnlyByTwoThreats, GoesOn, AiInit
  <2> QED BY <2>2, <2>3, <2>4, <2>5 DEF AiInv
<1>2. AiInv /\ [AiNext]_aiVars => AiInv'
  <2> SUFFICES ASSUME AiInv, [AiNext]_aiVars PROVE AiInv'
    OBVIOUS
  <2>0. BOARD_SIZE * BOARD_SIZE \in Nat
    BY AiAssumption
  <2>1. CASE Start \/ Leave
    <3>1. /\ board_' = NewBoard /\ moveCount_' = 0 /\ present' \in BOOLEAN
          /\ answer' = "start" /\ shown' = NewBoard /\ threats' = {}
      BY <2>1 DEF Start, Leave
    <3>2. GoesOn' /\ TwoWays'
      BY <3>1, FreshGame
    <3>3. AiTypeOK'
      BY <3>1, NoMoves, NewBoardPlain DEF AiTypeOK, Board
    <3>4. AnswerTrue' /\ WinsOnlyByTwoThreats'
      BY <3>1, <3>2 DEF AnswerTrue, WinsOnlyByTwoThreats, GoesOn
    <3> QED BY <3>2, <3>3, <3>4 DEF AiInv
  <2>2. ASSUME NEW c, InvalidMove(c) PROVE AiInv'
    <3>1. /\ board_' = board_ /\ moveCount_' = moveCount_ /\ threats' = threats
          /\ present' = TRUE /\ answer' = "invalid"
      BY <2>2 DEF InvalidMove
    <3>2. GoesOn' /\ TwoWays'
      BY <3>1 DEF AiInv, GoesOn, TwoWays
    <3>3. AiTypeOK'
      BY <3>1 DEF AiInv, AiTypeOK
    <3>4. AnswerTrue' /\ WinsOnlyByTwoThreats'
      BY <3>1, <3>2 DEF AnswerTrue, WinsOnlyByTwoThreats, GoesOn
    <3> QED BY <3>2, <3>3, <3>4 DEF AiInv
  <2>3. CASE UNCHANGED aiVars
    BY <2>3 DEF aiVars, AiInv, AiTypeOK, GoesOn, TwoWays, AnswerTrue, WinsOnlyByTwoThreats
  <2> QED BY <2>1, <2>2, <2>3, HumanEndsStep, TurnStep DEF AiNext
<1>3. AiInv => GameSound
  BY DEF AiInv, GameSound
<1> QED BY <1>1, <1>2, <1>3, PTL DEF AiSpec

-----------------------------------------------------------------------------
(* A connection. *)

\* A unit of a message that was sent.
UnitOf(q) == [t : {"line", "field", "end", "byte", "frame"}, of : 1..Len(q)]

\* A request as the parser keeps it.
RequestOf(q) == [of : 0..Len(q), method : {"kInvalid", "GET", "POST", "OPTIONS"}, len : Int, body : 0..Len(q)]

\* A buffer b, and behind it what is on its way but for the handshake.
StreamOf(b, w, k) == b \o SubSeq(w, k + 1, Len(w))

\* What was received and not consumed, and behind it what is on its way.
Stream == StreamOf(buf, wire, shake)

\* The i-th of the messages q.
Of(q, i) == Shape[q[i]]

\* It is a frame.
IsFrame(q, i) == Of(q, i).kind \in FrameKinds

\* Message i begins at place j of stream s, or is not sent yet and s ends before j.
Begins(q, s, j, i) ==
    \/ j = Len(s) + 1 /\ i = Len(q) + 1
    \/ j \in 1..Len(s) /\ i \in 1..Len(q) /\ s[j] = Unit(IF IsFrame(q, i) THEN "frame" ELSE "line", i)

\* At place j of s there are the bytes of message i, and then the next message.
BytesAt(q, s, j, i) ==
    /\ \A k \in 0..(Of(q, i).bytes - 1) : j + k \in 1..Len(s) /\ s[j + k] = Unit("byte", i)
    /\ Begins(q, s, j + Of(q, i).bytes, i + 1)

\* Behind each unit of a stream comes the rest of its message.
RestFollows(q, s, j) ==
    LET i == s[j].of
    IN  /\ s[j].t \in {"line", "field", "end"} => ~IsFrame(q, i)
        /\ s[j].t = "frame" => IsFrame(q, i)
        /\ s[j].t = "line" => j + 1 <= Len(s) /\ s[j + 1] = Unit(IF Of(q, i).len = -1 THEN "end" ELSE "field", i)
        /\ s[j].t = "field" => j + 1 <= Len(s) /\ s[j + 1] = Unit("end", i) /\ Of(q, i).len # -1
        /\ s[j].t \in {"end", "frame"} => BytesAt(q, s, j + 1, i)

\* A stream of whole messages, from anywhere in the first of them, in their order.
WholeMessages(q, s) ==
    /\ \A j \in 1..Len(s) : RestFollows(q, s, j)
    /\ \A j, k \in 1..Len(s) : j <= k => s[j].of <= s[k].of

\* The variables have their types, and the parser is idle without a connection.
HttpTypes ==
    /\ HttpTypeOK /\ Len(sent) <= MaxSent
    /\ buf \in Seq(UnitOf(sent)) /\ wire \in Seq(UnitOf(sent) \cup {Unit("hello", 0)})
    /\ tcp # "down" => shake <= Len(wire) /\ \A j \in (shake + 1)..Len(wire) : wire[j] \in UnitOf(sent)
    /\ request \in RequestOf(sent) /\ (state_ = "body" => request.len > 0)
    /\ handled \in Seq([of : 0..Len(sent), body : 0..Len(sent)])
    /\ answered \in Seq([of : Nat, status : Nat]) /\ frames \in Seq(Nat)
    /\ refills \in Nat /\ admitted \in Nat
    /\ tcp = "down" => pc = "wait"
    /\ pc # "wait" => shake = 0

\* Frames come after an upgrade, and nothing but frames; nothing after a close.
UpgradeFirst ==
    \A i, j \in DOMAIN sent :
        /\ i < j => sent[i] # "close" /\ (sent[i] = "upgrade" => IsFrame(sent, j))
        /\ IsFrame(sent, j) => \E k \in 1..(j - 1) : sent[k] = "upgrade"

\* The client has sent nothing malformed.
WellFormed == \A i \in DOMAIN sent : sent[i] \notin {"nolen", "badlen", "method", "version"}

\* The parser stands behind the first n messages, or inside the next one.
ParserAt(n) ==
    /\ state_ = "line" => request.method = "kInvalid" /\ request.len = -1 /\ Begins(sent, Stream, 1, n + 1)
    /\ state_ # "line" =>
          /\ n + 1 \in 1..Len(sent) /\ ~IsFrame(sent, n + 1) /\ request.of = n + 1
          /\ request.method = Of(sent, n + 1).method
    /\ state_ = "headers" =>
          /\ Stream # <<>>
          /\ \/ Stream[1] = Unit("field", n + 1) /\ request.len = -1
             \/ Stream[1] = Unit("end", n + 1) /\ request.len = Of(sent, n + 1).len
    /\ state_ \in {"body", "all"} => request.len = Of(sent, n + 1).len
    /\ state_ = "body" => BytesAt(sent, Stream, 1, n + 1)
    /\ state_ = "all" => /\ Begins(sent, Stream, 1, n + 2)
                         /\ Of(sent, n + 1).len > 0 => request.body = n + 1

\* A connection that has become a WebSocket has its upgrade behind it.
FramesLate(n) ==
    ws \/ pc = "frames" \/ frames # <<>> =>
        /\ state_ = "line"
        /\ \E i \in 1..n : sent[i] = "upgrade"

\* On an open connection the first n messages were served, each with its own body,
\* and nothing behind them was answered.
FirstServed(n) ==
    /\ n = Len(handled) + Len(frames)
    /\ \A i \in DOMAIN handled : /\ handled[i].of = i
                                 /\ Of(sent, i).len > 0 => handled[i].body = i
    /\ \A i \in DOMAIN frames : frames[i] = Len(handled) + i
    /\ \A i \in DOMAIN answered : answered[i].of <= n /\ answered[i].status # 400

\* The parser keeps its place until it refuses something; of a client that sends
\* no malformed message it keeps it to the end.
InStep ==
    tcp = "connected" \/ (tcp = "disconnecting" /\ WellFormed) =>
        \E n \in 0..Len(sent) : ParserAt(n) /\ FramesLate(n) /\ (tcp = "connected" => FirstServed(n))

\* The inductive invariant behind ConnectionSound.
HttpInv ==
    /\ HttpTypes /\ UpgradeFirst /\ (tcp # "down" => WholeMessages(sent, Stream))
    /\ InStep
    /\ (WellFormed => ~Refused /\ ~aborted)
    /\ AnswersInOrder
    /\ admitted + tokens <= BucketCapacity + refills

-----------------------------------------------------------------------------
(* The messages. *)

\* What the kinds of message have in common: body bytes only for a POST that
\* announces them, frames are not requests, only an upgrade asks for /ws, and four
\* kinds are malformed.
KindFacts(k, m) ==
    /\ m.bytes \in Nat /\ m.len \in Int /\ m.version \in BOOLEAN
    /\ m.kind \in FrameKinds <=> k \in {"text", "ping", "close"}
    /\ m.kind \in FrameKinds \/ m.kind = "request"
    /\ m.kind = "request" =>
          /\ m.len > 0 => m.method = "POST" /\ m.bytes = m.len
          /\ m.len <= 0 => m.bytes = 0
    /\ m.kind = "request" /\ k \notin {"nolen", "badlen", "method", "version"} =>
          /\ m.method \in KnownMethods /\ m.version
          /\ m.method = "POST" => m.len >= 0
    /\ m.path = "ws" => k = "upgrade"
    /\ m.method # "kInvalid"

\* Each kind of message has these.
LEMMA ShapeFacts ==
    ASSUME NEW k \in Message
    PROVE  KindFacts(k, Shape[k])
<1> USE DEF KindFacts, FrameKinds, KnownMethods
<1>1. ASSUME k = "get" PROVE KindFacts(k, Shape[k])
  <2>1. Shape[k] = [kind |-> "request", method |-> "GET", path |-> "page", len |-> -1, bytes |-> 0, version |-> TRUE]
    BY <1>1 DEF Shape, Request
  <2> QED
    BY <1>1, <2>1
<1>2. ASSUME k = "post" PROVE KindFacts(k, Shape[k])
  <2>1. Shape[k] = [kind |-> "request", method |-> "POST", path |-> "page", len |-> 2, bytes |-> 2, version |-> TRUE]
    BY <1>2 DEF Shape, Request
  <2> QED
    BY <1>2, <2>1
<1>3. ASSUME k = "empty" PROVE KindFacts(k, Shape[k])
  <2>1. Shape[k] = [kind |-> "request", method |-> "POST", path |-> "page", len |-> 0, bytes |-> 0, version |-> TRUE]
    BY <1>3 DEF Shape, Request
  <2> QED
    BY <1>3, <2>1
<1>4. ASSUME k = "options" PROVE KindFacts(k, Shape[k])
  <2>1. Shape[k] = [kind |-> "request", method |-> "OPTIONS", path |-> "page", len |-> -1, bytes |-> 0, version |-> TRUE]
    BY <1>4 DEF Shape, Request
  <2> QED
    BY <1>4, <2>1
<1>5. ASSUME k = "missing" PROVE KindFacts(k, Shape[k])
  <2>1. Shape[k] = [kind |-> "request", method |-> "GET", path |-> "none", len |-> -1, bytes |-> 0, version |-> TRUE]
    BY <1>5 DEF Shape, Request
  <2> QED
    BY <1>5, <2>1
<1>6. ASSUME k = "upgrade" PROVE KindFacts(k, Shape[k])
  <2>1. Shape[k] = [kind |-> "request", method |-> "GET", path |-> "ws", len |-> -1, bytes |-> 0, version |-> TRUE]
    BY <1>6 DEF Shape, Request
  <2> QED
    BY <1>6, <2>1
<1>7. ASSUME k = "nolen" PROVE KindFacts(k, Shape[k])
  <2>1. Shape[k] = [kind |-> "request", method |-> "POST", path |-> "page", len |-> -1, bytes |-> 0, version |-> TRUE]
    BY <1>7 DEF Shape, Request
  <2> QED
    BY <1>7, <2>1
<1>8. ASSUME k = "badlen" PROVE KindFacts(k, Shape[k])
  <2>1. Shape[k] = [kind |-> "request", method |-> "POST", path |-> "page", len |-> -2, bytes |-> 0, version |-> TRUE]
    BY <1>8 DEF Shape, Request
  <2> QED
    BY <1>8, <2>1
<1>9. ASSUME k = "method" PROVE KindFacts(k, Shape[k])
  <2>1. Shape[k] = [kind |-> "request", method |-> "PATCH", path |-> "page", len |-> -1, bytes |-> 0, version |-> TRUE]
    BY <1>9 DEF Shape, Request
  <2> QED
    BY <1>9, <2>1
<1>10. ASSUME k = "version" PROVE KindFacts(k, Shape[k])
  <2>2. Request("GET", "page", -1) =
          [kind |-> "request", method |-> "GET", path |-> "page", len |-> -1, bytes |-> 0, version |-> TRUE]
    BY DEF Request
  <2>3. Shape[k] = [Request("GET", "page", -1) EXCEPT !.version = FALSE]
    BY <1>10 DEF Shape
  <2>4. DOMAIN Request("GET", "page", -1) = {"kind", "method", "path", "len", "bytes", "version"}
    BY <2>2
  <2>1. /\ Shape[k].kind = "request" /\ Shape[k].method = "GET" /\ Shape[k].path = "page"
        /\ Shape[k].len = -1 /\ Shape[k].bytes = 0 /\ Shape[k].version \in BOOLEAN
    BY <2>2, <2>3, <2>4
  <2> QED
    BY <1>10, <2>1
<1>11. ASSUME k = "text" PROVE KindFacts(k, Shape[k])
  <2>1. Shape[k] = [kind |-> "text", method |-> "none", path |-> "none", len |-> 1, bytes |-> 1, version |-> TRUE]
    BY <1>11 DEF Shape, Frame
  <2> QED
    BY <1>11, <2>1
<1>12. ASSUME k = "ping" PROVE KindFacts(k, Shape[k])
  <2>1. Shape[k] = [kind |-> "ping", method |-> "none", path |-> "none", len |-> 0, bytes |-> 0, version |-> TRUE]
    BY <1>12 DEF Shape, Frame
  <2> QED
    BY <1>12, <2>1
<1>13. ASSUME k = "close" PROVE KindFacts(k, Shape[k])
  <2>1. Shape[k] = [kind |-> "close", method |-> "none", path |-> "none", len |-> 0, bytes |-> 0, version |-> TRUE]
    BY <1>13 DEF Shape, Frame
  <2> QED
    BY <1>13, <2>1
<1>14. k \in {"get", "post", "empty", "options", "missing", "upgrade", "nolen", "badlen", "method",
             "version", "text", "ping", "close"}
  BY HttpAssumption DEF Shape
<1> HIDE DEF KindFacts
<1> QED
  BY <1>1, <1>2, <1>3, <1>4, <1>5, <1>6, <1>7, <1>8, <1>9, <1>10, <1>11, <1>12, <1>13, <1>14

\* What a suffix of a sequence is.
LEMMA DropFacts ==
    ASSUME NEW S, NEW s \in Seq(S), NEW m \in 0..Len(s)
    PROVE  /\ SubSeq(s, m + 1, Len(s)) \in Seq(S)
           /\ Len(SubSeq(s, m + 1, Len(s))) = Len(s) - m
           /\ \A j \in 1..(Len(s) - m) : SubSeq(s, m + 1, Len(s))[j] = s[j + m]
OBVIOUS

\* An element of a sequence is of its type.
LEMMA Element ==
    ASSUME NEW S, NEW s \in Seq(S), NEW j \in 1..Len(s)
    PROVE  s[j] \in S
OBVIOUS

\* A sequence over a set is one over a larger set.
LEMMA Widened ==
    ASSUME NEW S, NEW T, S \subseteq T, NEW s \in Seq(S)
    PROVE  s \in Seq(T)
OBVIOUS

-----------------------------------------------------------------------------
(* The stream of units. *)

\* t is s without its first m units.
Dropped(s, t, m) ==
    /\ m \in 0..Len(s) /\ Len(t) \in Nat /\ Len(s) \in Nat
    /\ Len(t) = Len(s) - m /\ \A j \in 1..Len(t) : t[j] = s[j + m]

\* SubSeq takes the first units off.
LEMMA DropIs ==
    ASSUME NEW S, NEW s \in Seq(S), NEW m \in 0..Len(s)
    PROVE  SubSeq(s, m + 1, Len(s)) \in Seq(S) /\ Dropped(s, SubSeq(s, m + 1, Len(s)), m)
BY DropFacts DEF Dropped

\* t is s with more units behind it.
Grown(s, t) ==
    /\ Len(t) \in Nat /\ Len(s) \in Nat
    /\ Len(t) >= Len(s) /\ \A j \in 1..Len(s) : t[j] = s[j]

\* Where messages begin does not change when consumed units go.
LEMMA BeginsDropped ==
    ASSUME NEW q, Len(q) \in Nat, NEW s, NEW t, NEW m, Dropped(s, t, m), NEW j \in Nat \ {0}, NEW i \in Nat
    PROVE  Begins(q, t, j, i) <=> Begins(q, s, j + m, i)
<1>1. j = Len(t) + 1 <=> j + m = Len(s) + 1
  BY DEF Dropped
<1>2. j \in 1..Len(t) <=> j + m \in 1..Len(s)
  BY DEF Dropped
<1>3. j \in 1..Len(t) => t[j] = s[j + m]
  BY DEF Dropped
<1> QED
  BY <1>1, <1>2, <1>3 DEF Begins

\* Nor do the places of their bytes.
LEMMA BytesDropped ==
    ASSUME NEW q, Len(q) \in Nat, NEW s, NEW t, NEW m, Dropped(s, t, m), NEW j \in Nat \ {0},
           NEW i \in 1..Len(q), Of(q, i).bytes \in Nat
    PROVE  BytesAt(q, t, j, i) <=> BytesAt(q, s, j + m, i)
<1> DEFINE b == Of(q, i).bytes
<1>1. Begins(q, t, j + b, i + 1) <=> Begins(q, s, (j + b) + m, i + 1)
  BY BeginsDropped
<1>2. (j + b) + m = (j + m) + b
  BY DEF Dropped
<1>3. ASSUME NEW k \in 0..(b - 1)
      PROVE  (j + k \in 1..Len(t) /\ t[j + k] = Unit("byte", i))
                <=> ((j + m) + k \in 1..Len(s) /\ s[(j + m) + k] = Unit("byte", i))
  <2>1. j + k \in 1..Len(t) <=> (j + m) + k \in 1..Len(s)
    BY DEF Dropped
  <2>2. (j + m) + k = (j + k) + m
    BY DEF Dropped
  <2>3. j + k \in 1..Len(t) => t[j + k] = s[(j + k) + m]
    BY DEF Dropped
  <2> QED
    BY <2>1, <2>2, <2>3
<1> QED
  BY <1>1, <1>2, <1>3 DEF BytesAt

\* Nor what follows a unit.
LEMMA RestDropped ==
    ASSUME NEW q \in Seq(Message), NEW s \in Seq(UnitOf(q)), NEW t \in Seq(UnitOf(q)), NEW m, Dropped(s, t, m),
           NEW j \in 1..Len(t)
    PROVE  RestFollows(q, t, j) <=> RestFollows(q, s, j + m)
<1>1. j + m \in 1..Len(s) /\ t[j] = s[j + m] /\ m \in Nat /\ j \in Nat \ {0}
  BY DEF Dropped
<1>2. t[j] \in UnitOf(q)
  OBVIOUS
<1>3. t[j].of \in 1..Len(q)
  BY <1>2 DEF UnitOf
<1>4. Of(q, t[j].of).bytes \in Nat
  BY <1>3, ShapeFacts DEF KindFacts, Of
<1>5. j + 1 <= Len(t) <=> (j + m) + 1 <= Len(s)
  BY DEF Dropped
<1>6. j + 1 <= Len(t) => t[j + 1] = s[(j + m) + 1]
  <2>1. (j + 1) + m = (j + m) + 1
    BY <1>1
  <2> QED
    BY <2>1 DEF Dropped
<1>7. BytesAt(q, t, j + 1, t[j].of) <=> BytesAt(q, s, (j + m) + 1, t[j].of)
  <2>1. (j + 1) + m = (j + m) + 1 /\ j + 1 \in Nat \ {0}
    BY <1>1
  <2> QED
    BY <2>1, <1>3, <1>4, BytesDropped
<1> QED
  BY <1>1, <1>3, <1>5, <1>6, <1>7 DEF RestFollows

\* A stream whose first units were consumed still has its messages whole.
LEMMA WholeDropped ==
    ASSUME NEW q \in Seq(Message), NEW s \in Seq(UnitOf(q)), NEW t \in Seq(UnitOf(q)), NEW m, Dropped(s, t, m),
           WholeMessages(q, s)
    PROVE  WholeMessages(q, t)
<1>1. ASSUME NEW j \in 1..Len(t) PROVE RestFollows(q, t, j)
  <2>1. j + m \in 1..Len(s)
    BY DEF Dropped
  <2>2. RestFollows(q, s, j + m)
    BY <2>1 DEF WholeMessages
  <2> QED
    BY <2>2, RestDropped
<1>2. ASSUME NEW j \in 1..Len(t), NEW k \in 1..Len(t), j <= k PROVE t[j].of <= t[k].of
  <2>1. j + m \in 1..Len(s) /\ k + m \in 1..Len(s) /\ j + m <= k + m /\ t[j] = s[j + m] /\ t[k] = s[k + m]
    BY <1>2 DEF Dropped
  <2> QED
    BY <2>1 DEF WholeMessages
<1> QED
  BY <1>1, <1>2 DEF WholeMessages

\* What a concatenation is.
LEMMA ConcatFacts ==
    ASSUME NEW S, NEW s \in Seq(S), NEW t \in Seq(S)
    PROVE  /\ s \o t \in Seq(S) /\ Len(s \o t) = Len(s) + Len(t)
           /\ \A j \in 1..Len(s) : (s \o t)[j] = s[j]
           /\ \A j \in 1..Len(t) : (s \o t)[Len(s) + j] = t[j]
OBVIOUS

\* Short concatenations.
LEMMA ConcatShort ==
    ASSUME NEW S, NEW a \in S, NEW b \in S, NEW c \in S
    PROVE  /\ LET s == <<a>> \o <<>> \o <<b>> IN s \in Seq(S) /\ Len(s) = 2 /\ s[1] = a /\ s[2] = b
           /\ LET s == <<a>> \o <<c>> \o <<b>> IN s \in Seq(S) /\ Len(s) = 3 /\ s[1] = a /\ s[2] = c /\ s[3] = b
<1>1. ASSUME NEW s \in Seq(S), NEW d \in S
      PROVE  /\ s \o <<d>> \in Seq(S) /\ Len(s \o <<d>>) = Len(s) + 1
             /\ \A j \in 1..Len(s) : (s \o <<d>>)[j] = s[j]
             /\ (s \o <<d>>)[Len(s) + 1] = d
  OBVIOUS
<1>2. <<a>> \in Seq(S) /\ Len(<<a>>) = 1 /\ <<a>>[1] = a /\ <<a>> \o <<>> = <<a>>
  OBVIOUS
<1>3. LET s == <<a>> \o <<b>> IN s \in Seq(S) /\ Len(s) = 2 /\ s[1] = a /\ s[2] = b
  BY <1>1, <1>2
<1>4. LET s == <<a>> \o <<c>> IN s \in Seq(S) /\ Len(s) = 2 /\ s[1] = a /\ s[2] = c
  BY <1>1, <1>2
<1>5. LET s == <<a>> \o <<c>> \o <<b>> IN s \in Seq(S) /\ Len(s) = 3 /\ s[1] = a /\ s[2] = c /\ s[3] = b
  BY <1>1, <1>4
<1> QED
  BY <1>2, <1>3, <1>5

\* As many copies of a value as one likes are a sequence.
LEMMA CopiesFacts ==
    ASSUME NEW S, NEW a \in S, NEW n \in Nat
    PROVE  /\ [j \in 1..n |-> a] \in Seq(S) /\ Len([j \in 1..n |-> a]) = n
           /\ \A j \in 1..n : [x \in 1..n |-> a][j] = a
OBVIOUS

\* A buffer b, and units w on their way, the first k of which belong to the handshake.
Arriving(q, b, w, k) ==
    /\ b \in Seq(UnitOf(q)) /\ w \in Seq(UnitOf(q) \cup {Unit("hello", 0)}) /\ k \in 0..Len(w)
    /\ \A j \in (k + 1)..Len(w) : w[j] \in UnitOf(q)

\* The stream, unit by unit.
LEMMA StreamFacts ==
    ASSUME NEW q, NEW b, NEW w, NEW k, Arriving(q, b, w, k)
    PROVE  /\ StreamOf(b, w, k) \in Seq(UnitOf(q))
           /\ Len(StreamOf(b, w, k)) = Len(b) + (Len(w) - k)
           /\ \A j \in 1..Len(b) : StreamOf(b, w, k)[j] = b[j]
           /\ \A j \in 1..(Len(w) - k) : StreamOf(b, w, k)[Len(b) + j] = w[j + k]
<1> USE DEF Arriving
<1> DEFINE z == SubSeq(w, k + 1, Len(w))
<1>1. /\ z \in Seq(UnitOf(q) \cup {Unit("hello", 0)}) /\ Len(z) = Len(w) - k
      /\ \A j \in 1..(Len(w) - k) : z[j] = w[j + k]
  BY DropFacts
<1>2. Len(z) \in Nat /\ \A j \in 1..Len(z) : z[j] \in UnitOf(q)
  <2>1. ASSUME NEW j \in 1..Len(z) PROVE z[j] \in UnitOf(q)
    <3>1. j + k \in (k + 1)..Len(w)
      BY <1>1
    <3> QED
      BY <3>1, <1>1
  <2> QED
    BY <2>1, <1>1
<1>3. z \in Seq(UnitOf(q))
  <2> HIDE DEF z
  <2>1. z = [j \in 1..Len(z) |-> z[j]]
    BY <1>1
  <2>2. [j \in 1..Len(z) |-> z[j]] \in Seq(UnitOf(q))
    BY <1>2
  <2> QED
    BY <2>1, <2>2
<1> HIDE DEF z
<1>4. /\ b \o z \in Seq(UnitOf(q)) /\ Len(b \o z) = Len(b) + Len(z)
      /\ \A j \in 1..Len(b) : (b \o z)[j] = b[j]
      /\ \A j \in 1..Len(z) : (b \o z)[Len(b) + j] = z[j]
  BY <1>3, ConcatFacts
<1> QED
  BY <1>1, <1>4 DEF StreamOf, z

\* The units of one message.
LEMMA UnitsFacts ==
    ASSUME NEW k \in Message, NEW i \in Nat,
           NEW h, h = IF Shape[k].kind \in FrameKinds THEN 1 ELSE IF Shape[k].len = -1 THEN 2 ELSE 3
    PROVE  LET u == Units(i, Shape[k])
           IN  /\ u \in Seq([t : {"line", "field", "end", "byte", "frame"}, of : {i}])
               /\ Len(u) = h + Shape[k].bytes
               /\ Shape[k].kind \in FrameKinds => u[1] = Unit("frame", i)
               /\ Shape[k].kind \notin FrameKinds =>
                     /\ u[1] = Unit("line", i)
                     /\ u[h] = Unit("end", i)
                     /\ Shape[k].len # -1 => u[2] = Unit("field", i)
               /\ \A j \in 1..Shape[k].bytes : u[h + j] = Unit("byte", i)
<1> DEFINE m == Shape[k]
           U == [t : {"line", "field", "end", "byte", "frame"}, of : {i}]
           head == IF m.kind \in FrameKinds THEN <<Unit("frame", i)>>
                   ELSE <<Unit("line", i)>> \o (IF m.len = -1 THEN <<>> ELSE <<Unit("field", i)>>) \o <<Unit("end", i)>>
           tail == [j \in 1..m.bytes |-> Unit("byte", i)]
<1>1. m.bytes \in Nat
  BY ShapeFacts DEF KindFacts
<1>2. /\ Unit("line", i) \in U /\ Unit("field", i) \in U /\ Unit("end", i) \in U
      /\ Unit("byte", i) \in U /\ Unit("frame", i) \in U
  BY DEF Unit
<1> HIDE DEF U
<1>3. tail \in Seq(U) /\ Len(tail) = m.bytes /\ \A j \in 1..m.bytes : tail[j] = Unit("byte", i)
  BY <1>1, <1>2, CopiesFacts
<1>4. /\ head \in Seq(U) /\ Len(head) = h
      /\ m.kind \in FrameKinds => head[1] = Unit("frame", i)
      /\ m.kind \notin FrameKinds =>
            /\ head[1] = Unit("line", i) /\ head[h] = Unit("end", i)
            /\ m.len # -1 => head[2] = Unit("field", i)
  <2>1. CASE m.kind \in FrameKinds
    BY <2>1, <1>2
  <2>2. CASE m.kind \notin FrameKinds /\ m.len = -1
    BY <2>2, <1>2, ConcatShort
  <2>3. CASE m.kind \notin FrameKinds /\ m.len # -1
    BY <2>3, <1>2, ConcatShort
  <2> QED
    BY <2>1, <2>2, <2>3
<1>5. Units(i, m) = head \o tail
  BY DEF Units
<1> HIDE DEF head, tail, m
<1>6. /\ head \o tail \in Seq(U) /\ Len(head \o tail) = Len(head) + Len(tail)
      /\ \A j \in 1..Len(head) : (head \o tail)[j] = head[j]
      /\ \A j \in 1..Len(tail) : (head \o tail)[Len(head) + j] = tail[j]
  <2>1. head \in Seq(U) /\ tail \in Seq(U)
    BY <1>3, <1>4
  <2> QED
    BY <2>1, ConcatFacts
<1>7. h \in {1, 2, 3} /\ (m.kind \notin FrameKinds => h \in {2, 3})
  BY DEF m
<1>8. Units(i, m) \in Seq(U) /\ Len(Units(i, m)) = h + m.bytes
  BY <1>3, <1>4, <1>5, <1>6
<1>9. \A j \in 1..h : Units(i, m)[j] = head[j]
  BY <1>4, <1>5, <1>6
<1>10. \A j \in 1..m.bytes : Units(i, m)[h + j] = Unit("byte", i)
  BY <1>3, <1>4, <1>5, <1>6
<1>11. /\ m.kind \in FrameKinds => Units(i, m)[1] = Unit("frame", i)
       /\ m.kind \notin FrameKinds =>
            /\ Units(i, m)[1] = Unit("line", i) /\ Units(i, m)[h] = Unit("end", i)
            /\ m.len # -1 => Units(i, m)[2] = Unit("field", i)
  <2>1. 1 \in 1..h /\ h \in 1..h /\ (m.kind \notin FrameKinds => 2 \in 1..h)
    BY <1>7
  <2> QED
    BY <2>1, <1>4, <1>9
<1> QED
  BY <1>8, <1>10, <1>11 DEF m, U

\* The units of a message, by themselves, are a whole message.
LEMMA WholeUnits ==
    ASSUME NEW r \in Seq(Message), Len(r) > 0
    PROVE  LET u == Units(Len(r), Shape[r[Len(r)]])
           IN  u \in Seq(UnitOf(r)) /\ WholeMessages(r, u) /\ Begins(r, u, 1, Len(r)) /\ Len(u) > 0
<1> DEFINE n == Len(r)
           k == r[n]
           u == Units(n, Shape[k])
           b == Shape[k].bytes
           h == IF Shape[k].kind \in FrameKinds THEN 1 ELSE IF Shape[k].len = -1 THEN 2 ELSE 3
           U == [t : {"line", "field", "end", "byte", "frame"}, of : {n}]
<1>1. n \in 1..n /\ k \in Message /\ b \in Nat
  BY ShapeFacts DEF KindFacts
<1>2. /\ u \in Seq(U) /\ Len(u) = h + b
      /\ Shape[k].kind \in FrameKinds => u[1] = Unit("frame", n)
      /\ Shape[k].kind \notin FrameKinds =>
            /\ u[1] = Unit("line", n) /\ u[h] = Unit("end", n)
            /\ Shape[k].len # -1 => u[2] = Unit("field", n)
      /\ \A j \in 1..b : u[h + j] = Unit("byte", n)
  <2>1. h = IF Shape[k].kind \in FrameKinds THEN 1 ELSE IF Shape[k].len = -1 THEN 2 ELSE 3
    OBVIOUS
  <2>2. k \in Message /\ n \in Nat
    BY <1>1
  <2> HIDE DEF h, k, n
  <2> QED
    BY <2>1, <2>2, UnitsFacts
<1>3. /\ h \in {1, 2, 3} /\ Of(r, n) = Shape[k] /\ (IsFrame(r, n) <=> Shape[k].kind \in FrameKinds)
      /\ h = 1 <=> Shape[k].kind \in FrameKinds
      /\ h = 2 <=> Shape[k].kind \notin FrameKinds /\ Shape[k].len = -1
      /\ h = 3 <=> Shape[k].kind \notin FrameKinds /\ Shape[k].len # -1
  BY DEF Of, IsFrame
<1> HIDE DEF k, u, h, b
<1>4. u \in Seq(UnitOf(r))
  <2>1. U \subseteq UnitOf(r)
    BY <1>1 DEF UnitOf
  <2> HIDE DEF U
  <2> QED
    BY <1>2, <2>1
<1>5. \A j \in 1..Len(u) : u[j].of = n
  <2>1. ASSUME NEW j \in 1..Len(u) PROVE u[j].of = n
    <3>1. u[j] \in U
      BY <1>2, Element
    <3> QED
      BY <3>1
  <2> QED
    BY <2>1
<1>6. Of(r, n).bytes = b
  BY <1>3 DEF b
<1>7. BytesAt(r, u, h + 1, n)
  <2>1. ASSUME NEW j \in 0..(b - 1) PROVE (h + 1) + j \in 1..Len(u) /\ u[(h + 1) + j] = Unit("byte", n)
    <3>1. j + 1 \in 1..b /\ (h + 1) + j = h + (j + 1) /\ h \in Nat
      BY <1>1, <1>3
    <3>2. u[h + (j + 1)] = Unit("byte", n)
      BY <3>1, <1>2
    <3>3. Len(u) = h + b
      BY <1>2
    <3> QED
      BY <3>1, <3>2, <3>3, <1>1, <1>3
  <2>2. Begins(r, u, (h + 1) + b, n + 1)
    BY <1>1, <1>2, <1>3 DEF Begins
  <2> QED
    BY <2>1, <2>2, <1>6 DEF BytesAt
<1>8. ASSUME NEW j \in 1..Len(u) PROVE RestFollows(r, u, j)
  <2>1. CASE j > h
    <3>1. j - h \in 1..b /\ h + (j - h) = j
      BY <2>1, <1>1, <1>2, <1>3
    <3>2. u[j] = Unit("byte", n)
      BY <3>1, <1>2
    <3> QED
      BY <3>2 DEF RestFollows, Unit
  <2>2. CASE j = h /\ h = 1
    <3>1. u[j] = Unit("frame", n)
      BY <2>2, <1>2, <1>3
    <3> QED
      BY <2>2, <3>1, <1>3, <1>7 DEF RestFollows, Unit
  <2>3. CASE j = h /\ h # 1
    <3>1. u[j] = Unit("end", n)
      BY <2>3, <1>2, <1>3
    <3> QED
      BY <2>3, <3>1, <1>3, <1>7 DEF RestFollows, Unit
  <2>4. CASE j = 1 /\ h # 1
    <3>1. u[1] = Unit("line", n) /\ 2 <= Len(u)
      BY <2>4, <1>1, <1>2, <1>3
    <3>2. h = 2 => u[2] = Unit("end", n) /\ Of(r, n).len = -1
      BY <1>2, <1>3
    <3>3. h = 3 => u[2] = Unit("field", n) /\ Of(r, n).len # -1
      BY <1>2, <1>3
    <3>4. u[1 + 1] = Unit(IF Of(r, n).len = -1 THEN "end" ELSE "field", n)
      BY <2>4, <3>2, <3>3, <1>3
    <3> QED
      BY <2>4, <3>1, <3>4, <1>3 DEF RestFollows, Unit
  <2>5. CASE j = 2 /\ h = 3
    <3>1. u[2] = Unit("field", n) /\ 3 <= Len(u) /\ u[3] = Unit("end", n) /\ Of(r, n).len # -1
      BY <2>5, <1>1, <1>2, <1>3
    <3> QED
      BY <2>5, <3>1, <1>3 DEF RestFollows, Unit
  <2> QED
    BY <2>1, <2>2, <2>3, <2>4, <2>5, <1>3
<1>9. WholeMessages(r, u)
  BY <1>1, <1>5, <1>8 DEF WholeMessages
<1>10. Begins(r, u, 1, n)
  <2>1. 1 \in 1..Len(u) /\ u[1] = Unit(IF IsFrame(r, n) THEN "frame" ELSE "line", n)
    BY <1>1, <1>2, <1>3
  <2> QED
    BY <2>1, <1>1 DEF Begins
<1>11. Len(u) > 0
  BY <1>1, <1>2, <1>3
<1> QED
  BY <1>4, <1>9, <1>10, <1>11 DEF u, k

\* A message was sent: q is what was sent before, r after; s and t the streams.
Appended(q, r, s, t) ==
    /\ q \in Seq(Message) /\ s \in Seq(UnitOf(q))
    /\ \E k \in Message : r = Append(q, k) /\ t = s \o Units(Len(q) + 1, Shape[k])

\* The stream then, unit by unit.
LEMMA AppendedFacts ==
    ASSUME NEW q, NEW r, NEW s, NEW t, Appended(q, r, s, t)
    PROVE  /\ q \in Seq(Message) /\ s \in Seq(UnitOf(q))
           /\ r \in Seq(Message) /\ Len(r) = Len(q) + 1 /\ Len(q) \in Nat
           /\ \A i \in 1..Len(q) : r[i] = q[i] /\ Of(r, i) = Of(q, i) /\ (IsFrame(r, i) <=> IsFrame(q, i))
           /\ UnitOf(q) \subseteq UnitOf(r)
           /\ t \in Seq(UnitOf(r)) /\ Grown(s, t)
           /\ Begins(r, t, Len(s) + 1, Len(q) + 1)
           /\ \E u \in Seq(UnitOf(r)) : WholeMessages(r, u) /\ Dropped(t, u, Len(s)) /\ \A j \in 1..Len(u) : u[j].of = Len(r)
<1>1. PICK k \in Message : r = Append(q, k) /\ t = s \o Units(Len(q) + 1, Shape[k])
  BY DEF Appended
<1>2. q \in Seq(Message) /\ s \in Seq(UnitOf(q))
  BY DEF Appended
<1>3. /\ r \in Seq(Message) /\ Len(r) = Len(q) + 1 /\ Len(q) \in Nat
      /\ (\A i \in 1..Len(q) : r[i] = q[i]) /\ r[Len(r)] = k /\ Len(r) > 0
  BY <1>1, <1>2
<1>4. \A i \in 1..Len(q) : r[i] = q[i] /\ Of(r, i) = Of(q, i) /\ (IsFrame(r, i) <=> IsFrame(q, i))
  BY <1>3 DEF Of, IsFrame
<1>5. UnitOf(q) \subseteq UnitOf(r)
  BY <1>3 DEF UnitOf
<1> DEFINE u == Units(Len(r), Shape[k])
<1>6. u \in Seq(UnitOf(r)) /\ WholeMessages(r, u) /\ Begins(r, u, 1, Len(r)) /\ Len(u) > 0
  BY <1>3, WholeUnits
<1>7. \A j \in 1..Len(u) : u[j].of = Len(r)
  <2>1. u \in Seq([t : {"line", "field", "end", "byte", "frame"}, of : {Len(r)}])
    BY <1>3, UnitsFacts
  <2> HIDE DEF u
  <2>2. ASSUME NEW j \in 1..Len(u) PROVE u[j].of = Len(r)
    <3>1. u[j] \in [t : {"line", "field", "end", "byte", "frame"}, of : {Len(r)}]
      BY <2>1, Element
    <3> QED
      BY <3>1
  <2> QED
    BY <2>2
<1>8. t = s \o u
  BY <1>1, <1>3
<1> HIDE DEF u
<1>9. s \in Seq(UnitOf(r))
  BY <1>2, <1>5
<1>10. /\ s \o u \in Seq(UnitOf(r)) /\ Len(s \o u) = Len(s) + Len(u)
       /\ \A j \in 1..Len(s) : (s \o u)[j] = s[j]
       /\ \A j \in 1..Len(u) : (s \o u)[Len(s) + j] = u[j]
  BY <1>6, <1>9, ConcatFacts
<1>11. Len(s) \in Nat /\ Len(u) \in Nat
  BY <1>9, <1>6
<1>12. Grown(s, t)
  BY <1>8, <1>10, <1>11 DEF Grown
<1>13. Dropped(t, u, Len(s))
  <2>1. \A j \in 1..Len(u) : u[j] = t[j + Len(s)]
    BY <1>8, <1>10, <1>11
  <2> QED
    BY <1>8, <1>10, <1>11, <2>1 DEF Dropped
<1>14. Begins(r, t, 1 + Len(s), Len(r))
  BY <1>3, <1>6, <1>13, BeginsDropped
<1>15. 1 + Len(s) = Len(s) + 1
  BY <1>11
<1> QED
  BY <1>2, <1>3, <1>4, <1>5, <1>6, <1>7, <1>8, <1>10, <1>12, <1>13, <1>14, <1>15

\* What begins somewhere still begins there once more was sent.
LEMMA BeginsGrown ==
    ASSUME NEW q, NEW r, NEW s, NEW t, Appended(q, r, s, t), NEW j \in Nat, NEW i \in Nat, Begins(q, s, j, i)
    PROVE  Begins(r, t, j, i)
<1>1. CASE j = Len(s) + 1 /\ i = Len(q) + 1
  BY <1>1, AppendedFacts
<1>2. CASE j \in 1..Len(s) /\ i \in 1..Len(q) /\ s[j] = Unit(IF IsFrame(q, i) THEN "frame" ELSE "line", i)
  <2>1. Grown(s, t) /\ Len(r) = Len(q) + 1 /\ Len(q) \in Nat /\ (IsFrame(r, i) <=> IsFrame(q, i))
    BY <1>2, AppendedFacts
  <2>2. j \in 1..Len(t) /\ i \in 1..Len(r) /\ t[j] = s[j]
    BY <1>2, <2>1 DEF Grown
  <2> QED
    BY <1>2, <2>1, <2>2 DEF Begins
<1> QED
  BY <1>1, <1>2 DEF Begins

\* And what has its bytes has them still.
LEMMA BytesGrown ==
    ASSUME NEW q, NEW r, NEW s, NEW t, Appended(q, r, s, t), NEW j \in Nat, NEW i \in 1..Len(q), BytesAt(q, s, j, i)
    PROVE  BytesAt(r, t, j, i)
<1>1. Of(r, i) = Of(q, i) /\ Grown(s, t) /\ q \in Seq(Message)
  BY AppendedFacts
<1>2. Of(q, i).bytes \in Nat
  BY <1>1, ShapeFacts DEF KindFacts, Of
<1> DEFINE b == Of(q, i).bytes
<1>3. Begins(q, s, j + b, i + 1)
  BY DEF BytesAt
<1>4. Begins(r, t, j + b, i + 1)
  BY <1>1, <1>2, <1>3, BeginsGrown
<1>5. ASSUME NEW k \in 0..(b - 1) PROVE j + k \in 1..Len(t) /\ t[j + k] = Unit("byte", i)
  <2>1. j + k \in 1..Len(s) /\ s[j + k] = Unit("byte", i)
    BY DEF BytesAt
  <2> QED
    BY <2>1, <1>1 DEF Grown
<1> QED
  BY <1>1, <1>4, <1>5 DEF BytesAt

\* A stream of whole messages stays one when another message is sent.
LEMMA WholeGrown ==
    ASSUME NEW q, NEW r, NEW s, NEW t, Appended(q, r, s, t), WholeMessages(q, s)
    PROVE  WholeMessages(r, t)
<1>1. /\ r \in Seq(Message) /\ Len(r) = Len(q) + 1 /\ Len(q) \in Nat
      /\ t \in Seq(UnitOf(r)) /\ Grown(s, t) /\ q \in Seq(Message) /\ s \in Seq(UnitOf(q))
  BY AppendedFacts
<1>2. PICK u \in Seq(UnitOf(r)) :
          WholeMessages(r, u) /\ Dropped(t, u, Len(s)) /\ \A j \in 1..Len(u) : u[j].of = Len(r)
  BY AppendedFacts
<1>3. ASSUME NEW j \in 1..Len(s) PROVE RestFollows(r, t, j) /\ t[j] = s[j] /\ s[j].of \in 1..Len(q)
  <2>1. t[j] = s[j] /\ j \in 1..Len(t) /\ (j + 1 <= Len(s) => j + 1 <= Len(t) /\ t[j + 1] = s[j + 1])
    BY <1>1 DEF Grown
  <2>2. s[j] \in UnitOf(q)
    BY <1>1, Element
  <2>3. s[j].of \in 1..Len(q)
    BY <2>2 DEF UnitOf
  <2>4. Of(r, s[j].of) = Of(q, s[j].of) /\ (IsFrame(r, s[j].of) <=> IsFrame(q, s[j].of))
    BY <2>3, AppendedFacts
  <2>5. RestFollows(q, s, j)
    BY DEF WholeMessages
  <2>6. BytesAt(q, s, j + 1, s[j].of) => BytesAt(r, t, j + 1, s[j].of)
    BY <2>3, BytesGrown
  <2> QED
    BY <2>1, <2>3, <2>4, <2>5, <2>6 DEF RestFollows
<1>4. ASSUME NEW j \in 1..Len(t), j > Len(s) PROVE RestFollows(r, t, j) /\ t[j].of = Len(r)
  <2>0. /\ Len(s) \in Nat /\ Len(u) \in Nat /\ Len(u) = Len(t) - Len(s) /\ Len(t) \in Nat
        /\ \A x \in 1..Len(u) : u[x] = t[x + Len(s)]
    BY <1>2 DEF Dropped
  <2>4. j - Len(s) \in 1..Len(u) /\ (j - Len(s)) + Len(s) = j
    BY <2>0, <1>4
  <2>1. /\ j - Len(s) \in 1..Len(u) /\ (j - Len(s)) + Len(s) = j
        /\ u[j - Len(s)] = t[(j - Len(s)) + Len(s)]
    BY <2>0, <2>4
  <2>2. RestFollows(r, u, j - Len(s))
    BY <2>1, <1>2 DEF WholeMessages
  <2>3. RestFollows(r, t, (j - Len(s)) + Len(s))
    BY <2>1, <2>2, <1>1, <1>2, RestDropped
  <2> QED
    BY <2>1, <2>3, <1>2
<1>5. Len(s) \in Nat /\ Len(t) \in Nat
  BY <1>1
<1>6. ASSUME NEW j \in 1..Len(t) PROVE RestFollows(r, t, j)
  BY <1>3, <1>4, <1>5
<1>7. ASSUME NEW j \in 1..Len(t), NEW k \in 1..Len(t), j <= k PROVE t[j].of <= t[k].of
  <2>1. CASE k <= Len(s)
    <3>1. j \in 1..Len(s) /\ k \in 1..Len(s)
      BY <2>1, <1>5, <1>7
    <3>2. s[j].of <= s[k].of
      BY <3>1, <1>7 DEF WholeMessages
    <3> QED
      BY <3>1, <3>2, <1>3
  <2>2. CASE k > Len(s)
    <3>1. t[k].of = Len(r)
      BY <2>2, <1>4
    <3>2. t[j] \in UnitOf(r)
      BY <1>1, Element
    <3>3. t[j].of \in 1..Len(r)
      BY <3>2 DEF UnitOf
    <3> QED
      BY <3>1, <3>3, <1>1
  <2> QED
    BY <2>1, <2>2, <1>5
<1> QED
  BY <1>6, <1>7 DEF WholeMessages

-----------------------------------------------------------------------------
(* The steps. *)

\* The buffer is the front of the stream.
LEMMA StreamNow ==
    ASSUME HttpInv, tcp # "down"
    PROVE  /\ Stream \in Seq(UnitOf(sent)) /\ Len(Stream) = Len(buf) + (Len(wire) - shake)
           /\ shake \in 0..Len(wire) /\ sent \in Seq(Message) /\ WholeMessages(sent, Stream)
           /\ \A j \in 1..Len(buf) : j \in 1..Len(Stream) /\ Stream[j] = buf[j] /\ buf[j] \in UnitOf(sent)
           /\ \A j \in 1..(Len(wire) - shake) : Stream[Len(buf) + j] = wire[j + shake]
           /\ buf \in Seq(UnitOf(sent)) /\ wire \in Seq(UnitOf(sent) \cup {Unit("hello", 0)})
<1>1. /\ buf \in Seq(UnitOf(sent)) /\ wire \in Seq(UnitOf(sent) \cup {Unit("hello", 0)})
      /\ shake \in 0..Len(wire) /\ \A j \in (shake + 1)..Len(wire) : wire[j] \in UnitOf(sent)
      /\ sent \in Seq(Message) /\ WholeMessages(sent, Stream)
  BY DEF HttpInv, HttpTypes, HttpTypeOK
<1>2. /\ Stream \in Seq(UnitOf(sent)) /\ Len(Stream) = Len(buf) + (Len(wire) - shake)
      /\ \A j \in 1..Len(buf) : Stream[j] = buf[j]
      /\ \A j \in 1..(Len(wire) - shake) : Stream[Len(buf) + j] = wire[j + shake]
  <2>1. Arriving(sent, buf, wire, shake)
    BY <1>1 DEF Arriving
  <2> QED
    BY <2>1, StreamFacts DEF Stream
<1>3. \A j \in 1..Len(buf) : j \in 1..Len(Stream) /\ buf[j] \in UnitOf(sent)
  <2>1. Len(buf) \in Nat /\ Len(Stream) \in Nat /\ Len(wire) - shake \in Nat
    BY <1>1, <1>2
  <2> QED
    BY <1>1, <1>2, <2>1, Element
<1> QED
  BY <1>1, <1>2, <1>3

\* Consuming the first m units of the buffer takes them off the stream.
LEMMA StreamDropped ==
    ASSUME NEW q, NEW b, NEW c \in Seq(UnitOf(q)), NEW w, NEW k, Arriving(q, b, w, k), NEW m, Dropped(b, c, m)
    PROVE  /\ Dropped(StreamOf(b, w, k), StreamOf(c, w, k), m) /\ Arriving(q, c, w, k)
           /\ Len(c) = Len(b) - m
<1> DEFINE s == StreamOf(b, w, k)
           t == StreamOf(c, w, k)
<1>1. b \in Seq(UnitOf(q)) /\ Len(b) \in Nat /\ Len(w) \in Nat /\ k \in Nat /\ k <= Len(w) /\ m \in Nat
      /\ m <= Len(b)
  BY DEF Arriving, Dropped
<1>2. c \in Seq(UnitOf(q)) /\ Len(c) = Len(b) - m /\ \A j \in 1..(Len(b) - m) : c[j] = b[j + m]
  BY DEF Dropped
<1>3. Arriving(q, c, w, k)
  BY <1>2 DEF Arriving
<1>4. /\ s \in Seq(UnitOf(q)) /\ Len(s) = Len(b) + (Len(w) - k)
      /\ \A j \in 1..Len(b) : s[j] = b[j]
      /\ \A j \in 1..(Len(w) - k) : s[Len(b) + j] = w[j + k]
  BY StreamFacts
<1>5. /\ t \in Seq(UnitOf(q)) /\ Len(t) = Len(c) + (Len(w) - k)
      /\ \A j \in 1..Len(c) : t[j] = c[j]
      /\ \A j \in 1..(Len(w) - k) : t[Len(c) + j] = w[j + k]
  BY <1>3, StreamFacts
<1> HIDE DEF s, t
<1>6. Len(s) \in Nat /\ Len(t) \in Nat /\ Len(t) = Len(s) - m /\ m <= Len(s) /\ Len(c) \in Nat
  BY <1>1, <1>2, <1>4, <1>5
<1>7. ASSUME NEW j \in 1..Len(t) PROVE t[j] = s[j + m]
  <2>1. CASE j <= Len(c)
    <3>1. j \in 1..Len(c) /\ j \in 1..(Len(b) - m) /\ j + m \in 1..Len(b)
      BY <2>1, <1>1, <1>2, <1>6
    <3> QED
      BY <3>1, <1>2, <1>4, <1>5
  <2>2. CASE j > Len(c)
    <3> DEFINE x == j - Len(c)
    <3>1. x \in 1..(Len(w) - k) /\ Len(c) + x = j /\ Len(b) + x = j + m
      <4>1. j \in Nat /\ j <= Len(t) /\ Len(t) = Len(c) + (Len(w) - k) /\ Len(c) = Len(b) - m
        BY <1>2, <1>5, <1>6
      <4> QED
        BY <4>1, <2>2, <1>1, <1>6
    <3> HIDE DEF x
    <3>2. t[Len(c) + x] = w[x + k] /\ s[Len(b) + x] = w[x + k]
      BY <3>1, <1>4, <1>5
    <3> QED
      BY <3>1, <3>2
  <2> QED
    BY <2>1, <2>2, <1>6
<1> QED
  BY <1>1, <1>2, <1>3, <1>6, <1>7 DEF Dropped, s, t

\* So it does in the program, whatever step consumes them.
LEMMA Consumed ==
    ASSUME HttpInv, tcp # "down", NEW m, Dropped(buf, buf', m), buf' \in Seq(UnitOf(sent)),
           UNCHANGED <<sent, wire, shake>>
    PROVE  /\ Dropped(Stream, Stream', m)
           /\ Stream' \in Seq(UnitOf(sent)) /\ WholeMessages(sent', Stream')
<1>1. /\ Stream \in Seq(UnitOf(sent)) /\ sent \in Seq(Message) /\ WholeMessages(sent, Stream)
  BY StreamNow
<1>2. Arriving(sent, buf, wire, shake)
  BY DEF HttpInv, HttpTypes, HttpTypeOK, Arriving
<1>3. Stream' = StreamOf(buf', wire, shake)
  BY DEF Stream
<1>4. Dropped(Stream, Stream', m) /\ Arriving(sent, buf', wire, shake)
  BY <1>2, <1>3, StreamDropped DEF Stream
<1>5. Stream' \in Seq(UnitOf(sent))
  BY <1>3, <1>4, StreamFacts
<1>6. WholeMessages(sent, Stream')
  BY <1>1, <1>4, <1>5, WholeDropped
<1> QED
  BY <1>4, <1>5, <1>6

\* In step at a line, the buffer starts with the request line of the next message:
\* behind a frame there are only frames, and no frame has a line end.
LEMMA LinePlace ==
    ASSUME HttpInv, tcp # "down", NEW n \in 0..Len(sent), ParserAt(n), state_ = "line", Line
    PROVE  /\ n + 1 \in 1..Len(sent) /\ ~IsFrame(sent, n + 1) /\ Head(buf) = Unit("line", n + 1)
           /\ 2 <= Len(Stream) /\ 1 <= Len(buf)
           /\ Stream[2] = Unit(IF Of(sent, n + 1).len = -1 THEN "end" ELSE "field", n + 1)
           /\ request.method = "kInvalid" /\ request.len = -1
<1>1. /\ Stream \in Seq(UnitOf(sent)) /\ WholeMessages(sent, Stream)
      /\ \A j \in 1..Len(buf) : j \in 1..Len(Stream) /\ Stream[j] = buf[j] /\ buf[j] \in UnitOf(sent)
      /\ buf \in Seq(UnitOf(sent)) /\ sent \in Seq(Message)
  BY StreamNow
<1>2. PICK i \in 1..Len(buf) : HasCRLF(buf[i])
  BY <1>1 DEF Line
<1>3. 1 \in 1..Len(buf) /\ 1 \in 1..Len(Stream) /\ Len(Stream) \in Nat /\ Head(buf) = buf[1] /\ Stream[1] = buf[1]
  BY <1>1, <1>2
<1>4. Begins(sent, Stream, 1, n + 1) /\ request.method = "kInvalid" /\ request.len = -1
  BY DEF ParserAt
<1>5. n + 1 \in 1..Len(sent) /\ Stream[1] = Unit(IF IsFrame(sent, n + 1) THEN "frame" ELSE "line", n + 1)
  BY <1>3, <1>4 DEF Begins
<1>6. ~IsFrame(sent, n + 1)
  <2>1. SUFFICES ASSUME IsFrame(sent, n + 1) PROVE FALSE
    OBVIOUS
  <2>2. PICK k \in 1..((n + 1) - 1) : sent[k] = "upgrade"
    BY <2>1, <1>1, <1>5 DEF HttpInv, UpgradeFirst
  <2>3. i \in 1..Len(Stream) /\ Stream[i] = buf[i] /\ buf[i].t \in {"line", "field", "end"}
    BY <1>1, <1>2 DEF HasCRLF
  <2>4. RestFollows(sent, Stream, i) /\ Stream[1].of <= Stream[i].of
    <3>1. 1 <= i
      BY <1>2
    <3> QED
      BY <2>3, <3>1, <1>1, <1>3 DEF WholeMessages
  <2>5. ~IsFrame(sent, buf[i].of)
    BY <2>3, <2>4 DEF RestFollows
  <2>6. buf[i].of \in 1..Len(sent) /\ Stream[1].of = n + 1
    <3>1. buf[i] \in UnitOf(sent)
      BY <1>1
    <3> QED
      BY <3>1, <1>5 DEF UnitOf, Unit
  <2>7. k \in DOMAIN sent /\ buf[i].of \in DOMAIN sent /\ k < buf[i].of
    BY <1>1, <1>5, <2>3, <2>4, <2>6
  <2> QED
    BY <2>2, <2>5, <2>7 DEF HttpInv, UpgradeFirst
<1>7. RestFollows(sent, Stream, 1)
  BY <1>1, <1>3 DEF WholeMessages
<1>8. Stream[1] = Unit("line", n + 1)
  BY <1>5, <1>6
<1>9. /\ 1 + 1 <= Len(Stream)
      /\ Stream[1 + 1] = Unit(IF Of(sent, n + 1).len = -1 THEN "end" ELSE "field", n + 1)
  BY <1>7, <1>8 DEF RestFollows, Unit
<1> QED
  BY <1>3, <1>4, <1>5, <1>6, <1>8, <1>9

\* In step in the headers, the buffer starts with the Content-Length field or the
\* empty line of the message being read.
LEMMA HeaderPlace ==
    ASSUME HttpInv, tcp # "down", NEW n \in 0..Len(sent), ParserAt(n), state_ = "headers", buf # <<>>
    PROVE  /\ 1 <= Len(buf) /\ Head(buf).t \in {"field", "end"} /\ Head(buf).of = n + 1
           /\ Head(buf).t = "field" => request.len = -1 /\ 2 <= Len(Stream) /\ Stream[2] = Unit("end", n + 1)
           /\ Head(buf).t = "end" => request.len = Of(sent, n + 1).len /\ BytesAt(sent, Stream, 2, n + 1)
<1>1. /\ Stream \in Seq(UnitOf(sent)) /\ WholeMessages(sent, Stream)
      /\ \A j \in 1..Len(buf) : j \in 1..Len(Stream) /\ Stream[j] = buf[j] /\ buf[j] \in UnitOf(sent)
      /\ buf \in Seq(UnitOf(sent)) /\ sent \in Seq(Message)
  BY StreamNow
<1>2. 1 \in 1..Len(buf) /\ Head(buf) = buf[1]
  BY <1>1
<1>3. 1 \in 1..Len(Stream) /\ Len(Stream) \in Nat /\ Stream[1] = buf[1]
  BY <1>1, <1>2
<1>4. RestFollows(sent, Stream, 1)
  BY <1>1, <1>3 DEF WholeMessages
<1>5. CASE Stream[1] = Unit("field", n + 1) /\ request.len = -1
  <2>1. 1 + 1 <= Len(Stream) /\ Stream[1 + 1] = Unit("end", n + 1)
    BY <1>4, <1>5 DEF RestFollows, Unit
  <2> QED
    BY <1>2, <1>3, <1>5, <2>1 DEF Unit
<1>6. CASE Stream[1] = Unit("end", n + 1) /\ request.len = Of(sent, n + 1).len
  <2>1. BytesAt(sent, Stream, 1 + 1, n + 1)
    BY <1>4, <1>6 DEF RestFollows, Unit
  <2> QED
    BY <1>2, <1>3, <1>6, <2>1 DEF Unit
<1> QED
  BY <1>5, <1>6 DEF ParserAt

\* In step in a body that has arrived, the buffer starts with that body.
LEMMA BodyPlace ==
    ASSUME HttpInv, tcp # "down", NEW n \in 0..Len(sent), ParserAt(n), state_ = "body", BodyComplete
    PROVE  /\ n + 1 \in 1..Len(sent) /\ Head(buf).of = n + 1 /\ request.len \in 1..Len(buf)
           /\ request.len = Of(sent, n + 1).len
           /\ Begins(sent, Stream, 1 + request.len, (n + 1) + 1)
<1>1. /\ \A j \in 1..Len(buf) : j \in 1..Len(Stream) /\ Stream[j] = buf[j] /\ buf[j] \in UnitOf(sent)
      /\ buf \in Seq(UnitOf(sent)) /\ sent \in Seq(Message)
  BY StreamNow
<1>2. request.len \in Int /\ request.len > 0 /\ Len(buf) \in Nat
  BY <1>1 DEF HttpInv, HttpTypes, RequestOf
<1>3. request.len \in 1..Len(buf) /\ Head(buf) = buf[1] /\ 1 \in 1..Len(buf)
  BY <1>1, <1>2 DEF BodyComplete
<1>4. /\ n + 1 \in 1..Len(sent) /\ ~IsFrame(sent, n + 1) /\ request.len = Of(sent, n + 1).len
      /\ BytesAt(sent, Stream, 1, n + 1)
  BY DEF ParserAt
<1>5. sent[n + 1] \in Message
  BY <1>1, <1>4, Element
<1>6. Of(sent, n + 1).bytes = request.len
  BY <1>2, <1>4, <1>5, ShapeFacts DEF KindFacts, Of, IsFrame
<1>7. /\ \A x \in 0..(request.len - 1) : Stream[1 + x] = Unit("byte", n + 1)
      /\ Begins(sent, Stream, 1 + request.len, (n + 1) + 1)
  BY <1>4, <1>6 DEF BytesAt
<1>8. Stream[1 + 0] = Unit("byte", n + 1)
  <2>1. 0 \in 0..(request.len - 1)
    BY <1>2
  <2> QED
    BY <2>1, <1>7
<1>9. Head(buf).of = n + 1
  BY <1>1, <1>3, <1>8 DEF Unit
<1> QED
  BY <1>3, <1>4, <1>7, <1>9

\* A step of the parser that goes on: the types.
LEMMA ParsingTypes ==
    ASSUME HttpInv, pc # "wait", Parsing, pc' \in {"wait", pc}, buf' \in Seq(UnitOf(sent)),
           request' \in RequestOf(sent), state_' \in {"line", "headers", "body", "all"},
           state_' = "body" => request'.len > 0
    PROVE  HttpTypes'
<1>1. sent' = sent /\ request'.of \in 0..MaxSent /\ request'.body \in 0..MaxSent
  <2>1. sent' = sent /\ sent \in Seq(Message) /\ Len(sent) <= MaxSent /\ MaxSent \in Nat
    BY HttpAssumption DEF HttpInv, HttpTypes, HttpTypeOK, Parsing
  <2>2. Len(sent) \in Nat /\ request'.of \in 0..Len(sent) /\ request'.body \in 0..Len(sent)
    BY <2>1 DEF RequestOf
  <2> QED
    BY <2>1, <2>2
<1>2. HttpTypeOK'
  BY <1>1 DEF HttpInv, HttpTypes, HttpTypeOK, Parsing
<1> QED
  BY <1>2 DEF HttpInv, HttpTypes, HttpTypeOK, Parsing, UnitOf, RequestOf

\* And its place: what was served is left alone.
LEMMA ParsingInStep ==
    ASSUME HttpInv, Parsing,
           \A n \in 0..Len(sent) : ParserAt(n) /\ FramesLate(n) => ParserAt(n)' /\ FramesLate(n)'
    PROVE  InStep'
<1>1. SUFFICES ASSUME (tcp = "connected" \/ (tcp = "disconnecting" /\ WellFormed))'
               PROVE  \E n \in 0..Len(sent') : ParserAt(n)' /\ FramesLate(n)' /\ (tcp' = "connected" => FirstServed(n)')
  BY DEF InStep
<1>2. tcp = "connected" \/ (tcp = "disconnecting" /\ WellFormed)
  BY <1>1 DEF Parsing, WellFormed
<1>3. PICK n \in 0..Len(sent) : ParserAt(n) /\ FramesLate(n) /\ (tcp = "connected" => FirstServed(n))
  BY <1>2 DEF HttpInv, InStep
<1>4. tcp' = "connected" => FirstServed(n)'
  BY <1>3 DEF FirstServed, Parsing
<1> QED
  BY <1>3, <1>4 DEF Parsing

\* The rest of the invariant is about what the parser leaves alone.
LEMMA ParsingInv ==
    ASSUME HttpInv, Parsing, HttpTypes', WholeMessages(sent', Stream'), InStep'
    PROVE  HttpInv'
<1>1. UpgradeFirst'
  BY DEF HttpInv, UpgradeFirst, Parsing, IsFrame, Of
<1>2. (WellFormed => ~Refused /\ ~aborted)' /\ AnswersInOrder'
  BY DEF HttpInv, Parsing, WellFormed, Refused, AnswersInOrder
<1>3. (admitted + tokens <= BucketCapacity + refills)'
  BY DEF HttpInv, Parsing
<1> QED
  BY <1>1, <1>2, <1>3 DEF HttpInv

\* Tail takes one unit off.
LEMMA TailDrops ==
    ASSUME NEW S, NEW s \in Seq(S), s # <<>>
    PROVE  Tail(s) \in Seq(S) /\ Dropped(s, Tail(s), 1) /\ Len(s) >= 1 /\ Head(s) = s[1] /\ Head(s) \in S
<1>1. Tail(s) = SubSeq(s, 1 + 1, Len(s)) /\ 1 \in 0..Len(s)
  OBVIOUS
<1>2. SubSeq(s, 1 + 1, Len(s)) \in Seq(S) /\ Dropped(s, SubSeq(s, 1 + 1, Len(s)), 1)
  BY <1>1, DropIs
<1>3. Len(s) >= 1 /\ Head(s) = s[1] /\ Head(s) \in S
  OBVIOUS
<1>4. Tail(s) \in Seq(S) /\ Dropped(s, Tail(s), 1)
  BY <1>1, <1>2, Zenon
<1> QED
  BY <1>3, <1>4, Zenon

\* A request line.
LEMMA ParseLineStep ==
    ASSUME HttpInv, ParseLine
    PROVE  HttpInv'
<1> DEFINE u == Head(buf)
<1>1. /\ pc = "parse" /\ state_ = "line" /\ Line /\ u.t = "line" /\ M(u.of).method \in KnownMethods
      /\ request' = [request EXCEPT !.of = u.of, !.method = M(u.of).method]
      /\ state_' = "headers" /\ buf' = Tail(buf) /\ pc' = pc /\ Parsing
  BY DEF ParseLine
<1>2. tcp # "down" /\ buf \in Seq(UnitOf(sent)) /\ buf # <<>> /\ sent \in Seq(Message) /\ request \in RequestOf(sent)
  BY <1>1 DEF HttpInv, HttpTypes, HttpTypeOK, Line
<1>3. buf' \in Seq(UnitOf(sent)) /\ Dropped(buf, buf', 1) /\ u \in UnitOf(sent)
  BY <1>1, <1>2, TailDrops
<1>4. UNCHANGED <<sent, wire, shake, tcp, ws, frames>>
  BY <1>1 DEF Parsing
<1>5. Dropped(Stream, Stream', 1) /\ Stream' \in Seq(UnitOf(sent)) /\ WholeMessages(sent', Stream')
  BY <1>2, <1>3, <1>4, Consumed
<1>6. HttpTypes'
  <2>1. request' \in RequestOf(sent)
    <3>1. u.of \in 1..Len(sent)
      BY <1>3 DEF UnitOf
    <3>2. u.of \in 0..Len(sent) /\ M(u.of).method \in {"kInvalid", "GET", "POST", "OPTIONS"}
      BY <3>1, <1>1, <1>2 DEF KnownMethods
    <3> HIDE DEF u
    <3> QED
      BY <3>2, <1>1, <1>2 DEF RequestOf
  <2> QED
    BY <1>1, <1>3, <2>1, ParsingTypes
<1>7. ASSUME NEW n \in 0..Len(sent), ParserAt(n), FramesLate(n) PROVE ParserAt(n)' /\ FramesLate(n)'
  <2>1. /\ n + 1 \in 1..Len(sent) /\ ~IsFrame(sent, n + 1) /\ u = Unit("line", n + 1)
        /\ 2 <= Len(Stream)
        /\ Stream[2] = Unit(IF Of(sent, n + 1).len = -1 THEN "end" ELSE "field", n + 1)
        /\ request.len = -1
    BY <1>1, <1>2, <1>7, LinePlace
  <2>2. request'.of = n + 1 /\ request'.method = Of(sent, n + 1).method /\ request'.len = -1
    BY <1>1, <1>2, <2>1 DEF RequestOf, Unit, M, Of
  <2>3. Len(Stream') \in Nat /\ Len(Stream') >= 1 /\ Stream'[1] = Stream[2]
    BY <1>5, <2>1 DEF Dropped
  <2>4. Stream' # <<>>
    BY <2>3
  <2>5. \/ Stream'[1] = Unit("field", n + 1) /\ request'.len = -1
        \/ Stream'[1] = Unit("end", n + 1) /\ request'.len = Of(sent, n + 1).len
    BY <2>1, <2>2, <2>3
  <2>6. ~IsFrame(sent', n + 1) /\ Of(sent', n + 1) = Of(sent, n + 1) /\ n + 1 \in 1..Len(sent')
    BY <1>4, <2>1
  <2>7. ParserAt(n)'
    BY <1>1, <2>2, <2>4, <2>5, <2>6, <1>4 DEF ParserAt
  <2>8. ~(ws \/ pc = "frames" \/ frames # <<>>)
    <3>1. SUFFICES ASSUME ws \/ pc = "frames" \/ frames # <<>> PROVE FALSE
      OBVIOUS
    <3>2. PICK i \in 1..n : sent[i] = "upgrade"
      BY <3>1, <1>7 DEF FramesLate
    <3>3. i \in DOMAIN sent /\ n + 1 \in DOMAIN sent /\ i < n + 1
      BY <1>2, <2>1
    <3> QED
      BY <3>2, <3>3, <2>1 DEF HttpInv, UpgradeFirst
  <2> QED
    BY <1>1, <1>4, <2>7, <2>8 DEF FramesLate
<1>8. InStep'
  BY <1>1, <1>7, ParsingInStep
<1> QED
  BY <1>1, <1>5, <1>6, <1>8, ParsingInv

\* The Content-Length field.
LEMMA ParseFieldStep ==
    ASSUME HttpInv, ParseField
    PROVE  HttpInv'
<1> DEFINE u == Head(buf)
<1>1. /\ pc = "parse" /\ state_ = "headers" /\ Line /\ u.t = "field"
      /\ request' = [request EXCEPT !.len = M(u.of).len]
      /\ state_' = state_ /\ buf' = Tail(buf) /\ pc' = pc /\ Parsing
  BY DEF ParseField
<1>2. tcp # "down" /\ buf \in Seq(UnitOf(sent)) /\ buf # <<>> /\ sent \in Seq(Message) /\ request \in RequestOf(sent)
  BY <1>1 DEF HttpInv, HttpTypes, HttpTypeOK, Line
<1>3. buf' \in Seq(UnitOf(sent)) /\ Dropped(buf, buf', 1) /\ u \in UnitOf(sent)
  BY <1>1, <1>2, TailDrops
<1>4. UNCHANGED <<sent, wire, shake, tcp, ws, frames>>
  BY <1>1 DEF Parsing
<1>5. Dropped(Stream, Stream', 1) /\ Stream' \in Seq(UnitOf(sent)) /\ WholeMessages(sent', Stream')
  BY <1>2, <1>3, <1>4, Consumed
<1>6. HttpTypes'
  <2>1. request' \in RequestOf(sent)
    <3>1. u.of \in 1..Len(sent)
      BY <1>3 DEF UnitOf
    <3>2. sent[u.of] \in Message
      BY <3>1, <1>2, Element
    <3>3. M(u.of).len \in Int
      BY <3>2, ShapeFacts DEF KindFacts, M
    <3> HIDE DEF u
    <3> QED
      BY <3>3, <1>1, <1>2 DEF RequestOf
  <2> QED
    BY <1>1, <1>3, <2>1, ParsingTypes
<1>7. ASSUME NEW n \in 0..Len(sent), ParserAt(n), FramesLate(n) PROVE ParserAt(n)' /\ FramesLate(n)'
  <2>1. u.of = n + 1 /\ 2 <= Len(Stream) /\ Stream[2] = Unit("end", n + 1)
    BY <1>1, <1>2, <1>7, HeaderPlace
  <2>2. /\ n + 1 \in 1..Len(sent) /\ ~IsFrame(sent, n + 1) /\ request.of = n + 1
        /\ request.method = Of(sent, n + 1).method
    BY <1>1, <1>7 DEF ParserAt
  <2>3. /\ request'.of = n + 1 /\ request'.method = Of(sent, n + 1).method
        /\ request'.len = Of(sent, n + 1).len
    BY <1>1, <1>2, <2>1, <2>2 DEF RequestOf, M, Of
  <2>4. Len(Stream') \in Nat /\ Len(Stream') >= 1 /\ Stream'[1] = Stream[2]
    BY <1>5, <2>1 DEF Dropped
  <2>5. Stream' # <<>>
    BY <2>4
  <2>6. ParserAt(n)'
    BY <1>1, <2>1, <2>2, <2>3, <2>4, <2>5, <1>4 DEF ParserAt
  <2> QED
    BY <1>1, <1>4, <1>7, <2>6 DEF FramesLate
<1>8. InStep'
  BY <1>1, <1>7, ParsingInStep
<1> QED
  BY <1>1, <1>5, <1>6, <1>8, ParsingInv

\* The empty line of a message that is not refused for its missing length.
LEMMA ParseEndStep ==
    ASSUME HttpInv, ParseEnd, Parsing, state_' \in {"body", "all"}, pc' = pc,
           state_' = IF request.method = "POST" THEN AfterHeaders(request.len) ELSE "all"
    PROVE  HttpInv'
<1>1. /\ pc = "parse" /\ state_ = "headers" /\ Line /\ Head(buf).t = "end"
      /\ request' = request /\ buf' = Tail(buf)
  BY DEF ParseEnd
<1>2. /\ tcp # "down" /\ buf \in Seq(UnitOf(sent)) /\ buf # <<>> /\ sent \in Seq(Message)
      /\ request \in RequestOf(sent) /\ request.len \in Int
  BY <1>1 DEF HttpInv, HttpTypes, HttpTypeOK, Line, RequestOf
<1>3. buf' \in Seq(UnitOf(sent)) /\ Dropped(buf, buf', 1)
  BY <1>1, <1>2, TailDrops
<1>4. UNCHANGED <<sent, wire, shake, tcp, ws, frames>>
  BY DEF Parsing
<1>5. Dropped(Stream, Stream', 1) /\ Stream' \in Seq(UnitOf(sent)) /\ WholeMessages(sent', Stream')
  BY <1>2, <1>3, <1>4, Consumed
<1>6. /\ state_' = "body" => request.method = "POST" /\ request.len > 0
      /\ state_' = "all" => request.method # "POST" \/ request.len <= 0
  BY <1>2 DEF AfterHeaders
<1>7. HttpTypes'
  BY <1>1, <1>2, <1>3, <1>6, ParsingTypes
<1>8. ASSUME NEW n \in 0..Len(sent), ParserAt(n), FramesLate(n) PROVE ParserAt(n)' /\ FramesLate(n)'
  <2>1. request.len = Of(sent, n + 1).len /\ BytesAt(sent, Stream, 2, n + 1)
    BY <1>1, <1>2, <1>8, HeaderPlace
  <2>2. /\ n + 1 \in 1..Len(sent) /\ ~IsFrame(sent, n + 1) /\ request.of = n + 1
        /\ request.method = Of(sent, n + 1).method
    BY <1>1, <1>8 DEF ParserAt
  <2>3. sent[n + 1] \in Message
    BY <1>2, <2>2, Element
  <2>4. /\ Of(sent, n + 1).bytes \in Nat
        /\ request.len > 0 => request.method = "POST"
        /\ request.len <= 0 => Of(sent, n + 1).bytes = 0
    BY <2>1, <2>2, <2>3, ShapeFacts DEF KindFacts, Of, IsFrame
  <2>5. BytesAt(sent, Stream', 1, n + 1)
    <3>1. BytesAt(sent, Stream', 1, n + 1) <=> BytesAt(sent, Stream, 1 + 1, n + 1)
      BY <1>2, <1>5, <2>2, <2>4, BytesDropped
    <3> QED
      BY <3>1, <2>1
  <2>6. state_' = "all" => Begins(sent, Stream', 1, n + 2) /\ ~(Of(sent, n + 1).len > 0)
    <3>1. SUFFICES ASSUME state_' = "all" PROVE Begins(sent, Stream', 1, n + 2) /\ ~(Of(sent, n + 1).len > 0)
      OBVIOUS
    <3>2. request.len <= 0 /\ Of(sent, n + 1).bytes = 0
      BY <3>1, <1>2, <1>6, <2>4
    <3>3. Begins(sent, Stream', 1 + Of(sent, n + 1).bytes, (n + 1) + 1)
      BY <2>5 DEF BytesAt
    <3>4. 1 + Of(sent, n + 1).bytes = 1 /\ (n + 1) + 1 = n + 2
      BY <3>2
    <3> QED
      BY <3>2, <3>3, <3>4, <2>1, <1>2
  <2>7. ParserAt(n)'
    BY <1>1, <1>4, <2>1, <2>2, <2>5, <2>6 DEF ParserAt
  <2> QED
    BY <1>1, <1>4, <1>8, <2>7 DEF FramesLate
<1>9. InStep'
  BY <1>8, ParsingInStep
<1> QED
  BY <1>5, <1>7, <1>9, ParsingInv

\* A whole body.
LEMMA ParseBodyStep ==
    ASSUME HttpInv, ParseBody
    PROVE  HttpInv'
<1> DEFINE m == IF request.len < Len(buf) THEN request.len ELSE Len(buf)
<1>1. /\ pc = "parse" /\ state_ = "body" /\ BodyComplete
      /\ request' = [request EXCEPT !.body = Head(buf).of]
      /\ buf' = SubSeq(buf, m + 1, Len(buf)) /\ state_' = "all" /\ pc' = pc /\ Parsing
  BY DEF ParseBody
<1>2. /\ tcp # "down" /\ buf \in Seq(UnitOf(sent)) /\ sent \in Seq(Message)
      /\ request \in RequestOf(sent) /\ request.len \in Int /\ request.len > 0 /\ Len(buf) \in Nat
  BY <1>1 DEF HttpInv, HttpTypes, HttpTypeOK, RequestOf
<1>3. m = request.len /\ m \in 1..Len(buf) /\ buf # <<>>
  BY <1>1, <1>2 DEF BodyComplete
<1>4. buf' \in Seq(UnitOf(sent)) /\ Dropped(buf, buf', m)
  <2>1. m \in 0..Len(buf)
    BY <1>2, <1>3
  <2> HIDE DEF m
  <2> QED
    BY <1>1, <1>2, <2>1, DropIs
<1> HIDE DEF m
<1>5. UNCHANGED <<sent, wire, shake, tcp, ws, frames>>
  BY <1>1 DEF Parsing
<1>6. Dropped(Stream, Stream', m) /\ Stream' \in Seq(UnitOf(sent)) /\ WholeMessages(sent', Stream')
  BY <1>2, <1>4, <1>5, Consumed
<1>7. HttpTypes'
  <2>1. Head(buf) \in UnitOf(sent)
    BY <1>2, <1>3, TailDrops
  <2>2. Head(buf).of \in 0..Len(sent)
    BY <2>1, <1>2 DEF UnitOf
  <2>3. request' \in RequestOf(sent)
    BY <2>2, <1>1, <1>2 DEF RequestOf
  <2> QED
    BY <1>1, <1>4, <2>3, ParsingTypes
<1>8. ASSUME NEW n \in 0..Len(sent), ParserAt(n), FramesLate(n) PROVE ParserAt(n)' /\ FramesLate(n)'
  <2>1. /\ n + 1 \in 1..Len(sent) /\ Head(buf).of = n + 1 /\ request.len = Of(sent, n + 1).len
        /\ Begins(sent, Stream, 1 + request.len, (n + 1) + 1)
    BY <1>1, <1>2, <1>8, BodyPlace
  <2>2. ~IsFrame(sent, n + 1) /\ request.of = n + 1 /\ request.method = Of(sent, n + 1).method
    BY <1>1, <1>8 DEF ParserAt
  <2>3. /\ request'.of = n + 1 /\ request'.method = Of(sent, n + 1).method
        /\ request'.len = Of(sent, n + 1).len /\ request'.body = n + 1
    BY <1>1, <1>2, <2>1, <2>2 DEF RequestOf
  <2>4. Begins(sent, Stream', 1, n + 2)
    <3>1. n + 2 \in Nat /\ (n + 1) + 1 = n + 2 /\ Len(sent) \in Nat
      BY <1>2
    <3>2. Begins(sent, Stream', 1, n + 2) <=> Begins(sent, Stream, 1 + m, n + 2)
      BY <1>6, <3>1, BeginsDropped
    <3> QED
      BY <2>1, <3>1, <3>2, <1>3
  <2>5. ParserAt(n)'
    BY <1>1, <1>5, <2>1, <2>2, <2>3, <2>4 DEF ParserAt
  <2> QED
    BY <1>1, <1>5, <1>8, <2>5 DEF FramesLate
<1>9. InStep'
  BY <1>1, <1>8, ParsingInStep
<1> QED
  BY <1>1, <1>6, <1>7, <1>9, ParsingInv

\* onMessage returns to wait for more.
LEMMA ReturnStep ==
    ASSUME HttpInv, pc # "wait", pc' = "wait", UNCHANGED <<buf, state_, request>>, Parsing
    PROVE  HttpInv'
<1>1. UNCHANGED <<sent, wire, shake, tcp, ws, frames>>
  BY DEF Parsing
<1>2. /\ tcp # "down" /\ buf \in Seq(UnitOf(sent)) /\ request \in RequestOf(sent)
      /\ state_ \in {"line", "headers", "body", "all"} /\ (state_ = "body" => request.len > 0)
      /\ WholeMessages(sent, Stream)
  BY DEF HttpInv, HttpTypes, HttpTypeOK
<1>3. HttpTypes'
  BY <1>2, ParsingTypes
<1>4. Stream' = Stream
  BY <1>1 DEF Stream
<1>5. ASSUME NEW n \in 0..Len(sent), ParserAt(n), FramesLate(n) PROVE ParserAt(n)' /\ FramesLate(n)'
  BY <1>1, <1>4, <1>5 DEF ParserAt, FramesLate
<1>6. InStep'
  BY <1>5, ParsingInStep
<1> QED
  BY <1>1, <1>2, <1>3, <1>4, <1>6, ParsingInv

\* Answers are in order after one more to a later message.
LEMMA AnswerSent ==
    ASSUME HttpInv, NEW i \in Nat, NEW status \in Nat, answered' = Answer(i, status),
           tcp = "connected" => \A j \in 1..Len(answered) : answered[j].of < i
    PROVE  /\ answered' \in Seq([of : Nat, status : Nat]) /\ AnswersInOrder'
           /\ \A j \in DOMAIN answered' : \/ j \in DOMAIN answered /\ answered'[j] = answered[j]
                                          \/ answered'[j].of = i /\ answered'[j].status = status
<1> DEFINE A == [of : Nat, status : Nat]
           r == [of |-> i, status |-> status]
<1>1. answered \in Seq(A) /\ AnswersInOrder
  BY DEF HttpInv, HttpTypes
<1>2. r \in A /\ r.of = i /\ r.status = status
  OBVIOUS
<1>3. CASE tcp = "connected"
  <2>1. answered' = Append(answered, r)
    BY <1>3 DEF Answer
  <2> HIDE DEF A, r
  <2>2. /\ answered' \in Seq(A) /\ Len(answered') = Len(answered) + 1 /\ Len(answered) \in Nat
        /\ \A j \in 1..Len(answered) : answered'[j] = answered[j]
        /\ answered'[Len(answered) + 1] = r
    BY <2>1, <1>1, <1>2
  <2>3. DOMAIN answered = 1..Len(answered) /\ DOMAIN answered' = 1..(Len(answered) + 1)
    BY <2>2, <1>1
  <2>4. ASSUME NEW j \in DOMAIN answered', NEW k \in DOMAIN answered', j < k
        PROVE  answered'[j].of < answered'[k].of
    <3>1. j \in 1..Len(answered) /\ (k \in 1..Len(answered) \/ k = Len(answered) + 1)
      BY <2>2, <2>3, <2>4
    <3>2. CASE k \in 1..Len(answered)
      <4>1. answered[j].of < answered[k].of
        BY <3>1, <3>2, <2>3, <2>4, <1>1 DEF AnswersInOrder
      <4> QED
        BY <4>1, <3>1, <3>2, <2>2
    <3>3. CASE k = Len(answered) + 1
      <4>1. answered'[j] = answered[j] /\ answered'[k] = r /\ answered[j].of < i
        BY <2>2, <3>1, <3>3, <1>3
      <4> QED
        BY <4>1, <1>2
    <3> QED
      BY <3>1, <3>2, <3>3
  <2>5. AnswersInOrder'
    BY <2>4 DEF AnswersInOrder
  <2>6. ASSUME NEW j \in DOMAIN answered'
        PROVE  \/ j \in DOMAIN answered /\ answered'[j] = answered[j]
               \/ answered'[j].of = i /\ answered'[j].status = status
    <3>1. j \in 1..Len(answered) \/ j = Len(answered) + 1
      BY <2>2, <2>3
    <3> QED
      BY <3>1, <2>2, <2>3, <1>2
  <2> QED
    BY <2>2, <2>5, <2>6 DEF A
<1>4. CASE tcp # "connected"
  BY <1>1, <1>4 DEF Answer, AnswersInOrder
<1> QED
  BY <1>3, <1>4

\* The parser refuses a message only where it stands, and only a malformed one, as
\* far as it is in step; then it is not in step any more.
LEMMA RefuseStep ==
    ASSUME HttpInv, pc # "wait", NEW i \in Nat, Refuse(i), aborted' = aborted, state_' = state_,
           buf' \in Seq(UnitOf(sent)), request' \in RequestOf(sent), request'.len = request.len,
           WholeMessages(sent', Stream'),
           \A n \in 0..Len(sent) : ParserAt(n) => ~WellFormed /\ i = n + 1
    PROVE  HttpInv'
<1>1. /\ answered' = Answer(i, 400) /\ tcp' = "disconnecting" /\ pc' = "wait"
      /\ UNCHANGED <<sent, wire, shake, ws, tokens, refills, admitted, handled, frames>>
  BY DEF Refuse
<1>2. tcp # "down" /\ answered \in Seq([of : Nat, status : Nat])
  BY DEF HttpInv, HttpTypes, HttpTypeOK
<1>3. ~WellFormed /\ (tcp = "connected" => \A j \in 1..Len(answered) : answered[j].of < i)
  <2>1. CASE tcp = "connected" \/ (tcp = "disconnecting" /\ WellFormed)
    <3>1. PICK n \in 0..Len(sent) : ParserAt(n) /\ (tcp = "connected" => FirstServed(n))
      BY <2>1 DEF HttpInv, InStep
    <3>2. ~WellFormed /\ i = n + 1
      BY <3>1
    <3>3. ASSUME tcp = "connected", NEW j \in 1..Len(answered) PROVE answered[j].of < i
      <4>1. answered[j].of <= n
        BY <3>1, <3>3, <1>2 DEF FirstServed
      <4>2. answered[j] \in [of : Nat, status : Nat]
        BY <1>2, Element
      <4>3. answered[j].of \in Nat
        BY <4>2
      <4> QED
        BY <4>1, <4>3, <3>2
    <3> QED
      BY <3>2, <3>3
  <2> QED
    BY <2>1, <1>2 DEF HttpInv, HttpTypes, HttpTypeOK
<1>4. answered' \in Seq([of : Nat, status : Nat]) /\ AnswersInOrder'
  <2>1. 400 \in Nat
    OBVIOUS
  <2> QED
    BY <1>1, <1>3, <2>1, AnswerSent
<1>5. HttpTypeOK'
  <2>1. sent' = sent /\ sent \in Seq(Message) /\ Len(sent) <= MaxSent /\ MaxSent \in Nat
    BY <1>1, HttpAssumption DEF HttpInv, HttpTypes, HttpTypeOK
  <2>2. Len(sent) \in Nat /\ request'.of \in 0..Len(sent) /\ request'.body \in 0..Len(sent)
    BY <2>1 DEF RequestOf
  <2>3. request'.of \in 0..MaxSent /\ request'.body \in 0..MaxSent
    BY <2>1, <2>2
  <2> QED
    BY <1>1, <2>1, <2>3 DEF HttpInv, HttpTypes, HttpTypeOK
<1>6. HttpTypes'
  BY <1>1, <1>2, <1>4, <1>5 DEF HttpInv, HttpTypes, UnitOf, RequestOf
<1>7. ~WellFormed' /\ UpgradeFirst'
  BY <1>1, <1>3 DEF HttpInv, UpgradeFirst, IsFrame, Of, WellFormed
<1>8. InStep'
  BY <1>1, <1>7 DEF InStep
<1>9. (admitted + tokens <= BucketCapacity + refills)'
  BY <1>1 DEF HttpInv
<1> QED
  BY <1>4, <1>6, <1>7, <1>8, <1>9 DEF HttpInv

\* Well-formed messages are neither refused at their line nor for their length.
LEMMA WellFormedFacts ==
    ASSUME WellFormed, sent \in Seq(Message), NEW i \in 1..Len(sent), ~IsFrame(sent, i)
    PROVE  /\ M(i).method \in KnownMethods /\ M(i).version
           /\ M(i).method = "POST" => M(i).len >= 0
<1>1. sent[i] \in Message /\ sent[i] \notin {"nolen", "badlen", "method", "version"}
  BY Element DEF WellFormed
<1> QED
  BY <1>1, ShapeFacts DEF KindFacts, IsFrame, Of, M

\* A request line that does not parse.
LEMMA RefuseLineStep ==
    ASSUME HttpInv, RefuseLine
    PROVE  HttpInv'
<1> DEFINE u == Head(buf)
<1>1. /\ pc = "parse" /\ state_ = "line" /\ Line
      /\ u.t # "line" \/ M(u.of).method \notin KnownMethods \/ ~M(u.of).version
      /\ request' = IF u.t = "line" /\ M(u.of).method \in KnownMethods
                    THEN [request EXCEPT !.of = u.of, !.method = M(u.of).method] ELSE request
      /\ Refuse(u.of) /\ UNCHANGED <<state_, buf, aborted>>
  BY DEF RefuseLine
<1>2. /\ tcp # "down" /\ buf \in Seq(UnitOf(sent)) /\ buf # <<>> /\ sent \in Seq(Message)
      /\ request \in RequestOf(sent) /\ WholeMessages(sent, Stream)
  BY <1>1 DEF HttpInv, HttpTypes, HttpTypeOK, Line
<1>3. u \in UnitOf(sent)
  BY <1>2, TailDrops
<1>4. u.of \in 1..Len(sent) /\ u.of \in Nat /\ u.of \in 0..Len(sent)
  BY <1>2, <1>3 DEF UnitOf
<1>5. UNCHANGED <<sent, wire, shake>>
  BY <1>1 DEF Refuse
<1>6. Stream' = Stream
  BY <1>1, <1>5 DEF Stream
<1>7. \A n \in 0..Len(sent) : ParserAt(n) => ~WellFormed /\ u.of = n + 1
  <2>1. ASSUME NEW n \in 0..Len(sent), ParserAt(n) PROVE ~WellFormed /\ u.of = n + 1
    <3>1. n + 1 \in 1..Len(sent) /\ ~IsFrame(sent, n + 1) /\ u = Unit("line", n + 1)
      BY <1>1, <1>2, <2>1, LinePlace
    <3>2. u.t = "line" /\ u.of = n + 1
      BY <3>1 DEF Unit
    <3> HIDE DEF u
    <3>3. M(n + 1).method \notin KnownMethods \/ ~M(n + 1).version
      BY <1>1, <3>2
    <3> QED
      BY <1>2, <3>1, <3>2, <3>3, WellFormedFacts
  <2> QED
    BY <2>1
<1> HIDE DEF u
<1>8. request' \in RequestOf(sent) /\ request'.len = request.len
  <2>1. CASE u.t = "line" /\ M(u.of).method \in KnownMethods
    <3>1. M(u.of).method \in {"kInvalid", "GET", "POST", "OPTIONS"}
      BY <2>1 DEF KnownMethods
    <3>2. request' = [request EXCEPT !.of = u.of, !.method = M(u.of).method]
      BY <1>1, <2>1
    <3> QED
      BY <3>1, <3>2, <1>2, <1>4 DEF RequestOf
  <2>2. CASE ~(u.t = "line" /\ M(u.of).method \in KnownMethods)
    <3>1. request' = request
      BY <1>1, <2>2
    <3> QED
      BY <3>1, <1>2
  <2> QED
    BY <2>1, <2>2
<1>9. WholeMessages(sent', Stream') /\ buf' \in Seq(UnitOf(sent)) /\ pc # "wait"
  BY <1>1, <1>2, <1>5, <1>6
<1> QED
  BY <1>1, <1>4, <1>7, <1>8, <1>9, RefuseStep

\* A POST whose length is not a number.
LEMMA RefuseLengthStep ==
    ASSUME HttpInv, RefuseLength
    PROVE  HttpInv'
<1>1. /\ pc = "parse" /\ state_ = "headers" /\ Line /\ Head(buf).t = "end"
      /\ request.method = "POST" /\ request.len = -2
      /\ Refuse(request.of) /\ UNCHANGED <<buf, state_, request, aborted>>
  BY DEF RefuseLength
<1>2. /\ tcp # "down" /\ buf \in Seq(UnitOf(sent)) /\ buf # <<>> /\ sent \in Seq(Message)
      /\ request \in RequestOf(sent) /\ WholeMessages(sent, Stream)
  BY <1>1 DEF HttpInv, HttpTypes, HttpTypeOK, Line
<1>3. request.of \in Nat
  BY <1>2 DEF RequestOf
<1>4. UNCHANGED <<sent, wire, shake>>
  BY <1>1 DEF Refuse
<1>5. Stream' = Stream
  BY <1>1, <1>4 DEF Stream
<1>6. \A n \in 0..Len(sent) : ParserAt(n) => ~WellFormed /\ request.of = n + 1
  <2>1. ASSUME NEW n \in 0..Len(sent), ParserAt(n) PROVE ~WellFormed /\ request.of = n + 1
    <3>1. request.len = Of(sent, n + 1).len
      BY <1>1, <1>2, <2>1, HeaderPlace
    <3>2. /\ n + 1 \in 1..Len(sent) /\ ~IsFrame(sent, n + 1) /\ request.of = n + 1
          /\ request.method = Of(sent, n + 1).method
      BY <1>1, <2>1 DEF ParserAt
    <3>3. M(n + 1).method = "POST" /\ M(n + 1).len = -2
      BY <1>1, <3>1, <3>2 DEF M, Of
    <3> QED
      BY <1>2, <3>2, <3>3, WellFormedFacts
  <2> QED
    BY <2>1
<1>7. WholeMessages(sent', Stream') /\ buf' \in Seq(UnitOf(sent)) /\ pc # "wait"
  BY <1>1, <1>2, <1>4, <1>5
<1> QED
  BY <1>1, <1>2, <1>3, <1>6, <1>7, RefuseStep

\* A POST without a length.
LEMMA RefuseNoLengthStep ==
    ASSUME HttpInv, ParseEnd, request.method = "POST", request.len = -1, Refuse(request.of),
           UNCHANGED <<state_, aborted>>
    PROVE  HttpInv'
<1>1. /\ pc = "parse" /\ state_ = "headers" /\ Line /\ Head(buf).t = "end"
      /\ request' = request /\ buf' = Tail(buf)
  BY DEF ParseEnd
<1>2. /\ tcp # "down" /\ buf \in Seq(UnitOf(sent)) /\ buf # <<>> /\ sent \in Seq(Message)
      /\ request \in RequestOf(sent)
  BY <1>1 DEF HttpInv, HttpTypes, HttpTypeOK, Line
<1>3. request.of \in Nat
  BY <1>2 DEF RequestOf
<1>4. UNCHANGED <<sent, wire, shake>>
  BY DEF Refuse
<1>5. buf' \in Seq(UnitOf(sent)) /\ Dropped(buf, buf', 1)
  BY <1>1, <1>2, TailDrops
<1>6. WholeMessages(sent', Stream')
  BY <1>2, <1>4, <1>5, Consumed
<1>7. \A n \in 0..Len(sent) : ParserAt(n) => ~WellFormed /\ request.of = n + 1
  <2>1. ASSUME NEW n \in 0..Len(sent), ParserAt(n) PROVE ~WellFormed /\ request.of = n + 1
    <3>1. request.len = Of(sent, n + 1).len
      BY <1>1, <1>2, <2>1, HeaderPlace
    <3>2. /\ n + 1 \in 1..Len(sent) /\ ~IsFrame(sent, n + 1) /\ request.of = n + 1
          /\ request.method = Of(sent, n + 1).method
      BY <1>1, <2>1 DEF ParserAt
    <3>3. M(n + 1).method = "POST" /\ M(n + 1).len = -1
      BY <1>1, <3>1, <3>2 DEF M, Of
    <3> QED
      BY <1>2, <3>2, <3>3, WellFormedFacts
  <2> QED
    BY <2>1
<1>8. pc # "wait" /\ request' \in RequestOf(sent) /\ request'.len = request.len
  BY <1>1, <1>2
<1> QED
  BY <1>3, <1>5, <1>6, <1>7, <1>8, RefuseStep

\* Something else where a header should be: never in step.
LEMMA RefuseHeaderStep ==
    ASSUME HttpInv, RefuseHeader
    PROVE  HttpInv'
<1> DEFINE LineEnd(i) == HasCRLF(buf[i]) /\ \A j \in 1..(i - 1) : ~HasCRLF(buf[j])
           m == CHOOSE i \in DOMAIN buf : LineEnd(i)
<1>1. /\ pc = "parse" /\ state_ = "headers" /\ Line /\ ~(Head(buf).t \in {"field", "end"})
      /\ buf' = SubSeq(buf, m + 1, Len(buf))
      /\ Refuse(request.of) /\ UNCHANGED <<state_, request, aborted>>
  BY DEF RefuseHeader
<1>2. /\ tcp # "down" /\ buf \in Seq(UnitOf(sent)) /\ buf # <<>> /\ sent \in Seq(Message)
      /\ request \in RequestOf(sent)
  BY <1>1 DEF HttpInv, HttpTypes, HttpTypeOK, Line
<1>3. request.of \in Nat
  BY <1>2 DEF RequestOf
<1>4. UNCHANGED <<sent, wire, shake>>
  BY <1>1 DEF Refuse
<1>5. m \in DOMAIN buf
  <2> DEFINE T == {i \in 1..Len(buf) : HasCRLF(buf[i])}
  <2>1. T \in SUBSET Nat /\ T # {} /\ DOMAIN buf = 1..Len(buf)
    BY <1>1, <1>2 DEF Line
  <2>2. PICK i \in T : \A j \in T : i <= j
    BY <2>1, LeastNat
  <2>3. i \in DOMAIN buf /\ LineEnd(i)
    BY <2>1, <2>2
  <2> QED
    BY <2>3
<1> HIDE DEF m
<1>6. m \in 0..Len(buf)
  BY <1>2, <1>5
<1>7. buf' \in Seq(UnitOf(sent)) /\ Dropped(buf, buf', m)
  BY <1>1, <1>2, <1>6, DropIs
<1>8. WholeMessages(sent', Stream')
  BY <1>2, <1>4, <1>7, Consumed
<1>9. \A n \in 0..Len(sent) : ParserAt(n) => ~WellFormed /\ request.of = n + 1
  BY <1>1, <1>2, HeaderPlace
<1>10. pc # "wait" /\ request' \in RequestOf(sent) /\ request'.len = request.len
  BY <1>1, <1>2
<1> QED
  BY <1>1, <1>3, <1>7, <1>8, <1>9, <1>10, RefuseStep

\* A second method for one request: never in step.
LEMMA AssertFailsStep ==
    ASSUME HttpInv, AssertFails
    PROVE  HttpInv'
<1>1. /\ pc = "parse" /\ state_ = "line" /\ Line /\ request.method # "kInvalid"
      /\ aborted' = TRUE /\ pc' = "wait"
      /\ UNCHANGED <<sent, wire, shake, buf, state_, request, tcp, ws, tokens, refills, admitted,
                     handled, answered, frames>>
  BY DEF AssertFails
<1>2. tcp # "down"
  BY <1>1 DEF HttpInv, HttpTypes
<1>3. ~(tcp = "connected" \/ (tcp = "disconnecting" /\ WellFormed))
  <2>1. SUFFICES ASSUME tcp = "connected" \/ (tcp = "disconnecting" /\ WellFormed) PROVE FALSE
    OBVIOUS
  <2>2. PICK n \in 0..Len(sent) : ParserAt(n)
    BY <2>1 DEF HttpInv, InStep
  <2> QED
    BY <1>1, <2>2 DEF ParserAt
<1>4. tcp = "disconnecting" /\ ~WellFormed
  BY <1>2, <1>3 DEF HttpInv, HttpTypes, HttpTypeOK
<1>5. ~WellFormed' /\ tcp' = "disconnecting"
  BY <1>1, <1>4 DEF WellFormed
<1>6. HttpTypes'
  BY <1>1, <1>2 DEF HttpInv, HttpTypes, HttpTypeOK, UnitOf, RequestOf
<1>7. UpgradeFirst' /\ AnswersInOrder' /\ Stream' = Stream
  BY <1>1 DEF HttpInv, UpgradeFirst, IsFrame, Of, AnswersInOrder, Stream
<1>8. InStep' /\ WholeMessages(sent', Stream')
  BY <1>1, <1>2, <1>5, <1>7 DEF InStep, HttpInv
<1>9. (admitted + tokens <= BucketCapacity + refills)'
  BY <1>1 DEF HttpInv
<1> QED
  BY <1>5, <1>6, <1>7, <1>8, <1>9 DEF HttpInv

\* A response leaves the connection open only after a handler of the application or
\* an upgrade, and an upgrade only comes from /ws.
LEMMA OutcomeFacts ==
    ASSUME NEW r, NEW o \in Outcomes(r)
    PROVE  /\ o.status \in {429, 204, 404, 200, 101, 401} /\ o.close \in BOOLEAN
           /\ ~o.close => o.status \in {200, 101}
           /\ o.status = 101 => M(r.of).path = "ws"
<1>1. CASE o \in {Outcome(429, TRUE), Outcome(204, TRUE), Outcome(404, TRUE)}
  <2>1. o.close = TRUE /\ o.status \in {429, 204, 404}
    BY <1>1 DEF Outcome
  <2>2. o.status # 101 /\ o.status \in {429, 204, 404, 200, 101, 401}
    BY <2>1
  <2> QED
    BY <2>1, <2>2, Zenon
<1>2. CASE M(r.of).path = "ws" /\ o \in handleUpgrade
  <2>1. CASE o = Outcome(401, TRUE)
    <3>1. o.close = TRUE /\ o.status = 401
      BY <2>1 DEF Outcome
    <3>2. o.status # 101 /\ o.status \in {429, 204, 404, 200, 101, 401}
      BY <3>1
    <3> QED
      BY <3>1, <3>2, Zenon
  <2>2. CASE o = Outcome(101, FALSE)
    <3>1. o.close = FALSE /\ o.status = 101
      BY <2>2 DEF Outcome
    <3> QED
      BY <1>2, <3>1
  <2> QED
    BY <1>2, <2>1, <2>2 DEF handleUpgrade
<1>3. CASE o \in Page
  <2>1. PICK close \in BOOLEAN : o = Outcome(200, close)
    BY <1>3 DEF Page
  <2>2. o.close = close /\ o.status = 200
    BY <2>1 DEF Outcome
  <2> QED
    BY <2>2
<1>4. \/ o \in {Outcome(429, TRUE), Outcome(204, TRUE), Outcome(404, TRUE)}
      \/ M(r.of).path = "ws" /\ o \in handleUpgrade
      \/ o \in Page
  BY DEF Outcomes
<1> QED
  BY <1>1, <1>2, <1>3, <1>4

\* A whole request: the chain, the router and the handler; in step it is the next
\* message, and the connection goes on only when it was handled.
LEMMA OnRequestStep ==
    ASSUME HttpInv, OnRequest
    PROVE  HttpInv'
<1> DEFINE H == [of : 0..Len(sent), body : 0..Len(sent)]
<1>1. PICK o \in Outcomes(request) :
       /\ answered' = Answer(request.of, o.status)
       /\ tcp' = IF o.close /\ tcp = "connected" THEN "disconnecting" ELSE tcp
       /\ handled' = IF o.status \in {200, 101, 401}
                     THEN Append(handled, [of |-> request.of, body |-> request.body]) ELSE handled
       /\ ws' = (o.status = 101)
       /\ pc' = IF o.status = 101 /\ buf # <<>> THEN "frames" ELSE "wait"
  BY DEF OnRequest
<1>2. /\ pc = "parse" /\ state_ = "all"
      /\ tokens' = IF tryConsume THEN tokens - 1 ELSE tokens
      /\ admitted' = IF tryConsume THEN admitted + 1 ELSE admitted
      /\ request' = reset(request) /\ state_' = "line"
      /\ UNCHANGED <<sent, wire, shake, buf, refills, frames, aborted>>
  BY DEF OnRequest
<1>3. /\ tcp \in {"connected", "disconnecting"} /\ sent \in Seq(Message) /\ request \in RequestOf(sent)
      /\ handled \in Seq(H) /\ answered \in Seq([of : Nat, status : Nat]) /\ frames \in Seq(Nat)
      /\ tokens \in 0..BucketCapacity /\ admitted \in Nat /\ refills \in Nat /\ shake = 0
      /\ WholeMessages(sent, Stream) /\ Len(sent) <= MaxSent
  BY <1>2 DEF HttpInv, HttpTypes, HttpTypeOK
<1>4. /\ request.of \in 0..Len(sent) /\ request.body \in 0..Len(sent) /\ request.of \in Nat
      /\ BucketCapacity \in Nat /\ MaxSent \in Nat /\ Len(sent) \in Nat
  BY <1>3, HttpAssumption DEF RequestOf
<1>5. /\ o.status \in {429, 204, 404, 200, 101, 401} /\ o.close \in BOOLEAN
      /\ ~o.close => o.status \in {200, 101}
      /\ o.status = 101 => M(request.of).path = "ws"
  BY OutcomeFacts
<1>6. /\ request'.of = 0 /\ request'.method = "kInvalid" /\ request'.len = -1 /\ request' \in RequestOf(sent)
      /\ request'.body = request.body
  BY <1>2, <1>4 DEF reset, NoRequest, RequestOf
<1>7. Stream' = Stream
  BY <1>2 DEF Stream
<1>8. /\ tcp = "connected" \/ (tcp = "disconnecting" /\ WellFormed) =>
            \E n \in 0..Len(sent) : ParserAt(n) /\ FramesLate(n) /\ (tcp = "connected" => FirstServed(n))
      /\ \A n \in 0..Len(sent) : ParserAt(n) => request.of = n + 1
  BY <1>2 DEF HttpInv, InStep, ParserAt
<1>9. /\ answered' \in Seq([of : Nat, status : Nat]) /\ AnswersInOrder'
      /\ \A j \in DOMAIN answered' : \/ j \in DOMAIN answered /\ answered'[j] = answered[j]
                                     \/ answered'[j].of = request.of /\ answered'[j].status = o.status
  <2>1. o.status \in Nat
    BY <1>5
  <2>2. ASSUME tcp = "connected", NEW j \in 1..Len(answered) PROVE answered[j].of < request.of
    <3>1. PICK n \in 0..Len(sent) : ParserAt(n) /\ FirstServed(n)
      BY <1>8, <2>2
    <3>2. answered[j].of <= n
      BY <3>1, <1>3 DEF FirstServed
    <3>3. answered[j] \in [of : Nat, status : Nat]
      BY <1>3, Element
    <3> QED
      BY <3>1, <3>2, <3>3, <1>8
  <2> QED
    BY <2>1, <2>2, <1>1, <1>4, AnswerSent
<1>10. WellFormed' => ~Refused' /\ ~aborted'
  <2>1. SUFFICES ASSUME WellFormed' PROVE ~Refused' /\ ~aborted'
    OBVIOUS
  <2>2. ~Refused /\ ~aborted
    BY <2>1, <1>2 DEF WellFormed, HttpInv
  <2>3. ASSUME NEW j \in DOMAIN answered' PROVE answered'[j].status # 400
    <3>1. o.status # 400
      BY <1>5
    <3>2. \A x \in DOMAIN answered : answered[x].status # 400
      BY <2>2 DEF Refused
    <3> QED
      BY <3>1, <3>2, <1>9
  <2> QED
    BY <2>2, <2>3, <1>2 DEF Refused
<1>11. /\ tokens' \in 0..BucketCapacity /\ admitted' \in Nat
       /\ (admitted + tokens <= BucketCapacity + refills)'
  <2>1. admitted + tokens <= BucketCapacity + refills
    BY DEF HttpInv
  <2>2. CASE tryConsume
    BY <2>1, <2>2, <1>2, <1>3, <1>4 DEF tryConsume
  <2>3. CASE ~tryConsume
    BY <2>1, <2>3, <1>2, <1>3, <1>4
  <2> QED
    BY <2>2, <2>3
<1>12. /\ handled' \in Seq(H)
       /\ o.status \in {200, 101, 401} =>
            /\ Len(handled') = Len(handled) + 1
            /\ \A j \in 1..Len(handled) : handled'[j] = handled[j]
            /\ handled'[Len(handled) + 1] = [of |-> request.of, body |-> request.body]
  <2>1. [of |-> request.of, body |-> request.body] \in H
    BY <1>4
  <2> HIDE DEF H
  <2> QED
    BY <2>1, <1>1, <1>3
<1>13. HttpTypes'
  <2>1. /\ tcp' \in {"connected", "disconnecting"} /\ pc' \in {"wait", "frames"}
        /\ ws' \in BOOLEAN
    BY <1>1, <1>3
  <2>2. request'.of \in 0..MaxSent /\ request'.body \in 0..MaxSent
    BY <1>3, <1>4, <1>6
  <2>3. HttpTypeOK'
    BY <1>2, <2>1, <2>2, <1>11 DEF HttpInv, HttpTypes, HttpTypeOK
  <2>4. /\ (buf \in Seq(UnitOf(sent)) /\ wire \in Seq(UnitOf(sent) \cup {Unit("hello", 0)}))'
        /\ (tcp # "down" => shake <= Len(wire) /\ \A j \in (shake + 1)..Len(wire) : wire[j] \in UnitOf(sent))'
    BY <1>2, <1>3 DEF HttpInv, HttpTypes, UnitOf
  <2> QED
    BY <1>2, <1>3, <1>6, <1>9, <1>11, <1>12, <2>1, <2>3, <2>4 DEF HttpTypes, RequestOf
<1>14. ASSUME NEW n \in 0..Len(sent), ParserAt(n), FramesLate(n)
       PROVE  /\ n + 1 \in 0..Len(sent) /\ ParserAt(n + 1)' /\ FramesLate(n + 1)'
              /\ tcp' = "connected" /\ FirstServed(n) => FirstServed(n + 1)'
  <2>1. /\ n + 1 \in 1..Len(sent) /\ request.of = n + 1
        /\ Begins(sent, Stream, 1, n + 2) /\ (Of(sent, n + 1).len > 0 => request.body = n + 1)
    BY <1>2, <1>14 DEF ParserAt
  <2>2. ParserAt(n + 1)'
    <3>1. (n + 1) + 1 = n + 2
      OBVIOUS
    <3> QED
      BY <1>2, <1>6, <1>7, <2>1, <3>1 DEF ParserAt
  <2>3. ~ws /\ pc # "frames" /\ frames = <<>>
    BY <1>2, <1>14 DEF FramesLate
  <2>4. FramesLate(n + 1)'
    <3>1. SUFFICES ASSUME ws' \/ pc' = "frames" \/ frames' # <<>>
                   PROVE  \E i \in 1..(n + 1) : sent[i] = "upgrade"
      BY <1>2 DEF FramesLate
    <3>2. o.status = 101
      BY <3>1, <2>3, <1>1, <1>2
    <3>3. sent[n + 1] \in Message /\ Shape[sent[n + 1]].path = "ws"
      BY <3>2, <2>1, <1>3, <1>5, Element DEF M
    <3>4. sent[n + 1] = "upgrade"
      BY <3>3, ShapeFacts DEF KindFacts
    <3> QED
      BY <3>4
  <2>5. ASSUME tcp' = "connected", FirstServed(n) PROVE FirstServed(n + 1)'
    <3>1. tcp = "connected" /\ o.status \in {200, 101}
      BY <2>5, <1>1, <1>3, <1>5
    <3>2. /\ n = Len(handled) + Len(frames)
          /\ \A i \in DOMAIN handled : handled[i].of = i /\ (Of(sent, i).len > 0 => handled[i].body = i)
          /\ \A i \in DOMAIN answered : answered[i].of <= n /\ answered[i].status # 400
      BY <2>5 DEF FirstServed
    <3>3. /\ Len(handled') = n + 1 /\ Len(handled) = n /\ DOMAIN handled' = 1..(n + 1) /\ DOMAIN handled = 1..n
          /\ \A j \in 1..n : handled'[j] = handled[j]
          /\ handled'[n + 1] = [of |-> n + 1, body |-> request.body]
          /\ frames' = <<>> /\ Len(frames') = 0
      <4>1. Len(frames) = 0 /\ Len(handled) \in Nat /\ DOMAIN handled = 1..Len(handled)
        BY <2>3, <1>3
      <4>2. Len(handled') = Len(handled) + 1 /\ DOMAIN handled' = 1..Len(handled')
        BY <3>1, <1>12
      <4> QED
        BY <4>1, <4>2, <3>1, <3>2, <2>1, <2>3, <1>2, <1>12
    <3>4. ASSUME NEW i \in 1..(n + 1) PROVE handled'[i].of = i /\ (Of(sent, i).len > 0 => handled'[i].body = i)
      <4>1. CASE i \in 1..n
        BY <4>1, <3>2, <3>3
      <4>2. CASE i = n + 1
        BY <4>2, <3>3, <2>1
      <4> QED
        BY <4>1, <4>2
    <3>5. ASSUME NEW i \in DOMAIN answered' PROVE answered'[i].of <= n + 1 /\ answered'[i].status # 400
      <4>1. CASE i \in DOMAIN answered /\ answered'[i] = answered[i]
        <5>1. answered[i] \in [of : Nat, status : Nat]
          <6>1. i \in 1..Len(answered)
            BY <4>1, <1>3
          <6> QED
            BY <6>1, <1>3, Element
        <5>2. answered[i].of \in Nat /\ answered[i].of <= n /\ answered[i].status # 400
          BY <5>1, <4>1, <3>2
        <5> QED
          BY <5>2, <4>1
      <4>2. CASE answered'[i].of = request.of /\ answered'[i].status = o.status
        BY <4>2, <2>1, <1>5
      <4> QED
        BY <4>1, <4>2, <1>9
    <3> QED
      BY <3>3, <3>4, <3>5, <1>2 DEF FirstServed
  <2> QED
    BY <1>4, <2>1, <2>2, <2>4, <2>5
<1>15. InStep'
  <2>1. SUFFICES ASSUME (tcp = "connected" \/ (tcp = "disconnecting" /\ WellFormed))'
                 PROVE  \E n \in 0..Len(sent') : ParserAt(n)' /\ FramesLate(n)' /\ (tcp' = "connected" => FirstServed(n)')
    BY DEF InStep
  <2>2. tcp = "connected" \/ (tcp = "disconnecting" /\ WellFormed)
    BY <2>1, <1>1, <1>2, <1>3 DEF WellFormed
  <2>3. PICK n \in 0..Len(sent) : ParserAt(n) /\ FramesLate(n) /\ (tcp = "connected" => FirstServed(n))
    BY <2>2, <1>8
  <2>4. tcp' = "connected" => tcp = "connected"
    BY <1>1, <1>3
  <2> QED
    BY <2>3, <2>4, <1>2, <1>14
<1>16. UpgradeFirst' /\ WholeMessages(sent', Stream')
  BY <1>2, <1>3, <1>7 DEF HttpInv, UpgradeFirst, IsFrame, Of
<1> QED
  BY <1>9, <1>10, <1>11, <1>13, <1>15, <1>16 DEF HttpInv

\* A whole frame: in step, the next message.
LEMMA ProcessFrameStep ==
    ASSUME HttpInv, ProcessFrame
    PROVE  HttpInv'
<1> DEFINE i == Head(buf).of
           size == 1 + M(i).bytes
           m == IF size < Len(buf) THEN size ELSE Len(buf)
<1>1. /\ pc = "frames" /\ FrameComplete
      /\ buf' = SubSeq(buf, m + 1, Len(buf)) /\ frames' = Append(frames, i)
      /\ answered' = IF M(i).kind \in {"ping", "close"} THEN Answer(i, 0) ELSE answered
      /\ ws' = (ws /\ M(i).kind # "close")
      /\ pc' = IF M(i).kind = "close" \/ buf' = <<>> THEN "wait" ELSE "frames"
      /\ UNCHANGED <<sent, wire, shake, state_, request, tcp, tokens, refills, admitted, handled, aborted>>
  BY DEF ProcessFrame
<1>2. /\ tcp # "down" /\ sent \in Seq(Message) /\ buf \in Seq(UnitOf(sent)) /\ Len(buf) \in Nat /\ buf # <<>>
      /\ answered \in Seq([of : Nat, status : Nat]) /\ frames \in Seq(Nat) /\ shake = 0
  BY <1>1 DEF HttpInv, HttpTypes, HttpTypeOK, FrameComplete
<1>3. Head(buf) \in UnitOf(sent) /\ Head(buf) = buf[1] /\ Len(buf) >= 1
  BY <1>2, TailDrops
<1>4. i \in 1..Len(sent) /\ i \in Nat
  BY <1>2, <1>3 DEF UnitOf
<1>5. sent[i] \in Message
  BY <1>2, <1>4, Element
<1>6. M(i).bytes \in Nat
  BY <1>5, ShapeFacts DEF KindFacts, M
<1>7. m = size /\ m \in 0..Len(buf) /\ m = 1 + M(i).bytes
  BY SMTT(60), <1>1, <1>2, <1>6 DEF FrameComplete
<1> HIDE DEF m, size
<1>8. buf' \in Seq(UnitOf(sent)) /\ Dropped(buf, buf', m)
  BY <1>1, <1>2, <1>7, DropIs
<1>9. Dropped(Stream, Stream', m) /\ Stream' \in Seq(UnitOf(sent)) /\ WholeMessages(sent', Stream')
  BY <1>1, <1>2, <1>8, Consumed
<1>10. ASSUME NEW n \in 0..Len(sent), ParserAt(n), FramesLate(n)
       PROVE  /\ i = n + 1 /\ n + 1 \in 0..Len(sent) /\ ParserAt(n + 1)' /\ FramesLate(n + 1)'
  <2>1. state_ = "line"
    BY <1>1, <1>10 DEF FramesLate
  <2>2. PICK k \in 1..n : sent[k] = "upgrade"
    BY <1>1, <1>10 DEF FramesLate
  <2>3. Begins(sent, Stream, 1, n + 1) /\ request.method = "kInvalid" /\ request.len = -1
    BY <2>1, <1>10 DEF ParserAt
  <2>4. 1 \in 1..Len(Stream) /\ Stream[1] = Head(buf) /\ Len(Stream) \in Nat /\ WholeMessages(sent, Stream)
    <3>1. 1 \in 1..Len(buf)
      BY <1>2, <1>3
    <3> QED
      BY <3>1, <1>2, <1>3, StreamNow
  <2>5. n + 1 \in 1..Len(sent) /\ Head(buf) = Unit(IF IsFrame(sent, n + 1) THEN "frame" ELSE "line", n + 1)
    BY <2>3, <2>4 DEF Begins
  <2>6. i = n + 1
    BY <2>5 DEF Unit
  <2>7. IsFrame(sent, n + 1)
    <3>1. k \in DOMAIN sent /\ n + 1 \in DOMAIN sent /\ k < n + 1
      BY <1>2, <2>5
    <3> QED
      BY <3>1, <2>2 DEF HttpInv, UpgradeFirst
  <2>8. RestFollows(sent, Stream, 1) /\ Stream[1] = Unit("frame", n + 1)
    BY <2>4, <2>5, <2>7 DEF WholeMessages
  <2>9. BytesAt(sent, Stream, 1 + 1, n + 1)
    BY <2>8 DEF RestFollows, Unit
  <2>10. Begins(sent, Stream, (1 + 1) + Of(sent, n + 1).bytes, (n + 1) + 1)
    BY <2>9 DEF BytesAt
  <2>11. (1 + 1) + Of(sent, n + 1).bytes = 1 + m /\ m \in Nat
    <3>1. Of(sent, n + 1).bytes = M(i).bytes
      BY <2>6 DEF Of, M
    <3> QED
      BY <3>1, <1>6, <1>7
  <2>12. Begins(sent, Stream', 1, (n + 1) + 1)
    <3>1. (n + 1) + 1 \in Nat /\ Len(sent) \in Nat
      BY <1>2
    <3>2. Begins(sent, Stream', 1, (n + 1) + 1) <=> Begins(sent, Stream, 1 + m, (n + 1) + 1)
      BY <3>1, <1>9, BeginsDropped
    <3> QED
      BY <3>2, <2>10, <2>11
  <2>13. ParserAt(n + 1)'
    BY <1>1, <2>1, <2>3, <2>12 DEF ParserAt
  <2>14. FramesLate(n + 1)'
    <3>1. k \in 1..(n + 1)
      OBVIOUS
    <3> QED
      BY <1>1, <2>1, <2>2, <3>1 DEF FramesLate
  <2> QED
    BY <1>2, <2>5, <2>6, <2>13, <2>14
<1>11. tcp = "connected" => \A j \in 1..Len(answered) : answered[j].of < i
  <2>1. ASSUME tcp = "connected", NEW j \in 1..Len(answered) PROVE answered[j].of < i
    <3>1. PICK n \in 0..Len(sent) : ParserAt(n) /\ FramesLate(n) /\ FirstServed(n)
      BY <2>1 DEF HttpInv, InStep
    <3>2. answered[j].of <= n
      BY <3>1, <1>2 DEF FirstServed
    <3>3. answered[j] \in [of : Nat, status : Nat]
      BY <1>2, Element
    <3>4. i = n + 1
      BY <3>1, <1>10
    <3> HIDE DEF i
    <3> QED
      BY <3>2, <3>3, <3>4
  <2> QED
    BY <2>1
<1> HIDE DEF i
<1>12. /\ answered' \in Seq([of : Nat, status : Nat]) /\ AnswersInOrder'
       /\ \A j \in DOMAIN answered' : \/ j \in DOMAIN answered /\ answered'[j] = answered[j]
                                      \/ answered'[j].of = i /\ answered'[j].status = 0
  <2>1. CASE M(i).kind \in {"ping", "close"}
    <3>1. answered' = Answer(i, 0) /\ 0 \in Nat
      BY <1>1, <2>1
    <3> QED
      BY <3>1, <1>4, <1>11, AnswerSent
  <2>2. CASE M(i).kind \notin {"ping", "close"}
    <3>1. answered' = answered
      BY <1>1, <2>2
    <3> QED
      BY <3>1, <1>2 DEF HttpInv, AnswersInOrder
  <2> QED
    BY <2>1, <2>2
<1>13. WellFormed' => ~Refused' /\ ~aborted'
  <2>1. SUFFICES ASSUME WellFormed' PROVE ~Refused' /\ ~aborted'
    OBVIOUS
  <2>2. ~Refused /\ ~aborted
    BY <2>1, <1>1 DEF WellFormed, HttpInv
  <2>3. ASSUME NEW j \in DOMAIN answered' PROVE answered'[j].status # 400
    <3>1. \A x \in DOMAIN answered : answered[x].status # 400
      BY <2>2 DEF Refused
    <3>2. 0 # 400
      OBVIOUS
    <3> QED
      BY <3>1, <3>2, <1>12
  <2> QED
    BY <2>2, <2>3, <1>1 DEF Refused
<1>14. frames' \in Seq(Nat) /\ Len(frames') = Len(frames) + 1 /\ Len(frames) \in Nat
       /\ (\A j \in 1..Len(frames) : frames'[j] = frames[j]) /\ frames'[Len(frames) + 1] = i
  BY <1>1, <1>2, <1>4
<1>15. HttpTypes'
  <2>1. pc' \in {"wait", "frames"} /\ ws' \in BOOLEAN
    BY <1>1 DEF HttpInv, HttpTypes, HttpTypeOK
  <2>2. HttpTypeOK'
    BY <1>1, <2>1 DEF HttpInv, HttpTypes, HttpTypeOK
  <2> QED
    BY <1>1, <1>2, <1>8, <1>12, <1>14, <2>1, <2>2 DEF HttpInv, HttpTypes, UnitOf, RequestOf
<1>16. InStep'
  <2>1. SUFFICES ASSUME (tcp = "connected" \/ (tcp = "disconnecting" /\ WellFormed))'
                 PROVE  \E n \in 0..Len(sent') : ParserAt(n)' /\ FramesLate(n)' /\ (tcp' = "connected" => FirstServed(n)')
    BY DEF InStep
  <2>2. tcp = "connected" \/ (tcp = "disconnecting" /\ WellFormed)
    BY <2>1, <1>1 DEF WellFormed
  <2>3. PICK n \in 0..Len(sent) : ParserAt(n) /\ FramesLate(n) /\ (tcp = "connected" => FirstServed(n))
    BY <2>2 DEF HttpInv, InStep
  <2>4. i = n + 1 /\ n + 1 \in 0..Len(sent) /\ ParserAt(n + 1)' /\ FramesLate(n + 1)'
    BY <2>3, <1>10
  <2>5. ASSUME tcp' = "connected" PROVE FirstServed(n + 1)'
    <3>1. /\ n = Len(handled) + Len(frames)
          /\ \A j \in DOMAIN handled : handled[j].of = j /\ (Of(sent, j).len > 0 => handled[j].body = j)
          /\ \A j \in DOMAIN frames : frames[j] = Len(handled) + j
          /\ \A j \in DOMAIN answered : answered[j].of <= n /\ answered[j].status # 400
      BY <2>3, <2>5, <1>1 DEF FirstServed
    <3>2. Len(handled) \in Nat /\ DOMAIN frames = 1..Len(frames) /\ DOMAIN frames' = 1..(Len(frames) + 1)
      BY <1>2, <1>14 DEF HttpInv, HttpTypes
    <3>3. n + 1 = Len(handled) + Len(frames')
      BY <3>1, <3>2, <1>14
    <3>4. ASSUME NEW j \in DOMAIN frames' PROVE frames'[j] = Len(handled) + j
      <4>1. j \in 1..Len(frames) \/ j = Len(frames) + 1
        BY <3>2, <1>14
      <4> QED
        BY <4>1, <3>1, <3>2, <1>14, <2>4
    <3>5. ASSUME NEW j \in DOMAIN answered' PROVE answered'[j].of <= n + 1 /\ answered'[j].status # 400
      <4>1. CASE j \in DOMAIN answered /\ answered'[j] = answered[j]
        <5>1. j \in 1..Len(answered)
          BY <4>1, <1>2
        <5>2. answered[j] \in [of : Nat, status : Nat]
          BY <5>1, <1>2, Element
        <5>3. answered[j].of \in Nat /\ answered[j].of <= n /\ answered[j].status # 400
          BY <5>2, <4>1, <3>1
        <5> QED
          BY <5>3, <4>1
      <4>2. CASE answered'[j].of = i /\ answered'[j].status = 0
        BY <4>2, <2>4
      <4> QED
        BY <4>1, <4>2, <1>12
    <3> QED
      BY <3>1, <3>3, <3>4, <3>5, <1>1 DEF FirstServed
  <2> QED
    BY <2>4, <2>5, <1>1
<1>17. UpgradeFirst' /\ (admitted + tokens <= BucketCapacity + refills)'
  BY <1>1 DEF HttpInv, UpgradeFirst, IsFrame, Of
<1> QED
  BY <1>9, <1>12, <1>13, <1>15, <1>16, <1>17 DEF HttpInv

\* What is sent goes to the end of the stream.
LEMMA StreamSent ==
    ASSUME NEW r, NEW b, NEW w, NEW k, Arriving(r, b, w, k), NEW u \in Seq(UnitOf(r))
    PROVE  /\ Arriving(r, b, w \o u, k)
           /\ StreamOf(b, w \o u, k) = StreamOf(b, w, k) \o u
<1> DEFINE U == UnitOf(r)
           X == U \cup {Unit("hello", 0)}
           v == w \o u
           s == StreamOf(b, w, k)
           t == StreamOf(b, v, k)
<1>1. /\ b \in Seq(U) /\ w \in Seq(X) /\ u \in Seq(U) /\ k \in Nat /\ k <= Len(w) /\ Len(w) \in Nat
      /\ Len(b) \in Nat /\ Len(u) \in Nat
      /\ \A j \in (k + 1)..Len(w) : w[j] \in U
  BY DEF Arriving
<1> HIDE DEF U
<1>2. u \in Seq(X)
  <2>1. U \subseteq X
    OBVIOUS
  <2> HIDE DEF X
  <2> QED
    BY <2>1, <1>1, Widened
<1>3. /\ v \in Seq(X) /\ Len(v) = Len(w) + Len(u)
      /\ \A j \in 1..Len(w) : v[j] = w[j]
      /\ \A j \in 1..Len(u) : v[Len(w) + j] = u[j]
  <2> HIDE DEF X
  <2> QED
    BY <1>1, <1>2, ConcatFacts
<1> HIDE DEF v
<1>4. Arriving(r, b, v, k)
  <2>1. ASSUME NEW j \in (k + 1)..Len(v) PROVE v[j] \in U
    <3>1. CASE j <= Len(w)
      BY <3>1, <1>1, <1>3
    <3>2. CASE j > Len(w)
      <4> DEFINE x == j - Len(w)
      <4>1. x \in 1..Len(u) /\ Len(w) + x = j
        BY <3>2, <1>1, <1>3
      <4> HIDE DEF x
      <4>2. v[Len(w) + x] = u[x] /\ u[x] \in U
        BY <4>1, <1>1, <1>3, Element
      <4> QED
        BY <4>1, <4>2
    <3> QED
      BY <3>1, <3>2, <1>1, <1>3
  <2>2. k \in 0..Len(v)
    BY <1>1, <1>3
  <2> QED
    BY <1>1, <1>3, <2>1, <2>2 DEF Arriving, U
<1>5. /\ s \in Seq(U) /\ Len(s) = Len(b) + (Len(w) - k)
      /\ \A j \in 1..Len(b) : s[j] = b[j]
      /\ \A j \in 1..(Len(w) - k) : s[Len(b) + j] = w[j + k]
  BY StreamFacts DEF U
<1>6. /\ t \in Seq(U) /\ Len(t) = Len(b) + (Len(v) - k)
      /\ \A j \in 1..Len(b) : t[j] = b[j]
      /\ \A j \in 1..(Len(v) - k) : t[Len(b) + j] = v[j + k]
  BY <1>4, StreamFacts DEF U
<1> HIDE DEF s, t
<1>7. /\ s \o u \in Seq(U) /\ Len(s \o u) = Len(s) + Len(u)
      /\ \A j \in 1..Len(s) : (s \o u)[j] = s[j]
      /\ \A j \in 1..Len(u) : (s \o u)[Len(s) + j] = u[j]
  <2>1. s \in Seq(U) /\ u \in Seq(U)
    BY <1>1, <1>5
  <2> QED
    BY <2>1, ConcatFacts
<1>8. Len(t) = Len(s \o u) /\ Len(s) \in Nat /\ Len(t) \in Nat /\ Len(t) = Len(s) + Len(u)
  BY <1>1, <1>3, <1>5, <1>6, <1>7
<1>9. ASSUME NEW j \in 1..Len(t) PROVE t[j] = (s \o u)[j]
  <2>1. CASE j <= Len(b)
    <3>1. j \in 1..Len(b) /\ j \in 1..Len(s)
      BY <2>1, <1>1, <1>5, <1>8
    <3> QED
      BY <3>1, <1>5, <1>6, <1>7
  <2>2. CASE j > Len(b) /\ j <= Len(s)
    <3> DEFINE x == j - Len(b)
    <3>1. /\ x \in 1..(Len(w) - k) /\ x \in 1..(Len(v) - k) /\ Len(b) + x = j /\ x + k \in 1..Len(w)
          /\ j \in 1..Len(s)
      BY <2>2, <1>1, <1>3, <1>5, <1>8
    <3> HIDE DEF x
    <3>2. t[Len(b) + x] = v[x + k] /\ v[x + k] = w[x + k] /\ s[Len(b) + x] = w[x + k]
      BY <3>1, <1>3, <1>5, <1>6
    <3> QED
      BY <3>1, <3>2, <1>7
  <2>3. CASE j > Len(s)
    <3> DEFINE x == j - Len(s)
               y == j - Len(b)
    <3>1. /\ x \in 1..Len(u) /\ y \in 1..(Len(v) - k) /\ Len(b) + y = j /\ Len(s) + x = j
          /\ y + k = Len(w) + x
      BY <2>3, <1>1, <1>3, <1>5, <1>8
    <3> HIDE DEF x, y
    <3>2. t[Len(b) + y] = v[y + k] /\ v[Len(w) + x] = u[x] /\ (s \o u)[Len(s) + x] = u[x]
      BY <3>1, <1>3, <1>6, <1>7
    <3> QED
      BY <3>1, <3>2
  <2> QED
    BY <2>1, <2>2, <2>3, <1>1, <1>5, <1>8
<1>10. t = s \o u
  BY <1>6, <1>7, <1>8, <1>9, SeqEqual
<1> QED
  BY <1>4, <1>10 DEF s, t, v

\* The client sends another message.
LEMMA SendStep ==
    ASSUME HttpInv, NEW k \in Message, Send(k)
    PROVE  HttpInv'
<1> DEFINE u == Units(Len(sent) + 1, Shape[k])
<1>1. /\ Len(sent) < MaxSent /\ tcp # "down"
      /\ Shape[k].kind \in FrameKinds <=> \E i \in DOMAIN sent : sent[i] = "upgrade"
      /\ ~\E i \in DOMAIN sent : sent[i] = "close"
      /\ sent' = Append(sent, k) /\ wire' = wire \o u
      /\ UNCHANGED <<shake, buf, pc, state_, request, tcp, ws, tokens, refills, admitted,
                     handled, answered, frames, aborted>>
  BY DEF Send
<1>2. /\ Stream \in Seq(UnitOf(sent)) /\ sent \in Seq(Message) /\ WholeMessages(sent, Stream)
      /\ Arriving(sent, buf, wire, shake) /\ request \in RequestOf(sent) /\ Len(sent) \in Nat /\ MaxSent \in Nat
  BY <1>1, StreamNow, HttpAssumption DEF HttpInv, HttpTypes, HttpTypeOK, Arriving
<1>3. Appended(sent, sent', Stream, Stream \o u)
  BY <1>1, <1>2 DEF Appended
<1>4. /\ sent' \in Seq(Message) /\ Len(sent') = Len(sent) + 1
      /\ \A i \in 1..Len(sent) : sent'[i] = sent[i] /\ Of(sent', i) = Of(sent, i)
                                 /\ (IsFrame(sent', i) <=> IsFrame(sent, i))
      /\ UnitOf(sent) \subseteq UnitOf(sent')
  BY <1>3, AppendedFacts
<1>5. u \in Seq(UnitOf(sent')) /\ sent'[Len(sent) + 1] = k
  <2>1. sent'[Len(sent')] = k /\ Len(sent') > 0 /\ Len(sent') = Len(sent) + 1
    BY <1>1, <1>2, <1>4
  <2>2. Units(Len(sent'), Shape[sent'[Len(sent')]]) \in Seq(UnitOf(sent'))
    BY <1>4, <2>1, WholeUnits
  <2> QED
    BY <2>1, <2>2
<1> HIDE DEF u
<1>6. Arriving(sent', buf, wire', shake) /\ Stream' = Stream \o u
  <2>0. Arriving(sent', buf, wire, shake)
    <3>1. UnitOf(sent) \cup {Unit("hello", 0)} \subseteq UnitOf(sent') \cup {Unit("hello", 0)}
      BY <1>4
    <3>2. buf \in Seq(UnitOf(sent')) /\ wire \in Seq(UnitOf(sent') \cup {Unit("hello", 0)})
      BY <3>1, <1>2, <1>4, Widened DEF Arriving
    <3> QED
      BY <3>2, <1>2, <1>4 DEF Arriving
  <2>1. Arriving(sent', buf, wire \o u, shake) /\ StreamOf(buf, wire \o u, shake) = StreamOf(buf, wire, shake) \o u
    BY <2>0, <1>5, StreamSent
  <2> QED
    BY <2>1, <1>1 DEF Stream
<1>7. Appended(sent, sent', Stream, Stream')
  BY <1>3, <1>6
<1>8. WholeMessages(sent', Stream')
  BY <1>2, <1>7, WholeGrown
<1>9. UpgradeFirst'
  <2>1. DOMAIN sent = 1..Len(sent) /\ DOMAIN sent' = 1..(Len(sent) + 1)
    BY <1>2, <1>4
  <2>2. IsFrame(sent', Len(sent) + 1) <=> Shape[k].kind \in FrameKinds
    BY <1>5 DEF IsFrame, Of
  <2>3. ASSUME NEW i \in DOMAIN sent', NEW j \in DOMAIN sent'
        PROVE  /\ i < j => sent'[i] # "close" /\ (sent'[i] = "upgrade" => IsFrame(sent', j))
               /\ IsFrame(sent', j) => \E x \in 1..(j - 1) : sent'[x] = "upgrade"
    <3>1. CASE j \in 1..Len(sent)
      <4>1. i < j => i \in 1..Len(sent)
        BY <3>1, <2>1, <1>2
      <4>2. IsFrame(sent, j) => \E x \in 1..(j - 1) : sent[x] = "upgrade"
        BY <3>1, <2>1 DEF HttpInv, UpgradeFirst
      <4>3. \A x \in 1..(j - 1) : sent'[x] = sent[x]
        BY <3>1, <1>2, <1>4
      <4>4. i < j => sent[i] # "close" /\ (sent[i] = "upgrade" => IsFrame(sent, j))
        BY <3>1, <4>1, <2>1 DEF HttpInv, UpgradeFirst
      <4> QED
        BY <3>1, <4>1, <4>2, <4>3, <4>4, <1>4
    <3>2. CASE j = Len(sent) + 1
      <4>1. i < j => i \in 1..Len(sent)
        BY <3>2, <2>1, <1>2
      <4>2. i < j => sent'[i] # "close" /\ (sent'[i] = "upgrade" => IsFrame(sent', j))
        BY <3>2, <4>1, <1>1, <1>4, <2>1, <2>2
      <4>3. ASSUME IsFrame(sent', j) PROVE \E x \in 1..(j - 1) : sent'[x] = "upgrade"
        <5>1. PICK x \in DOMAIN sent : sent[x] = "upgrade"
          BY <4>3, <3>2, <2>2, <1>1
        <5>2. x \in 1..(j - 1) /\ sent'[x] = "upgrade"
          BY <5>1, <3>2, <2>1, <1>2, <1>4
        <5> QED
          BY <5>2
      <4> QED
        BY <4>2, <4>3
    <3> QED
      BY <3>1, <3>2, <2>1, <1>2
  <2> QED
    BY <2>3 DEF UpgradeFirst
<1>10. WellFormed' => WellFormed
  BY <1>2, <1>4 DEF WellFormed
<1>11. HttpTypes'
  <2>1. Len(sent') <= MaxSent /\ request.of \in 0..Len(sent') /\ request.body \in 0..Len(sent')
    BY <1>1, <1>2, <1>4 DEF RequestOf
  <2>2. request' \in RequestOf(sent')
    BY <2>1, <1>1, <1>2 DEF RequestOf
  <2>3. handled' \in Seq([of : 0..Len(sent'), body : 0..Len(sent')])
    <3>1. [of : 0..Len(sent), body : 0..Len(sent)] \subseteq [of : 0..Len(sent'), body : 0..Len(sent')]
      BY <1>2, <1>4
    <3>2. handled \in Seq([of : 0..Len(sent), body : 0..Len(sent)])
      BY DEF HttpInv, HttpTypes
    <3>3. handled \in Seq([of : 0..Len(sent'), body : 0..Len(sent')])
      BY <3>1, <3>2, Widened
    <3> QED
      BY <3>3, <1>1
  <2>4. HttpTypeOK'
    BY <1>1, <1>4 DEF HttpInv, HttpTypes, HttpTypeOK
  <2>5. /\ buf \in Seq(UnitOf(sent')) /\ wire' \in Seq(UnitOf(sent') \cup {Unit("hello", 0)})
        /\ shake <= Len(wire') /\ \A j \in (shake + 1)..Len(wire') : wire'[j] \in UnitOf(sent')
    BY <1>6 DEF Arriving
  <2> QED
    BY <1>1, <2>1, <2>2, <2>3, <2>4, <2>5 DEF HttpInv, HttpTypes
<1>12. ASSUME NEW n \in 0..Len(sent), ParserAt(n) PROVE ParserAt(n)'
  <2>1. n + 1 \in Nat /\ n + 2 \in Nat /\ 1 \in Nat
    OBVIOUS
  <2>2. CASE state_ = "line"
    <3>1. Begins(sent, Stream, 1, n + 1)
      BY <2>2, <1>12 DEF ParserAt
    <3>2. Begins(sent', Stream', 1, n + 1)
      BY <3>1, <2>1, <1>7, BeginsGrown
    <3> QED
      BY <2>2, <3>2, <1>1, <1>12 DEF ParserAt
  <2>3. CASE state_ # "line"
    <3>1. n + 1 \in 1..Len(sent) /\ ~IsFrame(sent, n + 1)
      BY <2>3, <1>12 DEF ParserAt
    <3>2. n + 1 \in 1..Len(sent') /\ ~IsFrame(sent', n + 1) /\ Of(sent', n + 1) = Of(sent, n + 1)
      BY <3>1, <1>2, <1>4
    <3>3. Stream # <<>> => Stream' # <<>> /\ Stream'[1] = Stream[1]
      <4>1. Grown(Stream, Stream')
        BY <1>7, AppendedFacts
      <4>2. Stream # <<>> => Len(Stream) >= 1 /\ Len(Stream) \in Nat
        BY <1>2
      <4> QED
        BY <4>1, <4>2 DEF Grown
    <3>4. BytesAt(sent, Stream, 1, n + 1) => BytesAt(sent', Stream', 1, n + 1)
      BY <3>1, <2>1, <1>7, BytesGrown
    <3>5. Begins(sent, Stream, 1, n + 2) => Begins(sent', Stream', 1, n + 2)
      BY <2>1, <1>7, BeginsGrown
    <3> QED
      BY <2>3, <3>2, <3>3, <3>4, <3>5, <1>1, <1>12 DEF ParserAt
  <2> QED
    BY <2>2, <2>3
<1>13. ASSUME NEW n \in 0..Len(sent) PROVE FramesLate(n) => FramesLate(n)'
  <2>1. \A i \in 1..n : sent'[i] = sent[i]
    BY <1>2, <1>4
  <2> QED
    BY <2>1, <1>1 DEF FramesLate
<1>14. ASSUME NEW n \in 0..Len(sent), FirstServed(n) PROVE FirstServed(n)'
  <2>1. /\ n = Len(handled) + Len(frames) /\ Len(handled) \in Nat /\ Len(frames) \in Nat
        /\ DOMAIN handled = 1..Len(handled)
    BY <1>14 DEF FirstServed, HttpInv, HttpTypes
  <2>2. \A i \in DOMAIN handled : Of(sent', i) = Of(sent, i)
    BY <2>1, <1>2, <1>4
  <2> QED
    BY <1>1, <1>14, <2>2 DEF FirstServed
<1>15. InStep'
  <2>1. SUFFICES ASSUME (tcp = "connected" \/ (tcp = "disconnecting" /\ WellFormed))'
                 PROVE  \E n \in 0..Len(sent') : ParserAt(n)' /\ FramesLate(n)' /\ (tcp' = "connected" => FirstServed(n)')
    BY DEF InStep
  <2>2. tcp = "connected" \/ (tcp = "disconnecting" /\ WellFormed)
    BY <2>1, <1>1, <1>10
  <2>3. PICK n \in 0..Len(sent) : ParserAt(n) /\ FramesLate(n) /\ (tcp = "connected" => FirstServed(n))
    BY <2>2 DEF HttpInv, InStep
  <2>4. n \in 0..Len(sent') /\ (tcp' = "connected" <=> tcp = "connected")
    BY <1>1, <1>2, <1>4
  <2> QED
    BY <2>3, <2>4, <1>12, <1>13, <1>14
<1>16. (WellFormed => ~Refused /\ ~aborted)' /\ AnswersInOrder' /\ (admitted + tokens <= BucketCapacity + refills)'
  BY <1>1, <1>10 DEF HttpInv, Refused, AnswersInOrder
<1> QED
  BY <1>8, <1>9, <1>11, <1>15, <1>16 DEF HttpInv

\* What a piece of a sequence is.
LEMMA PieceFacts ==
    ASSUME NEW S, NEW s \in Seq(S), NEW h \in 0..Len(s), NEW n \in h..Len(s)
    PROVE  /\ SubSeq(s, h + 1, n) \in Seq(S) /\ Len(SubSeq(s, h + 1, n)) = n - h
           /\ \A j \in 1..(n - h) : SubSeq(s, h + 1, n)[j] = s[j + h]
OBVIOUS

\* What is delivered moves from the wire to the buffer, without the handshake, and
\* the stream stays as it is.
LEMMA StreamDelivered ==
    ASSUME NEW q, NEW b, NEW w, NEW k, Arriving(q, b, w, k), NEW n \in 1..Len(w),
           NEW h \in 0..n, n < k => h = n, n >= k => h = k
    PROVE  LET c == b \o SubSeq(w, h + 1, n)
               z == SubSeq(w, n + 1, Len(w))
           IN  Arriving(q, c, z, k - h) /\ StreamOf(c, z, k - h) = StreamOf(b, w, k)
<1> DEFINE U == UnitOf(q)
           X == U \cup {Unit("hello", 0)}
           d == SubSeq(w, h + 1, n)
           z == SubSeq(w, n + 1, Len(w))
           c == b \o d
           s == StreamOf(b, w, k)
           t == StreamOf(c, z, k - h)
<1>1. /\ b \in Seq(U) /\ w \in Seq(X) /\ k \in Nat /\ k <= Len(w) /\ Len(w) \in Nat
      /\ Len(b) \in Nat /\ \A j \in (k + 1)..Len(w) : w[j] \in U
  BY DEF Arriving
<1> HIDE DEF U, X
<1>2. h \in 0..Len(w) /\ n \in h..Len(w) /\ n \in Nat /\ h \in Nat /\ h <= k /\ n \in 0..Len(w)
  BY <1>1
<1>3. d \in Seq(X) /\ Len(d) = n - h /\ \A j \in 1..(n - h) : d[j] = w[j + h]
  BY <1>1, <1>2, PieceFacts
<1>4. z \in Seq(X) /\ Len(z) = Len(w) - n /\ \A j \in 1..(Len(w) - n) : z[j] = w[j + n]
  BY <1>1, <1>2, DropFacts
<1> HIDE DEF d, z
<1>5. d \in Seq(U)
  <2>1. ASSUME NEW j \in 1..Len(d) PROVE d[j] \in U
    <3>1. h = k /\ j + h \in (k + 1)..Len(w) /\ j \in 1..(n - h)
      BY <1>1, <1>2, <1>3
    <3> QED
      BY <3>1, <1>1, <1>3
  <2>2. d = [j \in 1..Len(d) |-> d[j]] /\ Len(d) \in Nat
    BY <1>3
  <2>3. [j \in 1..Len(d) |-> d[j]] \in Seq(U)
    BY <2>1, <2>2
  <2> QED
    BY <2>2, <2>3
<1>6. /\ c \in Seq(U) /\ Len(c) = Len(b) + Len(d)
      /\ \A j \in 1..Len(b) : c[j] = b[j]
      /\ \A j \in 1..Len(d) : c[Len(b) + j] = d[j]
  BY <1>1, <1>5, ConcatFacts
<1> HIDE DEF c
<1>7. Arriving(q, c, z, k - h)
  <2>1. k - h \in 0..Len(z)
    BY <1>1, <1>2, <1>4
  <2>2. ASSUME NEW j \in ((k - h) + 1)..Len(z) PROVE z[j] \in U
    <3>1. j \in 1..(Len(w) - n) /\ j + n \in (k + 1)..Len(w)
      BY <1>1, <1>2, <1>4
    <3> QED
      BY <3>1, <1>1, <1>4
  <2> QED
    BY <1>4, <1>6, <2>1, <2>2 DEF Arriving, U, X
<1>8. /\ s \in Seq(U) /\ Len(s) = Len(b) + (Len(w) - k)
      /\ \A j \in 1..Len(b) : s[j] = b[j]
      /\ \A j \in 1..(Len(w) - k) : s[Len(b) + j] = w[j + k]
  BY StreamFacts DEF U
<1>9. /\ t \in Seq(U) /\ Len(t) = Len(c) + (Len(z) - (k - h))
      /\ \A j \in 1..Len(c) : t[j] = c[j]
      /\ \A j \in 1..(Len(z) - (k - h)) : t[Len(c) + j] = z[j + (k - h)]
  BY <1>7, StreamFacts DEF U
<1> HIDE DEF s, t
<1>10. Len(t) = Len(s) /\ Len(s) \in Nat /\ Len(d) \in Nat /\ Len(c) \in Nat /\ Len(z) \in Nat
  BY SMTT(60), <1>1, <1>2, <1>3, <1>4, <1>6, <1>8, <1>9
<1>11. ASSUME NEW j \in 1..Len(t) PROVE t[j] = s[j]
  <2>1. CASE j <= Len(b)
    <3>1. j \in 1..Len(b) /\ j \in 1..Len(c)
      BY <2>1, <1>1, <1>6, <1>10
    <3> QED
      BY <3>1, <1>6, <1>8, <1>9
  <2>2. CASE j > Len(b) /\ j <= Len(c)
    <3> DEFINE x == j - Len(b)
    <3>1. j \in 1..Len(c) /\ x \in 1..Len(d) /\ Len(b) + x = j /\ x \in 1..(n - h)
      BY <2>2, <1>1, <1>2, <1>3, <1>6, <1>10
    <3>2. h = k /\ x \in 1..(Len(w) - k)
      BY <3>1, <1>1, <1>2
    <3> HIDE DEF x
    <3>3. c[Len(b) + x] = d[x] /\ d[x] = w[x + h] /\ s[Len(b) + x] = w[x + k]
      BY <3>1, <3>2, <1>3, <1>6, <1>8
    <3>4. t[j] = c[j]
      BY <3>1, <1>9
    <3> QED
      BY <3>1, <3>2, <3>3, <3>4
  <2>3. CASE j > Len(c)
    <3> DEFINE x == j - Len(c)
               y == j - Len(b)
    <3>1. /\ Len(t) = Len(c) + (Len(z) - (k - h)) /\ Len(z) = Len(w) - n /\ Len(c) = Len(b) + (n - h)
      BY <1>3, <1>4, <1>6, <1>9
    <3>2. /\ x \in 1..(Len(z) - (k - h)) /\ Len(c) + x = j /\ x + (k - h) \in 1..(Len(w) - n)
          /\ y \in 1..(Len(w) - k) /\ Len(b) + y = j /\ (x + (k - h)) + n = y + k
      BY <2>3, <3>1, <1>1, <1>2, <1>10
    <3> HIDE DEF x, y
    <3>3. t[Len(c) + x] = z[x + (k - h)] /\ z[x + (k - h)] = w[(x + (k - h)) + n] /\ s[Len(b) + y] = w[y + k]
      BY <3>2, <1>4, <1>8, <1>9
    <3> QED
      BY <3>2, <3>3
  <2> QED
    BY <2>1, <2>2, <2>3, <1>1, <1>10
<1>12. t = s
  BY <1>8, <1>9, <1>10, <1>11, SeqEqual
<1> QED
  BY <1>7, <1>12 DEF c, d, z, s, t

\* Units arrive.
LEMMA DeliverStep ==
    ASSUME HttpInv, NEW n \in 1..Len(wire), Deliver(n)
    PROVE  HttpInv'
<1> DEFINE h == handleHandshake(n)
<1>1. /\ pc = "wait" /\ tcp # "down"
      /\ wire' = SubSeq(wire, n + 1, Len(wire)) /\ shake' = shake - h
      /\ buf' = buf \o SubSeq(wire, h + 1, n)
      /\ pc' = IF shake' > 0 \/ buf' = <<>> THEN "wait" ELSE IF ws THEN "frames" ELSE "parse"
      /\ UNCHANGED <<sent, state_, request, tcp, ws, tokens, refills, admitted, handled, answered, frames, aborted>>
  BY DEF Deliver, onRead
<1>2. Arriving(sent, buf, wire, shake) /\ shake \in 0..2 /\ WholeMessages(sent, Stream)
  BY <1>1 DEF HttpInv, HttpTypes, HttpTypeOK, Arriving
<1>3. h \in 0..n /\ (n < shake => h = n) /\ (n >= shake => h = shake)
  BY <1>2 DEF handleHandshake
<1> HIDE DEF h
<1>4. Arriving(sent, buf', wire', shake') /\ StreamOf(buf', wire', shake') = StreamOf(buf, wire, shake)
  BY <1>1, <1>2, <1>3, StreamDelivered
<1>5. Stream' = Stream
  BY <1>4 DEF Stream
<1>6. shake' \in 0..2 /\ pc' \in {"wait", "frames", "parse"} /\ (pc' # "wait" => shake' = 0)
      /\ (pc' = "frames" => ws)
  <2>1. shake' \in 0..2
    BY <1>1, <1>2, <1>3
  <2> QED
    BY <2>1, <1>1
<1>7. HttpTypes'
  <2>1. HttpTypeOK'
    BY <1>1, <1>6 DEF HttpInv, HttpTypes, HttpTypeOK
  <2>2. /\ buf' \in Seq(UnitOf(sent)) /\ wire' \in Seq(UnitOf(sent) \cup {Unit("hello", 0)})
        /\ shake' <= Len(wire') /\ \A j \in (shake' + 1)..Len(wire') : wire'[j] \in UnitOf(sent)
    <3>1. shake' \in 0..Len(wire')
      BY <1>4, Zenon DEF Arriving
    <3>2. shake' <= Len(wire')
      BY <3>1
    <3> QED
      BY <1>4, <3>2, Zenon DEF Arriving
  <2> QED
    BY <1>1, <1>6, <2>1, <2>2 DEF HttpInv, HttpTypes, UnitOf, RequestOf
<1>8. InStep'
  <2>1. SUFFICES ASSUME (tcp = "connected" \/ (tcp = "disconnecting" /\ WellFormed))'
                 PROVE  \E i \in 0..Len(sent') : ParserAt(i)' /\ FramesLate(i)' /\ (tcp' = "connected" => FirstServed(i)')
    BY DEF InStep
  <2>2. tcp = "connected" \/ (tcp = "disconnecting" /\ WellFormed)
    BY <2>1, <1>1 DEF WellFormed
  <2>3. PICK i \in 0..Len(sent) : ParserAt(i) /\ FramesLate(i) /\ (tcp = "connected" => FirstServed(i))
    BY <2>2 DEF HttpInv, InStep
  <2>4. ParserAt(i)' /\ FramesLate(i)'
    BY <2>3, <1>1, <1>5, <1>6 DEF ParserAt, FramesLate
  <2>5. tcp' = "connected" => FirstServed(i)'
    BY <2>3, <1>1 DEF FirstServed
  <2> QED
    BY <2>3, <2>4, <2>5, <1>1
<1>9. UpgradeFirst' /\ WholeMessages(sent', Stream')
  BY <1>1, <1>2, <1>5 DEF HttpInv, UpgradeFirst, IsFrame, Of
<1>10. (WellFormed => ~Refused /\ ~aborted)' /\ AnswersInOrder' /\ (admitted + tokens <= BucketCapacity + refills)'
  BY <1>1 DEF HttpInv, WellFormed, Refused, AnswersInOrder
<1> QED
  BY <1>7, <1>8, <1>9, <1>10 DEF HttpInv

\* The connection goes away.
LEMMA DisconnectStep ==
    ASSUME HttpInv, Disconnect
    PROVE  HttpInv'
<1>1. /\ pc = "wait" /\ tcp' = "down" /\ ws' = FALSE /\ wire' = <<>>
      /\ UNCHANGED <<sent, shake, buf, pc, state_, request, tokens, refills, admitted,
                     handled, answered, frames, aborted>>
  BY DEF Disconnect
<1>2. wire' \in Seq(UnitOf(sent) \cup {Unit("hello", 0)})
  BY <1>1
<1>3. HttpTypes'
  BY <1>1, <1>2 DEF HttpInv, HttpTypes, HttpTypeOK, UnitOf, RequestOf
<1>4. InStep'
  BY <1>1 DEF InStep
<1>5. UpgradeFirst' /\ (WellFormed => ~Refused /\ ~aborted)' /\ AnswersInOrder'
      /\ (admitted + tokens <= BucketCapacity + refills)'
  BY <1>1 DEF HttpInv, UpgradeFirst, IsFrame, Of, WellFormed, Refused, AnswersInOrder
<1> QED
  BY <1>1, <1>3, <1>4, <1>5 DEF HttpInv

\* A token is refilled, or nothing happens.
LEMMA RefillStep ==
    ASSUME HttpInv, Refill \/ UNCHANGED httpVars
    PROVE  HttpInv'
<1>1. UNCHANGED <<sent, wire, shake, buf, pc, state_, request, tcp, ws, admitted, handled, answered, frames, aborted>>
  BY DEF Refill, httpVars
<1>2. /\ tokens \in 0..BucketCapacity /\ admitted \in Nat /\ refills \in Nat /\ BucketCapacity \in Nat
      /\ admitted + tokens <= BucketCapacity + refills
  BY HttpAssumption DEF HttpInv, HttpTypes, HttpTypeOK
<1>3. /\ tokens' \in 0..BucketCapacity /\ refills' \in Nat /\ admitted' + tokens' <= BucketCapacity + refills'
  <2>1. CASE UNCHANGED httpVars
    BY <2>1, <1>2 DEF httpVars
  <2>2. CASE Refill /\ tokens < BucketCapacity
    <3>1. tokens' = tokens + 1 /\ refills' = refills + 1 /\ admitted' = admitted
      BY <2>2 DEF Refill
    <3> QED
      BY <3>1, <2>2, <1>2
  <2>3. CASE Refill /\ ~(tokens < BucketCapacity)
    <3>1. tokens' = BucketCapacity /\ refills' = refills + 1 /\ admitted' = admitted
      BY <2>3 DEF Refill
    <3> QED
      BY <3>1, <2>3, <1>2
  <2> QED
    BY <2>1, <2>2, <2>3
<1>4. HttpTypes'
  BY <1>1, <1>3 DEF HttpInv, HttpTypes, HttpTypeOK, UnitOf, RequestOf
<1>5. Stream' = Stream
  BY <1>1 DEF Stream
<1>6. InStep'
  BY <1>1, <1>5 DEF HttpInv, InStep, WellFormed, ParserAt, FramesLate, FirstServed
<1>7. UpgradeFirst' /\ (WellFormed => ~Refused /\ ~aborted)' /\ AnswersInOrder'
  BY <1>1 DEF HttpInv, UpgradeFirst, IsFrame, Of, WellFormed, Refused, AnswersInOrder
<1>8. (tcp # "down" => WholeMessages(sent, Stream))'
  BY <1>1, <1>5 DEF HttpInv
<1> QED
  BY <1>3, <1>4, <1>6, <1>7, <1>8 DEF HttpInv

\* A fresh connection.
LEMMA HttpInitInv == HttpInit => HttpInv
<1> SUFFICES ASSUME HttpInit PROVE HttpInv
  OBVIOUS
<1>1. /\ sent = <<>> /\ buf = <<>> /\ pc = "wait" /\ shake \in {0, 2} /\ wire = [j \in 1..shake |-> Unit("hello", 0)]
      /\ state_ = "line" /\ request = NoRequest /\ tcp = "connected" /\ ws = FALSE
      /\ tokens = BucketCapacity /\ refills = 0 /\ admitted = 0
      /\ handled = <<>> /\ answered = <<>> /\ frames = <<>> /\ aborted = FALSE
  BY DEF HttpInit
<1>2. /\ wire \in Seq(UnitOf(sent) \cup {Unit("hello", 0)}) /\ Len(wire) = shake
  <2>1. Unit("hello", 0) \in UnitOf(sent) \cup {Unit("hello", 0)} /\ shake \in Nat
    BY <1>1
  <2> QED
    BY <2>1, <1>1, CopiesFacts
<1>3. /\ sent \in Seq(Message) /\ Len(sent) = 0 /\ buf \in Seq(UnitOf(sent)) /\ Len(buf) = 0
      /\ DOMAIN sent = {} /\ DOMAIN answered = {} /\ DOMAIN handled = {} /\ DOMAIN frames = {}
      /\ Len(handled) = 0 /\ Len(frames) = 0
  BY <1>1
<1>4. Arriving(sent, buf, wire, shake)
  BY <1>1, <1>2, <1>3 DEF Arriving
<1>5. Stream \in Seq(UnitOf(sent)) /\ Len(Stream) = 0
  <2>1. Stream \in Seq(UnitOf(sent)) /\ Len(Stream) = Len(buf) + (Len(wire) - shake)
    BY <1>4, StreamFacts DEF Stream
  <2> QED
    BY <2>1, <1>1, <1>2, <1>3
<1>6. HttpTypes
  <2>1. /\ request.of = 0 /\ request.body = 0 /\ request.method = "kInvalid" /\ request.len = -1
        /\ request \in RequestOf(sent)
    BY <1>1, <1>3 DEF NoRequest, RequestOf
  <2>2. HttpTypeOK /\ Len(sent) <= MaxSent
    <3>1. /\ request.of \in 0..MaxSent /\ request.body \in 0..MaxSent /\ tokens \in 0..BucketCapacity
          /\ Len(sent) <= MaxSent /\ shake \in 0..2
      BY <1>1, <1>3, <2>1, HttpAssumption
    <3>2. ws \in BOOLEAN /\ aborted \in BOOLEAN
      BY <1>1
    <3> QED
      BY <1>1, <1>3, <3>1, <3>2, Zenon DEF HttpTypeOK
  <2>3. shake <= Len(wire) /\ \A j \in (shake + 1)..Len(wire) : wire[j] \in UnitOf(sent)
    BY <1>1, <1>2
  <2> QED
    BY <1>1, <1>2, <1>3, <2>1, <2>2, <2>3 DEF HttpTypes
<1>7. UpgradeFirst /\ WholeMessages(sent, Stream) /\ AnswersInOrder /\ ~Refused
  BY <1>3, <1>5 DEF UpgradeFirst, WholeMessages, AnswersInOrder, Refused
<1>8. InStep
  <2>1. Begins(sent, Stream, 1, 0 + 1)
    BY <1>3, <1>5 DEF Begins
  <2>2. ParserAt(0)
    BY <1>1, <2>1 DEF ParserAt, NoRequest
  <2>3. FramesLate(0)
    BY <1>1 DEF FramesLate
  <2>4. FirstServed(0)
    BY <1>3 DEF FirstServed
  <2> QED
    BY <2>2, <2>3, <2>4, <1>3 DEF InStep
<1>9. admitted + tokens <= BucketCapacity + refills
  BY <1>1, HttpAssumption
<1> QED
  BY <1>1, <1>6, <1>7, <1>8, <1>9 DEF HttpInv

\* Each step of the server keeps the invariant.
LEMMA ServeStep ==
    ASSUME HttpInv, Serve
    PROVE  HttpInv'
<1>1. CASE ParseEnd
  <2>1. CASE request.method = "POST" /\ AfterHeaders(request.len) = "error"
    <3>1. request.len = -1
      <4>1. request.len \in Int
        BY DEF HttpInv, HttpTypes, RequestOf
      <4> QED
        BY <2>1, <4>1 DEF AfterHeaders
    <3>2. Refuse(request.of) /\ UNCHANGED <<state_, aborted>>
      BY <1>1, <2>1 DEF ParseEnd
    <3> QED
      BY <1>1, <2>1, <3>1, <3>2, RefuseNoLengthStep
  <2>2. CASE ~(request.method = "POST" /\ AfterHeaders(request.len) = "error")
    <3>1. /\ state_' = IF request.method = "POST" THEN AfterHeaders(request.len) ELSE "all"
          /\ pc' = pc /\ Parsing
      BY <1>1, <2>2 DEF ParseEnd
    <3>2. state_' \in {"body", "all"}
      BY <2>2, <3>1 DEF AfterHeaders
    <3> QED
      BY <1>1, <3>1, <3>2, ParseEndStep
  <2> QED
    BY <2>1, <2>2
<1>2. CASE NeedMore
  <2>1. pc # "wait" /\ pc' = "wait" /\ UNCHANGED <<buf, state_, request>> /\ Parsing
    BY <1>2 DEF NeedMore
  <2> QED
    BY <2>1, ReturnStep
<1>3. CASE FrameIncomplete
  <2>1. pc # "wait" /\ pc' = "wait" /\ UNCHANGED <<buf, state_, request>> /\ Parsing
    BY <1>3 DEF FrameIncomplete
  <2> QED
    BY <2>1, ReturnStep
<1> QED
  BY <1>1, <1>2, <1>3, ParseLineStep, RefuseLineStep, AssertFailsStep, ParseFieldStep, RefuseLengthStep,
     RefuseHeaderStep, ParseBodyStep, OnRequestStep, ProcessFrameStep DEF Serve

\* What the invariant gives a client.
LEMMA HttpInvSound == HttpInv => ConnectionSound
<1> SUFFICES ASSUME HttpInv PROVE ConnectionSound
  OBVIOUS
<1>1. HttpTypeOK /\ WellFormedAccepted /\ AnswersInOrder
  BY DEF HttpInv, HttpTypes, WellFormed, WellFormedAccepted
<1>2. RateBound
  <2>1. tokens \in Nat /\ admitted \in Nat /\ refills \in Nat /\ BucketCapacity \in Nat
        /\ admitted + tokens <= BucketCapacity + refills
    BY HttpAssumption DEF HttpInv, HttpTypes, HttpTypeOK
  <2> QED
    BY <2>1 DEF RateBound
<1>3. ASSUME tcp = "connected" PROVE ServedAsSent /\ OwnBody
  <2>1. PICK n \in 0..Len(sent) : FirstServed(n)
    BY <1>3 DEF HttpInv, InStep
  <2>2. /\ handled \in Seq([of : 0..Len(sent), body : 0..Len(sent)]) /\ frames \in Seq(Nat) /\ Len(sent) \in Nat
    BY DEF HttpInv, HttpTypes, HttpTypeOK
  <2>3. /\ n = Len(handled) + Len(frames)
        /\ \A i \in DOMAIN handled : handled[i].of = i /\ (Of(sent, i).len > 0 => handled[i].body = i)
        /\ \A i \in DOMAIN frames : frames[i] = Len(handled) + i
    BY <2>1 DEF FirstServed
  <2>4. OwnBody
    BY <2>3 DEF OwnBody, M, Of
  <2> DEFINE g == [i \in DOMAIN handled |-> handled[i].of]
  <2>5. /\ g \in Seq(Nat) /\ Len(g) = Len(handled) /\ Len(handled) \in Nat /\ Len(frames) \in Nat
        /\ \A i \in 1..Len(handled) : g[i] = i
    <3>1. DOMAIN handled = 1..Len(handled) /\ Len(handled) \in Nat /\ Len(frames) \in Nat
      BY <2>2
    <3>2. g = [i \in 1..Len(handled) |-> i]
      BY <2>3, <3>1
    <3>3. [i \in 1..Len(handled) |-> i] \in Seq(Nat) /\ Len([i \in 1..Len(handled) |-> i]) = Len(handled)
      BY <3>1
    <3> QED
      BY <3>1, <3>2, <3>3
  <2> HIDE DEF g
  <2>6. /\ g \o frames \in Seq(Nat) /\ Len(g \o frames) = Len(g) + Len(frames)
        /\ \A j \in 1..Len(g) : (g \o frames)[j] = g[j]
        /\ \A j \in 1..Len(frames) : (g \o frames)[Len(g) + j] = frames[j]
    <3>1. g \in Seq(Nat) /\ frames \in Seq(Nat)
      BY <2>2, <2>5
    <3> QED
      BY <3>1, ConcatFacts
  <2>7. Served = g \o frames
    BY DEF Served, g
  <2>8. DOMAIN Served = 1..n
    BY <2>3, <2>5, <2>6, <2>7
  <2>9. ASSUME NEW i \in 1..n PROVE Served[i] = i
    <3>1. CASE i <= Len(handled)
      BY <3>1, <2>5, <2>6, <2>7
    <3>2. CASE i > Len(handled)
      <4> DEFINE x == i - Len(handled)
      <4>1. x \in 1..Len(frames) /\ Len(g) + x = i /\ Len(handled) + x = i /\ x \in DOMAIN frames
        BY <3>2, <2>2, <2>3, <2>5
      <4> HIDE DEF x
      <4>2. (g \o frames)[Len(g) + x] = frames[x] /\ frames[x] = Len(handled) + x
        BY <4>1, <2>3, <2>6
      <4> QED
        BY <4>1, <4>2, <2>7
    <3> QED
      BY <3>1, <3>2, <2>5
  <2>10. ServedAsSent
    <3>1. ASSUME NEW i \in DOMAIN Served, NEW k \in 1..Served[i] PROVE \E j \in DOMAIN Served : Served[j] = k
      <4>1. Served[i] = i /\ k \in DOMAIN Served
        BY <2>8, <2>9
      <4> QED
        BY <4>1, <2>8, <2>9
    <3>2. ASSUME NEW i \in DOMAIN Served, NEW j \in DOMAIN Served, i < j PROVE Served[i] < Served[j]
      BY <3>2, <2>8, <2>9
    <3> QED
      BY <3>1, <3>2 DEF ServedAsSent
  <2> QED
    BY <2>4, <2>10
<1> QED
  BY <1>1, <1>2, <1>3 DEF ConnectionSound, ServedAsSent, OwnBody

\* However the network cuts what a client sends and whatever it sends, what is served on
\* an open connection is what was sent, in order and with its own body; a well-formed
\* client is never refused, answers are in order and the rate limiter's bound holds
\* (HttpServer::onMessage, HttpContext::parseRequest, WebSocketServer::processFrame,
\* TokenBucket::tryConsume).
THEOREM ConnectionSoundCorrect == HttpSpec => []ConnectionSound
<1>1. HttpInv /\ [HttpNext]_httpVars => HttpInv'
  <2> SUFFICES ASSUME HttpInv, [HttpNext]_httpVars PROVE HttpInv'
    OBVIOUS
  <2>1. CASE \E k \in Message : Send(k)
    BY <2>1, SendStep
  <2>2. CASE \E n \in 1..Len(wire) : Deliver(n)
    BY <2>2, DeliverStep
  <2>3. CASE Disconnect
    BY <2>3, DisconnectStep
  <2>4. CASE Refill \/ UNCHANGED httpVars
    BY <2>4, RefillStep
  <2>5. CASE Serve
    BY <2>5, ServeStep
  <2> QED
    BY <2>1, <2>2, <2>3, <2>4, <2>5 DEF HttpNext
<1> QED
  BY <1>1, HttpInitInv, HttpInvSound, PTL DEF HttpSpec
=============================================================================
