------------------------------- MODULE DbPool -------------------------------
(* DbConnectionPool: a queue of MySQL connections under one mutex and one       *)
(* condition variable, and a thread that checks the free connections.  A        *)
(* section under the mutex is one step; the only thread that keeps the mutex    *)
(* from one step to the next is the checking thread, which sleeps with it when  *)
(* the queue is empty.  Whether a ping or a reconnect succeeds is up to MySQL.  *)
EXTENDS Integers, Sequences, FiniteSets

CONSTANTS Worker,   \* threads that run queries (MysqlUtil)
          Conn,     \* the poolSize connections
          NoConn
ASSUME DbAssumption ==
    /\ IsFiniteSet(Worker) /\ Worker # {} /\ IsFiniteSet(Conn) /\ Conn # {} /\ NoConn \notin Conn

VARIABLES
    initialized,  \* initialized_
    connections,  \* connections_, the queue
    dbPc,         \* worker -> "idle", "want" (at the lock), "waiting" (in cv_.wait), "woken", "ping", "use", "failed"
    conn,         \* worker -> the connection it took
    checkPc,      \* checking thread: "run", "asleep" (with the lock), "ping", "rest"
    connsToCheck  \* its local copy of the queue

dbVars == <<initialized, connections, dbPc, conn, checkPc, connsToCheck>>

DbInit ==
    /\ initialized = FALSE /\ connections = <<>>
    /\ dbPc = [w \in Worker |-> "idle"] /\ conn = [w \in Worker |-> NoConn]
    /\ checkPc = "run" /\ connsToCheck = <<>>

MutexFree == checkPc # "asleep"

\* init: every connection is created, or it throws and the program ends.
init ==
    /\ MutexFree /\ ~initialized
    /\ initialized' = TRUE
    /\ connections' \in {s \in [1..Cardinality(Conn) -> Conn] : \A i, j \in DOMAIN s : s[i] = s[j] => i = j}
    /\ UNCHANGED <<dbPc, conn, checkPc, connsToCheck>>

-----------------------------------------------------------------------------
\* MysqlUtil::executeQuery and executeUpdate ask for a connection.
Ask(w) ==
    /\ dbPc[w] = "idle"
    /\ dbPc' = [dbPc EXCEPT ![w] = "want"]
    /\ UNCHANGED <<initialized, connections, conn, checkPc, connsToCheck>>

AtLock(w) == dbPc[w] \in {"want", "woken"} /\ MutexFree

\* getConnection before init throws.
NotInitialized(w) ==
    /\ AtLock(w) /\ connections = <<>> /\ ~initialized
    /\ dbPc' = [dbPc EXCEPT ![w] = "idle"]
    /\ UNCHANGED <<initialized, connections, conn, checkPc, connsToCheck>>

Wait(w) ==
    /\ AtLock(w) /\ connections = <<>> /\ initialized
    /\ dbPc' = [dbPc EXCEPT ![w] = "waiting"]
    /\ UNCHANGED <<initialized, connections, conn, checkPc, connsToCheck>>

\* Mutant of Popped: the connection stays in the queue.
Kept == connections

Popped == Tail(connections)

getConnection(w) ==
    /\ AtLock(w) /\ connections # <<>>
    /\ conn' = [conn EXCEPT ![w] = Head(connections)]
    /\ connections' = Popped
    /\ dbPc' = [dbPc EXCEPT ![w] = "ping"]
    /\ UNCHANGED <<initialized, checkPc, connsToCheck>>

\* ping() answers, or reconnect() succeeds; otherwise the exception is caught.
ping(w) ==
    /\ dbPc[w] = "ping"
    /\ \E ok \in BOOLEAN : dbPc' = [dbPc EXCEPT ![w] = IF ok THEN "use" ELSE "failed"]
    /\ UNCHANGED <<initialized, connections, conn, checkPc, connsToCheck>>

Waiting == {w \in Worker : dbPc[w] = "waiting"}
Woken == {w \in Worker : dbPc[w] = "woken"}

\* Mutant of notify_one: only when the queue was empty.
NotifyIfEmpty == IF connections = <<>> THEN Waiting ELSE {}

\* The threads notify_one may wake: one of these, nobody if there is none.
notify_one == Waiting

\* The deleter of the shared_ptr, and the catch block: push and notify_one.
GiveBack(w) ==
    /\ dbPc[w] \in {"use", "failed"} /\ MutexFree
    /\ connections' = Append(connections, conn[w])
    /\ conn' = [conn EXCEPT ![w] = NoConn]
    /\ \/ notify_one = {} /\ dbPc' = [dbPc EXCEPT ![w] = "idle"]
       \/ \E v \in notify_one : dbPc' = [dbPc EXCEPT ![w] = "idle", ![v] = "woken"]
    /\ UNCHANGED <<initialized, checkPc, connsToCheck>>

\* cv_.wait may return without a notification.
SpuriousWakeup(w) ==
    /\ dbPc[w] = "waiting"
    /\ dbPc' = [dbPc EXCEPT ![w] = "woken"]
    /\ UNCHANGED <<initialized, connections, conn, checkPc, connsToCheck>>

-----------------------------------------------------------------------------
\* checkConnections: with nothing to check it sleeps a second, the lock held.
CheckNothing ==
    /\ checkPc = "run" /\ connections = <<>>
    /\ checkPc' = "asleep"
    /\ UNCHANGED <<initialized, connections, dbPc, conn, connsToCheck>>

CheckAgain ==
    /\ checkPc \in {"asleep", "rest"}
    /\ checkPc' = "run"
    /\ UNCHANGED <<initialized, connections, dbPc, conn, connsToCheck>>

CopyQueue ==
    /\ checkPc = "run" /\ connections # <<>>
    /\ checkPc' = "ping" /\ connsToCheck' = connections
    /\ UNCHANGED <<initialized, connections, dbPc, conn>>

\* Pings outside the lock, a connection perhaps taken in the meantime.
CheckOne ==
    /\ checkPc = "ping"
    /\ connsToCheck' = Tail(connsToCheck)
    /\ checkPc' = IF connsToCheck' = <<>> THEN "rest" ELSE "ping"
    /\ UNCHANGED <<initialized, connections, dbPc, conn>>

Checker == CheckNothing \/ CheckAgain \/ CopyQueue \/ CheckOne

DbNext ==
    \/ init \/ Checker
    \/ \E w \in Worker : Ask(w) \/ NotInitialized(w) \/ Wait(w) \/ getConnection(w) \/ ping(w)
                         \/ GiveBack(w) \/ SpuriousWakeup(w)

DbSpec == DbInit /\ [][DbNext]_dbVars

-----------------------------------------------------------------------------
\* The queue of DbConnectionPool and the threads have their types.
DbTypeOK ==
    /\ initialized \in BOOLEAN /\ connections \in Seq(Conn) /\ connsToCheck \in Seq(Conn)
    /\ dbPc \in [Worker -> {"idle", "want", "waiting", "woken", "ping", "use", "failed"}]
    /\ conn \in [Worker -> Conn \cup {NoConn}] /\ checkPc \in {"run", "asleep", "ping", "rest"}

\* Each connection is in exactly one place (getConnection, its deleter and its
\* catch block): once in the queue or with one worker, through every failed
\* ping; the pool neither leaks a connection nor lends one twice.
OnePlace ==
    initialized => \A c \in Conn :
        Cardinality({i \in DOMAIN connections : connections[i] = c}) + Cardinality({w \in Worker : conn[w] = c}) = 1

\* Nobody sleeps in cv_.wait beside a free connection: there are as many woken
\* threads on their way to the queue as connections in it.
NoSleeperForgotten == Waiting # {} => Len(connections) <= Cardinality(Woken)

\* The pool keeps its connections and its waiting threads together
\* (DbConnectionPool::getConnection, checkConnections).
PoolSound == DbTypeOK /\ OnePlace /\ NoSleeperForgotten

\* While somebody wants a connection, somebody gets one, in spite of failed pings,
\* lost and spurious wakeups.  The one exception is the loop of checkConnections on
\* an empty pool: it sleeps with the mutex and takes it again at once, and nothing in
\* std::mutex keeps it from doing so for ever while the connections come back.
SomebodyServed ==
    \/ (initialized /\ \E w \in Worker : dbPc[w] \in {"want", "waiting", "woken"})
          ~> (\E w \in Worker : dbPc[w] = "ping")
    \/ <>[](connections = <<>> /\ checkPc \in {"run", "asleep"})
=============================================================================
