------------------------------ MODULE KvServer ------------------------------
(***************************************************************************)
(* The state machine of a node: class KvServer (raftCore/kvServer.cpp),    *)
(* with the handlers of Get and PutAppend, which may all be at work at the *)
(* same time in the threads of RpcProvider, and the apply loop.            *)
(*                                                                         *)
(* One action is one critical section of m_mtx or of Raft's lock.  The     *)
(* data is one key, whose value is the write that set it; Put and Append   *)
(* both call insert_set_element, so a write is a write.  A LockQueue is    *)
(* named by the call that created it.                                      *)
(***************************************************************************)
EXTENDS ReplicatedLog

CONSTANTS
    Client,         \* m_clientId of the clerks
    Nil,            \* no value yet
    MaxSnapshots    \* bound: snapshots installed

ASSUME MaxSnapshotsAssumption == MaxSnapshots \in Nat
ASSUME NilAssumption == Nil \notin [client : Client, id : Nat, kind : {"Put", "Get"}]

VARIABLES
    proc,                       \* "up" or "terminated" by an uncaught exception
    m_skipList,                 \* the value of the key
    m_lastRequestId,            \* per client, 0 if it is not in the map
    waitApplyCh,                \* the channels in the map, by the call that made them
    m_lastSnapShotRaftLogIndex,
    m_lastApplied,              \* of Raft: the last index pushed to applyChan
    applyChan,                  \* commands, by index, in the queue or in applierTicker's hand
    snapMsgs,                   \* snapshot messages, whose push threads may overtake those
    loop,                       \* where ReadRaftApplyCommandLoop is
    installs,                   \* snapshots installed so far
    calls,                      \* the RPCs ever sent, by number
    executed,                   \* history: the writes each server executed
    setBack                     \* history: the Gets that lowered a number in m_lastRequestId

serverVars == <<proc, m_skipList, m_lastRequestId, waitApplyCh,
                m_lastSnapShotRaftLogIndex, m_lastApplied, applyChan, snapMsgs,
                loop, installs, calls, executed, setBack>>

kvVars == <<raftVars, serverVars>>

Op == [client : Client, id : Nat, kind : {"Put", "Get"}]

\* st follows the handler: "sent" is a request on the wire.
CallState == {"sent", "started", "waiting", "leading", "execute", "close", "replied"}
Err == {"OK", "ErrNoKey", "ErrWrongLeader"}

Call == [op : Op, server : Server, st : CallState, index : Nat, ch : Nat,
         queue : Seq(Op), err : Err, value : Op \cup {Nil}]

NewCall(op, s) ==
    [op |-> op, server |-> s, st |-> "sent", index |-> 0, ch |-> 0,
     queue |-> <<>>, err |-> "ErrWrongLeader", value |-> Nil]

\* The call n is at st and its server's process is running.
At(n, st) == calls[n].st = st /\ proc[calls[n].server] = "up"

\* The channel waitApplyCh holds for an index of a server.
ChannelsOf(s, i) == {n \in waitApplyCh : calls[n].server = s /\ calls[n].index = i}

\* Mutant of ifRequestDuplicate: < for <=.
OlderRequest(s, op) == op.id < m_lastRequestId[s][op.client]

ifRequestDuplicate(s, op) == op.id <= m_lastRequestId[s][op.client]

-----------------------------------------------------------------------------
(* Handlers of Get and PutAppend *)

\* Only calls and waitApplyCh change.
HandlerOnly ==
    UNCHANGED <<proc, m_skipList, m_lastRequestId, m_lastSnapShotRaftLogIndex,
                m_lastApplied, applyChan, snapMsgs, loop, installs, executed, setBack>>

NotLeader(n) ==
    /\ At(n, "sent")
    /\ ~isLeader[calls[n].server]
    /\ calls' = [calls EXCEPT ![n] = [@ EXCEPT !.st = "replied", !.err = "ErrWrongLeader"]]
    /\ HandlerOnly /\ UNCHANGED <<raftVars, waitApplyCh>>

HandOver(n) ==
    LET s == calls[n].server
    IN  /\ At(n, "sent")
        /\ Start(s, calls[n].op)
        /\ calls' = [calls EXCEPT ![n] =
                [@ EXCEPT !.st = "started", !.index = Len(raftLog[s]) + 1]]
        /\ HandlerOnly /\ UNCHANGED waitApplyCh

\* The channel of the index, made if it is not there.  The command may have
\* been applied already.
OpenChannel(n) ==
    LET there == ChannelsOf(calls[n].server, calls[n].index)
    IN  /\ At(n, "started")
        /\ IF there = {}
           THEN /\ waitApplyCh' = waitApplyCh \cup {n}
                /\ calls' = [calls EXCEPT ![n] = [@ EXCEPT !.st = "waiting", !.ch = n]]
           ELSE \E ch \in there :
                /\ calls' = [calls EXCEPT ![n] = [@ EXCEPT !.st = "waiting", !.ch = ch]]
                /\ UNCHANGED waitApplyCh
        /\ HandlerOnly /\ UNCHANGED raftVars

\* Mutant of SameRequest: whatever was applied at the index is taken for ours.
AnyRequest(a, b) == TRUE

SameRequest(a, b) == a.client = b.client /\ a.id = b.id

\* The call m after the handler of n took the head of its channel: a write is
\* done, a Get goes on to read, and another request at our index means that the
\* leader changed.
AfterPop(m, n) ==
    LET ch   == calls[n].ch
        ours == SameRequest(Head(calls[ch].queue), calls[n].op)
    IN  [calls[m] EXCEPT
            !.queue = IF m = ch THEN Tail(@) ELSE @,
            !.st = IF m # n THEN @
                   ELSE IF ours /\ calls[n].op.kind = "Get" THEN "execute" ELSE "close",
            !.err = IF m # n THEN @ ELSE IF ours THEN "OK" ELSE "ErrWrongLeader"]

\* timeOutPop delivers.
Pop(n) ==
    /\ At(n, "waiting")
    /\ calls[n].ch \in waitApplyCh
    /\ calls[calls[n].ch].queue # <<>>
    /\ calls' = [m \in DOMAIN calls |-> AfterPop(m, n)]
    /\ HandlerOnly /\ UNCHANGED <<raftVars, waitApplyCh>>

\* timeOutPop gives up, perhaps with the command just pushed.  A write that was
\* executed meanwhile is reported all the same.
TimeOutPut(n) ==
    LET op == calls[n].op
    IN  /\ At(n, "waiting")
        /\ op.kind = "Put"
        /\ calls' = [calls EXCEPT ![n] = [@ EXCEPT
                !.st = "close",
                !.err = IF ifRequestDuplicate(calls[n].server, op)
                        THEN "OK" ELSE "ErrWrongLeader"]]
        /\ HandlerOnly /\ UNCHANGED <<raftVars, waitApplyCh>>

\* A Get asks Raft first and the duplicate table later.
TimeOutGet(n) ==
    /\ At(n, "waiting")
    /\ calls[n].op.kind = "Get"
    /\ calls' = [calls EXCEPT ![n] = [@ EXCEPT
            !.st = IF isLeader[calls[n].server] THEN "leading" ELSE "close"]]
    /\ HandlerOnly /\ UNCHANGED <<raftVars, waitApplyCh>>

LateGet(n) ==
    /\ At(n, "leading")
    /\ calls' = [calls EXCEPT ![n] = [@ EXCEPT
            !.st = IF ifRequestDuplicate(calls[n].server, calls[n].op)
                   THEN "execute" ELSE "close"]]
    /\ HandlerOnly /\ UNCHANGED <<raftVars, waitApplyCh>>

\* The key is read as it is now, and the request number is noted even if a
\* later one of the client is there.
ExecuteGetOpOnKVDB(n) ==
    LET s  == calls[n].server
        op == calls[n].op
    IN  /\ At(n, "execute")
        /\ calls' = [calls EXCEPT ![n] = [@ EXCEPT
                !.st = "close",
                !.err = IF m_skipList[s] = Nil THEN "ErrNoKey" ELSE "OK",
                !.value = m_skipList[s]]]
        /\ m_lastRequestId' = [m_lastRequestId EXCEPT ![s][op.client] = op.id]
        /\ setBack' = [setBack EXCEPT ![s] = IF op.id < m_lastRequestId[s][op.client] THEN @ \cup {op} ELSE @]
        /\ UNCHANGED <<raftVars, proc, m_skipList, waitApplyCh,
                       m_lastSnapShotRaftLogIndex, m_lastApplied, applyChan,
                       snapMsgs, loop, installs, executed>>

\* The channel is taken out of the map and deleted; then the reply leaves.
CloseChannel(n) ==
    /\ At(n, "close")
    /\ waitApplyCh' = waitApplyCh \ ChannelsOf(calls[n].server, calls[n].index)
    /\ calls' = [calls EXCEPT ![n] = [@ EXCEPT !.st = "replied"]]
    /\ HandlerOnly /\ UNCHANGED raftVars

-----------------------------------------------------------------------------
(* The apply loop *)

\* Mutant of Committed: what is in the own log counts.
InOwnLog(s, i) == i <= Len(raftLog[s])

Committed(s, i) == i <= Len(log) /\ Holds(s, i)

\* Raft's applier pushes the next committed command.
applierTicker(s) ==
    LET i == m_lastApplied[s] + 1
    IN  /\ proc[s] = "up"
        /\ Committed(s, i)
        /\ m_lastApplied' = [m_lastApplied EXCEPT ![s] = i]
        /\ applyChan' = [applyChan EXCEPT ![s] = Append(@, i)]
        /\ UNCHANGED <<raftVars, proc, m_skipList, m_lastRequestId, waitApplyCh,
                       m_lastSnapShotRaftLogIndex, snapMsgs, loop, installs,
                       calls, executed, setBack>>

\* GetCommandFromRaft up to the duplicate check.  A Get is not executed here.
GetCommandFromRaft(s) ==
    LET i  == Head(applyChan[s])
        op == log[i]
        pc == IF i <= m_lastSnapShotRaftLogIndex[s] THEN "pop"
              ELSE IF op.kind = "Put" /\ ~ifRequestDuplicate(s, op) THEN "execute"
              ELSE "send"
    IN  /\ proc[s] = "up"
        /\ loop[s].pc = "pop"
        /\ applyChan[s] # <<>>
        /\ applyChan' = [applyChan EXCEPT ![s] = Tail(@)]
        /\ loop' = [loop EXCEPT ![s] = [pc |-> pc, index |-> i]]
        /\ UNCHANGED <<raftVars, proc, m_skipList, m_lastRequestId, waitApplyCh,
                       m_lastSnapShotRaftLogIndex, m_lastApplied, snapMsgs,
                       installs, calls, executed, setBack>>

\* ExecutePutOpOnKVDB and ExecuteAppendOpOnKVDB.
ExecutePutOpOnKVDB(s) ==
    LET op == log[loop[s].index]
    IN  /\ proc[s] = "up"
        /\ loop[s].pc = "execute"
        /\ m_skipList' = [m_skipList EXCEPT ![s] = op]
        /\ m_lastRequestId' = [m_lastRequestId EXCEPT ![s][op.client] = op.id]
        /\ executed' = [executed EXCEPT ![s] = Append(@, op)]
        /\ loop' = [loop EXCEPT ![s].pc = "send"]
        /\ UNCHANGED <<raftVars, proc, waitApplyCh, m_lastSnapShotRaftLogIndex,
                       m_lastApplied, applyChan, snapMsgs, installs, calls, setBack>>

SendMessageToWaitChan(s) ==
    LET i == loop[s].index
        there == ChannelsOf(s, i)
    IN  /\ proc[s] = "up"
        /\ loop[s].pc = "send"
        /\ calls' = [n \in DOMAIN calls |->
                IF n \in there THEN [calls[n] EXCEPT !.queue = Append(@, log[i])]
                ELSE calls[n]]
        /\ loop' = [loop EXCEPT ![s].pc = "pop"]
        /\ UNCHANGED <<raftVars, proc, m_skipList, m_lastRequestId, waitApplyCh,
                       m_lastSnapShotRaftLogIndex, m_lastApplied, applyChan,
                       snapMsgs, installs, executed, setBack>>

\* Raft::InstallSnapshot: the log now covers k, commands up to k will not be
\* pushed any more, and a thread is on its way with the snapshot message.
InstallSnapshot(s, k) ==
    /\ proc[s] = "up"
    /\ s # lead
    /\ installs < MaxSnapshots
    /\ \E t \in Server : m_lastApplied[t] >= k
    /\ installs' = installs + 1
    /\ raftLog' = [raftLog EXCEPT ![s] = Overwrite(@, SubSeq(log, 1, k))]
    /\ isLeader' = [isLeader EXCEPT ![s] = FALSE]
    /\ m_lastApplied' = [m_lastApplied EXCEPT ![s] = IF k > @ THEN k ELSE @]
    /\ snapMsgs' = snapMsgs \cup {[server |-> s, index |-> k]}
    /\ UNCHANGED <<lead, log, elections, proc, m_skipList, m_lastRequestId,
                   waitApplyCh, m_lastSnapShotRaftLogIndex, applyChan, loop,
                   calls, executed, setBack>>

\* ReadSnapshot gave the sender the first word of the archive, or nothing: the
\* first is no archive and ends the process, the second is silently accepted.
GetSnapShotFromRaft(m) ==
    LET s == m.server
    IN  /\ proc[s] = "up"
        /\ loop[s].pc = "pop"
        /\ snapMsgs' = snapMsgs \ {m}
        /\ \/ proc' = [proc EXCEPT ![s] = "terminated"] /\ UNCHANGED m_lastSnapShotRaftLogIndex
           \/ m_lastSnapShotRaftLogIndex' = [m_lastSnapShotRaftLogIndex EXCEPT ![s] = m.index]
              /\ UNCHANGED proc
        /\ UNCHANGED <<raftVars, m_skipList, m_lastRequestId, waitApplyCh,
                       m_lastApplied, applyChan, loop, installs, calls, executed, setBack>>

-----------------------------------------------------------------------------
HandlerStep(n) ==
    \/ NotLeader(n) \/ HandOver(n) \/ OpenChannel(n) \/ Pop(n)
    \/ TimeOutPut(n) \/ TimeOutGet(n) \/ LateGet(n)
    \/ ExecuteGetOpOnKVDB(n) \/ CloseChannel(n)

LoopStep(s) ==
    \/ applierTicker(s) \/ GetCommandFromRaft(s)
    \/ ExecutePutOpOnKVDB(s) \/ SendMessageToWaitChan(s)

SnapshotStep ==
    \/ \E s \in Server : \E k \in 1..Len(log) : InstallSnapshot(s, k)
    \/ \E m \in snapMsgs : GetSnapShotFromRaft(m)

KvStep ==
    \/ \E n \in DOMAIN calls : HandlerStep(n)
    \/ \E s \in Server : LoopStep(s)
    \/ SnapshotStep
    \/ RaftStep /\ UNCHANGED serverVars

KvInit ==
    /\ RaftInit
    /\ proc = [s \in Server |-> "up"]
    /\ m_skipList = [s \in Server |-> Nil]
    /\ m_lastRequestId = [s \in Server |-> [c \in Client |-> 0]]
    /\ waitApplyCh = {}
    /\ m_lastSnapShotRaftLogIndex = [s \in Server |-> 0]
    /\ m_lastApplied = [s \in Server |-> 0]
    /\ applyChan = [s \in Server |-> <<>>]
    /\ snapMsgs = {}
    /\ loop = [s \in Server |-> [pc |-> "pop", index |-> 0]]
    /\ installs = 0
    /\ calls = <<>>
    /\ executed = [s \in Server |-> <<>>]
    /\ setBack = [s \in Server |-> {}]
=============================================================================
