------------------------------- MODULE Clerk --------------------------------
(***************************************************************************)
(* The clients of the store: class Clerk (raftClerk/clerk.cpp), with the   *)
(* servers of KvServer.  TryGet and TryPut number a request once and send  *)
(* it to one server after the other until an answer or the deadline.  A    *)
(* call that was given up goes on in its server.                           *)
(***************************************************************************)
EXTENDS KvServer

CONSTANTS
    Kinds,          \* the requests the clients make, of "Put" and "Get"
    MaxRequests,    \* bound: requests of a client
    MaxCalls        \* bound: RPCs of all clients

ASSUME KindsAssumption == Kinds \subseteq {"Put", "Get"}
ASSUME CallsAssumption == MaxRequests \in Nat /\ MaxCalls \in Nat

VARIABLES
    m_requestId,        \* of each client
    m_recentLeaderId,
    request,            \* the number of the call it waits for, 0 if idle
    answers             \* history: requests that ended with an answer

clerkVars == <<m_requestId, m_recentLeaderId, request, answers>>
vars == <<kvVars, clerkVars>>

\* The RPC number Len(calls) + 1 leaves for server s.
Send(c, op, s) ==
    /\ Len(calls) < MaxCalls
    /\ calls' = Append(calls, NewCall(op, s))
    /\ request' = [request EXCEPT ![c] = Len(calls) + 1]
    /\ UNCHANGED <<raftVars, proc, m_skipList, m_lastRequestId, waitApplyCh,
                   m_lastSnapShotRaftLogIndex, m_lastApplied, applyChan, snapMsgs,
                   loop, installs, executed, setBack>>

\* TryGet or TryPutAppend begins.
Try(c, kind) ==
    /\ request[c] = 0
    /\ m_requestId[c] < MaxRequests
    /\ m_requestId' = [m_requestId EXCEPT ![c] = @ + 1]
    /\ Send(c, [client |-> c, id |-> m_requestId[c] + 1, kind |-> kind], m_recentLeaderId[c])
    /\ UNCHANGED <<m_recentLeaderId, answers>>

\* The transport failed or the server did not lead: on to the next one, with the
\* same request.
Retry(c) ==
    LET n == request[c]
    IN  /\ n # 0
        /\ calls[n].st = "replied" => calls[n].err = "ErrWrongLeader"
        /\ Send(c, calls[n].op, (calls[n].server % NumServers) + 1)
        /\ UNCHANGED <<m_requestId, m_recentLeaderId, answers>>

\* kOk or kNotFound.  Only kOk changes the presumed leader.
Answer(c) ==
    LET call == calls[request[c]]
    IN  /\ request[c] # 0
        /\ call.st = "replied"
        /\ call.err # "ErrWrongLeader"
        /\ request' = [request EXCEPT ![c] = 0]
        /\ m_recentLeaderId' = [m_recentLeaderId EXCEPT ![c] =
                IF call.err = "OK" THEN call.server ELSE @]
        /\ answers' = answers \cup {[op |-> call.op, server |-> call.server,
                                     value |-> call.value]}
        /\ UNCHANGED <<kvVars, m_requestId>>

\* The deadline passes: kUnavailable.
GiveUp(c) ==
    /\ request[c] # 0
    /\ request' = [request EXCEPT ![c] = 0]
    /\ UNCHANGED <<kvVars, m_requestId, m_recentLeaderId, answers>>

Init ==
    /\ KvInit
    /\ m_requestId = [c \in Client |-> 0]
    /\ m_recentLeaderId = [c \in Client |-> 1]
    /\ request = [c \in Client |-> 0]
    /\ answers = {}

ClerkStep(c) ==
    \/ \E kind \in Kinds : Try(c, kind)
    \/ Retry(c) \/ Answer(c) \/ GiveUp(c)

Next ==
    \/ KvStep /\ UNCHANGED clerkVars
    \/ \E c \in Client : ClerkStep(c)

Spec == Init /\ [][Next]_vars

-----------------------------------------------------------------------------
RaftTypeOK ==
    /\ raftLog \in [Server -> Seq(Op)]
    /\ isLeader \in [Server -> BOOLEAN]
    /\ lead \in Server
    /\ log \in Seq(Op)
    /\ elections \in Nat

ServerTypeOK ==
    /\ proc \in [Server -> {"up", "terminated"}]
    /\ m_skipList \in [Server -> Op \cup {Nil}]
    /\ m_lastRequestId \in [Server -> [Client -> Nat]]
    /\ m_lastSnapShotRaftLogIndex \in [Server -> Nat]
    /\ snapMsgs \subseteq [server : Server, index : Nat]
    /\ installs \in Nat
    /\ executed \in [Server -> Seq(Op)] /\ setBack \in [Server -> SUBSET Op]

\* The queue and the loop hold indexes of committed entries only.
LoopTypeOK ==
    /\ m_lastApplied \in [Server -> 0..Len(log)]
    /\ applyChan \in [Server -> Seq(1..Len(log))]
    /\ loop \in [Server -> [pc : {"pop", "execute", "send"}, index : Nat]]
    /\ \A s \in Server : /\ loop[s].index <= Len(log)
                         /\ loop[s].pc # "pop" => loop[s].index # 0

CallTypeOK ==
    /\ calls \in Seq(Call)
    /\ waitApplyCh \subseteq DOMAIN calls

ClerkTypeOK ==
    /\ m_requestId \in [Client -> Nat]
    /\ m_recentLeaderId \in [Client -> Server]
    /\ request \in [Client -> 0..Len(calls)]
    /\ answers \subseteq [op : Op, server : Server, value : Op \cup {Nil}]

\* The shape of every variable; what is queued for a state machine is committed.
TypeOK ==
    /\ RaftTypeOK /\ ServerTypeOK /\ LoopTypeOK /\ CallTypeOK /\ ClerkTypeOK

-----------------------------------------------------------------------------
(* Properties *)

\* A channel is deleted by one handler only when no other still waits on it,
\* although the handlers share the map by log index and delete whatever is
\* there: a waiting handler never touches freed memory.
ChannelAlive ==
    \A n \in DOMAIN calls : calls[n].st = "waiting" => calls[n].ch \in waitApplyCh

\* An answer a client sees was earned: the request is in the committed log at
\* or below what its server has applied, also when the answer was given after
\* a timeout on the word of the duplicate table, and a value that was read was
\* written by a committed request.
AnswerCommitted ==
    \A a \in answers :
        /\ \E i \in 1..m_lastApplied[a.server] : log[i] = a.op
        /\ a.value = Nil \/ \E i \in 1..m_lastApplied[a.server] : log[i] = a.value

\* Deduplication: a server executes no write twice, however often the clerk sent
\* it and whatever became of the answers, unless a Get of the client that it had
\* given up was read late and set the client's number in m_lastRequestId back
\* below the write's (kvServer.cpp:53 stores the number without comparing).
ExecutedOnce ==
    \A s \in Server : \A i, j \in DOMAIN executed[s] :
        executed[s][i] = executed[s][j] /\ i # j =>
            \E g \in setBack[s] : g.client = executed[s][i].client /\ g.id < executed[s][i].id

\* Replicas that have gone through the same commands, one by one and without an
\* installed snapshot, have executed the same writes and hold the same value.
ReplicasAgree ==
    \A s, t \in Server :
        /\ installs = 0 /\ proc[s] = "up" /\ proc[t] = "up"
        /\ loop[s].pc = "pop" /\ applyChan[s] = <<>>
        /\ loop[t].pc = "pop" /\ applyChan[t] = <<>>
        /\ m_lastApplied[s] = m_lastApplied[t]
        => m_skipList[s] = m_skipList[t] /\ executed[s] = executed[t]
=============================================================================
