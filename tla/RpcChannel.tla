----------------------------- MODULE RpcChannel -----------------------------
(* MprpcChannel::CallMethod on one side, RpcProvider::OnMessage on the other:   *)
(* calls over one long-lived TCP connection that is made when it is needed.     *)
(* Nothing in a reply says which call it answers.  Callers are the threads that *)
(* share the channel: the clerk has one, the threads of a Raft server are many. *)
(* One recv of at most 1024 bytes is taken for the reply: a reply is a sequence  *)
(* of pieces, more than one if it is longer than that or TCP cuts it.  Requests *)
(* travel whole here; what becomes of one that is cut is the subject of Wire.   *)
EXTENDS Integers, Sequences, FiniteSets

CONSTANTS Caller,
          MaxLinks,  \* bound: connections open at a time
          MaxPieces  \* bound: requests and pieces of replies on a connection for a reply to be cut
ASSUME RpcAssumption == MaxLinks \in Nat \ {0} /\ MaxPieces \in Nat \ {0}

Link == 1..MaxLinks
Closed == [peer |-> "none", req |-> <<>>, resp |-> <<>>, split |-> FALSE]
\* Descriptor -1: every use of it fails.
BadFd == [Closed EXCEPT !.peer = "reset"]

VARIABLES
    m_clientFd, \* 0 for -1, or the connection
    link,       \* connection -> state of its other end, requests and pieces of replies
                \* on the way, and (history) whether a recv left a part of a reply there
    server,     \* "down", "slow" (may take longer than the timeout), "up"
    rpcPc,      \* caller -> "idle", "connect", "send", "recv"
    callNo,     \* caller -> parity of its call, to tell it from the one before
    got         \* caller -> outcome of its last call

rpcVars == <<m_clientFd, link, server, rpcPc, callNo, got>>

Call(c) == <<c, callNo[c]>>
\* What a call ended with, and (history) whether its connection was split.
Reply(call) == [kind |-> "reply", call |-> call, split |-> FALSE]
Outcome(kind) == [kind |-> kind, call |-> <<>>, split |-> FALSE]

\* The reply to a call, in k pieces.
CutUp(call, k) == [i \in 1..k |-> [call |-> call, part |-> i, of |-> k]]

RpcInit ==
    /\ m_clientFd = 0 /\ link = [l \in {0} \cup Link |-> IF l = 0 THEN BadFd ELSE Closed] /\ server = "up"
    /\ rpcPc = [c \in Caller |-> "idle"] /\ callNo = [c \in Caller |-> 0]
    /\ got = [c \in Caller |-> Outcome("none")]

-----------------------------------------------------------------------------
Begin(c) ==
    /\ rpcPc[c] = "idle"
    /\ rpcPc' = [rpcPc EXCEPT ![c] = IF m_clientFd = 0 THEN "connect" ELSE "send"]
    /\ callNo' = [callNo EXCEPT ![c] = 1 - @]
    /\ got' = [got EXCEPT ![c] = Outcome("none")]
    /\ UNCHANGED <<m_clientFd, link, server>>

Ends(c, outcome) ==
    /\ rpcPc' = [rpcPc EXCEPT ![c] = "idle"]
    /\ got' = [got EXCEPT ![c] = outcome]
    /\ UNCHANGED <<server, callNo>>

newConnect(c) ==
    /\ rpcPc[c] = "connect" /\ server # "down"
    /\ \E l \in Link :
         /\ link[l] = Closed /\ \A k \in 1..(l - 1) : link[k] # Closed
         /\ link' = [link EXCEPT ![l].peer = "open"]
         /\ m_clientFd' = l
    /\ rpcPc' = [rpcPc EXCEPT ![c] = "send"]
    /\ UNCHANGED <<server, callNo, got>>

ConnectFails(c) ==
    /\ rpcPc[c] = "connect" /\ server # "up"
    /\ m_clientFd' = 0
    /\ Ends(c, Outcome("failed"))
    /\ UNCHANGED link

\* Mutant of AfterSendError: the channel keeps the descriptor.
KeepsFd == m_clientFd

AfterSendError == 0

\* Mutant of AfterRecvError: the channel keeps the descriptor and the connection.
KeepsConnection == m_clientFd

AfterRecvError == 0

\* close(m_clientFd), where the channel lets go of the connection.
Without(fd) == IF m_clientFd # 0 /\ fd = 0 THEN [link EXCEPT ![m_clientFd] = Closed] ELSE link

\* send writes to the connection the channel has now.  The first data sent to a
\* process that is gone is answered with a reset.
Send(c) ==
    /\ rpcPc[c] = "send" /\ link[m_clientFd].peer # "reset"
    /\ link' = IF link[m_clientFd].peer = "open" THEN [link EXCEPT ![m_clientFd].req = Append(@, Call(c))]
               ELSE [link EXCEPT ![m_clientFd].peer = "reset"]
    /\ rpcPc' = [rpcPc EXCEPT ![c] = "recv"]
    /\ UNCHANGED <<m_clientFd, server, callNo, got>>

SendFails(c) ==
    /\ rpcPc[c] = "send" /\ link[m_clientFd].peer = "reset"
    /\ m_clientFd' = AfterSendError
    /\ link' = Without(AfterSendError)
    /\ Ends(c, Outcome("failed"))

\* One reply, and all of it.
Whole(taken) == taken = CutUp(taken[1].call, Len(taken))

\* ParseFromArray of what one recv gave.  Anything but a whole reply is refused,
\* or it parses as a message nobody sent: one that lacks its last fields, a merge
\* of two, or the inside of a value.
Parsed(taken) == IF Whole(taken) THEN {Reply(taken[1].call)} ELSE {Outcome("failed"), Outcome("garbled")}

\* A part of a reply stays behind, or one did before and not all that is on the
\* way has been read since.
LeftBehind(l, taken, rest) ==
    \/ taken[Len(taken)].part # taken[Len(taken)].of
    \/ l.split /\ (rest # <<>> \/ l.req # <<>>)

\* recv takes n pieces of what is there.  When they do not parse, the call fails
\* and the connection is kept.
Recv(c, n) ==
    LET l     == link[m_clientFd]
        taken == SubSeq(l.resp, 1, n)
        rest  == SubSeq(l.resp, n + 1, Len(l.resp))
    IN  /\ rpcPc[c] = "recv" /\ l.peer # "reset"
        /\ n \in DOMAIN l.resp
        /\ link' = [link EXCEPT ![m_clientFd] = [l EXCEPT !.resp = rest, !.split = LeftBehind(l, taken, rest)]]
        /\ \E outcome \in Parsed(taken) :
             Ends(c, [outcome EXCEPT !.split = l.split \/ LeftBehind(l, taken, rest)])
        /\ UNCHANGED m_clientFd

\* recv returns 0 when the other side has closed; nothing parses as an empty
\* reply, and the call succeeds.
RecvNothing(c) ==
    /\ rpcPc[c] = "recv"
    /\ link[m_clientFd].peer = "gone" /\ link[m_clientFd].resp = <<>>
    /\ Ends(c, Outcome("empty"))
    /\ UNCHANGED <<m_clientFd, link>>

\* A reset, a descriptor another caller closed, or SO_RCVTIMEO.
RecvFails(c) ==
    /\ rpcPc[c] = "recv"
    /\ \/ link[m_clientFd].peer = "reset"
       \/ link[m_clientFd].resp = <<>> /\ link[m_clientFd].peer = "open" /\ server # "up"
    /\ m_clientFd' = AfterRecvError
    /\ link' = Without(AfterRecvError)
    /\ Ends(c, Outcome("failed"))

-----------------------------------------------------------------------------
\* OnMessage takes the whole buffer, the n requests that have arrived, answers
\* the first, in k pieces, and drops the rest.
OnMessage(l, n, k) ==
    /\ server # "down" /\ link[l].peer = "open" /\ n \in DOMAIN link[l].req
    /\ k = 1 \/ Len(link[l].req) + Len(link[l].resp) + k <= MaxPieces + 1
    /\ link' = [link EXCEPT ![l].req = SubSeq(@, n + 1, Len(@)),
                            ![l].resp = @ \o CutUp(link[l].req[1], k)]
    /\ UNCHANGED <<m_clientFd, server, rpcPc, callNo, got>>

\* The process of the server, or its machine, ends: its connections are closed
\* or reset.
Crash ==
    /\ server # "down"
    /\ server' = "down"
    /\ \E how \in {"gone", "reset"} :
         link' = [l \in DOMAIN link |-> IF link[l].peer # "open" THEN link[l]
                                        ELSE [link[l] EXCEPT !.peer = how, !.req = <<>>]]
    /\ UNCHANGED <<m_clientFd, rpcPc, callNo, got>>

Become(s) ==
    /\ server # s /\ s # "down"
    /\ server' = s
    /\ UNCHANGED <<m_clientFd, link, rpcPc, callNo, got>>

CallStep(c) ==
    \/ Begin(c) \/ newConnect(c) \/ ConnectFails(c) \/ Send(c) \/ SendFails(c)
    \/ \E n \in 1..MaxPieces : Recv(c, n)
    \/ RecvNothing(c) \/ RecvFails(c)

Answering == \E l \in Link, n \in 1..Cardinality(Caller), k \in 1..MaxPieces : OnMessage(l, n, k)

RpcNext ==
    \/ \E c \in Caller : CallStep(c)
    \/ Answering \/ Crash
    \/ \E s \in {"slow", "up"} : Become(s)

RpcSpec == RpcInit /\ [][RpcNext]_rpcVars

-----------------------------------------------------------------------------
\* The descriptor of MprpcChannel and its connections have their types.
RpcTypeOK ==
    /\ m_clientFd \in 0..MaxLinks /\ server \in {"down", "slow", "up"}
    /\ rpcPc \in [Caller -> {"idle", "connect", "send", "recv"}]
    /\ DOMAIN link = {0} \cup Link /\ link[0] = BadFd
    /\ \A l \in Link : link[l].peer \in {"none", "open", "gone", "reset"}

\* A call that succeeds has the reply to its own request, not a late one to a
\* request that timed out or to somebody else's: CallMethod relies on closing the
\* connection whenever a reply may still come.  It does not close it when it has
\* read a part of a reply only (mprpcchannel.cpp:106-126), so the calls on a
\* connection where a part was left behind are excepted, and no others: a new
\* connection, or one read empty, is in step again.
OwnReply ==
    /\ RpcTypeOK
    /\ \A c \in Caller :
         got[c].split \/ got[c].kind \in {"none", "failed", "empty"} \/ got[c] = Reply(Call(c))

\* The channel's connection, if it has one, has no part of an old reply on it.
InStep == m_clientFd = 0 \/ ~link[m_clientFd].split

\* Whatever the crashes, timeouts, half-closed connections and cut replies before:
\* with the server up for good, and the replies whole, a client that goes on calling
\* gets replies again.
Recovers == <>[](server = "up" /\ InStep) => []<>(\E c \in Caller : got[c] = Reply(Call(c)))
=============================================================================
