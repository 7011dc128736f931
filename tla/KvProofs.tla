------------------------------ MODULE KvProofs ------------------------------
(***************************************************************************)
(* Proofs about the key-value service: the type invariant; that the        *)
(* handlers of Get and PutAppend do not delete each other's channels; that *)
(* answers are about committed and applied requests; and that no write is  *)
(* executed twice unless a late read set the number of its client back.    *)
(*                                                                         *)
(* ChannelAlive is not inductive.  It needs to be known that the handlers  *)
(* of one server never share a log index, which holds because Start gives  *)
(* the index after the last of a log that never gets shorter: ChannelInv.  *)
(***************************************************************************)
EXTENDS Clerk, TLAPS

\* Overwrite (the entry loop of AppendEntries1) gives a log no shorter than
\* either of the two it is made from.
LEMMA OverwriteType ==
    ASSUME NEW a \in Seq(Op), NEW b \in Seq(Op)
    PROVE  /\ Overwrite(a, b) \in Seq(Op)
           /\ Len(Overwrite(a, b)) \in Nat
           /\ Len(Overwrite(a, b)) >= Len(a)
           /\ Len(Overwrite(a, b)) >= Len(b)
<1> DEFINE rest == SubSeq(a, Len(b) + 1, Len(a))
<1>1. rest \in Seq(Op)
  OBVIOUS
<1>2. Len(rest) = IF Len(b) + 1 <= Len(a) THEN Len(a) - Len(b) ELSE 0
  OBVIOUS
<1>3. b \o rest \in Seq(Op) /\ Len(b \o rest) = Len(b) + Len(rest)
  BY <1>1
<1> HIDE DEF rest
<1>4. Overwrite(a, b) = b \o rest
  BY DEF Overwrite, rest
<1>5. Len(a) \in Nat /\ Len(b) \in Nat /\ Len(rest) \in Nat
  BY <1>1
<1> QED BY <1>2, <1>3, <1>4, <1>5

\* A prefix of a server's log has the length asked for.
LEMMA PrefixType ==
    ASSUME RaftTypeOK, NEW s \in Server, NEW k \in 0..Len(raftLog[s])
    PROVE  Prefix(s, k) \in Seq(Op) /\ Len(Prefix(s, k)) = k
<1>1. raftLog[s] \in Seq(Op)
  BY DEF RaftTypeOK
<1> QED BY <1>1 DEF Prefix

\* Rewriting one call keeps the sequence of calls well-formed.
LEMMA CallUpdate ==
    ASSUME NEW cs \in Seq(Call), NEW n \in DOMAIN cs, NEW r \in Call
    PROVE  /\ [cs EXCEPT ![n] = r] \in Seq(Call)
           /\ Len([cs EXCEPT ![n] = r]) = Len(cs)
           /\ DOMAIN [cs EXCEPT ![n] = r] = DOMAIN cs
OBVIOUS

\* So does rewriting all of them.
LEMMA CallsUpdate ==
    ASSUME NEW cs \in Seq(Call), NEW f, f \in [DOMAIN cs -> Call]
    PROVE  f \in Seq(Call) /\ Len(f) = Len(cs) /\ DOMAIN f = DOMAIN cs
<1>1. DOMAIN cs = 1..Len(cs) /\ Len(cs) \in Nat
  OBVIOUS
<1> QED BY <1>1

\* A queue of indexes stays one when the committed log grows.
LEMMA QueueGrows ==
    ASSUME NEW i \in Nat, NEW j \in Nat, i <= j, NEW q \in Seq(1..i)
    PROVE  q \in Seq(1..j)
<1>1. Len(q) \in Nat /\ q \in [1..Len(q) -> 1..i]
  OBVIOUS
<1>2. q \in [1..Len(q) -> 1..j]
  BY <1>1
<1> QED BY <1>1, <1>2

\* Popping a queue.
LEMMA HeadTail ==
    ASSUME NEW S, NEW q \in Seq(S), q # <<>>
    PROVE  Head(q) \in S /\ Tail(q) \in Seq(S)
OBVIOUS

\* A longer committed log does not disturb what the apply loops hold.
LEMMA LoopGrows ==
    ASSUME LoopTypeOK, log \in Seq(Op), log' \in Seq(Op), Len(log') >= Len(log),
           UNCHANGED <<m_lastApplied, applyChan, loop>>
    PROVE  LoopTypeOK'
<1>1. Len(log) \in Nat /\ Len(log') \in Nat
  OBVIOUS
<1>2. m_lastApplied \in [Server -> 0..Len(log')]
  BY <1>1 DEF LoopTypeOK
<1>3. ASSUME NEW s \in Server PROVE applyChan[s] \in Seq(1..Len(log'))
  BY <1>1, QueueGrows DEF LoopTypeOK
<1>4. applyChan \in [Server -> Seq(1..Len(log'))]
  BY <1>3 DEF LoopTypeOK
<1>5. \A s \in Server : loop[s].index <= Len(log')
  BY <1>1 DEF LoopTypeOK
<1> QED BY <1>2, <1>4, <1>5 DEF LoopTypeOK

-----------------------------------------------------------------------------
(* Types *)

\* A handler that rewrites its own call keeps the calls well-formed.
LEMMA HandlerType ==
    ASSUME TypeOK, NEW n \in DOMAIN calls, NEW r \in Call,
           calls' = [calls EXCEPT ![n] = r],
           waitApplyCh' \subseteq DOMAIN calls,
           UNCHANGED clerkVars
    PROVE  CallTypeOK' /\ ClerkTypeOK'
<1>1. calls' \in Seq(Call) /\ Len(calls') = Len(calls) /\ DOMAIN calls' = DOMAIN calls
  BY CallUpdate DEF TypeOK, CallTypeOK
<1>2. CallTypeOK'
  BY <1>1 DEF CallTypeOK
<1>3. ClerkTypeOK'
  BY <1>1 DEF TypeOK, ClerkTypeOK, clerkVars
<1> QED BY <1>2, <1>3

\* What a handler does not touch.
LEMMA HandlerFrame ==
    ASSUME TypeOK, HandlerOnly, UNCHANGED raftVars
    PROVE  RaftTypeOK' /\ ServerTypeOK' /\ LoopTypeOK'
BY DEF TypeOK, HandlerOnly, raftVars, RaftTypeOK, ServerTypeOK, LoopTypeOK

\* The fields of a call.
LEMMA CallFields ==
    ASSUME TypeOK, NEW n \in DOMAIN calls
    PROVE  /\ calls[n] \in Call
           /\ calls[n].op \in Op /\ calls[n].op.client \in Client /\ calls[n].op.id \in Nat
           /\ calls[n].server \in Server
           /\ n \in Nat
<1>1. calls[n] \in Call /\ n \in Nat
  BY DEF TypeOK, CallTypeOK
<1>2. calls[n].op \in Op /\ calls[n].server \in Server
  BY <1>1 DEF Call
<1> QED BY <1>1, <1>2 DEF Op

\* Every step of Get and PutAppend keeps the types.
LEMMA TypeHandler ==
    ASSUME TypeOK, NEW n \in DOMAIN calls, HandlerStep(n), UNCHANGED clerkVars
    PROVE  TypeOK'
<1> DEFINE s == calls[n].server
<1>1. /\ calls[n] \in Call /\ s \in Server /\ n \in Nat
      /\ calls[n].op \in Op /\ calls[n].op.client \in Client /\ calls[n].op.id \in Nat
  BY CallFields
<1>2. waitApplyCh \subseteq DOMAIN calls
  BY DEF TypeOK, CallTypeOK
<1> HIDE DEF s
<1>3. CASE NotLeader(n)
  <2>1. [calls[n] EXCEPT !.st = "replied", !.err = "ErrWrongLeader"] \in Call
    BY <1>1 DEF Call, CallState, Err
  <2> QED BY <1>2, <1>3, <2>1, HandlerType, HandlerFrame DEF NotLeader, TypeOK
<1>4. CASE HandOver(n)
  <2>1. raftLog[s] \in Seq(Op) /\ Len(raftLog[s]) + 1 \in Nat
    BY <1>1 DEF TypeOK, RaftTypeOK
  <2>2. [calls[n] EXCEPT !.st = "started", !.index = Len(raftLog[s]) + 1] \in Call
    BY <1>1, <2>1 DEF Call, CallState
  <2>3. CallTypeOK' /\ ClerkTypeOK'
    BY <1>2, <1>4, <2>2, HandlerType DEF HandOver, s
  <2>4. Append(raftLog[s], calls[n].op) \in Seq(Op)
    BY <1>1, <2>1
  <2>5. RaftTypeOK'
    BY <1>1, <1>4, <2>4 DEF HandOver, Start, TypeOK, RaftTypeOK, s
  <2>6. ServerTypeOK' /\ LoopTypeOK'
    BY <1>4 DEF HandOver, Start, HandlerOnly, TypeOK, ServerTypeOK, LoopTypeOK
  <2> QED BY <2>3, <2>5, <2>6 DEF TypeOK
<1>5. CASE OpenChannel(n)
  <2>1. ASSUME NEW ch \in DOMAIN calls
        PROVE  [calls[n] EXCEPT !.st = "waiting", !.ch = ch] \in Call
    BY <1>1, <2>1, CallFields DEF Call, CallState
  <2>2. ChannelsOf(calls[n].server, calls[n].index) \subseteq DOMAIN calls
    BY <1>2 DEF ChannelsOf
  <2>3. waitApplyCh' \subseteq DOMAIN calls
    BY <1>2, <1>5 DEF OpenChannel
  <2>4. PICK ch \in DOMAIN calls :
            calls' = [calls EXCEPT ![n] = [calls[n] EXCEPT !.st = "waiting", !.ch = ch]]
    BY <1>5, <2>2 DEF OpenChannel
  <2> QED BY <1>5, <2>1, <2>3, <2>4, HandlerType, HandlerFrame DEF OpenChannel, TypeOK
<1>6. CASE Pop(n)
  <2> DEFINE ch == calls[n].ch
  <2>1. ch \in DOMAIN calls /\ calls[ch].queue # <<>>
    BY <1>2, <1>6 DEF Pop
  <2>2. ASSUME NEW m \in DOMAIN calls
        PROVE  AfterPop(m, n) \in Call
    <3>1. calls[m] \in Call
      BY CallFields
    <3>2. calls[m].queue \in Seq(Op) /\ calls[m].st \in CallState /\ calls[m].err \in Err
      BY <3>1 DEF Call
    <3>3. m = ch => Tail(calls[m].queue) \in Seq(Op)
      BY <2>1, <3>2
    <3> QED BY <3>1, <3>2, <3>3 DEF AfterPop, Call, CallState, Err
  <2>3. calls' = [m \in DOMAIN calls |-> AfterPop(m, n)]
    BY <1>6 DEF Pop
  <2>4. calls' \in Seq(Call) /\ Len(calls') = Len(calls) /\ DOMAIN calls' = DOMAIN calls
    BY <2>2, <2>3, CallsUpdate DEF TypeOK, CallTypeOK
  <2>5. waitApplyCh' = waitApplyCh
    BY <1>6 DEF Pop
  <2>6. CallTypeOK'
    BY <1>2, <2>4, <2>5 DEF CallTypeOK
  <2>7. ClerkTypeOK'
    BY <2>4 DEF TypeOK, ClerkTypeOK, clerkVars
  <2> QED BY <1>6, <2>6, <2>7, HandlerFrame DEF Pop, TypeOK
<1>7. CASE TimeOutPut(n)
  <2>1. ASSUME NEW err \in Err
        PROVE  [calls[n] EXCEPT !.st = "close", !.err = err] \in Call
    BY <1>1 DEF Call, CallState
  <2>2. PICK err \in Err :
            calls' = [calls EXCEPT ![n] = [calls[n] EXCEPT !.st = "close", !.err = err]]
    BY <1>7 DEF TimeOutPut, Err
  <2> QED BY <1>2, <1>7, <2>1, <2>2, HandlerType, HandlerFrame DEF TimeOutPut, TypeOK
<1>8. CASE TimeOutGet(n) \/ LateGet(n)
  <2>1. ASSUME NEW st \in CallState
        PROVE  [calls[n] EXCEPT !.st = st] \in Call
    BY <1>1 DEF Call
  <2>2. PICK st \in CallState : calls' = [calls EXCEPT ![n] = [calls[n] EXCEPT !.st = st]]
    BY <1>8 DEF TimeOutGet, LateGet, CallState
  <2> QED BY <1>2, <1>8, <2>1, <2>2, HandlerType, HandlerFrame DEF TimeOutGet, LateGet, TypeOK
<1>9. CASE ExecuteGetOpOnKVDB(n)
  <2> DEFINE err == IF m_skipList[s] = Nil THEN "ErrNoKey" ELSE "OK"
             r == [calls[n] EXCEPT !.st = "close", !.err = err, !.value = m_skipList[s]]
  <2>1. m_skipList[s] \in Op \cup {Nil}
    BY <1>1 DEF TypeOK, ServerTypeOK
  <2>2. err \in Err
    BY DEF Err
  <2>3. calls' = [calls EXCEPT ![n] = r]
    BY <1>9 DEF ExecuteGetOpOnKVDB, s
  <2> HIDE DEF err
  <2>4. r \in Call
    BY <1>1, <2>1, <2>2 DEF Call, CallState
  <2> HIDE DEF r
  <2>5. CallTypeOK' /\ ClerkTypeOK'
    BY <1>2, <1>9, <2>3, <2>4, HandlerType DEF ExecuteGetOpOnKVDB
  <2>6. m_lastRequestId' \in [Server -> [Client -> Nat]]
    BY <1>1, <1>9 DEF ExecuteGetOpOnKVDB, s, TypeOK, ServerTypeOK
  <2>10. setBack' \in [Server -> SUBSET Op]
    <3>1. calls[n].op \in Op
      BY <1>1 DEF Call
    <3>2. setBack \in [Server -> SUBSET Op]
      BY DEF TypeOK, ServerTypeOK
    <3>3. PICK b \in BOOLEAN :
             setBack' = [setBack EXCEPT ![s] = IF b THEN setBack[s] \cup {calls[n].op} ELSE setBack[s]]
      BY <1>9 DEF ExecuteGetOpOnKVDB, s
    <3> QED BY <3>1, <3>2, <3>3
  <2>7. ServerTypeOK'
    BY <1>9, <2>6, <2>10 DEF ExecuteGetOpOnKVDB, TypeOK, ServerTypeOK
  <2>8. RaftTypeOK' /\ LoopTypeOK'
    BY <1>9 DEF ExecuteGetOpOnKVDB, raftVars, TypeOK, RaftTypeOK, LoopTypeOK
  <2> QED BY <2>5, <2>7, <2>8 DEF TypeOK
<1>10. CASE CloseChannel(n)
  <2>1. [calls[n] EXCEPT !.st = "replied"] \in Call
    BY <1>1 DEF Call, CallState
  <2>2. waitApplyCh' \subseteq DOMAIN calls
    BY <1>2, <1>10 DEF CloseChannel
  <2> QED BY <1>10, <2>1, <2>2, HandlerType, HandlerFrame DEF CloseChannel, TypeOK
<1> QED BY <1>3, <1>4, <1>5, <1>6, <1>7, <1>8, <1>9, <1>10 DEF HandlerStep

\* The apply loop's own variables.
LEMMA TypeLoop ==
    ASSUME TypeOK, NEW s \in Server, LoopStep(s), UNCHANGED clerkVars
    PROVE  TypeOK'
<1>1. /\ log \in Seq(Op) /\ Len(log) \in Nat
      /\ m_lastApplied[s] \in 0..Len(log)
      /\ applyChan[s] \in Seq(1..Len(log))
      /\ loop[s] \in [pc : {"pop", "execute", "send"}, index : Nat]
      /\ loop[s].index <= Len(log)
  BY DEF TypeOK, RaftTypeOK, LoopTypeOK
<1>2. CASE applierTicker(s)
  <2>1. m_lastApplied[s] + 1 \in 1..Len(log)
    BY <1>1, <1>2 DEF applierTicker, Committed
  <2>2. Append(applyChan[s], m_lastApplied[s] + 1) \in Seq(1..Len(log))
    BY <1>1, <2>1
  <2>3. m_lastApplied' \in [Server -> 0..Len(log)]
    BY <1>1, <1>2, <2>1 DEF applierTicker, TypeOK, LoopTypeOK
  <2>4. applyChan' \in [Server -> Seq(1..Len(log))]
    BY <1>2, <2>2 DEF applierTicker, TypeOK, LoopTypeOK
  <2>5. LoopTypeOK'
    BY <1>2, <2>3, <2>4 DEF applierTicker, raftVars, TypeOK, LoopTypeOK
  <2>6. RaftTypeOK' /\ ServerTypeOK' /\ CallTypeOK' /\ ClerkTypeOK'
    BY <1>2 DEF applierTicker, raftVars, clerkVars, TypeOK, RaftTypeOK, ServerTypeOK,
                CallTypeOK, ClerkTypeOK
  <2> QED BY <2>5, <2>6 DEF TypeOK
<1>3. CASE GetCommandFromRaft(s)
  <2>0. applyChan[s] # <<>>
    BY <1>3 DEF GetCommandFromRaft
  <2>1. Head(applyChan[s]) \in 1..Len(log)
    BY <1>1, <2>0, HeadTail
  <2>2. Tail(applyChan[s]) \in Seq(1..Len(log))
    BY <1>1, <2>0, HeadTail
  <2>3. applyChan' \in [Server -> Seq(1..Len(log))]
    BY <1>3, <2>2 DEF GetCommandFromRaft, TypeOK, LoopTypeOK
  <2>4. PICK pc \in {"pop", "execute", "send"} :
            loop' = [loop EXCEPT ![s] = [pc |-> pc, index |-> Head(applyChan[s])]]
    BY <1>3 DEF GetCommandFromRaft
  <2>5. Head(applyChan[s]) \in Nat /\ Head(applyChan[s]) <= Len(log) /\ Head(applyChan[s]) # 0
    BY <1>1, <2>1
  <2>6. loop' \in [Server -> [pc : {"pop", "execute", "send"}, index : Nat]]
    BY <2>4, <2>5 DEF TypeOK, LoopTypeOK
  <2>7. \A t \in Server : /\ loop'[t].index <= Len(log)
                          /\ loop'[t].pc # "pop" => loop'[t].index # 0
    BY <2>4, <2>5 DEF TypeOK, LoopTypeOK
  <2>8. LoopTypeOK'
    BY <1>3, <2>3, <2>6, <2>7 DEF GetCommandFromRaft, raftVars, TypeOK, LoopTypeOK
  <2>9. RaftTypeOK' /\ ServerTypeOK' /\ CallTypeOK' /\ ClerkTypeOK'
    BY <1>3 DEF GetCommandFromRaft, raftVars, clerkVars, TypeOK, RaftTypeOK, ServerTypeOK,
                CallTypeOK, ClerkTypeOK
  <2> QED BY <2>8, <2>9 DEF TypeOK
<1>4. CASE ExecutePutOpOnKVDB(s)
  <2> DEFINE op == log[loop[s].index]
  <2>1. loop[s].index \in 1..Len(log)
    BY <1>1, <1>4 DEF ExecutePutOpOnKVDB, TypeOK, LoopTypeOK
  <2>2. op \in Op
    BY <1>1, <2>1
  <2>3. op.client \in Client /\ op.id \in Nat
    BY <2>2 DEF Op
  <2>4. executed[s] \in Seq(Op)
    BY DEF TypeOK, ServerTypeOK
  <2>5. Append(executed[s], op) \in Seq(Op)
    BY <2>2, <2>4
  <2> HIDE DEF op
  <2>6. m_skipList' \in [Server -> Op \cup {Nil}]
    BY <1>4, <2>2 DEF ExecutePutOpOnKVDB, op, TypeOK, ServerTypeOK
  <2>7. m_lastRequestId' \in [Server -> [Client -> Nat]]
    BY <1>4, <2>3 DEF ExecutePutOpOnKVDB, op, TypeOK, ServerTypeOK
  <2>8. executed' \in [Server -> Seq(Op)]
    BY <1>4, <2>5 DEF ExecutePutOpOnKVDB, op, TypeOK, ServerTypeOK
  <2>9. ServerTypeOK'
    BY <1>4, <2>6, <2>7, <2>8 DEF ExecutePutOpOnKVDB, TypeOK, ServerTypeOK
  <2>10. /\ loop' \in [Server -> [pc : {"pop", "execute", "send"}, index : Nat]]
         /\ \A t \in Server : /\ loop'[t].index = loop[t].index
                              /\ loop'[t].pc # "pop" => loop[t].pc # "pop"
    BY <1>1, <1>4 DEF ExecutePutOpOnKVDB, TypeOK, LoopTypeOK
  <2>11. LoopTypeOK'
    BY <1>4, <2>10 DEF ExecutePutOpOnKVDB, raftVars, TypeOK, LoopTypeOK
  <2>12. RaftTypeOK' /\ CallTypeOK' /\ ClerkTypeOK'
    BY <1>4 DEF ExecutePutOpOnKVDB, raftVars, clerkVars, TypeOK, RaftTypeOK,
                CallTypeOK, ClerkTypeOK
  <2> QED BY <2>9, <2>11, <2>12 DEF TypeOK
<1>5. CASE SendMessageToWaitChan(s)
  <2> DEFINE op == log[loop[s].index]
  <2>1. loop[s].index \in 1..Len(log)
    BY <1>1, <1>5 DEF SendMessageToWaitChan, TypeOK, LoopTypeOK
  <2>2. op \in Op
    BY <1>1, <2>1
  <2>3. ASSUME NEW n \in DOMAIN calls
        PROVE  [calls[n] EXCEPT !.queue = Append(calls[n].queue, op)] \in Call
    <3>1. calls[n] \in Call
      BY CallFields
    <3>2. calls[n].queue \in Seq(Op)
      BY <3>1 DEF Call
    <3>3. Append(calls[n].queue, op) \in Seq(Op)
      BY <2>2, <3>2
    <3> QED BY <3>1, <3>3 DEF Call
  <2>4. \A n \in DOMAIN calls : calls[n] \in Call
    BY CallFields
  <2>5. calls' \in [DOMAIN calls -> Call]
    BY <1>5, <2>3, <2>4 DEF SendMessageToWaitChan
  <2>6. calls' \in Seq(Call) /\ Len(calls') = Len(calls) /\ DOMAIN calls' = DOMAIN calls
    BY <2>5, CallsUpdate DEF TypeOK, CallTypeOK
  <2>7. CallTypeOK'
    BY <1>5, <2>6 DEF SendMessageToWaitChan, TypeOK, CallTypeOK
  <2>8. ClerkTypeOK'
    BY <2>6 DEF TypeOK, ClerkTypeOK, clerkVars
  <2>9. /\ loop' \in [Server -> [pc : {"pop", "execute", "send"}, index : Nat]]
        /\ \A t \in Server : /\ loop'[t].index = loop[t].index
                             /\ loop'[t].pc # "pop" => loop[t].pc # "pop"
    BY <1>1, <1>5 DEF SendMessageToWaitChan, TypeOK, LoopTypeOK
  <2>10. LoopTypeOK'
    BY <1>5, <2>9 DEF SendMessageToWaitChan, raftVars, TypeOK, LoopTypeOK
  <2>11. RaftTypeOK' /\ ServerTypeOK'
    BY <1>5 DEF SendMessageToWaitChan, raftVars, TypeOK, RaftTypeOK, ServerTypeOK
  <2> QED BY <2>7, <2>8, <2>10, <2>11 DEF TypeOK
<1> QED BY <1>2, <1>3, <1>4, <1>5 DEF LoopStep

\* Raft's own steps and snapshots.  Logs and the committed log only grow.
LEMMA TypeRaft ==
    ASSUME TypeOK, RaftStep, UNCHANGED serverVars, UNCHANGED clerkVars
    PROVE  TypeOK'
<1>1. ServerTypeOK' /\ CallTypeOK' /\ ClerkTypeOK'
  BY DEF serverVars, clerkVars, TypeOK, ServerTypeOK, CallTypeOK, ClerkTypeOK
<1>2. log \in Seq(Op) /\ Len(log) \in Nat /\ lead \in Server /\ raftLog[lead] \in Seq(Op)
  BY DEF TypeOK, RaftTypeOK
<1>3. ASSUME NEW p \in Server, Replicate(p)
      PROVE  RaftTypeOK' /\ UNCHANGED log
  <2>1. Overwrite(raftLog[p], raftLog[lead]) \in Seq(Op)
    BY <1>2, OverwriteType DEF TypeOK, RaftTypeOK
  <2> QED BY <1>3, <2>1 DEF Replicate, TypeOK, RaftTypeOK
<1>4. ASSUME NEW p \in Server, Elect(p)
      PROVE  RaftTypeOK' /\ UNCHANGED log
  BY <1>4 DEF Elect, TypeOK, RaftTypeOK
<1>5. ASSUME NEW k \in 1..Len(raftLog[lead]), Commit(k)
      PROVE  RaftTypeOK' /\ Len(log') >= Len(log)
  <2>1. k \in 0..Len(raftLog[lead]) /\ k > Len(log)
    BY <1>2, <1>5 DEF Commit
  <2>2. Prefix(lead, k) \in Seq(Op) /\ Len(Prefix(lead, k)) = k
    BY <1>2, <2>1, PrefixType DEF TypeOK
  <2>3. log' = Prefix(lead, k) /\ UNCHANGED <<raftLog, isLeader, lead, elections>>
    BY <1>5 DEF Commit
  <2>4. RaftTypeOK'
    BY <2>2, <2>3 DEF TypeOK, RaftTypeOK
  <2>5. Len(log') = k
    BY <2>2, <2>3
  <2> QED BY <1>2, <2>1, <2>4, <2>5
<1>6. RaftTypeOK' /\ Len(log') >= Len(log)
  BY <1>2, <1>3, <1>4, <1>5 DEF RaftStep
<1>7. LoopTypeOK'
  BY <1>2, <1>6, LoopGrows DEF serverVars, TypeOK, RaftTypeOK
<1> QED BY <1>1, <1>6, <1>7 DEF TypeOK

\* InstallSnapshot and GetSnapShotFromRaft keep the types.
LEMMA TypeSnapshot ==
    ASSUME TypeOK, SnapshotStep, UNCHANGED clerkVars
    PROVE  TypeOK'
<1>1. log \in Seq(Op) /\ Len(log) \in Nat
  BY DEF TypeOK, RaftTypeOK
<1>2. ASSUME NEW s \in Server, NEW k \in 1..Len(log), InstallSnapshot(s, k)
      PROVE  TypeOK'
  <2>1. SubSeq(log, 1, k) \in Seq(Op) /\ k \in Nat
    BY <1>1
  <2>2. Overwrite(raftLog[s], SubSeq(log, 1, k)) \in Seq(Op)
    BY <2>1, OverwriteType DEF TypeOK, RaftTypeOK
  <2>3. RaftTypeOK'
    BY <1>2, <2>2 DEF InstallSnapshot, TypeOK, RaftTypeOK
  <2>4. m_lastApplied' \in [Server -> 0..Len(log)]
    BY <1>1, <1>2 DEF InstallSnapshot, TypeOK, LoopTypeOK
  <2>5. LoopTypeOK'
    BY <1>2, <2>4 DEF InstallSnapshot, TypeOK, LoopTypeOK
  <2>6. ServerTypeOK'
    BY <1>2, <2>1 DEF InstallSnapshot, TypeOK, ServerTypeOK
  <2>7. CallTypeOK' /\ ClerkTypeOK'
    BY <1>2 DEF InstallSnapshot, clerkVars, TypeOK, CallTypeOK, ClerkTypeOK
  <2> QED BY <2>3, <2>5, <2>6, <2>7 DEF TypeOK
<1>3. ASSUME NEW m \in snapMsgs, GetSnapShotFromRaft(m)
      PROVE  TypeOK'
  <2>1. m.server \in Server /\ m.index \in Nat
    BY DEF TypeOK, ServerTypeOK
  <2>2. proc' \in [Server -> {"up", "terminated"}]
    BY <1>3, <2>1 DEF GetSnapShotFromRaft, TypeOK, ServerTypeOK
  <2>3. m_lastSnapShotRaftLogIndex' \in [Server -> Nat]
    BY <1>3, <2>1 DEF GetSnapShotFromRaft, TypeOK, ServerTypeOK
  <2>4. ServerTypeOK'
    BY <1>3, <2>2, <2>3 DEF GetSnapShotFromRaft, TypeOK, ServerTypeOK
  <2>5. RaftTypeOK' /\ LoopTypeOK' /\ CallTypeOK' /\ ClerkTypeOK'
    BY <1>3 DEF GetSnapShotFromRaft, raftVars, clerkVars, TypeOK, RaftTypeOK, LoopTypeOK,
                CallTypeOK, ClerkTypeOK
  <2> QED BY <2>4, <2>5 DEF TypeOK
<1> QED BY <1>2, <1>3 DEF SnapshotStep

\* A call sent by a client.
LEMMA SendType ==
    ASSUME TypeOK, NEW c \in Client, NEW op \in Op, NEW s \in Server, Send(c, op, s)
    PROVE  /\ RaftTypeOK' /\ ServerTypeOK' /\ LoopTypeOK' /\ CallTypeOK'
           /\ request' \in [Client -> 0..Len(calls')]
<1>1. NewCall(op, s) \in Call
  <2>1. <<>> \in Seq(Op)
    OBVIOUS
  <2> QED BY <2>1 DEF NewCall, Call, CallState, Err
<1>2. calls \in Seq(Call) /\ Len(calls) \in Nat /\ waitApplyCh \subseteq DOMAIN calls
  BY DEF TypeOK, CallTypeOK
<1>3. calls' = Append(calls, NewCall(op, s))
  BY DEF Send
<1>4. calls' \in Seq(Call) /\ Len(calls') = Len(calls) + 1
  BY <1>1, <1>2, <1>3
<1>5. DOMAIN calls \subseteq DOMAIN calls'
  BY <1>2, <1>4
<1>6. CallTypeOK'
  BY <1>2, <1>4, <1>5 DEF Send, CallTypeOK
<1>7. request' \in [Client -> 0..Len(calls')]
  BY <1>2, <1>4 DEF Send, TypeOK, ClerkTypeOK
<1>8. RaftTypeOK' /\ ServerTypeOK' /\ LoopTypeOK'
  BY DEF Send, raftVars, TypeOK, RaftTypeOK, ServerTypeOK, LoopTypeOK
<1> QED BY <1>6, <1>7, <1>8

\* Every step of a clerk keeps the types.
LEMMA TypeClerk ==
    ASSUME TypeOK, NEW c \in Client, ClerkStep(c)
    PROVE  TypeOK'
<1>1. request[c] \in 0..Len(calls) /\ m_requestId[c] \in Nat /\ m_recentLeaderId[c] \in Server
  BY DEF TypeOK, ClerkTypeOK
<1>2. request[c] # 0 => request[c] \in DOMAIN calls
  BY <1>1 DEF TypeOK, CallTypeOK
<1>3. ASSUME NEW kind \in Kinds, Try(c, kind) PROVE TypeOK'
  <2>1. [client |-> c, id |-> m_requestId[c] + 1, kind |-> kind] \in Op
    BY <1>1, KindsAssumption DEF Op
  <2>2. /\ RaftTypeOK' /\ ServerTypeOK' /\ LoopTypeOK' /\ CallTypeOK'
        /\ request' \in [Client -> 0..Len(calls')]
    BY <1>1, <1>3, <2>1, SendType DEF Try
  <2>3. m_requestId' \in [Client -> Nat]
    BY <1>1, <1>3 DEF Try, TypeOK, ClerkTypeOK
  <2>4. ClerkTypeOK'
    BY <1>3, <2>2, <2>3 DEF Try, TypeOK, ClerkTypeOK
  <2> QED BY <2>2, <2>4 DEF TypeOK
<1>4. CASE Retry(c)
  <2>1. request[c] \in DOMAIN calls
    BY <1>2, <1>4 DEF Retry
  <2>2. calls[request[c]].op \in Op /\ calls[request[c]].server \in Server
    BY <2>1, CallFields
  <2>3. (calls[request[c]].server % NumServers) + 1 \in Server
    BY <2>2, NumServersAssumption DEF Server
  <2>4. /\ RaftTypeOK' /\ ServerTypeOK' /\ LoopTypeOK' /\ CallTypeOK'
        /\ request' \in [Client -> 0..Len(calls')]
    BY <1>4, <2>2, <2>3, SendType DEF Retry
  <2>5. ClerkTypeOK'
    BY <1>4, <2>4 DEF Retry, TypeOK, ClerkTypeOK
  <2> QED BY <2>4, <2>5 DEF TypeOK
<1>5. CASE Answer(c)
  <2> DEFINE call == calls[request[c]]
  <2>1. call \in Call
    BY <1>2, <1>5, CallFields DEF Answer
  <2>2. call.op \in Op /\ call.server \in Server /\ call.value \in Op \cup {Nil}
    BY <2>1 DEF Call
  <2>3. [op |-> call.op, server |-> call.server, value |-> call.value]
            \in [op : Op, server : Server, value : Op \cup {Nil}]
    BY <2>2
  <2>4. 0 \in 0..Len(calls)
    BY <1>1
  <2>5. request' \in [Client -> 0..Len(calls)] /\ m_recentLeaderId' \in [Client -> Server]
    BY <1>5, <2>2, <2>4 DEF Answer, TypeOK, ClerkTypeOK
  <2>6. answers' \subseteq [op : Op, server : Server, value : Op \cup {Nil}]
    BY <1>5, <2>3 DEF Answer, TypeOK, ClerkTypeOK
  <2>7. ClerkTypeOK'
    BY <1>5, <2>5, <2>6 DEF Answer, kvVars, serverVars, TypeOK, ClerkTypeOK
  <2>8. RaftTypeOK' /\ ServerTypeOK' /\ LoopTypeOK' /\ CallTypeOK'
    BY <1>5 DEF Answer, kvVars, serverVars, raftVars, TypeOK, RaftTypeOK, ServerTypeOK,
                LoopTypeOK, CallTypeOK
  <2> QED BY <2>7, <2>8 DEF TypeOK
<1>6. CASE GiveUp(c)
  <2>1. 0 \in 0..Len(calls)
    BY <1>1
  <2>2. ClerkTypeOK'
    BY <1>6, <2>1 DEF GiveUp, kvVars, serverVars, TypeOK, ClerkTypeOK
  <2>3. RaftTypeOK' /\ ServerTypeOK' /\ LoopTypeOK' /\ CallTypeOK'
    BY <1>6 DEF GiveUp, kvVars, serverVars, raftVars, TypeOK, RaftTypeOK, ServerTypeOK,
                LoopTypeOK, CallTypeOK
  <2> QED BY <2>2, <2>3 DEF TypeOK
<1> QED BY <1>3, <1>4, <1>5, <1>6 DEF ClerkStep

\* The servers and clerks start well-formed.
LEMMA TypeInit == Init => TypeOK
<1> SUFFICES ASSUME Init PROVE TypeOK
  OBVIOUS
<1>1. 1 \in Server
  BY NumServersAssumption DEF Server
<1>2. <<>> \in Seq(Op) /\ <<>> \in Seq(Call) /\ Len(<<>>) = 0 /\ DOMAIN <<>> = {}
  OBVIOUS
<1>3. \A S : <<>> \in Seq(S)
  OBVIOUS
<1>4. RaftTypeOK
  BY <1>1, <1>2 DEF Init, KvInit, RaftInit, RaftTypeOK
<1>5. ServerTypeOK
  BY <1>2 DEF Init, KvInit, ServerTypeOK
<1>6. log = <<>> /\ Len(log) = 0
  BY <1>2 DEF Init, KvInit, RaftInit
<1>7. LoopTypeOK
  BY <1>3, <1>6 DEF Init, KvInit, LoopTypeOK
<1>8. CallTypeOK
  BY <1>2 DEF Init, KvInit, CallTypeOK
<1>9. ClerkTypeOK
  BY <1>1, <1>2 DEF Init, KvInit, ClerkTypeOK
<1> QED BY <1>4, <1>5, <1>7, <1>8, <1>9 DEF TypeOK

\* The type invariant is inductive as it stands.
LEMMA TypeNext == TypeOK /\ [Next]_vars => TypeOK'
<1> SUFFICES ASSUME TypeOK, [Next]_vars PROVE TypeOK'
  OBVIOUS
<1>1. CASE UNCHANGED vars
  BY <1>1 DEF vars, kvVars, serverVars, raftVars, clerkVars, TypeOK, RaftTypeOK,
              ServerTypeOK, LoopTypeOK, CallTypeOK, ClerkTypeOK
<1>2. CASE KvStep /\ UNCHANGED clerkVars
  BY <1>2, TypeHandler, TypeLoop, TypeSnapshot, TypeRaft DEF KvStep
<1>3. CASE \E c \in Client : ClerkStep(c)
  BY <1>3, TypeClerk
<1> QED BY <1>1, <1>2, <1>3 DEF Next

\* Type correctness for any number of servers, clients, requests and calls.  A
\* part of it is not about shapes: applyChan and the apply loop (kvServer.cpp,
\* ReadRaftApplyCommandLoop) only ever hold indexes of committed entries.
THEOREM TypeCorrect == Spec => []TypeOK
BY TypeInit, TypeNext, PTL DEF Spec

-----------------------------------------------------------------------------
(* Channels *)

\* What a handler knows of its index: it is an index of the server's log, and
\* it has one from Start on.
IndexInLog ==
    \A n \in DOMAIN calls :
        /\ calls[n].index <= Len(raftLog[calls[n].server])
        /\ calls[n].st = "started" => calls[n].index > 0

\* Start never gives two handlers of a server the same index.
IndexUnique ==
    \A m, n \in DOMAIN calls :
        /\ calls[m].server = calls[n].server
        /\ calls[m].index = calls[n].index
        /\ calls[n].index > 0
        => m = n

\* So the channel a handler waits on is the one it made, under its own index.
ChannelOwned ==
    /\ \A n \in waitApplyCh : calls[n].index > 0
    /\ \A n \in DOMAIN calls : calls[n].st = "waiting" => calls[n].ch = n /\ n \in waitApplyCh

\* The inductive invariant of the channels.
ChannelInv == IndexInLog /\ IndexUnique /\ ChannelOwned

\* A log never gets shorter, whatever AppendEntries1 or InstallSnapshot bring.
LogsGrow == \A s \in Server : Len(raftLog'[s]) >= Len(raftLog[s])

\* Raft's steps and the installation of a snapshot keep or lengthen every log.
LEMMA LogsGrowInRaft ==
    ASSUME TypeOK,
           RaftStep \/ (\E s \in Server : \E k \in 1..Len(log) : InstallSnapshot(s, k))
    PROVE  LogsGrow
<1>1. \A s \in Server : raftLog[s] \in Seq(Op) /\ Len(raftLog[s]) \in Nat
  BY DEF TypeOK, RaftTypeOK
<1>2. log \in Seq(Op) /\ lead \in Server
  BY DEF TypeOK, RaftTypeOK
<1>3. ASSUME NEW s \in Server, NEW theirs \in Seq(Op),
             raftLog' = [raftLog EXCEPT ![s] = Overwrite(@, theirs)]
      PROVE  LogsGrow
  <2>1. Len(Overwrite(raftLog[s], theirs)) >= Len(raftLog[s])
    BY <1>1, OverwriteType
  <2>2. \A t \in Server : raftLog'[t] = IF t = s THEN Overwrite(raftLog[s], theirs) ELSE raftLog[t]
    BY <1>3 DEF TypeOK, RaftTypeOK
  <2> QED BY <1>1, <2>1, <2>2 DEF LogsGrow
<1>4. ASSUME NEW p \in Server, Replicate(p) PROVE LogsGrow
  <2>1. raftLog[lead] \in Seq(Op)
    BY <1>1, <1>2
  <2>2. raftLog' = [raftLog EXCEPT ![p] = Overwrite(@, raftLog[lead])]
    BY <1>4 DEF Replicate
  <2> QED BY <1>3, <2>1, <2>2
<1>5. ASSUME NEW s \in Server, NEW k \in 1..Len(log), InstallSnapshot(s, k) PROVE LogsGrow
  <2>1. SubSeq(log, 1, k) \in Seq(Op)
    BY <1>2
  <2>2. raftLog' = [raftLog EXCEPT ![s] = Overwrite(@, SubSeq(log, 1, k))]
    BY <1>5 DEF InstallSnapshot
  <2> QED BY <1>3, <2>1, <2>2
<1>6. ASSUME UNCHANGED raftLog PROVE LogsGrow
  BY <1>1, <1>6 DEF LogsGrow
<1> QED BY <1>4, <1>5, <1>6 DEF RaftStep, Elect, Commit

\* A step that opens and closes no channel and gives no index away leaves the
\* invariant alone.
LEMMA ChannelFrame ==
    ASSUME TypeOK, TypeOK', ChannelInv, LogsGrow,
           UNCHANGED waitApplyCh, DOMAIN calls' = DOMAIN calls,
           \A n \in DOMAIN calls :
               /\ calls'[n].server = calls[n].server
               /\ calls'[n].index = calls[n].index
               /\ calls'[n].ch = calls[n].ch
               /\ calls'[n].st = "started" => calls[n].st = "started"
               /\ calls'[n].st = "waiting" => calls[n].st = "waiting"
    PROVE  ChannelInv'
<1>1. \A n \in DOMAIN calls : calls[n].index \in Nat /\ calls[n].server \in Server
  BY CallFields DEF Call
<1>2. \A s \in Server : Len(raftLog[s]) \in Nat /\ Len(raftLog'[s]) \in Nat
  BY DEF TypeOK, RaftTypeOK
<1>3. IndexInLog'
  BY <1>1, <1>2 DEF ChannelInv, IndexInLog, LogsGrow
<1>4. IndexUnique'
  BY DEF ChannelInv, IndexUnique
<1>5. ChannelOwned'
  BY DEF ChannelInv, ChannelOwned, TypeOK, CallTypeOK
<1> QED BY <1>3, <1>4, <1>5 DEF ChannelInv

\* Handlers: HandOver takes an index no other handler has, OpenChannel finds
\* no channel of another handler, CloseChannel removes none.
LEMMA ChannelHandler ==
    ASSUME TypeOK, TypeOK', ChannelInv, NEW n \in DOMAIN calls, HandlerStep(n)
    PROVE  ChannelInv'
<1> DEFINE s == calls[n].server
<1>1. /\ calls[n] \in Call /\ s \in Server /\ n \in Nat
      /\ \A m \in DOMAIN calls : calls[m] \in Call /\ calls[m].index \in Nat
                                 /\ calls[m].server \in Server
  BY CallFields DEF Call
<1>2. waitApplyCh \subseteq DOMAIN calls
  BY DEF TypeOK, CallTypeOK
<1>3. \A t \in Server : raftLog[t] \in Seq(Op) /\ Len(raftLog[t]) \in Nat
  BY DEF TypeOK, RaftTypeOK
<1>4. ASSUME UNCHANGED raftLog PROVE LogsGrow
  BY <1>3, <1>4 DEF LogsGrow
<1>5. CASE HandOver(n)
  <2>1. /\ raftLog' = [raftLog EXCEPT ![s] = Append(raftLog[s], calls[n].op)]
        /\ waitApplyCh' = waitApplyCh
        /\ calls' = [calls EXCEPT ![n] =
                [calls[n] EXCEPT !.st = "started", !.index = Len(raftLog[s]) + 1]]
    BY <1>5 DEF HandOver, Start
  <2>2. /\ DOMAIN calls' = DOMAIN calls
        /\ calls'[n].index = Len(raftLog[s]) + 1
        /\ calls'[n].server = s /\ calls'[n].st = "started"
        /\ \A m \in DOMAIN calls : m # n => calls'[m] = calls[m]
    BY <1>1, <2>1 DEF Call
  <2>3. /\ Len(raftLog'[s]) = Len(raftLog[s]) + 1
        /\ \A t \in Server : t # s => raftLog'[t] = raftLog[t]
    <3>1. raftLog'[s] = Append(raftLog[s], calls[n].op)
      BY <1>1, <2>1 DEF TypeOK, RaftTypeOK
    <3>2. \A t \in Server : t # s => raftLog'[t] = raftLog[t]
      BY <2>1 DEF TypeOK, RaftTypeOK
    <3> QED BY <1>1, <1>3, <3>1, <3>2
  <2> HIDE DEF s
  <2>4. \A m \in DOMAIN calls : calls[m].index <= Len(raftLog[calls[m].server])
    BY DEF ChannelInv, IndexInLog
  <2>5. IndexInLog'
    BY <1>1, <1>3, <2>2, <2>3 DEF ChannelInv, IndexInLog
  <2>6. \A m \in DOMAIN calls : m # n /\ calls'[m].server = s => calls'[m].index < calls'[n].index
    BY <1>1, <1>3, <2>2, <2>4
  <2>7. IndexUnique'
    BY <1>1, <1>3, <2>2, <2>6 DEF ChannelInv, IndexUnique
  <2>8. ChannelOwned'
    BY <1>1, <1>2, <1>3, <2>1, <2>2 DEF ChannelInv, ChannelOwned
  <2> QED BY <2>5, <2>7, <2>8 DEF ChannelInv
<1>6. CASE OpenChannel(n)
  <2>1. calls[n].index > 0
    BY <1>6 DEF OpenChannel, At, ChannelInv, IndexInLog
  <2>2. ChannelsOf(calls[n].server, calls[n].index) \subseteq {n} \cap waitApplyCh
    BY <1>2, <2>1 DEF ChannelsOf, ChannelInv, IndexUnique
  <2>3. /\ waitApplyCh' = waitApplyCh \cup {n}
        /\ calls' = [calls EXCEPT ![n] = [calls[n] EXCEPT !.st = "waiting", !.ch = n]]
    BY <1>6, <2>2 DEF OpenChannel
  <2>4. /\ DOMAIN calls' = DOMAIN calls
        /\ calls'[n].index = calls[n].index /\ calls'[n].server = calls[n].server
        /\ calls'[n].st = "waiting" /\ calls'[n].ch = n
        /\ \A m \in DOMAIN calls : m # n => calls'[m] = calls[m]
    BY <1>1, <2>3 DEF Call
  <2>5. raftLog' = raftLog
    BY <1>6 DEF OpenChannel, raftVars
  <2>6. IndexInLog'
    BY <2>4, <2>5 DEF ChannelInv, IndexInLog
  <2>7. IndexUnique'
    BY <2>4 DEF ChannelInv, IndexUnique
  <2>8. ChannelOwned'
    BY <1>2, <2>1, <2>3, <2>4 DEF ChannelInv, ChannelOwned
  <2> QED BY <2>6, <2>7, <2>8 DEF ChannelInv
<1>7. CASE CloseChannel(n)
  <2>1. ChannelsOf(calls[n].server, calls[n].index) \subseteq {n}
    BY <1>2 DEF ChannelsOf, ChannelInv, ChannelOwned, IndexUnique
  <2>2. /\ waitApplyCh' \subseteq waitApplyCh
        /\ \A m \in waitApplyCh : m # n => m \in waitApplyCh'
        /\ calls' = [calls EXCEPT ![n] = [calls[n] EXCEPT !.st = "replied"]]
    BY <1>7, <2>1 DEF CloseChannel
  <2>3. /\ DOMAIN calls' = DOMAIN calls
        /\ calls'[n].index = calls[n].index /\ calls'[n].server = calls[n].server
        /\ calls'[n].st = "replied"
        /\ \A m \in DOMAIN calls : m # n => calls'[m] = calls[m]
    BY <1>1, <2>2 DEF Call
  <2>4. raftLog' = raftLog
    BY <1>7 DEF CloseChannel, raftVars
  <2>5. IndexInLog'
    BY <2>3, <2>4 DEF ChannelInv, IndexInLog
  <2>6. IndexUnique'
    BY <2>3 DEF ChannelInv, IndexUnique
  <2>7. ChannelOwned'
    BY <1>2, <2>2, <2>3 DEF ChannelInv, ChannelOwned
  <2> QED BY <2>5, <2>6, <2>7 DEF ChannelInv
<1>8. CASE Pop(n)
  <2>1. calls' = [m \in DOMAIN calls |-> AfterPop(m, n)]
    BY <1>8 DEF Pop
  <2>2. ASSUME NEW m \in DOMAIN calls
        PROVE  /\ calls'[m].server = calls[m].server
               /\ calls'[m].index = calls[m].index
               /\ calls'[m].ch = calls[m].ch
               /\ calls'[m].st = "started" => calls[m].st = "started"
               /\ calls'[m].st = "waiting" => calls[m].st = "waiting"
    BY <1>1, <2>1 DEF AfterPop, Call
  <2>3. DOMAIN calls' = DOMAIN calls
    BY <2>1
  <2>4. LogsGrow /\ UNCHANGED waitApplyCh
    BY <1>4, <1>8 DEF Pop, raftVars
  <2> QED BY <2>2, <2>3, <2>4, ChannelFrame
<1>9. CASE NotLeader(n) \/ TimeOutPut(n) \/ TimeOutGet(n) \/ LateGet(n) \/ ExecuteGetOpOnKVDB(n)
  <2>1. LogsGrow /\ UNCHANGED waitApplyCh
    BY <1>4, <1>9 DEF NotLeader, TimeOutPut, TimeOutGet, LateGet, ExecuteGetOpOnKVDB, raftVars
  <2> DEFINE Ends(r) == /\ r.server = calls[n].server /\ r.index = calls[n].index
                        /\ r.ch = calls[n].ch /\ r.st \notin {"started", "waiting"}
  <2>2. ASSUME NEW st \in {"replied", "close", "leading", "execute"}, NEW err, NEW value
        PROVE  /\ Ends([calls[n] EXCEPT !.st = st])
               /\ Ends([calls[n] EXCEPT !.st = st, !.err = err])
               /\ Ends([calls[n] EXCEPT !.st = st, !.err = err, !.value = value])
    BY <1>1 DEF Call
  <2> HIDE DEF Ends
  <2>3. PICK r : calls' = [calls EXCEPT ![n] = r] /\ Ends(r)
    <3>1. CASE NotLeader(n)
      BY <2>2, <3>1 DEF NotLeader
    <3>2. CASE TimeOutPut(n)
      BY <2>2, <3>2 DEF TimeOutPut
    <3>3. CASE TimeOutGet(n) \/ LateGet(n)
      BY <2>2, <3>3 DEF TimeOutGet, LateGet
    <3>4. CASE ExecuteGetOpOnKVDB(n)
      BY <2>2, <3>4 DEF ExecuteGetOpOnKVDB
    <3> QED BY <1>9, <3>1, <3>2, <3>3, <3>4
  <2>4. DOMAIN calls' = DOMAIN calls /\ calls'[n] = r
        /\ \A m \in DOMAIN calls : m # n => calls'[m] = calls[m]
    BY <2>3
  <2>5. ASSUME NEW m \in DOMAIN calls
        PROVE  /\ calls'[m].server = calls[m].server
               /\ calls'[m].index = calls[m].index
               /\ calls'[m].ch = calls[m].ch
               /\ calls'[m].st = "started" => calls[m].st = "started"
               /\ calls'[m].st = "waiting" => calls[m].st = "waiting"
    BY <2>3, <2>4 DEF Ends
  <2> QED BY <2>1, <2>4, <2>5, ChannelFrame
<1> QED BY <1>5, <1>6, <1>7, <1>8, <1>9 DEF HandlerStep

\* The apply loop pushes into channels and changes nothing else about calls.
LEMMA ChannelLoop ==
    ASSUME TypeOK, TypeOK', ChannelInv, NEW s \in Server, LoopStep(s)
    PROVE  ChannelInv'
<1>1. UNCHANGED raftLog /\ UNCHANGED waitApplyCh
  BY DEF LoopStep, applierTicker, GetCommandFromRaft, ExecutePutOpOnKVDB,
         SendMessageToWaitChan, raftVars
<1>2. LogsGrow
  BY <1>1 DEF LogsGrow, TypeOK, RaftTypeOK
<1>3. \A n \in DOMAIN calls : calls[n] \in Call
  BY CallFields
<1>4. CASE UNCHANGED calls
  BY <1>1, <1>2, <1>4, ChannelFrame
<1>5. CASE SendMessageToWaitChan(s)
  <2>1. DOMAIN calls' = DOMAIN calls
    BY <1>5 DEF SendMessageToWaitChan
  <2>2. ASSUME NEW n \in DOMAIN calls
        PROVE  /\ calls'[n].server = calls[n].server
               /\ calls'[n].index = calls[n].index
               /\ calls'[n].ch = calls[n].ch
               /\ calls'[n].st = calls[n].st
    BY <1>3, <1>5 DEF SendMessageToWaitChan, Call
  <2> QED BY <1>1, <1>2, <2>1, <2>2, ChannelFrame
<1> QED BY <1>4, <1>5 DEF LoopStep, applierTicker, GetCommandFromRaft, ExecutePutOpOnKVDB

\* A new call has no index yet.
LEMMA ChannelSend ==
    ASSUME TypeOK, TypeOK', ChannelInv, NEW c, NEW op, NEW s \in Server, Send(c, op, s)
    PROVE  ChannelInv'
<1> DEFINE k == Len(calls) + 1
<1>1. calls \in Seq(Call) /\ Len(calls) \in Nat /\ waitApplyCh \subseteq DOMAIN calls
  BY DEF TypeOK, CallTypeOK
<1>2. calls' = Append(calls, NewCall(op, s)) /\ UNCHANGED raftLog /\ UNCHANGED waitApplyCh
  BY DEF Send, raftVars
<1>3. /\ DOMAIN calls' = DOMAIN calls \cup {k} /\ k \notin DOMAIN calls
      /\ \A n \in DOMAIN calls : calls'[n] = calls[n]
      /\ calls'[k] = NewCall(op, s)
  BY <1>1, <1>2
<1>4. calls'[k].index = 0 /\ calls'[k].st = "sent" /\ calls'[k].server = s
  BY <1>3 DEF NewCall
<1>5. Len(raftLog[s]) \in Nat
  BY DEF TypeOK, RaftTypeOK
<1> HIDE DEF k
<1>6. IndexInLog'
  BY <1>2, <1>3, <1>4, <1>5 DEF ChannelInv, IndexInLog
<1>7. IndexUnique'
  BY <1>3, <1>4 DEF ChannelInv, IndexUnique
<1>8. ChannelOwned'
  BY <1>1, <1>2, <1>3, <1>4 DEF ChannelInv, ChannelOwned
<1> QED BY <1>6, <1>7, <1>8 DEF ChannelInv

\* The invariant is inductive.
LEMMA ChannelNext == TypeOK /\ TypeOK' /\ ChannelInv /\ [Next]_vars => ChannelInv'
<1> SUFFICES ASSUME TypeOK, TypeOK', ChannelInv, [Next]_vars PROVE ChannelInv'
  OBVIOUS
<1>1. ASSUME LogsGrow, UNCHANGED <<calls, waitApplyCh>> PROVE ChannelInv'
  BY <1>1, ChannelFrame
<1>2. ASSUME UNCHANGED <<raftLog, calls, waitApplyCh>> PROVE ChannelInv'
  <2>1. LogsGrow
    BY <1>2 DEF LogsGrow, TypeOK, RaftTypeOK
  <2> QED BY <1>1, <1>2, <2>1
<1>3. CASE UNCHANGED vars
  BY <1>2, <1>3 DEF vars, kvVars, raftVars, serverVars
<1>4. CASE KvStep
  <2>1. CASE \E n \in DOMAIN calls : HandlerStep(n)
    BY <2>1, ChannelHandler
  <2>2. CASE \E s \in Server : LoopStep(s)
    BY <2>2, ChannelLoop
  <2>3. CASE SnapshotStep
    <3>1. ASSUME NEW m \in snapMsgs, GetSnapShotFromRaft(m) PROVE ChannelInv'
      BY <1>2, <3>1 DEF GetSnapShotFromRaft, raftVars
    <3>2. ASSUME NEW s \in Server, NEW k \in 1..Len(log), InstallSnapshot(s, k)
          PROVE  ChannelInv'
      <4>1. LogsGrow
        BY <3>2, LogsGrowInRaft
      <4>2. UNCHANGED <<calls, waitApplyCh>>
        BY <3>2 DEF InstallSnapshot
      <4> QED BY <1>1, <4>1, <4>2
    <3> QED BY <2>3, <3>1, <3>2 DEF SnapshotStep
  <2>4. CASE RaftStep /\ UNCHANGED serverVars
    BY <1>1, <2>4, LogsGrowInRaft DEF serverVars
  <2> QED BY <1>4, <2>1, <2>2, <2>3, <2>4 DEF KvStep
<1>5. ASSUME NEW c \in Client, ClerkStep(c) PROVE ChannelInv'
  <2>1. ASSUME NEW kind \in Kinds, Try(c, kind) PROVE ChannelInv'
    <3>1. m_recentLeaderId[c] \in Server
      BY DEF TypeOK, ClerkTypeOK
    <3> QED BY <2>1, <3>1, ChannelSend DEF Try
  <2>2. CASE Retry(c)
    <3>1. request[c] \in DOMAIN calls
      BY <2>2 DEF Retry, TypeOK, ClerkTypeOK, CallTypeOK
    <3>2. calls[request[c]].server \in Server
      BY <3>1, CallFields
    <3>3. (calls[request[c]].server % NumServers) + 1 \in Server
      BY <3>2, NumServersAssumption DEF Server
    <3> QED BY <2>2, <3>3, ChannelSend DEF Retry
  <2>3. CASE Answer(c) \/ GiveUp(c)
    BY <1>2, <2>3 DEF Answer, GiveUp, kvVars, raftVars, serverVars
  <2> QED BY <1>5, <2>1, <2>2, <2>3 DEF ClerkStep
<1> QED BY <1>3, <1>4, <1>5 DEF Next

\* A waiting handler's channel is never deleted under it (kvServer.cpp, the
\* ends of Get and PutAppend), for any number of servers, clients and calls.
THEOREM ChannelAliveCorrect == Spec => []ChannelAlive
<1>1. Init => ChannelInv
  <2> SUFFICES ASSUME Init PROVE ChannelInv
    OBVIOUS
  <2>1. DOMAIN calls = {} /\ waitApplyCh = {}
    BY DEF Init, KvInit
  <2> QED BY <2>1 DEF ChannelInv, IndexInLog, IndexUnique, ChannelOwned
<1>2. ChannelInv => ChannelAlive
  BY DEF ChannelInv, ChannelOwned, ChannelAlive
<1>3. Spec => []TypeOK
  BY TypeCorrect
<1> QED BY <1>1, <1>2, <1>3, ChannelNext, PTL DEF Spec
-----------------------------------------------------------------------------
(* Answers *)

\* Only a server with every committed entry leads: what is committed is in its
\* log, and stays committed as it is.
LeadHolds ==
    /\ Len(raftLog[lead]) >= Len(log)
    /\ \A i \in 1..Len(log) : raftLog[lead][i] = log[i]

\* No committed entry is lost or replaced by the step.
CommittedKept == Len(log') >= Len(log) /\ \A i \in 1..Len(log) : log'[i] = log[i]

\* The requests that any clerk ever sent.
Sent == {calls[n].op : n \in DOMAIN calls}

\* A clerk numbers a request once, and waits for the one it numbered last.
SentOnce ==
    /\ \A n \in DOMAIN calls : calls[n].op.id \in 1..m_requestId[calls[n].op.client]
    /\ \A m, n \in DOMAIN calls : SameRequest(calls[m].op, calls[n].op) => calls[m].op = calls[n].op
    /\ \A c \in Client : request[c] # 0 =>
          /\ calls[request[c]].op.client = c
          /\ calls[request[c]].op.id = m_requestId[c]

\* The logs hold nothing else than requests that were sent.
LogsSent ==
    /\ \A s \in Server : \A i \in DOMAIN raftLog[s] : raftLog[s][i] \in Sent
    /\ \A i \in DOMAIN log : log[i] \in Sent

\* The entries that Raft handed to the state machine of s.
Applied(s) == {log[i] : i \in 1..m_lastApplied[s]}

\* The apply loop works on those entries.
QueueApplied ==
    \A s \in Server :
        /\ loop[s].index <= m_lastApplied[s]
        /\ \A i \in DOMAIN applyChan[s] : applyChan[s][i] <= m_lastApplied[s]

\* The duplicate table names the newest request of a client only if that one was
\* applied.  It may name an older one that was not: a read given up by its clerk
\* is noted whenever its handler gets to it.
TableEarned ==
    \A s \in Server, c \in Client :
        /\ m_lastRequestId[s][c] <= m_requestId[c]
        /\ m_lastRequestId[s][c] = m_requestId[c] /\ m_requestId[c] > 0
           => \E op \in Applied(s) : op.client = c /\ op.id = m_requestId[c]

\* The key holds an applied write.
ValueApplied == \A s \in Server : m_skipList[s] \in Applied(s) \cup {Nil}

\* A call that promises success to a client still waiting for it was applied;
\* so was what it read and what is in its channel.
Good(r, ap, req) ==
    /\ (r.st = "execute" \/ r.err # "ErrWrongLeader") /\ r.op.id = req[r.op.client]
       => r.op \in ap
    /\ r.value \in ap \cup {Nil}
    /\ \A i \in DOMAIN r.queue : r.queue[i] \in ap

\* Every handler keeps to that.
CallsEarned == \A n \in DOMAIN calls : Good(calls[n], Applied(calls[n].server), m_requestId)

\* AnswerCommitted, in terms of Applied.
AnswersEarned ==
    \A a \in answers : a.op \in Applied(a.server) /\ a.value \in Applied(a.server) \cup {Nil}

\* What the answers rest on.
SentInv == LeadHolds /\ SentOnce /\ LogsSent

\* The inductive invariant, with TypeOK, ChannelInv and SentInv.
EarnedInv == QueueApplied /\ TableEarned /\ ValueApplied /\ CallsEarned /\ AnswersEarned

\* A server that holds the first k committed entries has them in its log.
LEMMA HoldsEntries ==
    ASSUME RaftTypeOK, NEW s \in Server, Holds(s, Len(log))
    PROVE  Len(raftLog[s]) >= Len(log) /\ \A i \in 1..Len(log) : raftLog[s][i] = log[i]
<1>1. raftLog[s] \in Seq(Op) /\ log \in Seq(Op) /\ Len(log) \in Nat
  BY DEF RaftTypeOK
<1>2. Len(raftLog[s]) >= Len(log) /\ SubSeq(raftLog[s], 1, Len(log)) = SubSeq(log, 1, Len(log))
  BY DEF Holds, Prefix
<1>3. ASSUME NEW i \in 1..Len(log) PROVE raftLog[s][i] = log[i]
  <2>1. SubSeq(raftLog[s], 1, Len(log))[i] = raftLog[s][i]
    BY <1>1, <1>2
  <2>2. SubSeq(log, 1, Len(log))[i] = log[i]
    BY <1>1
  <2> QED BY <1>2, <2>1, <2>2
<1> QED BY <1>2, <1>3

\* Every entry of an overwritten log comes from one of the two.
LEMMA OverwriteEntries ==
    ASSUME NEW a \in Seq(Op), NEW b \in Seq(Op), NEW S,
           \A i \in DOMAIN a : a[i] \in S, \A i \in DOMAIN b : b[i] \in S
    PROVE  \A i \in DOMAIN Overwrite(a, b) : Overwrite(a, b)[i] \in S
<1> DEFINE rest == SubSeq(a, Len(b) + 1, Len(a))
<1>1. Len(a) \in Nat /\ Len(b) \in Nat /\ DOMAIN a = 1..Len(a) /\ DOMAIN b = 1..Len(b)
  OBVIOUS
<1>2. rest \in Seq(Op) /\ Len(rest) = IF Len(b) + 1 <= Len(a) THEN Len(a) - Len(b) ELSE 0
  OBVIOUS
<1>3. \A i \in 1..Len(rest) : rest[i] = a[Len(b) + i] /\ Len(b) + i \in DOMAIN a
  BY <1>1, <1>2
<1> HIDE DEF rest
<1>4. /\ Len(b \o rest) = Len(b) + Len(rest) /\ b \o rest \in Seq(Op)
      /\ \A i \in 1..Len(b \o rest) :
            (b \o rest)[i] = IF i <= Len(b) THEN b[i] ELSE rest[i - Len(b)]
  BY <1>2
<1>5. Len(rest) \in Nat /\ DOMAIN (b \o rest) = 1..Len(b \o rest)
  BY <1>2, <1>4
<1>6. ASSUME NEW i \in DOMAIN (b \o rest) PROVE (b \o rest)[i] \in S
  <2>1. CASE i <= Len(b)
    <3>1. i \in DOMAIN b
      BY <1>1, <1>4, <1>5, <2>1
    <3> QED BY <1>4, <1>5, <2>1, <3>1
  <2>2. CASE ~(i <= Len(b))
    <3>1. i - Len(b) \in 1..Len(rest)
      BY <1>1, <1>4, <1>5, <2>2
    <3>2. rest[i - Len(b)] = a[Len(b) + (i - Len(b))] /\ Len(b) + (i - Len(b)) \in DOMAIN a
      BY <1>3, <3>1
    <3>3. rest[i - Len(b)] \in S
      BY <3>2
    <3> QED BY <1>4, <1>5, <2>2, <3>3
  <2> QED BY <2>1, <2>2
<1>7. Overwrite(a, b) = b \o rest
  BY DEF Overwrite, rest
<1> QED BY <1>6, <1>7

\* Raft's steps and snapshots keep what is committed.
LEMMA CommittedStep ==
    ASSUME TypeOK, LeadHolds, [Next]_vars
    PROVE  CommittedKept /\ LeadHolds'
<1>1. /\ \A s \in Server : raftLog[s] \in Seq(Op) /\ Len(raftLog[s]) \in Nat
      /\ log \in Seq(Op) /\ Len(log) \in Nat /\ lead \in Server
      /\ raftLog \in [Server -> Seq(Op)]
  BY DEF TypeOK, RaftTypeOK
<1>2. ASSUME UNCHANGED <<log, lead>>, raftLog'[lead] = raftLog[lead]
      PROVE  CommittedKept /\ LeadHolds'
  BY <1>1, <1>2 DEF CommittedKept, LeadHolds
<1>3. ASSUME UNCHANGED raftVars PROVE CommittedKept /\ LeadHolds'
  BY <1>2, <1>3 DEF raftVars
<1>4. ASSUME NEW n \in DOMAIN calls, HandOver(n) PROVE CommittedKept /\ LeadHolds'
  <2> DEFINE s == calls[n].server
  <2>1. s \in Server /\ calls[n].op \in Op
    BY CallFields
  <2>2. UNCHANGED <<log, lead>> /\ raftLog' = [raftLog EXCEPT ![s] = Append(raftLog[s], calls[n].op)]
    BY <1>4 DEF HandOver, Start
  <2> HIDE DEF s
  <2>3. CASE s = lead
    <3>1. raftLog'[lead] = Append(raftLog[lead], calls[n].op)
      BY <1>1, <2>2, <2>3
    <3>2. Len(raftLog'[lead]) >= Len(raftLog[lead])
          /\ \A i \in 1..Len(raftLog[lead]) : raftLog'[lead][i] = raftLog[lead][i]
      BY <1>1, <2>1, <3>1
    <3>3. Len(raftLog'[lead]) \in Nat
      BY <1>1, <2>1, <3>1
    <3> QED BY <1>1, <2>2, <3>2, <3>3 DEF CommittedKept, LeadHolds
  <2>4. CASE s # lead
    BY <1>1, <1>2, <2>2, <2>4
  <2> QED BY <2>3, <2>4
<1>5. ASSUME NEW p \in Server, Replicate(p) PROVE CommittedKept /\ LeadHolds'
  BY <1>1, <1>2, <1>5 DEF Replicate
<1>6. ASSUME NEW p \in Server, Elect(p) PROVE CommittedKept /\ LeadHolds'
  <2>1. Len(raftLog[p]) >= Len(log) /\ \A i \in 1..Len(log) : raftLog[p][i] = log[i]
    BY <1>6, HoldsEntries DEF Elect, TypeOK
  <2> QED BY <1>1, <1>6, <2>1 DEF Elect, CommittedKept, LeadHolds
<1>7. ASSUME NEW k \in 1..Len(raftLog[lead]), Commit(k) PROVE CommittedKept /\ LeadHolds'
  <2>1. k \in Nat /\ k <= Len(raftLog[lead]) /\ k > Len(log)
    BY <1>1, <1>7 DEF Commit
  <2>2. log' = SubSeq(raftLog[lead], 1, k) /\ UNCHANGED <<raftLog, lead>>
    BY <1>7 DEF Commit, Prefix
  <2>3. Len(log') = k /\ \A i \in 1..k : log'[i] = raftLog[lead][i]
    BY <1>1, <2>1, <2>2
  <2> QED BY <1>1, <2>1, <2>2, <2>3 DEF CommittedKept, LeadHolds
<1>8. ASSUME NEW s \in Server, NEW k \in 1..Len(log), InstallSnapshot(s, k)
      PROVE  CommittedKept /\ LeadHolds'
  BY <1>1, <1>2, <1>8 DEF InstallSnapshot
<1>9. CASE KvStep
  <2>1. ASSUME NEW n \in DOMAIN calls, HandlerStep(n) PROVE CommittedKept /\ LeadHolds'
    BY <1>3, <1>4, <2>1 DEF HandlerStep, NotLeader, OpenChannel, Pop, TimeOutPut, TimeOutGet,
       LateGet, ExecuteGetOpOnKVDB, CloseChannel
  <2>2. ASSUME NEW s \in Server, LoopStep(s) PROVE CommittedKept /\ LeadHolds'
    BY <1>3, <2>2 DEF LoopStep, applierTicker, GetCommandFromRaft, ExecutePutOpOnKVDB,
       SendMessageToWaitChan
  <2>3. CASE SnapshotStep
    BY <1>3, <1>8, <2>3 DEF SnapshotStep, GetSnapShotFromRaft
  <2>4. CASE RaftStep
    BY <1>5, <1>6, <1>7, <2>4 DEF RaftStep
  <2> QED BY <1>9, <2>1, <2>2, <2>3, <2>4 DEF KvStep
<1>10. CASE (\E c \in Client : ClerkStep(c)) \/ UNCHANGED vars
  BY <1>3, <1>10 DEF ClerkStep, Try, Retry, Send, Answer, GiveUp, vars, kvVars
<1> QED BY <1>9, <1>10 DEF Next

\* How the step treats the requests: the old calls keep theirs, and a new call
\* repeats one or carries the next number of its client.
LEMMA SentStep ==
    ASSUME TypeOK, TypeOK', SentInv, [Next]_vars
    PROVE  SentOnce' /\ Sent \subseteq Sent'
<1>1. /\ \A n \in DOMAIN calls : calls[n] \in Call /\ calls[n].op \in Op
                                 /\ calls[n].op.client \in Client /\ calls[n].op.id \in Nat
      /\ calls \in Seq(Call) /\ Len(calls) \in Nat /\ DOMAIN calls = 1..Len(calls)
      /\ m_requestId \in [Client -> Nat] /\ request \in [Client -> 0..Len(calls)]
  BY CallFields DEF TypeOK, CallTypeOK, ClerkTypeOK
<1>2. SentOnce
  BY DEF SentInv
<1>3. ASSUME DOMAIN calls' = DOMAIN calls, \A n \in DOMAIN calls : calls'[n].op = calls[n].op,
             UNCHANGED m_requestId,
             \A c \in Client : request'[c] # 0 => request'[c] = request[c]
      PROVE  SentOnce' /\ Sent \subseteq Sent'
  <2>1. Sent \subseteq Sent'
    BY <1>3 DEF Sent
  <2>2. \A c \in Client : request[c] # 0 => request[c] \in DOMAIN calls
    BY <1>1
  <2> QED BY <1>2, <1>3, <2>1, <2>2 DEF SentOnce, SameRequest
<1>4. ASSUME NEW n \in DOMAIN calls, HandlerStep(n), UNCHANGED clerkVars
      PROVE  SentOnce' /\ Sent \subseteq Sent'
  <2>1. DOMAIN calls' = DOMAIN calls /\ \A m \in DOMAIN calls : calls'[m].op = calls[m].op
    <3>1. CASE Pop(n)
      BY <1>1, <3>1 DEF Pop, AfterPop, Call
    <3> DEFINE Keeps(r) == r.op = calls[n].op
    <3>2. ASSUME NEW st, NEW index, NEW ch, NEW err, NEW value
          PROVE  /\ Keeps([calls[n] EXCEPT !.st = st])
                 /\ Keeps([calls[n] EXCEPT !.st = st, !.index = index])
                 /\ Keeps([calls[n] EXCEPT !.st = st, !.ch = ch])
                 /\ Keeps([calls[n] EXCEPT !.st = st, !.err = err])
                 /\ Keeps([calls[n] EXCEPT !.st = st, !.err = err, !.value = value])
      BY <1>1 DEF Call
    <3> HIDE DEF Keeps
    <3>3. ASSUME NEW r, calls' = [calls EXCEPT ![n] = r], Keeps(r)
          PROVE  DOMAIN calls' = DOMAIN calls /\ \A m \in DOMAIN calls : calls'[m].op = calls[m].op
      BY <1>1, <3>3 DEF Keeps
    <3>4. CASE NotLeader(n)
      BY <3>2, <3>3, <3>4 DEF NotLeader
    <3>5. CASE HandOver(n)
      BY <3>2, <3>3, <3>5 DEF HandOver
    <3>6. CASE OpenChannel(n)
      BY <3>2, <3>3, <3>6 DEF OpenChannel
    <3>7. CASE TimeOutPut(n)
      BY <3>2, <3>3, <3>7 DEF TimeOutPut
    <3>8. CASE TimeOutGet(n)
      BY <3>2, <3>3, <3>8 DEF TimeOutGet
    <3>9. CASE LateGet(n)
      BY <3>2, <3>3, <3>9 DEF LateGet
    <3>10. CASE ExecuteGetOpOnKVDB(n)
      BY <3>2, <3>3, <3>10 DEF ExecuteGetOpOnKVDB
    <3>11. CASE CloseChannel(n)
      BY <3>2, <3>3, <3>11 DEF CloseChannel
    <3> QED BY <1>4, <3>1, <3>4, <3>5, <3>6, <3>7, <3>8, <3>9, <3>10, <3>11 DEF HandlerStep
  <2> QED BY <1>3, <1>4, <2>1 DEF clerkVars
<1>5. ASSUME UNCHANGED calls, UNCHANGED m_requestId,
             \A c \in Client : request'[c] # 0 => request'[c] = request[c]
      PROVE  SentOnce' /\ Sent \subseteq Sent'
  BY <1>3, <1>5
<1>6. ASSUME NEW s \in Server, SendMessageToWaitChan(s), UNCHANGED clerkVars
      PROVE  SentOnce' /\ Sent \subseteq Sent'
  <2>1. DOMAIN calls' = DOMAIN calls /\ \A m \in DOMAIN calls : calls'[m].op = calls[m].op
    BY <1>1, <1>6 DEF SendMessageToWaitChan, Call
  <2> QED BY <1>3, <1>6, <2>1 DEF clerkVars
<1>7. CASE KvStep /\ UNCHANGED clerkVars
  <2>1. CASE \E n \in DOMAIN calls : HandlerStep(n)
    BY <1>4, <1>7, <2>1
  <2>2. CASE \E s \in Server : LoopStep(s)
    BY <1>5, <1>6, <1>7, <2>2 DEF LoopStep, applierTicker, GetCommandFromRaft,
       ExecutePutOpOnKVDB, clerkVars
  <2>3. CASE SnapshotStep \/ UNCHANGED serverVars
    BY <1>5, <1>7, <2>3 DEF SnapshotStep, InstallSnapshot, GetSnapShotFromRaft, serverVars, clerkVars
  <2> QED BY <1>7, <2>1, <2>2, <2>3 DEF KvStep
<1>8. ASSUME NEW c \in Client, NEW op, NEW s, Send(c, op, s), op \in Op, op.client = c,
             op.id = m_requestId'[c], \A d \in Client : m_requestId'[d] >= m_requestId[d],
             \A d \in Client : d # c => m_requestId'[d] = m_requestId[d],
             op.id > 0,
             op \in Sent \/ m_requestId'[c] > m_requestId[c]
      PROVE  SentOnce' /\ Sent \subseteq Sent'
  <2> DEFINE k == Len(calls) + 1
  <2>1. /\ calls' = Append(calls, NewCall(op, s))
        /\ request' = [request EXCEPT ![c] = k]
    BY <1>8 DEF Send
  <2>2. /\ DOMAIN calls' = DOMAIN calls \cup {k} /\ k \notin DOMAIN calls
        /\ \A n \in DOMAIN calls : calls'[n] = calls[n]
        /\ calls'[k] = NewCall(op, s)
    BY <1>1, <2>1
  <2>3. calls'[k].op = op
    BY <2>2 DEF NewCall
  <2>4. request'[c] = k /\ \A d \in Client : d # c => request'[d] = request[d]
    BY <1>1, <2>1
  <2> HIDE DEF k
  <2>5. Sent' = Sent \cup {op}
    BY <2>2, <2>3 DEF Sent
  <2>6. m_requestId' \in [Client -> Nat]
    BY DEF TypeOK, ClerkTypeOK
  <2>7. \A n \in DOMAIN calls : calls[n].op.id \in 1..m_requestId[calls[n].op.client]
    BY <1>2 DEF SentOnce
  <2>8. \A n \in DOMAIN calls' : calls'[n].op.id \in 1..m_requestId'[calls'[n].op.client]
    <3>1. op.id \in 1..m_requestId'[op.client]
      BY <1>8, <2>6
    <3>2. ASSUME NEW n \in DOMAIN calls
          PROVE  calls[n].op.id \in 1..m_requestId'[calls[n].op.client]
      BY <1>1, <1>8, <2>6, <2>7
    <3> QED BY <2>2, <2>3, <3>1, <3>2
  <2>9. ASSUME NEW n \in DOMAIN calls, SameRequest(calls[n].op, op) PROVE calls[n].op = op
    <3>1. CASE op \in Sent
      BY <1>2, <2>9, <3>1 DEF Sent, SentOnce
    <3>2. CASE m_requestId'[c] > m_requestId[c]
      <4>1. calls[n].op.client = c /\ calls[n].op.id = op.id
        BY <1>8, <2>9 DEF SameRequest
      <4>2. op.id <= m_requestId[c]
        BY <1>1, <2>7, <4>1
      <4> QED BY <1>1, <1>8, <2>6, <3>2, <4>2
    <3> QED BY <1>8, <3>1, <3>2
  <2>10. \A m, n \in DOMAIN calls' :
            SameRequest(calls'[m].op, calls'[n].op) => calls'[m].op = calls'[n].op
    <3>1. \A a, b : SameRequest(a, b) <=> SameRequest(b, a)
      BY DEF SameRequest
    <3>2. \A m, n \in DOMAIN calls : SameRequest(calls[m].op, calls[n].op) => calls[m].op = calls[n].op
      BY <1>2 DEF SentOnce
    <3> QED BY <2>2, <2>3, <2>9, <3>1, <3>2
  <2>11. ASSUME NEW d \in Client, request'[d] # 0
         PROVE  /\ calls'[request'[d]].op.client = d
                /\ calls'[request'[d]].op.id = m_requestId'[d]
    <3>1. CASE d = c
      BY <1>8, <2>3, <2>4, <3>1
    <3>2. CASE d # c
      <4>1. request'[d] = request[d] /\ request[d] \in DOMAIN calls
        BY <1>1, <2>4, <2>11, <3>2
      <4>2. calls[request[d]].op.client = d /\ calls[request[d]].op.id = m_requestId[d]
        BY <1>2, <2>11, <4>1 DEF SentOnce
      <4> QED BY <1>8, <2>2, <3>2, <4>1, <4>2
    <3> QED BY <3>1, <3>2
  <2> QED BY <2>5, <2>8, <2>10, <2>11 DEF SentOnce
<1>9. ASSUME NEW c \in Client, ClerkStep(c) PROVE SentOnce' /\ Sent \subseteq Sent'
  <2>1. ASSUME NEW kind \in Kinds, Try(c, kind) PROVE SentOnce' /\ Sent \subseteq Sent'
    <3> DEFINE op == [client |-> c, id |-> m_requestId[c] + 1, kind |-> kind]
    <3>1. op \in Op /\ op.client = c /\ op.id = m_requestId[c] + 1
      BY <1>1, KindsAssumption DEF Op
    <3>2. /\ m_requestId'[c] = m_requestId[c] + 1
          /\ \A d \in Client : d # c => m_requestId'[d] = m_requestId[d]
      BY <1>1, <2>1 DEF Try
    <3>3. Send(c, op, m_recentLeaderId[c])
      BY <2>1 DEF Try
    <3> HIDE DEF op
    <3>4. \A d \in Client : m_requestId'[d] >= m_requestId[d]
      BY SMTT(60), <1>1, <3>2
    <3>5. op.id > 0 /\ m_requestId'[c] > m_requestId[c]
      BY <1>1, <3>1, <3>2
    <3> QED BY <1>8, <3>1, <3>2, <3>3, <3>4, <3>5
  <2>2. CASE Retry(c)
    <3> DEFINE op == calls[request[c]].op
    <3>1. request[c] # 0 /\ request[c] \in DOMAIN calls
      BY <1>1, <2>2 DEF Retry
    <3>2. op.client = c /\ op.id = m_requestId[c] /\ op \in Sent /\ op \in Op
      BY <1>1, <1>2, <3>1 DEF SentOnce, Sent
    <3>3. op.id > 0
      BY <1>1, <1>2, <3>1, <3>2 DEF SentOnce
    <3>4. UNCHANGED m_requestId /\ Send(c, op, (calls[request[c]].server % NumServers) + 1)
      BY <2>2 DEF Retry
    <3> HIDE DEF op
    <3>5. \A d \in Client : m_requestId'[d] >= m_requestId[d]
      BY <1>1, <3>4
    <3> QED BY <1>8, <3>2, <3>3, <3>4, <3>5
  <2>3. CASE Answer(c) \/ GiveUp(c)
    <3>1. UNCHANGED <<calls, m_requestId>> /\ request' = [request EXCEPT ![c] = 0]
      BY <2>3 DEF Answer, GiveUp, kvVars, serverVars
    <3> QED BY <1>1, <1>5, <3>1
  <2> QED BY <1>9, <2>1, <2>2, <2>3 DEF ClerkStep
<1>10. CASE UNCHANGED vars
  BY <1>5, <1>10 DEF vars, kvVars, serverVars, clerkVars
<1> QED BY <1>7, <1>9, <1>10 DEF Next

\* Start hands over a request that was sent; everything else moves entries from
\* log to log.
LEMMA LogsStep ==
    ASSUME TypeOK, SentInv, [Next]_vars, Sent \subseteq Sent'
    PROVE  LogsSent'
<1>1. /\ \A s \in Server : raftLog[s] \in Seq(Op) /\ Len(raftLog[s]) \in Nat
      /\ log \in Seq(Op) /\ Len(log) \in Nat /\ lead \in Server
      /\ raftLog \in [Server -> Seq(Op)]
  BY DEF TypeOK, RaftTypeOK
<1>2. /\ \A s \in Server : \A i \in DOMAIN raftLog[s] : raftLog[s][i] \in Sent
      /\ \A i \in DOMAIN log : log[i] \in Sent
  BY DEF SentInv, LogsSent
<1>3. ASSUME UNCHANGED <<raftLog, log>> PROVE LogsSent'
  BY <1>2, <1>3 DEF LogsSent
<1>4. ASSUME NEW s \in Server, UNCHANGED log, NEW l, raftLog' = [raftLog EXCEPT ![s] = l],
             \A i \in DOMAIN l : l[i] \in Sent
      PROVE  LogsSent'
  <2>1. \A t \in Server : raftLog'[t] = IF t = s THEN l ELSE raftLog[t]
    BY <1>1, <1>4
  <2> QED BY <1>2, <1>4, <2>1 DEF LogsSent
<1>5. ASSUME NEW n \in DOMAIN calls, HandOver(n) PROVE LogsSent'
  <2> DEFINE s == calls[n].server
             l == Append(raftLog[s], calls[n].op)
  <2>1. s \in Server /\ calls[n].op \in Op /\ calls[n].op \in Sent
    BY CallFields DEF Sent
  <2>2. UNCHANGED log /\ raftLog' = [raftLog EXCEPT ![s] = l]
    BY <1>5 DEF HandOver, Start
  <2>3. \A i \in DOMAIN l : l[i] \in Sent
    BY <1>1, <1>2, <2>1
  <2> HIDE DEF l, s
  <2> QED BY <1>4, <2>1, <2>2, <2>3
<1>6. ASSUME NEW s \in Server, NEW theirs \in Seq(Op), \A i \in DOMAIN theirs : theirs[i] \in Sent,
             UNCHANGED log, raftLog' = [raftLog EXCEPT ![s] = Overwrite(@, theirs)]
      PROVE  LogsSent'
  <2>1. \A i \in DOMAIN Overwrite(raftLog[s], theirs) : Overwrite(raftLog[s], theirs)[i] \in Sent
    BY <1>1, <1>2, <1>6, OverwriteEntries
  <2> QED BY <1>4, <1>6, <2>1
<1>7. ASSUME NEW p \in Server, Replicate(p) PROVE LogsSent'
  BY <1>1, <1>2, <1>6, <1>7 DEF Replicate
<1>8. ASSUME NEW k \in 1..Len(raftLog[lead]), Commit(k) PROVE LogsSent'
  <2>1. log' = SubSeq(raftLog[lead], 1, k) /\ UNCHANGED raftLog
    BY <1>8 DEF Commit, Prefix
  <2>2. DOMAIN log' = 1..k /\ \A i \in 1..k : log'[i] = raftLog[lead][i] /\ i \in DOMAIN raftLog[lead]
    BY <1>1, <2>1
  <2>3. \A i \in DOMAIN log' : log'[i] \in Sent
    BY <1>1, <1>2, <2>2
  <2> QED BY <1>2, <2>1, <2>3 DEF LogsSent
<1>9. ASSUME NEW s \in Server, NEW k \in 1..Len(log), InstallSnapshot(s, k) PROVE LogsSent'
  <2> DEFINE theirs == SubSeq(log, 1, k)
  <2>1. theirs \in Seq(Op) /\ DOMAIN theirs = 1..k
        /\ \A i \in 1..k : theirs[i] = log[i] /\ i \in DOMAIN log
    BY <1>1
  <2>2. \A i \in DOMAIN theirs : theirs[i] \in Sent
    BY <1>2, <2>1
  <2>3. UNCHANGED log /\ raftLog' = [raftLog EXCEPT ![s] = Overwrite(@, theirs)]
    BY <1>9 DEF InstallSnapshot
  <2> HIDE DEF theirs
  <2> QED BY <1>6, <2>1, <2>2, <2>3
<1>10. CASE KvStep
  <2>1. ASSUME NEW n \in DOMAIN calls, HandlerStep(n) PROVE LogsSent'
    BY <1>3, <1>5, <2>1 DEF HandlerStep, NotLeader, OpenChannel, Pop, TimeOutPut, TimeOutGet,
       LateGet, ExecuteGetOpOnKVDB, CloseChannel, raftVars
  <2>2. ASSUME NEW s \in Server, LoopStep(s) PROVE LogsSent'
    BY <1>3, <2>2 DEF LoopStep, applierTicker, GetCommandFromRaft, ExecutePutOpOnKVDB,
       SendMessageToWaitChan, raftVars
  <2>3. CASE SnapshotStep
    BY <1>3, <1>9, <2>3 DEF SnapshotStep, GetSnapShotFromRaft, raftVars
  <2>4. CASE RaftStep
    BY <1>3, <1>7, <1>8, <2>4 DEF RaftStep, Elect
  <2> QED BY <1>10, <2>1, <2>2, <2>3, <2>4 DEF KvStep
<1>11. CASE (\E c \in Client : ClerkStep(c)) \/ UNCHANGED vars
  BY <1>3, <1>11 DEF ClerkStep, Try, Retry, Send, Answer, GiveUp, vars, kvVars, raftVars
<1> QED BY <1>10, <1>11 DEF Next

\* The types the arguments below use.
LEMMA StateTypes ==
    ASSUME TypeOK
    PROVE  /\ m_requestId \in [Client -> Nat]
           /\ m_lastRequestId \in [Server -> [Client -> Nat]]
           /\ answers \subseteq [op : Op, server : Server, value : Op \cup {Nil}]
           /\ log \in Seq(Op) /\ Len(log) \in Nat
           /\ m_lastApplied \in [Server -> 0..Len(log)]
           /\ \A s \in Server :
                 /\ m_lastApplied[s] \in Nat /\ loop[s].index \in Nat
                 /\ applyChan[s] \in Seq(1..Len(log))
                 /\ \A i \in DOMAIN applyChan[s] : applyChan[s][i] \in 1..Len(log)
<1>1. /\ m_requestId \in [Client -> Nat]
      /\ m_lastRequestId \in [Server -> [Client -> Nat]]
      /\ answers \subseteq [op : Op, server : Server, value : Op \cup {Nil}]
  BY DEF TypeOK, ServerTypeOK, ClerkTypeOK
<1>2. log \in Seq(Op) /\ Len(log) \in Nat /\ m_lastApplied \in [Server -> 0..Len(log)]
  BY DEF TypeOK, RaftTypeOK, LoopTypeOK
<1>3. ASSUME NEW s \in Server
      PROVE  /\ m_lastApplied[s] \in Nat /\ loop[s].index \in Nat
             /\ applyChan[s] \in Seq(1..Len(log))
  BY <1>2 DEF TypeOK, LoopTypeOK
<1>4. \A s \in Server : \A i \in DOMAIN applyChan[s] : applyChan[s][i] \in 1..Len(log)
  BY <1>3
<1> QED BY <1>1, <1>2, <1>3, <1>4

\* The entries that are applied at s after the step.
NewApplied(s) == {log'[i] : i \in 1..m_lastApplied'[s]}

\* What was applied stays applied, and numbers are only counted up.
StaysApplied ==
    /\ \A s \in Server : Applied(s) \subseteq NewApplied(s) /\ m_lastApplied'[s] >= m_lastApplied[s]
    /\ \A c \in Client : m_requestId'[c] >= m_requestId[c]

\* applierTicker and InstallSnapshot only raise m_lastApplied, and a clerk's
\* number only grows.
LEMMA StaysAppliedStep ==
    ASSUME TypeOK, TypeOK', CommittedKept, [Next]_vars
    PROVE  StaysApplied
<1>1. /\ m_lastApplied \in [Server -> 0..Len(log)] /\ m_lastApplied' \in [Server -> 0..Len(log')]
      /\ log \in Seq(Op) /\ log' \in Seq(Op) /\ Len(log) \in Nat /\ Len(log') \in Nat
      /\ m_requestId \in [Client -> Nat] /\ m_requestId' \in [Client -> Nat]
  <2>1. TypeOK => /\ m_lastApplied \in [Server -> 0..Len(log)] /\ m_requestId \in [Client -> Nat]
                  /\ log \in Seq(Op) /\ Len(log) \in Nat
    BY SMTT(60) DEF TypeOK, RaftTypeOK, LoopTypeOK, ClerkTypeOK
  <2>2. TypeOK' => /\ m_lastApplied' \in [Server -> 0..Len(log')] /\ m_requestId' \in [Client -> Nat]
                   /\ log' \in Seq(Op) /\ Len(log') \in Nat
    BY SMTT(60) DEF TypeOK, RaftTypeOK, LoopTypeOK, ClerkTypeOK
  <2> QED BY <2>1, <2>2
<1>2. \A s \in Server : m_lastApplied'[s] >= m_lastApplied[s]
  <2>1. CASE UNCHANGED m_lastApplied
    BY <1>1, <2>1
  <2>2. ASSUME NEW s \in Server, applierTicker(s) PROVE \A t \in Server : m_lastApplied'[t] >= m_lastApplied[t]
    BY <1>1, <2>2 DEF applierTicker
  <2>3. ASSUME NEW s \in Server, NEW k \in 1..Len(log), InstallSnapshot(s, k)
        PROVE  \A t \in Server : m_lastApplied'[t] >= m_lastApplied[t]
    BY <1>1, <2>3 DEF InstallSnapshot
  <2>4. CASE KvStep
    <3>1. ASSUME NEW n \in DOMAIN calls, HandlerStep(n) PROVE UNCHANGED m_lastApplied
      BY <3>1 DEF HandlerStep, NotLeader, HandOver, OpenChannel, Pop, TimeOutPut, TimeOutGet,
         LateGet, ExecuteGetOpOnKVDB, CloseChannel, HandlerOnly
    <3>2. ASSUME NEW s \in Server, LoopStep(s) PROVE applierTicker(s) \/ UNCHANGED m_lastApplied
      BY <3>2 DEF LoopStep, GetCommandFromRaft, ExecutePutOpOnKVDB, SendMessageToWaitChan
    <3>3. ASSUME NEW m \in snapMsgs, GetSnapShotFromRaft(m) PROVE UNCHANGED m_lastApplied
      BY <3>3 DEF GetSnapShotFromRaft
    <3>4. ASSUME UNCHANGED serverVars PROVE UNCHANGED m_lastApplied
      BY <3>4 DEF serverVars
    <3> QED BY <2>1, <2>2, <2>3, <2>4, <3>1, <3>2, <3>3, <3>4 DEF KvStep, SnapshotStep
  <2>5. CASE (\E c \in Client : ClerkStep(c)) \/ UNCHANGED vars
    BY <2>1, <2>5 DEF ClerkStep, Try, Retry, Send, Answer, GiveUp, vars, kvVars, serverVars
  <2> QED BY <2>4, <2>5 DEF Next
<1>3. ASSUME NEW s \in Server PROVE Applied(s) \subseteq NewApplied(s)
  <2>1. \A i \in 1..m_lastApplied[s] : i \in 1..m_lastApplied'[s] /\ log'[i] = log[i]
    BY <1>1, <1>2 DEF CommittedKept
  <2> QED BY <2>1 DEF Applied, NewApplied
<1>4. ASSUME NEW c \in Client PROVE m_requestId'[c] >= m_requestId[c]
  <2>1. ASSUME UNCHANGED m_requestId PROVE m_requestId'[c] >= m_requestId[c]
    BY <1>1, <2>1
  <2>2. ASSUME NEW d \in Client, ClerkStep(d) PROVE m_requestId'[c] >= m_requestId[c]
    <3>1. ASSUME NEW kind \in Kinds, Try(d, kind) PROVE m_requestId'[c] >= m_requestId[c]
      BY <1>1, <3>1 DEF Try
    <3> QED BY <2>1, <2>2, <3>1 DEF ClerkStep, Retry, Answer, GiveUp
  <2> QED BY <2>1, <2>2 DEF Next, vars, clerkVars
<1> QED BY <1>2, <1>3, <1>4 DEF StaysApplied

\* Once earned, a call stays so while more is applied and its client goes on.
LEMMA GoodGrows ==
    ASSUME NEW r, NEW A, NEW B, A \subseteq B, NEW R, NEW Q,
           r.op.id \in Nat, R[r.op.client] \in Nat, Q[r.op.client] \in Nat,
           r.op.id <= R[r.op.client], R[r.op.client] <= Q[r.op.client],
           Good(r, A, R)
    PROVE  Good(r, B, Q)
<1>1. r.op.id = Q[r.op.client] => r.op.id = R[r.op.client]
  OBVIOUS
<1> QED BY <1>1 DEF Good

\* What a step does not touch stays earned.
LEMMA EarnedFrame ==
    ASSUME TypeOK, TypeOK', SentOnce, EarnedInv, StaysApplied
    PROVE  /\ UNCHANGED m_lastRequestId => TableEarned'
           /\ UNCHANGED m_skipList => ValueApplied'
           /\ UNCHANGED answers => AnswersEarned'
           /\ UNCHANGED <<applyChan, loop>> => QueueApplied'
           /\ \A n \in DOMAIN calls : Good(calls[n], NewApplied(calls[n].server), m_requestId')
           /\ (\A n \in DOMAIN calls' : Good(calls'[n], NewApplied(calls'[n].server), m_requestId'))
              => CallsEarned'
           /\ UNCHANGED calls => CallsEarned'
<1>1. /\ m_requestId \in [Client -> Nat] /\ m_requestId' \in [Client -> Nat]
      /\ m_lastRequestId \in [Server -> [Client -> Nat]]
      /\ answers \subseteq [op : Op, server : Server, value : Op \cup {Nil}]
      /\ \A s \in Server : m_lastApplied[s] \in Nat /\ m_lastApplied'[s] \in Nat
  <2>1. TypeOK => /\ m_requestId \in [Client -> Nat] /\ \A s \in Server : m_lastApplied[s] \in Nat
                  /\ m_lastRequestId \in [Server -> [Client -> Nat]]
                  /\ answers \subseteq [op : Op, server : Server, value : Op \cup {Nil}]
    BY StateTypes
  <2>2. TypeOK' => m_requestId' \in [Client -> Nat] /\ \A s \in Server : m_lastApplied'[s] \in Nat
    BY SMTT(60) DEF TypeOK, RaftTypeOK, LoopTypeOK, ClerkTypeOK
  <2> QED BY <2>1, <2>2
<1>2. /\ \A s \in Server : Applied(s) \subseteq NewApplied(s) /\ m_lastApplied'[s] >= m_lastApplied[s]
      /\ \A c \in Client : m_requestId'[c] >= m_requestId[c]
  BY DEF StaysApplied
<1>3. ASSUME UNCHANGED m_lastRequestId PROVE TableEarned'
  <2>1. ASSUME NEW s \in Server, NEW c \in Client
        PROVE  /\ m_lastRequestId[s][c] <= m_requestId'[c]
               /\ m_lastRequestId[s][c] = m_requestId'[c] /\ m_requestId'[c] > 0
                  => \E op \in NewApplied(s) : op.client = c /\ op.id = m_requestId'[c]
    <3>1. m_lastRequestId[s][c] \in Nat /\ m_requestId[c] \in Nat /\ m_requestId'[c] \in Nat
      BY <1>1
    <3>2. /\ m_lastRequestId[s][c] <= m_requestId[c]
          /\ m_lastRequestId[s][c] = m_requestId[c] /\ m_requestId[c] > 0
             => \E op \in Applied(s) : op.client = c /\ op.id = m_requestId[c]
      BY DEF EarnedInv, TableEarned
    <3>3. m_requestId'[c] >= m_requestId[c] /\ Applied(s) \subseteq NewApplied(s)
      BY <1>2
    <3> QED BY <3>1, <3>2, <3>3
  <2> QED BY <1>3, <2>1 DEF TableEarned, Applied, NewApplied
<1>4. ASSUME UNCHANGED m_skipList PROVE ValueApplied'
  <2>1. \A s \in Server : m_skipList[s] \in NewApplied(s) \cup {Nil}
    BY <1>2 DEF EarnedInv, ValueApplied
  <2> QED BY <1>4, <2>1 DEF ValueApplied, Applied, NewApplied
<1>5. ASSUME UNCHANGED answers PROVE AnswersEarned'
  <2>1. \A a \in answers : a.op \in NewApplied(a.server) /\ a.value \in NewApplied(a.server) \cup {Nil}
    BY <1>1, <1>2 DEF EarnedInv, AnswersEarned
  <2> QED BY <1>5, <2>1 DEF AnswersEarned, Applied, NewApplied
<1>6. ASSUME UNCHANGED <<applyChan, loop>> PROVE QueueApplied'
  <2>1. ASSUME NEW s \in Server
        PROVE  /\ loop[s].index <= m_lastApplied'[s]
               /\ \A i \in DOMAIN applyChan[s] : applyChan[s][i] <= m_lastApplied'[s]
    <3>1. loop[s].index \in Nat /\ \A i \in DOMAIN applyChan[s] : applyChan[s][i] \in Nat
      BY StateTypes
    <3>2. /\ loop[s].index <= m_lastApplied[s]
          /\ \A i \in DOMAIN applyChan[s] : applyChan[s][i] <= m_lastApplied[s]
      BY DEF EarnedInv, QueueApplied
    <3> QED BY <1>1, <1>2, <3>1, <3>2
  <2> QED BY <1>6, <2>1 DEF QueueApplied
<1>7. ASSUME NEW n \in DOMAIN calls PROVE Good(calls[n], NewApplied(calls[n].server), m_requestId')
  <2>1. calls[n].op.client \in Client /\ calls[n].op.id \in Nat /\ calls[n].server \in Server
    BY CallFields
  <2>2. calls[n].op.id <= m_requestId[calls[n].op.client]
    BY <1>1, <2>1 DEF SentOnce
  <2>3. Good(calls[n], Applied(calls[n].server), m_requestId)
    BY DEF EarnedInv, CallsEarned
  <2>4. /\ m_requestId[calls[n].op.client] \in Nat /\ m_requestId'[calls[n].op.client] \in Nat
        /\ m_requestId[calls[n].op.client] <= m_requestId'[calls[n].op.client]
        /\ Applied(calls[n].server) \subseteq NewApplied(calls[n].server)
    BY <1>1, <1>2, <2>1
  <2> QED BY <2>1, <2>2, <2>3, <2>4, GoodGrows
<1>8. (\A n \in DOMAIN calls' : Good(calls'[n], NewApplied(calls'[n].server), m_requestId'))
      => CallsEarned'
  BY DEF CallsEarned, Good, Applied, NewApplied
<1>9. ASSUME UNCHANGED calls PROVE CallsEarned'
  BY <1>7, <1>8, <1>9
<1> QED BY <1>3, <1>4, <1>5, <1>6, <1>7, <1>8, <1>9

\* The word of the duplicate table about a request its client still waits for:
\* it was applied here.
LEMMA DuplicateApplied ==
    ASSUME TypeOK, SentInv, EarnedInv, NEW n \in DOMAIN calls,
           ifRequestDuplicate(calls[n].server, calls[n].op),
           calls[n].op.id = m_requestId[calls[n].op.client]
    PROVE  calls[n].op \in Applied(calls[n].server)
<1> DEFINE s == calls[n].server
           c == calls[n].op.client
<1>1. s \in Server /\ c \in Client /\ calls[n].op.id \in Nat
  BY CallFields
<1>2. m_lastRequestId[s][c] \in Nat /\ m_requestId[c] \in Nat
  BY <1>1 DEF TypeOK, ServerTypeOK, ClerkTypeOK
<1>3. calls[n].op.id <= m_lastRequestId[s][c] /\ calls[n].op.id >= 1
  BY <1>2 DEF ifRequestDuplicate, SentInv, SentOnce
<1>4. m_lastRequestId[s][c] <= m_requestId[c]
  BY <1>1 DEF EarnedInv, TableEarned
<1>5. m_lastRequestId[s][c] = m_requestId[c] /\ m_requestId[c] > 0
  BY <1>1, <1>2, <1>3, <1>4
<1>6. PICK op \in Applied(s) : op.client = c /\ op.id = m_requestId[c]
  BY <1>1, <1>5 DEF EarnedInv, TableEarned
<1>7. op \in Sent
  <2>1. PICK i \in 1..m_lastApplied[s] : op = log[i]
    BY <1>6 DEF Applied
  <2>2. i \in DOMAIN log
    BY <1>1, <2>1 DEF TypeOK, RaftTypeOK, LoopTypeOK
  <2> QED BY <2>1, <2>2 DEF SentInv, LogsSent
<1>8. op = calls[n].op
  BY <1>6, <1>7 DEF Sent, SentInv, SentOnce, SameRequest
<1> QED BY <1>6, <1>8

\* Noting the number of a request in the duplicate table is earned when the
\* request was applied or its client has gone on to another.
LEMMA NoteEarned ==
    ASSUME TypeOK, TypeOK', SentOnce, EarnedInv, StaysApplied, UNCHANGED m_requestId,
           NEW s \in Server, NEW op \in Op,
           m_lastRequestId' = [m_lastRequestId EXCEPT ![s][op.client] = op.id],
           op.id <= m_requestId[op.client],
           op.id = m_requestId[op.client] => op \in Applied(s)
    PROVE  TableEarned'
<1>1. op.client \in Client /\ op.id \in Nat
  BY DEF Op
<1>2. m_lastRequestId \in [Server -> [Client -> Nat]]
  BY StateTypes
<1>3. ASSUME NEW t \in Server, NEW c \in Client
      PROVE  /\ m_lastRequestId'[t][c] <= m_requestId[c]
             /\ m_lastRequestId'[t][c] = m_requestId[c] /\ m_requestId[c] > 0
                => \E o \in NewApplied(t) : o.client = c /\ o.id = m_requestId[c]
  <2>1. Applied(t) \subseteq NewApplied(t)
    BY DEF StaysApplied
  <2>2. CASE t = s /\ c = op.client
    <3>1. m_lastRequestId'[t][c] = op.id
      BY <1>1, <1>2, <2>2
    <3> QED BY <2>1, <2>2, <3>1
  <2>3. CASE ~(t = s /\ c = op.client)
    <3>1. m_lastRequestId'[t][c] = m_lastRequestId[t][c]
      BY <1>1, <1>2, <2>3
    <3> QED BY <2>1, <3>1 DEF EarnedInv, TableEarned
  <2> QED BY <2>2, <2>3
<1> QED BY <1>3 DEF TableEarned, Applied, NewApplied

\* A handler's moves that promise nothing new.
LEMMA GoodMove ==
    ASSUME NEW r \in Call, NEW A, NEW R, Good(r, A, R),
           NEW st \in CallState, NEW index \in Nat, NEW ch \in Nat, NEW err \in Err,
           NEW value \in Op \cup {Nil}
    PROVE  /\ st # "execute" =>
                /\ Good([r EXCEPT !.st = st], A, R)
                /\ Good([r EXCEPT !.st = st, !.index = index], A, R)
                /\ Good([r EXCEPT !.st = st, !.ch = ch], A, R)
           /\ (r.op.id = R[r.op.client] => r.op \in A) =>
                /\ Good([r EXCEPT !.st = st], A, R)
                /\ Good([r EXCEPT !.st = st, !.err = err], A, R)
                /\ value \in A \cup {Nil} => Good([r EXCEPT !.st = st, !.err = err, !.value = value], A, R)
           /\ st # "execute" => Good([r EXCEPT !.st = st, !.err = "ErrWrongLeader"], A, R)
           /\ [r EXCEPT !.st = st].server = r.server
           /\ [r EXCEPT !.st = st, !.index = index].server = r.server
           /\ [r EXCEPT !.st = st, !.ch = ch].server = r.server
           /\ [r EXCEPT !.st = st, !.err = err].server = r.server
           /\ [r EXCEPT !.st = st, !.err = err, !.value = value].server = r.server
           /\ [r EXCEPT !.st = st, !.err = "ErrWrongLeader"].server = r.server
<1>1. DOMAIN r.queue = DOMAIN r.queue /\ r.queue \in Seq(Op) /\ r.value \in Op \cup {Nil}
  BY DEF Call
<1>2. ASSUME st # "execute"
      PROVE  /\ Good([r EXCEPT !.st = st], A, R)
             /\ Good([r EXCEPT !.st = st, !.index = index], A, R)
             /\ Good([r EXCEPT !.st = st, !.ch = ch], A, R)
             /\ Good([r EXCEPT !.st = st, !.err = "ErrWrongLeader"], A, R)
  BY <1>2 DEF Good, Call
<1>3. ASSUME r.op.id = R[r.op.client] => r.op \in A
      PROVE  /\ Good([r EXCEPT !.st = st], A, R)
             /\ Good([r EXCEPT !.st = st, !.err = err], A, R)
             /\ value \in A \cup {Nil} => Good([r EXCEPT !.st = st, !.err = err, !.value = value], A, R)
  BY <1>3 DEF Good, Call
<1>4. /\ [r EXCEPT !.st = st].server = r.server
      /\ [r EXCEPT !.st = st, !.index = index].server = r.server
      /\ [r EXCEPT !.st = st, !.ch = ch].server = r.server
      /\ [r EXCEPT !.st = st, !.err = err].server = r.server
      /\ [r EXCEPT !.st = st, !.err = err, !.value = value].server = r.server
      /\ [r EXCEPT !.st = st, !.err = "ErrWrongLeader"].server = r.server
  BY DEF Call
<1> QED BY <1>2, <1>3, <1>4

\* Taking the head of the own channel is a promise only if the head is the
\* handler's own request, which then was applied.
LEMMA GoodPop ==
    ASSUME TypeOK, TypeOK', ChannelInv, SentInv, EarnedInv, StaysApplied,
           NEW n \in DOMAIN calls, Pop(n), UNCHANGED clerkVars
    PROVE  \A m \in DOMAIN calls : Good(AfterPop(m, n), NewApplied(calls[m].server), m_requestId')
                                   /\ AfterPop(m, n).server = calls[m].server
<1> DEFINE s == calls[n].server
           q == calls[n].queue
<1>1. \A m \in DOMAIN calls : /\ calls[m] \in Call
                              /\ Good(calls[m], NewApplied(calls[m].server), m_requestId')
  BY CallFields, EarnedFrame DEF SentInv
<1>2. calls[n].st = "waiting" /\ calls[n].ch = n /\ q # <<>>
  BY DEF Pop, At, ChannelInv, ChannelOwned
<1>3. q \in Seq(Op) /\ s \in Server /\ calls[n].op \in Op
  BY <1>1 DEF Call
<1>4. /\ Head(q) = q[1] /\ 1 \in DOMAIN q
      /\ Tail(q) \in Seq(Op)
      /\ \A i \in DOMAIN Tail(q) : Tail(q)[i] = q[i + 1] /\ i + 1 \in DOMAIN q
  BY <1>2, <1>3
<1>5. Head(q) \in Applied(s)
  BY <1>4 DEF EarnedInv, CallsEarned, Good
<1>6. Head(q) \in NewApplied(s)
  BY <1>3, <1>5 DEF StaysApplied
<1>7. SameRequest(Head(q), calls[n].op) => calls[n].op \in NewApplied(s)
  <2>1. Head(q) \in Sent
    <3>1. PICK i \in 1..m_lastApplied[s] : Head(q) = log[i]
      BY <1>5 DEF Applied
    <3>2. i \in DOMAIN log
      BY <1>3, <3>1, StateTypes
    <3> QED BY <3>1, <3>2 DEF SentInv, LogsSent
  <2>2. SameRequest(Head(q), calls[n].op) => Head(q) = calls[n].op
    BY <2>1 DEF Sent, SentInv, SentOnce
  <2> QED BY <1>6, <2>2
<1>8. ASSUME NEW m \in DOMAIN calls, m # n
      PROVE  Good(AfterPop(m, n), NewApplied(calls[m].server), m_requestId')
             /\ AfterPop(m, n).server = calls[m].server
  <2>1. AfterPop(m, n) = [calls[m] EXCEPT !.queue = @, !.st = @, !.err = @]
    BY <1>2, <1>8 DEF AfterPop
  <2>2. AfterPop(m, n) = calls[m]
    BY <1>1, <2>1 DEF Call
  <2> QED BY <1>1, <2>2
<1>9. Good(AfterPop(n, n), NewApplied(s), m_requestId') /\ AfterPop(n, n).server = s
  <2> DEFINE ours == SameRequest(Head(q), calls[n].op)
             st == IF ours /\ calls[n].op.kind = "Get" THEN "execute" ELSE "close"
             err == IF ours THEN "OK" ELSE "ErrWrongLeader"
             r == AfterPop(n, n)
  <2>1. r = [calls[n] EXCEPT !.queue = Tail(q), !.st = st, !.err = err]
    BY <1>2 DEF AfterPop
  <2>2. calls[n] \in Call /\ Good(calls[n], NewApplied(s), m_requestId')
    BY <1>1
  <2> HIDE DEF st, err, q, r
  <2>3. /\ r.queue = Tail(q) /\ r.st = st /\ r.err = err /\ r.op = calls[n].op
        /\ r.value = calls[n].value /\ r.server = s
    BY <2>1, <2>2 DEF Call
  <2>4. (st = "execute" \/ err # "ErrWrongLeader") => calls[n].op \in NewApplied(s)
    BY <1>7 DEF st, err
  <2>5. \A i \in DOMAIN Tail(q) : Tail(q)[i] \in NewApplied(s)
    BY <1>4, <2>2 DEF Good, q
  <2>6. calls[n].value \in NewApplied(s) \cup {Nil}
    BY <2>2 DEF Good
  <2> HIDE DEF s
  <2> QED BY <2>3, <2>4, <2>5, <2>6 DEF Good, r
<1> QED BY <1>8, <1>9

\* Handlers.
LEMMA EarnedHandler ==
    ASSUME TypeOK, TypeOK', ChannelInv, SentInv, EarnedInv, StaysApplied,
           NEW n \in DOMAIN calls, HandlerStep(n), UNCHANGED clerkVars
    PROVE  EarnedInv'
<1> DEFINE s == calls[n].server
           op == calls[n].op
           A == NewApplied(s)
           R == m_requestId'
<1>1. /\ calls[n] \in Call /\ s \in Server /\ op \in Op /\ op.client \in Client /\ op.id \in Nat
  BY CallFields
<1>2. Good(calls[n], A, R) /\ R = m_requestId /\ Applied(s) \subseteq A
  BY <1>1, EarnedFrame DEF SentInv, clerkVars, StaysApplied
<1>3. ASSUME NEW r, calls' = [calls EXCEPT ![n] = r], r.server = s, Good(r, A, R)
      PROVE  CallsEarned'
  <2>1. /\ DOMAIN calls' = DOMAIN calls /\ calls'[n] = r
        /\ \A m \in DOMAIN calls : m # n => calls'[m] = calls[m]
    BY <1>3 DEF TypeOK, CallTypeOK
  <2>2. \A m \in DOMAIN calls : Good(calls[m], NewApplied(calls[m].server), R)
    BY EarnedFrame DEF SentInv
  <2>3. \A m \in DOMAIN calls' : Good(calls'[m], NewApplied(calls'[m].server), R)
    BY <1>3, <2>1, <2>2
  <2> QED BY <2>3, EarnedFrame DEF SentInv
<1>4. AnswersEarned'
  BY EarnedFrame DEF SentInv, clerkVars
<1>5. UNCHANGED <<applyChan, loop, m_skipList>>
  BY DEF HandlerStep, NotLeader, HandOver, OpenChannel, Pop, TimeOutPut, TimeOutGet,
         LateGet, ExecuteGetOpOnKVDB, CloseChannel, HandlerOnly
<1>6. QueueApplied' /\ ValueApplied'
  BY <1>5, EarnedFrame DEF SentInv
<1>7. ASSUME UNCHANGED m_lastRequestId PROVE TableEarned'
  BY <1>7, EarnedFrame DEF SentInv
<1>8. ASSUME ifRequestDuplicate(s, op), op.id = R[op.client] PROVE op \in A
  BY <1>2, <1>8, DuplicateApplied
<1>9. CallsEarned' /\ TableEarned'
  <2> HIDE DEF s, op, A, R
  <2>0. \A st \in CallState, i \in Nat, e \in Err, v \in Op \cup {Nil} :
           /\ [calls[n] EXCEPT !.st = st].server = s
           /\ [calls[n] EXCEPT !.st = st, !.index = i].server = s
           /\ [calls[n] EXCEPT !.st = st, !.ch = i].server = s
           /\ [calls[n] EXCEPT !.st = st, !.err = e].server = s
           /\ [calls[n] EXCEPT !.st = st, !.err = e, !.value = v].server = s
    BY <1>1 DEF Call, s
  <2>1. ASSUME NEW st \in CallState \ {"execute"}, NEW i \in Nat
        PROVE  /\ calls' = [calls EXCEPT ![n] = [calls[n] EXCEPT !.st = st]] => CallsEarned'
               /\ calls' = [calls EXCEPT ![n] = [calls[n] EXCEPT !.st = st, !.index = i]] => CallsEarned'
               /\ calls' = [calls EXCEPT ![n] = [calls[n] EXCEPT !.st = st, !.ch = i]] => CallsEarned'
               /\ calls' = [calls EXCEPT ![n] =
                               [calls[n] EXCEPT !.st = st, !.err = "ErrWrongLeader"]] => CallsEarned'
    <3>1. /\ Good([calls[n] EXCEPT !.st = st], A, R)
          /\ Good([calls[n] EXCEPT !.st = st, !.index = i], A, R)
          /\ Good([calls[n] EXCEPT !.st = st, !.ch = i], A, R)
          /\ Good([calls[n] EXCEPT !.st = st, !.err = "ErrWrongLeader"], A, R)
      <4>1. \E e \in Err : TRUE
        BY DEF Err
      <4> QED BY <1>1, <1>2, <4>1, GoodMove
    <3>2. "ErrWrongLeader" \in Err
      BY DEF Err
    <3> QED BY <1>3, <2>0, <3>1, <3>2
  <2>2. ASSUME NEW st \in CallState, NEW e \in Err, NEW v \in A \cup {Nil}, v \in Op \cup {Nil},
               op.id = R[op.client] => op \in A
        PROVE  /\ calls' = [calls EXCEPT ![n] = [calls[n] EXCEPT !.st = st]] => CallsEarned'
               /\ calls' = [calls EXCEPT ![n] = [calls[n] EXCEPT !.st = st, !.err = e]] => CallsEarned'
               /\ calls' = [calls EXCEPT ![n] =
                               [calls[n] EXCEPT !.st = st, !.err = e, !.value = v]] => CallsEarned'
    <3>1. /\ Good([calls[n] EXCEPT !.st = st], A, R)
          /\ Good([calls[n] EXCEPT !.st = st, !.err = e], A, R)
          /\ Good([calls[n] EXCEPT !.st = st, !.err = e, !.value = v], A, R)
      BY ZenonT(60), <1>1, <1>2, <2>2, GoodMove DEF op
    <3>2. /\ [calls[n] EXCEPT !.st = st].server = s
          /\ [calls[n] EXCEPT !.st = st, !.err = e].server = s
          /\ [calls[n] EXCEPT !.st = st, !.err = e, !.value = v].server = s
      BY <1>1, <2>2 DEF Call, s
    <3> QED BY <1>3, <3>1, <3>2
  <2>3. CASE NotLeader(n)
    BY <1>7, <2>1, <2>3 DEF NotLeader, HandlerOnly, CallState
  <2>4. CASE HandOver(n)
    <3>1. Len(raftLog[s]) + 1 \in Nat
      BY <1>1 DEF TypeOK, RaftTypeOK
    <3> QED BY <1>7, <2>1, <2>4, <3>1 DEF HandOver, HandlerOnly, CallState, s
  <2>5. CASE OpenChannel(n)
    <3>1. \A i \in ChannelsOf(calls[n].server, calls[n].index) \cup {n} : i \in Nat
      BY DEF ChannelsOf, TypeOK, CallTypeOK
    <3>2. PICK i \in Nat : calls' = [calls EXCEPT ![n] = [calls[n] EXCEPT !.st = "waiting", !.ch = i]]
      BY <2>5, <3>1 DEF OpenChannel
    <3> QED BY <1>7, <2>1, <2>5, <3>2 DEF OpenChannel, HandlerOnly, CallState
  <2>6. CASE Pop(n)
    <3>1. calls' = [m \in DOMAIN calls |-> AfterPop(m, n)]
      BY <2>6 DEF Pop
    <3>2. \A m \in DOMAIN calls' : Good(calls'[m], NewApplied(calls'[m].server), m_requestId')
      BY <2>6, <3>1, GoodPop
    <3>3. CallsEarned'
      BY <3>2, EarnedFrame DEF SentInv
    <3> QED BY <1>7, <2>6, <3>3 DEF Pop, HandlerOnly
  <2>7. CASE TimeOutPut(n)
    <3>1. CASE ifRequestDuplicate(calls[n].server, calls[n].op)
      <4>1. calls' = [calls EXCEPT ![n] = [calls[n] EXCEPT !.st = "close", !.err = "OK"]]
        BY <2>7, <3>1 DEF TimeOutPut
      <4>2. op.id = R[op.client] => op \in A
        BY <1>8, <3>1 DEF s, op
      <4> QED BY <1>7, <2>2, <2>7, <4>1, <4>2 DEF TimeOutPut, HandlerOnly, CallState, Err
    <3>2. CASE ~ifRequestDuplicate(calls[n].server, calls[n].op)
      <4>1. calls' = [calls EXCEPT ![n] = [calls[n] EXCEPT !.st = "close", !.err = "ErrWrongLeader"]]
        BY <2>7, <3>2 DEF TimeOutPut
      <4> QED BY <1>7, <2>1, <2>7, <4>1 DEF TimeOutPut, HandlerOnly, CallState
    <3> QED BY <3>1, <3>2
  <2>8. CASE TimeOutGet(n)
    <3>1. \/ calls' = [calls EXCEPT ![n] = [calls[n] EXCEPT !.st = "leading"]]
          \/ calls' = [calls EXCEPT ![n] = [calls[n] EXCEPT !.st = "close"]]
      BY <2>8 DEF TimeOutGet
    <3> QED BY <1>7, <2>1, <2>8, <3>1 DEF TimeOutGet, HandlerOnly, CallState
  <2>9. CASE LateGet(n)
    <3>1. CASE ifRequestDuplicate(calls[n].server, calls[n].op)
      <4>1. calls' = [calls EXCEPT ![n] = [calls[n] EXCEPT !.st = "execute"]]
        BY <2>9, <3>1 DEF LateGet
      <4>2. op.id = R[op.client] => op \in A
        BY <1>8, <3>1 DEF s, op
      <4> QED BY <1>7, <2>2, <2>9, <4>1, <4>2 DEF LateGet, HandlerOnly, CallState, Err
    <3>2. CASE ~ifRequestDuplicate(calls[n].server, calls[n].op)
      <4>1. calls' = [calls EXCEPT ![n] = [calls[n] EXCEPT !.st = "close"]]
        BY <2>9, <3>2 DEF LateGet
      <4> QED BY <1>7, <2>1, <2>9, <4>1 DEF LateGet, HandlerOnly, CallState
    <3> QED BY <3>1, <3>2
  <2>10. CASE CloseChannel(n)
    BY <1>7, <2>1, <2>10 DEF CloseChannel, HandlerOnly, CallState
  <2>11. CASE ExecuteGetOpOnKVDB(n)
    <3>1. calls[n].st = "execute"
      BY <2>11 DEF ExecuteGetOpOnKVDB, At
    <3>2. op.id = R[op.client] => op \in Applied(s)
      BY <1>2, <3>1 DEF EarnedInv, CallsEarned, Good, op, s, A, R
    <3>3. m_skipList[s] \in Applied(s) \cup {Nil} /\ m_skipList[s] \in Op \cup {Nil}
      BY <1>1 DEF EarnedInv, ValueApplied, TypeOK, ServerTypeOK
    <3>4. PICK e \in Err : calls' = [calls EXCEPT ![n] =
              [calls[n] EXCEPT !.st = "close", !.err = e, !.value = m_skipList[s]]]
      BY <2>11 DEF ExecuteGetOpOnKVDB, Err, s
    <3>5. CallsEarned'
      <4>1. "close" \in CallState /\ m_skipList[s] \in A \cup {Nil} /\ (op.id = R[op.client] => op \in A)
        BY <1>2, <3>2, <3>3 DEF CallState
      <4> QED BY <2>2, <3>3, <3>4, <4>1
    <3>6. m_lastRequestId' = [m_lastRequestId EXCEPT ![s][op.client] = op.id]
      BY <2>11 DEF ExecuteGetOpOnKVDB, s, op
    <3>7. op.id <= R[op.client] /\ R[op.client] \in Nat
      BY <1>1, <1>2, StateTypes DEF SentInv, SentOnce, op
    <3>8. TableEarned'
      BY <1>1, <1>2, <3>2, <3>6, <3>7, NoteEarned DEF R, SentInv
    <3> QED BY <3>5, <3>8
  <2> QED BY <2>3, <2>4, <2>5, <2>6, <2>7, <2>8, <2>9, <2>10, <2>11 DEF HandlerStep
<1> QED BY <1>4, <1>6, <1>9 DEF EarnedInv

\* The apply loop works on entries that are applied.
LEMMA EarnedLoop ==
    ASSUME TypeOK, TypeOK', SentInv, EarnedInv, StaysApplied,
           NEW s \in Server, LoopStep(s), UNCHANGED clerkVars
    PROVE  EarnedInv'
<1>1. AnswersEarned' /\ UNCHANGED m_requestId /\ UNCHANGED raftVars
  BY EarnedFrame DEF SentInv, clerkVars, LoopStep, applierTicker, GetCommandFromRaft,
     ExecutePutOpOnKVDB, SendMessageToWaitChan
<1>2. /\ m_lastApplied[s] \in Nat /\ loop[s].index \in Nat /\ log \in Seq(Op) /\ Len(log) \in Nat
      /\ applyChan[s] \in Seq(1..Len(log)) /\ m_lastApplied[s] <= Len(log)
  BY StateTypes
<1>3. /\ loop[s].index <= m_lastApplied[s]
      /\ \A i \in DOMAIN applyChan[s] : applyChan[s][i] <= m_lastApplied[s]
  BY DEF EarnedInv, QueueApplied
<1>4. loop \in [Server -> [pc : {"pop", "execute", "send"}, index : Nat]]
      /\ applyChan \in [Server -> Seq(1..Len(log))] /\ m_lastApplied \in [Server -> 0..Len(log)]
  BY DEF TypeOK, LoopTypeOK
<1>5. ASSUME loop[s].pc # "pop"
      PROVE  /\ loop[s].index \in DOMAIN log /\ log[loop[s].index] \in Applied(s)
             /\ log[loop[s].index] \in Op
  <2>1. loop[s].index \in 1..m_lastApplied[s] /\ loop[s].index \in 1..Len(log)
    BY <1>2, <1>3, <1>5 DEF TypeOK, LoopTypeOK
  <2> QED BY <1>2, <2>1 DEF Applied
<1>6. CASE applierTicker(s)
  <2>1. UNCHANGED <<m_skipList, m_lastRequestId, calls, loop>>
    BY <1>6 DEF applierTicker
  <2>2. TableEarned' /\ ValueApplied' /\ CallsEarned'
    BY <2>1, EarnedFrame DEF SentInv
  <2>3. /\ m_lastApplied' = [m_lastApplied EXCEPT ![s] = m_lastApplied[s] + 1]
        /\ applyChan' = [applyChan EXCEPT ![s] = Append(applyChan[s], m_lastApplied[s] + 1)]
    BY <1>6 DEF applierTicker
  <2>4. /\ m_lastApplied'[s] = m_lastApplied[s] + 1
        /\ applyChan'[s] = Append(applyChan[s], m_lastApplied[s] + 1)
        /\ \A t \in Server : t # s => m_lastApplied'[t] = m_lastApplied[t] /\ applyChan'[t] = applyChan[t]
    BY <1>4, <2>3
  <2>5. \A i \in DOMAIN applyChan'[s] : applyChan'[s][i] <= m_lastApplied[s] + 1
    <3>0. applyChan[s] \in Seq(Nat) /\ m_lastApplied[s] + 1 \in Nat
      <4>1. \A i \in 1..Len(applyChan[s]) : applyChan[s][i] \in Nat
        BY <1>2
      <4>2. Len(applyChan[s]) \in Nat /\ applyChan[s] \in [1..Len(applyChan[s]) -> 1..Len(log)]
        BY <1>2
      <4>3. applyChan[s] \in [1..Len(applyChan[s]) -> Nat]
        BY <4>1, <4>2
      <4> QED BY <1>2, <4>2, <4>3
    <3>1. ASSUME NEW i \in DOMAIN Append(applyChan[s], m_lastApplied[s] + 1)
          PROVE  \/ Append(applyChan[s], m_lastApplied[s] + 1)[i] = m_lastApplied[s] + 1
                 \/ i \in DOMAIN applyChan[s]
                    /\ Append(applyChan[s], m_lastApplied[s] + 1)[i] = applyChan[s][i]
      BY <3>0
    <3>2. \A i \in DOMAIN applyChan[s] : applyChan[s][i] \in Nat
      BY <3>0
    <3> QED BY <1>2, <1>3, <2>4, <3>1, <3>2
  <2>6. ASSUME NEW t \in Server
        PROVE  /\ loop[t].index <= m_lastApplied'[t]
               /\ \A i \in DOMAIN applyChan'[t] : applyChan'[t][i] <= m_lastApplied'[t]
    <3>1. CASE t = s
      <4>1. m_lastApplied'[t] = m_lastApplied[s] + 1
        BY <2>4, <3>1
      <4>2. loop[t].index <= m_lastApplied'[t]
        BY <1>2, <1>3, <3>1, <4>1
      <4> QED BY <2>5, <3>1, <4>1, <4>2
    <3>2. CASE t # s
      BY <2>4, <3>2 DEF EarnedInv, QueueApplied
    <3> QED BY <3>1, <3>2
  <2>7. QueueApplied'
    BY <2>1, <2>6 DEF QueueApplied
  <2> QED BY <1>1, <2>2, <2>7 DEF EarnedInv
<1>7. CASE GetCommandFromRaft(s)
  <2>1. UNCHANGED <<m_skipList, m_lastRequestId, calls, m_lastApplied>>
    BY <1>7 DEF GetCommandFromRaft
  <2>2. TableEarned' /\ ValueApplied' /\ CallsEarned'
    BY <2>1, EarnedFrame DEF SentInv
  <2>3. PICK pc \in {"pop", "execute", "send"} :
            loop' = [loop EXCEPT ![s] = [pc |-> pc, index |-> Head(applyChan[s])]]
    BY <1>7 DEF GetCommandFromRaft
  <2>4. applyChan[s] # <<>> /\ applyChan' = [applyChan EXCEPT ![s] = Tail(applyChan[s])]
    BY <1>7 DEF GetCommandFromRaft
  <2>5. /\ Head(applyChan[s]) <= m_lastApplied[s]
        /\ \A i \in DOMAIN Tail(applyChan[s]) : Tail(applyChan[s])[i] <= m_lastApplied[s]
    <3>1. 1 \in DOMAIN applyChan[s] /\ Head(applyChan[s]) = applyChan[s][1]
      BY <1>2, <2>4
    <3>2. \A i \in DOMAIN Tail(applyChan[s]) : i + 1 \in DOMAIN applyChan[s]
                                               /\ Tail(applyChan[s])[i] = applyChan[s][i + 1]
      BY <1>2, <2>4
    <3> QED BY <1>3, <3>1, <3>2
  <2>6. ASSUME NEW t \in Server
        PROVE  /\ loop'[t].index <= m_lastApplied[t]
               /\ \A i \in DOMAIN applyChan'[t] : applyChan'[t][i] <= m_lastApplied[t]
    <3>1. CASE t = s
      <4>1. loop'[t].index = Head(applyChan[s]) /\ applyChan'[t] = Tail(applyChan[s])
        BY <1>4, <2>3, <2>4, <3>1
      <4> QED BY <2>5, <3>1, <4>1
    <3>2. CASE t # s
      <4>1. loop'[t] = loop[t] /\ applyChan'[t] = applyChan[t]
        BY <1>4, <2>3, <2>4, <3>2
      <4> QED BY <4>1 DEF EarnedInv, QueueApplied
    <3> QED BY <3>1, <3>2
  <2>7. QueueApplied'
    BY <2>1, <2>6 DEF QueueApplied
  <2> QED BY <1>1, <2>2, <2>7 DEF EarnedInv
<1>8. ASSUME UNCHANGED <<applyChan, m_lastApplied>>,
             \E pc : loop' = [loop EXCEPT ![s].pc = pc]
      PROVE  QueueApplied'
  <2>1. \A t \in Server : loop'[t].index = loop[t].index
    BY <1>4, <1>8
  <2> QED BY <1>8, <2>1 DEF EarnedInv, QueueApplied
<1>9. CASE ExecutePutOpOnKVDB(s)
  <2> DEFINE op == log[loop[s].index]
  <2>1. op \in Applied(s) /\ op \in Op /\ loop[s].index \in DOMAIN log
    BY <1>5, <1>9 DEF ExecutePutOpOnKVDB
  <2>2. /\ m_lastRequestId' = [m_lastRequestId EXCEPT ![s][op.client] = op.id]
        /\ m_skipList' = [m_skipList EXCEPT ![s] = op]
        /\ UNCHANGED <<calls, applyChan, m_lastApplied>>
        /\ \E pc : loop' = [loop EXCEPT ![s].pc = pc]
    BY <1>9 DEF ExecutePutOpOnKVDB
  <2>3. op \in Sent
    BY <2>1 DEF SentInv, LogsSent
  <2> HIDE DEF op
  <2>4. op.id <= m_requestId[op.client]
    <3>1. PICK n \in DOMAIN calls : op = calls[n].op
      BY <2>3 DEF Sent
    <3>2. calls[n].op.id \in 1..m_requestId[calls[n].op.client]
      BY DEF SentInv, SentOnce
    <3>3. m_requestId[calls[n].op.client] \in Nat
      BY CallFields, StateTypes
    <3> QED BY <3>1, <3>2, <3>3
  <2>5. TableEarned'
    BY <1>1, <2>1, <2>2, <2>4, NoteEarned DEF SentInv
  <2>6. \A t \in Server : m_skipList'[t] \in NewApplied(t) \cup {Nil}
    <3>1. \A t \in Server : Applied(t) \subseteq NewApplied(t)
      BY DEF StaysApplied
    <3>2. \A t \in Server : (m_skipList'[t] = op /\ t = s) \/ m_skipList'[t] = m_skipList[t]
      BY <2>2 DEF TypeOK, ServerTypeOK
    <3> QED BY <2>1, <3>1, <3>2 DEF EarnedInv, ValueApplied
  <2>7. ValueApplied'
    BY <2>6 DEF ValueApplied, Applied, NewApplied
  <2>8. CallsEarned'
    BY <2>2, EarnedFrame DEF SentInv
  <2> QED BY <1>1, <1>8, <2>2, <2>5, <2>7, <2>8 DEF EarnedInv
<1>10. CASE SendMessageToWaitChan(s)
  <2> DEFINE op == log[loop[s].index]
             there == ChannelsOf(s, loop[s].index)
  <2>1. op \in Applied(s) /\ op \in Op
    BY <1>5, <1>10 DEF SendMessageToWaitChan
  <2>2. /\ calls' = [n \in DOMAIN calls |->
                IF n \in there THEN [calls[n] EXCEPT !.queue = Append(@, op)] ELSE calls[n]]
        /\ UNCHANGED <<m_lastRequestId, m_skipList, applyChan, m_lastApplied>>
        /\ \E pc : loop' = [loop EXCEPT ![s].pc = pc]
    BY <1>10 DEF SendMessageToWaitChan
  <2>3. \A n \in there : calls[n].server = s
    BY DEF ChannelsOf
  <2> HIDE DEF op, there
  <2>4. ASSUME NEW n \in DOMAIN calls
        PROVE  Good(calls'[n], NewApplied(calls'[n].server), m_requestId')
    <3>1. calls[n] \in Call /\ Good(calls[n], NewApplied(calls[n].server), m_requestId')
      BY CallFields, EarnedFrame DEF SentInv
    <3>2. CASE n \notin there
      BY <2>2, <3>1, <3>2
    <3>3. CASE n \in there
      <4> DEFINE q == calls[n].queue
                 r == calls'[n]
      <4>1. q \in Seq(Op)
        BY <3>1 DEF Call
      <4>2. r = [calls[n] EXCEPT !.queue = Append(q, op)]
        BY <2>2, <3>3
      <4>3. /\ r.queue = Append(q, op) /\ r.st = calls[n].st /\ r.err = calls[n].err
            /\ r.op = calls[n].op /\ r.value = calls[n].value /\ r.server = s /\ calls[n].server = s
        BY <2>3, <3>1, <3>3, <4>2 DEF Call
      <4>4. op \in NewApplied(s)
        BY <2>1 DEF StaysApplied
      <4>5. \A i \in DOMAIN q : q[i] \in NewApplied(s)
        BY <3>1, <4>3 DEF Good
      <4>6. \A i \in DOMAIN Append(q, op) : Append(q, op)[i] \in NewApplied(s)
        <5>1. \A i \in DOMAIN Append(q, op) :
                Append(q, op)[i] = op \/ (i \in DOMAIN q /\ Append(q, op)[i] = q[i])
          BY <2>1, <4>1
        <5> QED BY <4>4, <4>5, <5>1
      <4> HIDE DEF q, r
      <4>7. Good(r, NewApplied(s), m_requestId')
        BY <3>1, <4>3, <4>6 DEF Good
      <4> QED BY <4>3, <4>7 DEF r
    <3> QED BY <3>2, <3>3
  <2>5. DOMAIN calls' = DOMAIN calls
    BY <2>2
  <2>6. CallsEarned'
    BY <2>4, <2>5, EarnedFrame DEF SentInv
  <2>7. TableEarned' /\ ValueApplied'
    BY <2>2, EarnedFrame DEF SentInv
  <2> QED BY <1>1, <1>8, <2>2, <2>6, <2>7 DEF EarnedInv
<1> QED BY <1>6, <1>7, <1>9, <1>10 DEF LoopStep

\* The clerk believes only a reply to the request it numbered last.
LEMMA EarnedClerk ==
    ASSUME TypeOK, TypeOK', SentInv, EarnedInv, StaysApplied, NEW c \in Client, ClerkStep(c)
    PROVE  EarnedInv'
<1>1. UNCHANGED <<m_lastRequestId, m_skipList, applyChan, loop, m_lastApplied, log>>
  BY DEF ClerkStep, Try, Retry, Send, Answer, GiveUp, kvVars, serverVars, raftVars
<1>2. TableEarned' /\ ValueApplied' /\ QueueApplied'
  BY <1>1, EarnedFrame DEF SentInv
<1>3. ASSUME NEW d, NEW op \in Op, NEW s \in Server, Send(d, op, s), UNCHANGED answers PROVE EarnedInv'
  <2>1. calls \in Seq(Call) /\ Len(calls) \in Nat
    BY DEF TypeOK, CallTypeOK
  <2>2. calls' = Append(calls, NewCall(op, s))
    BY <1>3 DEF Send
  <2>3. \A n \in DOMAIN calls' : (n \in DOMAIN calls /\ calls'[n] = calls[n]) \/ calls'[n] = NewCall(op, s)
    BY <2>1, <2>2
  <2>4. \A A, R : Good(NewCall(op, s), A, R)
    BY DEF Good, NewCall
  <2>5. \A n \in DOMAIN calls' : Good(calls'[n], NewApplied(calls'[n].server), m_requestId')
    BY <2>3, <2>4, EarnedFrame DEF SentInv
  <2>6. CallsEarned' /\ AnswersEarned'
    BY <1>3, <2>5, EarnedFrame DEF SentInv
  <2> QED BY <1>2, <2>6 DEF EarnedInv
<1>4. ASSUME NEW kind \in Kinds, Try(c, kind) PROVE EarnedInv'
  <2>1. m_recentLeaderId[c] \in Server /\ m_requestId[c] \in Nat
    BY DEF TypeOK, ClerkTypeOK
  <2>2. [client |-> c, id |-> m_requestId[c] + 1, kind |-> kind] \in Op
    BY <2>1, KindsAssumption DEF Op
  <2> QED BY <1>3, <1>4, <2>1, <2>2 DEF Try
<1>5. CASE Retry(c)
  <2>1. request[c] \in DOMAIN calls
    BY <1>5 DEF Retry, TypeOK, ClerkTypeOK, CallTypeOK
  <2>2. calls[request[c]].server \in Server /\ calls[request[c]].op \in Op
    BY <2>1, CallFields
  <2>3. (calls[request[c]].server % NumServers) + 1 \in Server
    BY <2>2, NumServersAssumption DEF Server
  <2> QED BY <1>3, <1>5, <2>2, <2>3 DEF Retry
<1>6. CASE GiveUp(c)
  BY <1>2, <1>6, EarnedFrame DEF SentInv, GiveUp, kvVars, serverVars, EarnedInv
<1>7. CASE Answer(c)
  <2> DEFINE call == calls[request[c]]
             a == [op |-> call.op, server |-> call.server, value |-> call.value]
  <2>1. request[c] # 0 /\ request[c] \in DOMAIN calls
    BY <1>7 DEF Answer, TypeOK, ClerkTypeOK, CallTypeOK
  <2>2. call.op.client = c /\ call.op.id = m_requestId[c] /\ call.err # "ErrWrongLeader"
    BY <1>7, <2>1 DEF Answer, SentInv, SentOnce
  <2>3. Good(call, Applied(call.server), m_requestId)
    BY <2>1 DEF EarnedInv, CallsEarned
  <2>4. call.op \in Applied(call.server) /\ call.value \in Applied(call.server) \cup {Nil}
    BY <2>2, <2>3 DEF Good
  <2>5. answers' = answers \cup {a} /\ UNCHANGED calls
    BY <1>7 DEF Answer, kvVars, serverVars
  <2> HIDE DEF call
  <2>6. \A b \in answers' : b.op \in Applied(b.server) /\ b.value \in Applied(b.server) \cup {Nil}
    BY <2>4, <2>5 DEF EarnedInv, AnswersEarned
  <2>7. AnswersEarned'
    BY <1>1, <2>6 DEF AnswersEarned, Applied
  <2>8. CallsEarned'
    BY <2>5, EarnedFrame DEF SentInv
  <2> QED BY <1>2, <2>7, <2>8 DEF EarnedInv
<1> QED BY <1>4, <1>5, <1>6, <1>7 DEF ClerkStep

\* The invariant is inductive.
LEMMA EarnedNext ==
    TypeOK /\ TypeOK' /\ ChannelInv /\ SentInv /\ EarnedInv /\ [Next]_vars => SentInv' /\ EarnedInv'
<1> SUFFICES ASSUME TypeOK, TypeOK', ChannelInv, SentInv, EarnedInv, [Next]_vars
             PROVE  SentInv' /\ EarnedInv'
  OBVIOUS
<1>1. CommittedKept /\ LeadHolds'
  BY CommittedStep DEF SentInv
<1>2. SentOnce' /\ LogsSent'
  BY SentStep, LogsStep
<1>3. StaysApplied
  BY <1>1, StaysAppliedStep
<1>4. ASSUME UNCHANGED <<m_lastRequestId, m_skipList, applyChan, loop, calls, answers>>
      PROVE  EarnedInv'
  BY <1>3, <1>4, EarnedFrame DEF SentInv, EarnedInv
<1>5. EarnedInv'
  <2>1. CASE KvStep /\ UNCHANGED clerkVars
    <3>1. CASE \E n \in DOMAIN calls : HandlerStep(n)
      BY <1>3, <2>1, <3>1, EarnedHandler
    <3>2. CASE \E s \in Server : LoopStep(s)
      BY <1>3, <2>1, <3>2, EarnedLoop
    <3>3. CASE SnapshotStep \/ UNCHANGED serverVars
      BY <1>4, <2>1, <3>3 DEF SnapshotStep, InstallSnapshot, GetSnapShotFromRaft, serverVars,
         clerkVars
    <3> QED BY <2>1, <3>1, <3>2, <3>3 DEF KvStep
  <2>2. CASE \E c \in Client : ClerkStep(c)
    BY <1>3, <2>2, EarnedClerk
  <2>3. CASE UNCHANGED vars
    BY <1>4, <2>3 DEF vars, kvVars, serverVars, clerkVars
  <2> QED BY <2>1, <2>2, <2>3 DEF Next
<1> QED BY <1>1, <1>2, <1>5 DEF SentInv

\* An answer a clerk gives to its caller was earned (kvServer.cpp Get, PutAppend;
\* clerk.cpp TryGet, TryPut): the request is committed and applied at the server
\* that answered, also when that one only looked into its duplicate table after
\* the wait timed out, and the value read is that of a committed write.
THEOREM AnswerCommittedCorrect == Spec => []AnswerCommitted
<1>1. Init => ChannelInv /\ SentInv /\ EarnedInv
  <2> SUFFICES ASSUME Init PROVE ChannelInv /\ SentInv /\ EarnedInv
    OBVIOUS
  <2>1. /\ calls = <<>> /\ waitApplyCh = {} /\ log = <<>> /\ answers = {}
        /\ raftLog = [s \in Server |-> <<>>] /\ lead = 1
        /\ m_skipList = [s \in Server |-> Nil]
        /\ m_lastRequestId = [s \in Server |-> [c \in Client |-> 0]]
        /\ m_requestId = [c \in Client |-> 0] /\ request = [c \in Client |-> 0]
        /\ m_lastApplied = [s \in Server |-> 0] /\ applyChan = [s \in Server |-> <<>>]
        /\ loop = [s \in Server |-> [pc |-> "pop", index |-> 0]]
    BY DEF Init, KvInit, RaftInit
  <2>2. DOMAIN calls = {} /\ DOMAIN log = {} /\ Len(log) = 0
    BY <2>1
  <2>3. ChannelInv
    BY <2>1, <2>2 DEF ChannelInv, IndexInLog, IndexUnique, ChannelOwned
  <2>4. lead \in Server
    BY <2>1, NumServersAssumption DEF Server
  <2>5. LeadHolds
    BY <2>1, <2>2, <2>4 DEF LeadHolds
  <2>6. SentOnce
    BY <2>1, <2>2 DEF SentOnce
  <2>7. LogsSent
    BY <2>1, <2>2 DEF LogsSent
  <2>8. QueueApplied
    BY <2>1 DEF QueueApplied
  <2>9. TableEarned /\ ValueApplied /\ CallsEarned /\ AnswersEarned
    BY <2>1, <2>2 DEF TableEarned, ValueApplied, CallsEarned, AnswersEarned
  <2> QED BY <2>3, <2>5, <2>6, <2>7, <2>8, <2>9 DEF SentInv, EarnedInv
<1>2. EarnedInv => AnswerCommitted
  BY DEF EarnedInv, AnswersEarned, AnswerCommitted, Applied
<1>3. Spec => []TypeOK
  BY TypeCorrect
<1> QED BY <1>1, <1>2, <1>3, ChannelNext, EarnedNext, PTL DEF Spec

-----------------------------------------------------------------------------
(* Deduplication *)

\* A Get of the client set its number back below that of write w.
SetBackBelow(s, w) == \E g \in setBack[s] : g.client = w.client /\ g.id < w.id

\* The table of a server is at least at the number of everything it executed,
\* and the write it is about to execute is above that: unless a Get set the
\* number back.
ExecutedBelow ==
    \A s \in Server : \A i \in DOMAIN executed[s] :
        LET w == executed[s][i]
        IN  \/ SetBackBelow(s, w)
            \/ /\ w.id <= m_lastRequestId[s][w.client]
               /\ loop[s].pc = "execute" /\ log[loop[s].index].client = w.client => w.id < log[loop[s].index].id

\* A write is executed above everything its server executed of the client.
LEMMA ExecutedStep ==
    ASSUME TypeOK, TypeOK', LeadHolds, ExecutedBelow, ExecutedOnce, [Next]_vars
    PROVE  ExecutedBelow' /\ ExecutedOnce'
<1>1. CommittedKept
  BY CommittedStep
<1>2. \A s \in Server : loop[s].pc # "pop" =>
          loop[s].index \in 1..Len(log) /\ log[loop[s].index] \in Op /\ log'[loop[s].index] = log[loop[s].index]
  <2>1. ASSUME NEW s \in Server, loop[s].pc # "pop" PROVE loop[s].index \in 1..Len(log)
    <3>1. loop[s].index \in Nat /\ Len(log) \in Nat
      BY StateTypes
    <3> QED BY <2>1, <3>1 DEF TypeOK, LoopTypeOK
  <2> QED BY <1>1, <2>1, StateTypes DEF CommittedKept
<1>3. loop \in [Server -> [pc : {"pop", "execute", "send"}, index : Nat]]
  BY DEF TypeOK, LoopTypeOK
<1>4. /\ m_lastRequestId \in [Server -> [Client -> Nat]]
      /\ executed \in [Server -> Seq(Op)] /\ setBack \in [Server -> SUBSET Op]
  BY DEF TypeOK, ServerTypeOK
<1>5. \A s \in Server : \A i \in DOMAIN executed[s] :
        /\ executed[s][i] \in Op /\ executed[s][i].client \in Client /\ executed[s][i].id \in Nat
        /\ m_lastRequestId[s][executed[s][i].client] \in Nat
  <2>1. \A s \in Server : \A i \in DOMAIN executed[s] : executed[s][i] \in Op
    BY <1>4
  <2>2. \A op \in Op : op.client \in Client /\ op.id \in Nat
    BY DEF Op
  <2> QED BY <1>4, <2>1, <2>2
<1>6. ASSUME UNCHANGED <<m_lastRequestId, executed, setBack>>,
             \A s \in Server : loop'[s].pc = "execute" => loop'[s] = loop[s]
      PROVE  ExecutedBelow' /\ ExecutedOnce'
  <2>1. ExecutedOnce'
    BY <1>6 DEF ExecutedOnce
  <2>2. ASSUME NEW s \in Server, loop'[s].pc = "execute"
        PROVE  loop'[s] = loop[s] /\ loop[s].pc = "execute" /\ log'[loop'[s].index] = log[loop[s].index]
    BY <1>2, <1>6, <2>2
  <2>3. ExecutedBelow'
    BY <1>6, <2>2 DEF ExecutedBelow, SetBackBelow
  <2> QED BY <2>1, <2>3
<1>7. ASSUME UNCHANGED <<m_lastRequestId, executed, setBack, loop>> PROVE ExecutedBelow' /\ ExecutedOnce'
  BY <1>6, <1>7
<1>8. ASSUME NEW n \in DOMAIN calls, ExecuteGetOpOnKVDB(n) PROVE ExecutedBelow' /\ ExecutedOnce'
  <2>1. PICK s \in Server, op \in Op : s = calls[n].server /\ op = calls[n].op
    <3>1. calls[n] \in Call
      BY CallFields
    <3> QED BY <3>1 DEF Call
  <2>2. /\ m_lastRequestId' = [m_lastRequestId EXCEPT ![s][op.client] = op.id]
        /\ setBack' = [setBack EXCEPT ![s] = IF op.id < m_lastRequestId[s][op.client]
                                             THEN setBack[s] \cup {op} ELSE setBack[s]]
        /\ UNCHANGED <<executed, loop, log>>
    BY <1>8, <2>1 DEF ExecuteGetOpOnKVDB, raftVars
  <2>3. op.client \in Client /\ op.id \in Nat /\ m_lastRequestId[s][op.client] \in Nat
    BY <1>4, <2>1 DEF Op
  <2>4. /\ \A t \in Server : setBack[t] \subseteq setBack'[t]
        /\ op.id < m_lastRequestId[s][op.client] => op \in setBack'[s]
    BY <1>4, <2>2
  <2>5. /\ \A t \in Server : t # s => m_lastRequestId'[t] = m_lastRequestId[t]
        /\ \A c \in Client : m_lastRequestId'[s][c] = IF c = op.client THEN op.id ELSE m_lastRequestId[s][c]
    BY <1>4, <2>2, <2>3
  <2>6. \A t \in Server : \A w : SetBackBelow(t, w) => SetBackBelow(t, w)'
    BY <2>4 DEF SetBackBelow
  <2>7. ExecutedOnce'
    BY <2>2, <2>6 DEF ExecutedOnce, SetBackBelow
  <2>8. ASSUME NEW t \in Server, NEW i \in DOMAIN executed[t], NEW w, w = executed[t][i],
               ~SetBackBelow(t, w)'
        PROVE  w.id <= m_lastRequestId'[t][w.client]
    <3>1. w.id <= m_lastRequestId[t][w.client] /\ w.client \in Client /\ w.id \in Nat
      BY <1>5, <2>6, <2>8 DEF ExecutedBelow
    <3>2. CASE t = s /\ w.client = op.client
      <4>1. op \in setBack'[s] => ~(op.id < w.id)
        BY <2>8, <3>2 DEF SetBackBelow
      <4> QED BY <2>3, <2>4, <2>5, <3>1, <3>2, <4>1
    <3> QED BY <2>5, <3>1, <3>2
  <2>9. ExecutedBelow'
    BY <2>2, <2>6, <2>8 DEF ExecutedBelow
  <2> QED BY <2>7, <2>9
<1>9. ASSUME NEW n \in DOMAIN calls, HandlerStep(n) PROVE ExecutedBelow' /\ ExecutedOnce'
  <2>1. CASE ~ExecuteGetOpOnKVDB(n)
    <3>1. UNCHANGED <<m_lastRequestId, executed, setBack, loop>>
      BY <1>9, <2>1 DEF HandlerStep, NotLeader, HandOver, OpenChannel, Pop, TimeOutPut, TimeOutGet,
         LateGet, CloseChannel, HandlerOnly
    <3> QED BY <1>7, <3>1
  <2> QED BY <1>8, <2>1
<1>10. ASSUME NEW s \in Server, GetCommandFromRaft(s) PROVE ExecutedBelow' /\ ExecutedOnce'
  <2> DEFINE i == Head(applyChan[s])
  <2>1. UNCHANGED <<m_lastRequestId, executed, setBack, log>>
    BY <1>10 DEF GetCommandFromRaft, raftVars
  <2>2. /\ \A t \in Server : t # s => loop'[t] = loop[t]
        /\ loop'[s].index = i
        /\ loop'[s].pc = "execute" => ~ifRequestDuplicate(s, log[i])
    <3> DEFINE pc == IF i <= m_lastSnapShotRaftLogIndex[s] THEN "pop"
                     ELSE IF log[i].kind = "Put" /\ ~ifRequestDuplicate(s, log[i]) THEN "execute"
                     ELSE "send"
    <3>1. loop' = [loop EXCEPT ![s] = [pc |-> pc, index |-> i]]
      BY <1>10 DEF GetCommandFromRaft
    <3>2. pc = "execute" => ~ifRequestDuplicate(s, log[i])
      OBVIOUS
    <3> HIDE DEF i, pc
    <3> QED BY <1>3, <3>1, <3>2
  <2>3. i \in 1..Len(log)
    <3>1. applyChan[s] \in Seq(1..Len(log)) /\ applyChan[s] # <<>>
      BY <1>10, StateTypes DEF GetCommandFromRaft
    <3> QED BY <3>1, HeadTail
  <2>4. log[i] \in Op
    BY <2>3, StateTypes
  <2>5. log[i].id \in Nat /\ (loop'[s].pc = "execute" => log[i].id > m_lastRequestId[s][log[i].client])
    <3>1. log[i].id \in Nat /\ m_lastRequestId[s][log[i].client] \in Nat
      BY <1>4, <2>4 DEF Op
    <3> QED BY <2>2, <3>1 DEF ifRequestDuplicate
  <2> HIDE DEF i
  <2>6. ASSUME NEW t \in Server, NEW j \in DOMAIN executed[t], NEW w, w = executed[t][j], ~SetBackBelow(t, w)
        PROVE  /\ w.id <= m_lastRequestId[t][w.client]
               /\ loop'[t].pc = "execute" /\ log[loop'[t].index].client = w.client => w.id < log[loop'[t].index].id
    <3>1. /\ w.id <= m_lastRequestId[t][w.client] /\ w.id \in Nat /\ m_lastRequestId[t][w.client] \in Nat
          /\ loop[t].pc = "execute" /\ log[loop[t].index].client = w.client => w.id < log[loop[t].index].id
      BY <1>5, <2>6 DEF ExecutedBelow
    <3>2. CASE t = s
      BY <2>2, <2>5, <3>1, <3>2
    <3> QED BY <2>2, <3>1, <3>2
  <2>7. \A t \in Server : \A w : SetBackBelow(t, w)' <=> SetBackBelow(t, w)
    BY <2>1 DEF SetBackBelow
  <2>8. ExecutedBelow'
    BY <2>1, <2>6, <2>7 DEF ExecutedBelow
  <2> QED BY <2>1, <2>8 DEF ExecutedOnce
<1>11. ASSUME NEW s \in Server, ExecutePutOpOnKVDB(s) PROVE ExecutedBelow' /\ ExecutedOnce'
  <2> DEFINE op == log[loop[s].index]
             new == Append(executed[s], op)
  <2>1. loop[s].pc = "execute" /\ op \in Op
    BY <1>2, <1>11 DEF ExecutePutOpOnKVDB
  <2>2. /\ m_lastRequestId' = [m_lastRequestId EXCEPT ![s][op.client] = op.id]
        /\ executed' = [executed EXCEPT ![s] = new]
        /\ loop' = [loop EXCEPT ![s].pc = "send"] /\ UNCHANGED <<log, setBack>>
    BY <1>11 DEF ExecutePutOpOnKVDB, raftVars
  <2>3. op.client \in Client /\ op.id \in Nat
    BY <2>1 DEF Op
  <2>4. \A i \in DOMAIN executed[s] : SetBackBelow(s, executed[s][i]) \/
            /\ executed[s][i].id <= m_lastRequestId[s][executed[s][i].client]
            /\ op.client = executed[s][i].client => executed[s][i].id < op.id
    BY <2>1 DEF ExecutedBelow
  <2> HIDE DEF op
  <2>5. /\ new \in Seq(Op) /\ Len(new) = Len(executed[s]) + 1 /\ Len(executed[s]) \in Nat
        /\ DOMAIN new = 1..Len(new) /\ DOMAIN executed[s] = 1..Len(executed[s])
        /\ new[Len(new)] = op
        /\ \A i \in DOMAIN executed[s] : new[i] = executed[s][i]
    BY <1>4, <2>1
  <2>6. /\ \A c \in Client : m_lastRequestId'[s][c] = IF c = op.client THEN op.id ELSE m_lastRequestId[s][c]
        /\ \A t \in Server : t # s => m_lastRequestId'[t] = m_lastRequestId[t]
    BY <1>4, <2>1, <2>2, <2>3
  <2> HIDE DEF new
  <2>7. executed'[s] = new /\ \A t \in Server : t # s => executed'[t] = executed[t]
    BY <1>4, <2>2
  <2>8. loop'[s].pc = "send" /\ \A t \in Server : t # s => loop'[t] = loop[t]
    BY <1>3, <2>2
  <2>9. \A t \in Server : \A w : SetBackBelow(t, w)' <=> SetBackBelow(t, w)
    BY <2>2 DEF SetBackBelow
  <2>10. \A i \in DOMAIN new : i \in DOMAIN executed[s] \/ i = Len(new)
    BY <2>5
  <2>11. ASSUME NEW i \in DOMAIN new, ~SetBackBelow(s, new[i])
         PROVE  new[i].id <= m_lastRequestId'[s][new[i].client]
    <3>1. CASE i \in DOMAIN executed[s]
      <4>1. PICK w : w = executed[s][i] /\ w = new[i] /\ w.client \in Client /\ w.id \in Nat
        BY <1>5, <2>5, <3>1
      <4>2. w.id <= m_lastRequestId[s][w.client] /\ (op.client = w.client => w.id < op.id)
        BY <2>4, <2>11, <3>1, <4>1
      <4> QED BY <2>3, <2>6, <4>1, <4>2
    <3> QED BY <2>3, <2>5, <2>6, <2>10, <3>1
  <2>12. ExecutedBelow'
    <3>1. ASSUME NEW t \in Server, t # s, NEW i \in DOMAIN executed'[t], NEW w, w = executed'[t][i]
          PROVE  \/ SetBackBelow(t, w)
                 \/ /\ w.id <= m_lastRequestId'[t][w.client]
                    /\ loop'[t].pc = "execute" /\ log'[loop'[t].index].client = w.client => w.id < log'[loop'[t].index].id
      BY <2>2, <2>6, <2>7, <2>8, <3>1 DEF ExecutedBelow
    <3> QED BY <2>7, <2>8, <2>9, <2>11, <3>1 DEF ExecutedBelow
  <2>13. ASSUME NEW i \in DOMAIN executed[s], executed[s][i] = op PROVE SetBackBelow(s, op)
    BY <2>3, <2>4, <2>13
  <2>14. \A i, j \in DOMAIN new : new[i] = new[j] /\ i # j => SetBackBelow(s, new[i])
    <3>1. \A i, j \in DOMAIN executed[s] :
             executed[s][i] = executed[s][j] /\ i # j => SetBackBelow(s, executed[s][i])
      BY DEF ExecutedOnce, SetBackBelow
    <3> QED BY <2>5, <2>10, <2>13, <3>1
  <2>15. ExecutedOnce'
    <3>1. \A t \in Server : t # s => \A i, j \in DOMAIN executed[t] :
             executed[t][i] = executed[t][j] /\ i # j => SetBackBelow(t, executed[t][i])
      BY DEF ExecutedOnce, SetBackBelow
    <3>2. ASSUME NEW t \in Server, NEW i \in DOMAIN executed'[t], NEW j \in DOMAIN executed'[t],
                 executed'[t][i] = executed'[t][j], i # j
          PROVE  SetBackBelow(t, executed'[t][i])
      <4>1. CASE t = s
        BY <2>7, <2>14, <3>2, <4>1
      <4>2. CASE t # s
        BY <2>7, <3>1, <3>2, <4>2
      <4> QED BY <4>1, <4>2
    <3>3. setBack' = setBack
      BY <2>2
    <3> QED BY <3>2, <3>3 DEF ExecutedOnce, SetBackBelow
  <2> QED BY <2>12, <2>15
<1>12. ASSUME NEW s \in Server, SendMessageToWaitChan(s) PROVE ExecutedBelow' /\ ExecutedOnce'
  BY <1>3, <1>6, <1>12 DEF SendMessageToWaitChan
<1>13. CASE KvStep
  <2>1. CASE \E s \in Server : LoopStep(s)
    BY <1>7, <1>10, <1>11, <1>12, <2>1 DEF LoopStep, applierTicker
  <2>2. CASE SnapshotStep \/ UNCHANGED serverVars
    BY <1>7, <2>2 DEF SnapshotStep, InstallSnapshot, GetSnapShotFromRaft, serverVars
  <2> QED BY <1>9, <1>13, <2>1, <2>2 DEF KvStep
<1>14. CASE (\E c \in Client : ClerkStep(c)) \/ UNCHANGED vars
  BY <1>7, <1>14 DEF ClerkStep, Try, Retry, Send, Answer, GiveUp, vars, kvVars, serverVars
<1> QED BY <1>13, <1>14 DEF Next

\* Whatever was retried, lost, given up or answered late (GetCommandFromRaft,
\* ifRequestDuplicate, ExecuteGetOpOnKVDB): a server executes a write twice only
\* after a late Get set the number of its client back below the write's.
THEOREM ExecutedOnceCorrect == Spec => []ExecutedOnce
<1>1. Init => LeadHolds /\ ExecutedBelow /\ ExecutedOnce
  <2> SUFFICES ASSUME Init PROVE LeadHolds /\ ExecutedBelow /\ ExecutedOnce
    OBVIOUS
  <2>1. /\ calls = <<>> /\ log = <<>> /\ raftLog = [s \in Server |-> <<>>] /\ lead = 1
        /\ executed = [s \in Server |-> <<>>]
    BY DEF Init, KvInit, RaftInit
  <2>2. lead \in Server
    BY <2>1, NumServersAssumption DEF Server
  <2>3. LeadHolds
    BY <2>1, <2>2 DEF LeadHolds
  <2>4. ExecutedBelow /\ ExecutedOnce
    BY <2>1 DEF ExecutedBelow, ExecutedOnce
  <2> QED BY <2>3, <2>4
<1>2. TypeOK /\ TypeOK' /\ LeadHolds /\ ExecutedBelow /\ ExecutedOnce /\ [Next]_vars
      => LeadHolds' /\ ExecutedBelow' /\ ExecutedOnce'
  BY CommittedStep, ExecutedStep
<1>3. Spec => []TypeOK
  BY TypeCorrect
<1> QED BY <1>1, <1>2, <1>3, PTL DEF Spec
=============================================================================
