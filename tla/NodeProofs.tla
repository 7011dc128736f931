----------------------------- MODULE NodeProofs -----------------------------
(* What a node runs on: the RPC channel with one caller, as the clerk and     *)
(* every Raft peer thread that keeps its channel to itself use it, the fiber  *)
(* runtime, with any number of threads and fibers, and the skip list.         *)
EXTENDS RpcChannel, Fiber, SkipList, FiniteSetTheorems, SequenceTheorems, WellFoundedInduction, TLAPS

-----------------------------------------------------------------------------
(* The RPC channel. *)

\* A call, a piece of a reply, and what a connection carries.
CallType == Caller \X {0, 1}
PieceType == [call : CallType, part : Nat, of : Nat]
LinkType == [peer : {"none", "open", "gone", "reset"}, req : Seq(CallType), resp : Seq(PieceType),
             split : BOOLEAN]

\* The variables have their types.
ChannelTypes ==
    /\ m_clientFd \in 0..MaxLinks /\ server \in {"down", "slow", "up"}
    /\ rpcPc \in [Caller -> {"idle", "connect", "send", "recv"}]
    /\ callNo \in [Caller -> {0, 1}]
    /\ link \in [{0} \cup Link -> LinkType] /\ link[0] = BadFd
    /\ DOMAIN got = Caller

\* A caller that connects has no connection; one that sends or receives has it.
HasLink ==
    \A c \in Caller : /\ rpcPc[c] = "connect" => m_clientFd = 0
                      /\ rpcPc[c] \in {"send", "recv"} => m_clientFd # 0

\* Every connection the channel let go of is closed.
OnlyLink == \A l \in Link : l # m_clientFd => link[l] = Closed

\* The request of the call under way, or the whole reply to it.
Awaited(c, l) ==
    /\ rpcPc[c] = "recv"
    /\ \/ link[l].req = <<Call(c)>> /\ link[l].resp = <<>>
       \/ link[l].req = <<>> /\ \E k \in Nat \ {0} : link[l].resp = CutUp(Call(c), k)

\* A connection carries no request once the other end is gone; one on which no
\* part of a reply was left behind carries at most one request or reply, of the
\* call under way.
Carries(c, l) ==
    /\ link[l].peer # "open" => link[l].req = <<>>
    /\ link[l].split \/ (link[l].req = <<>> /\ link[l].resp = <<>>) \/ Awaited(c, l)

\* Every connection that is in step carries nothing but the current call.
CarriesCall == \A c \in Caller, l \in Link : Carries(c, l)

\* The outcome of a call on such a connection is its own.
OwnOutcome ==
    \A c \in Caller :
        got[c].split \/ got[c].kind \in {"none", "failed", "empty"} \/ got[c] = Reply(Call(c))

\* The inductive invariant of the channel.
ChannelInv == ChannelTypes /\ HasLink /\ OnlyLink /\ CarriesCall /\ OwnOutcome

\* A reply in pieces.
LEMMA CutUpType ==
    ASSUME NEW c \in CallType, NEW k \in Nat \ {0}
    PROVE  /\ CutUp(c, k) \in Seq(PieceType) /\ Len(CutUp(c, k)) = k
           /\ \A i \in 1..k : /\ CutUp(c, k)[i].call = c
                              /\ CutUp(c, k)[i].part = i /\ CutUp(c, k)[i].of = k
<1>1. \A i \in 1..k : [call |-> c, part |-> i, of |-> k] \in PieceType
  BY DEF PieceType
<1>2. CutUp(c, k) \in [1..k -> PieceType]
  BY <1>1 DEF CutUp
<1> HIDE DEF PieceType
<1>3. CutUp(c, k) \in Seq(PieceType) /\ Len(CutUp(c, k)) = k
  BY <1>2
<1> QED BY <1>3 DEF CutUp

\* What one recv takes and what it leaves.
LEMMA Taking ==
    ASSUME NEW S, NEW s \in Seq(S), NEW n \in DOMAIN s
    PROVE  /\ SubSeq(s, 1, n) \in Seq(S) /\ Len(SubSeq(s, 1, n)) = n
           /\ \A i \in 1..n : SubSeq(s, 1, n)[i] = s[i]
           /\ SubSeq(s, n + 1, Len(s)) \in Seq(S)
           /\ n = Len(s) => SubSeq(s, n + 1, Len(s)) = <<>> /\ SubSeq(s, 1, n) = s
<1>1. n \in 1..Len(s) /\ Len(s) \in Nat /\ n \in Nat
  OBVIOUS
<1>2. SubSeq(s, 1, n) \in Seq(S) /\ Len(SubSeq(s, 1, n)) = n /\ \A i \in 1..n : SubSeq(s, 1, n)[i] = s[i]
  BY <1>1
<1>3. SubSeq(s, n + 1, Len(s)) \in Seq(S)
  BY <1>1
<1>4. n = Len(s) => SubSeq(s, n + 1, Len(s)) = <<>>
  BY <1>1
<1>5. n = Len(s) => SubSeq(s, 1, n) = s
  BY <1>1, <1>2
<1> QED BY <1>2, <1>3, <1>4, <1>5

\* Replacing the state of a connection.
LEMMA LinkSet ==
    ASSUME ChannelTypes, NEW l \in Link, NEW x \in LinkType, link' = [link EXCEPT ![l] = x]
    PROVE  /\ link' \in [{0} \cup Link -> LinkType] /\ link'[0] = BadFd /\ link'[l] = x
           /\ \A k \in Link : k # l => link'[k] = link[k]
<1>1. 0 \notin Link
  BY DEF Link
<1> QED BY <1>1 DEF ChannelTypes

\* Closing the connection leaves it empty, and the others as they were.
LEMMA ClosedLink ==
    ASSUME ChannelTypes, m_clientFd # 0, link' = Without(0)
    PROVE  /\ link' \in [{0} \cup Link -> LinkType] /\ link'[0] = link[0]
           /\ link'[m_clientFd] = Closed
           /\ \A l \in Link : l # m_clientFd => link'[l] = link[l]
<1>1. Closed \in LinkType
  <2>1. <<>> \in Seq(CallType) /\ <<>> \in Seq(PieceType)
    OBVIOUS
  <2> QED BY <2>1 DEF Closed, LinkType
<1>2. m_clientFd \in Link
  BY RpcAssumption DEF ChannelTypes, Link
<1>3. link' = [link EXCEPT ![m_clientFd] = Closed]
  BY DEF Without
<1>4. link[0] = BadFd
  BY DEF ChannelTypes
<1> QED BY <1>1, <1>2, <1>3, <1>4, LinkSet

\* A call that ends.
LEMMA EndsTypes ==
    ASSUME NEW c \in Caller, NEW outcome, ChannelTypes, Ends(c, outcome)
    PROVE  /\ rpcPc' \in [Caller -> {"idle", "connect", "send", "recv"}]
           /\ callNo' \in [Caller -> {0, 1}] /\ server' \in {"down", "slow", "up"}
           /\ DOMAIN got' = Caller
           /\ rpcPc'[c] = "idle" /\ got'[c] = outcome /\ callNo' = callNo
BY DEF ChannelTypes, Ends

\* One step of the caller or of the other side keeps the invariant.
LEMMA ChannelStep ==
    ASSUME NEW c0, Caller = {c0}, ChannelInv, [RpcNext]_rpcVars
    PROVE  ChannelInv'
<1> USE DEF ChannelInv
<1>1. /\ ChannelTypes
      /\ m_clientFd \in 0..MaxLinks /\ server \in {"down", "slow", "up"}
      /\ rpcPc \in [Caller -> {"idle", "connect", "send", "recv"}]
      /\ callNo \in [Caller -> {0, 1}]
      /\ link \in [{0} \cup Link -> LinkType] /\ link[0] = BadFd
      /\ DOMAIN got = Caller
  BY DEF ChannelTypes
<1>2. /\ m_clientFd # 0 => m_clientFd \in Link
      /\ 0 \notin Link /\ MaxLinks \in Nat
  BY <1>1, RpcAssumption DEF Link
<1>3. Cardinality(Caller) = 1
  BY FS_Singleton
<1>4. /\ rpcPc[c0] = "connect" => m_clientFd = 0
      /\ rpcPc[c0] \in {"send", "recv"} => m_clientFd # 0
  BY DEF HasLink
<1>5. \A l \in Link : l # m_clientFd => link[l] = Closed
  BY DEF OnlyLink
<1>6. \A l \in Link :
        /\ link[l].peer # "open" => link[l].req = <<>>
        /\ link[l].split \/ (link[l].req = <<>> /\ link[l].resp = <<>>) \/ Awaited(c0, l)
  BY DEF CarriesCall, Carries
<1>7. got[c0].split \/ got[c0].kind \in {"none", "failed", "empty"} \/ got[c0] = Reply(Call(c0))
  BY DEF OwnOutcome
<1>8. ASSUME ChannelTypes',
             rpcPc'[c0] = "connect" => m_clientFd' = 0,
             rpcPc'[c0] \in {"send", "recv"} => m_clientFd' # 0,
             \A l \in Link : l # m_clientFd' => link'[l] = Closed,
             \A l \in Link :
                /\ link'[l].peer # "open" => link'[l].req = <<>>
                /\ link'[l].split \/ (link'[l].req = <<>> /\ link'[l].resp = <<>>) \/ Awaited(c0, l)',
             got'[c0].split \/ got'[c0].kind \in {"none", "failed", "empty"} \/ got'[c0] = Reply(Call(c0)')
      PROVE  ChannelInv'
  BY <1>8 DEF HasLink, OnlyLink, CarriesCall, Carries, OwnOutcome, Reply, Link
<1>9. /\ Closed.peer = "none" /\ Closed.req = <<>> /\ Closed.resp = <<>>
      /\ \A k \in {"none", "failed", "empty"} : Outcome(k).kind = k
  BY DEF Closed, Outcome
<1>10. CASE Begin(c0)
  <2>1. /\ UNCHANGED <<m_clientFd, link, server>>
        /\ rpcPc[c0] = "idle"
        /\ rpcPc'[c0] = IF m_clientFd = 0 THEN "connect" ELSE "send"
        /\ got'[c0] = Outcome("none")
    BY <1>1, <1>10 DEF Begin
  <2>2. ChannelTypes'
    <3>1. rpcPc' \in [Caller -> {"idle", "connect", "send", "recv"}]
      BY <1>1, <1>10 DEF Begin
    <3>2. callNo' \in [Caller -> {0, 1}] /\ DOMAIN got' = Caller
      BY <1>1, <1>10 DEF Begin
    <3> QED BY <1>1, <2>1, <3>1, <3>2 DEF ChannelTypes, Link
  <2>3. \A l \in Link : /\ link'[l].peer # "open" => link'[l].req = <<>>
                        /\ link'[l].split \/ (link'[l].req = <<>> /\ link'[l].resp = <<>>)
    BY <1>6, <2>1 DEF Awaited
  <2> QED BY <1>5, <1>8, <1>9, <2>1, <2>2, <2>3
<1>11. CASE newConnect(c0)
  <2>1. PICK f \in Link : /\ link' = [link EXCEPT ![f].peer = "open"]
                          /\ m_clientFd' = f /\ link[f] = Closed
    BY <1>11 DEF newConnect
  <2>2. /\ rpcPc[c0] = "connect" /\ rpcPc' = [rpcPc EXCEPT ![c0] = "send"]
        /\ UNCHANGED <<server, callNo, got>>
    BY <1>11 DEF newConnect
  <2> DEFINE x == [link[f] EXCEPT !.peer = "open"]
  <2>3. x \in LinkType /\ x.peer = "open" /\ x.req = <<>> /\ x.resp = <<>>
    BY <1>1, <1>9, <2>1 DEF LinkType
  <2>4. link' = [link EXCEPT ![f] = x]
    BY <1>1, <2>1
  <2> HIDE DEF x
  <2>5. /\ link' \in [{0} \cup Link -> LinkType] /\ link'[0] = BadFd /\ link'[f] = x
        /\ \A l \in Link : l # f => link'[l] = Closed
    BY <1>1, <1>2, <1>4, <1>5, <2>2, <2>3, <2>4, LinkSet
  <2>6. ChannelTypes'
    <3>1. f \in 0..MaxLinks
      BY <1>2 DEF Link
    <3>2. rpcPc' \in [Caller -> {"idle", "connect", "send", "recv"}]
      BY <1>1, <2>2
    <3> QED BY <1>1, <2>1, <2>2, <2>5, <3>1, <3>2 DEF ChannelTypes, Link
  <2>7. rpcPc'[c0] = "send"
    BY <1>1, <2>2
  <2>8. Call(c0)' = Call(c0)
    BY <2>2 DEF Call
  <2> QED BY <1>2, <1>7, <1>8, <1>9, <2>1, <2>2, <2>3, <2>5, <2>6, <2>7, <2>8
<1>12. CASE ConnectFails(c0)
  <2>1. /\ rpcPc[c0] = "connect" /\ m_clientFd' = 0 /\ UNCHANGED link
        /\ Ends(c0, Outcome("failed"))
    BY <1>12 DEF ConnectFails
  <2>2. ChannelTypes' /\ rpcPc'[c0] = "idle" /\ got'[c0] = Outcome("failed")
    BY <1>1, <1>2, <2>1, EndsTypes DEF ChannelTypes, Link
  <2>3. \A l \in Link : link'[l] = Closed
    BY <1>2, <1>4, <1>5, <2>1
  <2> QED BY <1>8, <1>9, <2>1, <2>2, <2>3
<1>13. CASE Send(c0)
  <2>1. /\ rpcPc[c0] = "send" /\ rpcPc' = [rpcPc EXCEPT ![c0] = "recv"]
        /\ UNCHANGED <<m_clientFd, server, callNo, got>>
        /\ link' = IF link[m_clientFd].peer = "open"
                   THEN [link EXCEPT ![m_clientFd].req = Append(@, Call(c0))]
                   ELSE [link EXCEPT ![m_clientFd].peer = "reset"]
    BY <1>13 DEF Send
  <2>2. m_clientFd \in Link
    BY <1>2, <1>4, <2>1
  <2>3. PICK l : l = link[m_clientFd] /\ l \in LinkType
    BY <1>1, <2>2
  <2>4. /\ Call(c0) \in CallType /\ Call(c0)' = Call(c0)
    BY <1>1, <2>1 DEF Call, CallType
  <2>5. /\ l.peer # "open" => l.req = <<>>
        /\ l.split \/ (l.req = <<>> /\ l.resp = <<>>)
    BY <1>6, <2>1, <2>2, <2>3 DEF Awaited
  <2>6. rpcPc'[c0] = "recv" /\ rpcPc' \in [Caller -> {"idle", "connect", "send", "recv"}]
    BY <1>1, <2>1
  <2>7. PICK x \in LinkType :
          /\ link' = [link EXCEPT ![m_clientFd] = x]
          /\ x.peer # "open" => x.req = <<>>
          /\ \/ x.split \/ (x.req = <<>> /\ x.resp = <<>>)
             \/ x.req = <<Call(c0)>> /\ x.resp = <<>>
    <3>1. CASE l.peer = "open"
      <4>1. PICK q : q = Append(l.req, Call(c0)) /\ q \in Seq(CallType) /\ (l.req = <<>> => q = <<Call(c0)>>)
        <5>1. PICK r \in Seq(CallType) : r = l.req
          BY <2>3 DEF LinkType
        <5>2. Append(r, Call(c0)) \in Seq(CallType) /\ (r = <<>> => Append(r, Call(c0)) = <<Call(c0)>>)
          <6>1. Append(r, Call(c0)) \in Seq(CallType)
            BY <2>4
          <6>2. Append(<<>>, Call(c0)) = <<Call(c0)>>
            OBVIOUS
          <6> QED BY <6>1, <6>2
        <5> QED BY <5>1, <5>2
      <4>2. PICK x : x = [l EXCEPT !.req = q]
        OBVIOUS
      <4>3. x \in LinkType /\ x.peer = "open" /\ x.req = q /\ x.resp = l.resp /\ x.split = l.split
        BY <2>3, <3>1, <4>1, <4>2 DEF LinkType
      <4>4. link' = [link EXCEPT ![m_clientFd] = x]
        BY <1>1, <2>1, <2>2, <2>3, <3>1, <4>1, <4>2
      <4> QED BY <2>5, <4>1, <4>3, <4>4
    <3>2. CASE l.peer # "open"
      <4>1. PICK x : x = [l EXCEPT !.peer = "reset"]
        OBVIOUS
      <4>2. x \in LinkType /\ x.req = l.req /\ x.resp = l.resp /\ x.split = l.split
        BY <2>3, <4>1 DEF LinkType
      <4>3. link' = [link EXCEPT ![m_clientFd] = x]
        BY <1>1, <2>1, <2>2, <2>3, <3>2, <4>1
      <4> QED BY <2>5, <3>2, <4>2, <4>3
    <3> QED BY <3>1, <3>2
  <2>8. /\ link' \in [{0} \cup Link -> LinkType] /\ link'[0] = BadFd /\ link'[m_clientFd] = x
        /\ \A k \in Link : k # m_clientFd => link'[k] = Closed
    BY <1>1, <1>5, <2>2, <2>7, LinkSet
  <2>9. ChannelTypes'
    BY <1>1, <2>1, <2>6, <2>8 DEF ChannelTypes, Link
  <2>10. ASSUME NEW k \in Link
         PROVE  /\ link'[k].peer # "open" => link'[k].req = <<>>
                /\ link'[k].split \/ (link'[k].req = <<>> /\ link'[k].resp = <<>>) \/ Awaited(c0, k)'
    <3>1. CASE k = m_clientFd
      <4>1. x.req = <<Call(c0)>> /\ x.resp = <<>> => Awaited(c0, k)'
        BY <2>4, <2>6, <2>8, <3>1 DEF Awaited
      <4> QED BY <2>7, <2>8, <3>1, <4>1
    <3> QED BY <1>9, <2>8, <3>1
  <2> QED BY <1>2, <1>7, <1>8, <2>1, <2>2, <2>4, <2>6, <2>8, <2>9, <2>10
<1>14. CASE SendFails(c0) \/ RecvFails(c0)
  <2>1. /\ rpcPc[c0] \in {"send", "recv"} /\ m_clientFd' = 0 /\ link' = Without(0)
        /\ Ends(c0, Outcome("failed"))
    BY <1>14 DEF SendFails, RecvFails, AfterSendError, AfterRecvError
  <2>2. /\ link' \in [{0} \cup Link -> LinkType] /\ link'[0] = link[0]
        /\ \A l \in Link : link'[l] = Closed
    BY <1>1, <1>4, <1>5, <2>1, ClosedLink
  <2>3. ChannelTypes' /\ rpcPc'[c0] = "idle" /\ got'[c0] = Outcome("failed")
    BY <1>1, <1>2, <2>1, <2>2, EndsTypes DEF ChannelTypes, Link
  <2> QED BY <1>8, <1>9, <2>1, <2>2, <2>3
<1>15. ASSUME NEW n \in 1..MaxPieces, Recv(c0, n) PROVE ChannelInv'
  <2>1. PICK l : l = link[m_clientFd]
    OBVIOUS
  <2>2. PICK taken : taken = SubSeq(l.resp, 1, n)
    OBVIOUS
  <2>3. PICK rest : rest = SubSeq(l.resp, n + 1, Len(l.resp))
    OBVIOUS
  <2>4. PICK left \in BOOLEAN : left = LeftBehind(l, taken, rest)
    BY DEF LeftBehind
  <2>5. /\ rpcPc[c0] = "recv" /\ n \in DOMAIN l.resp /\ UNCHANGED m_clientFd
        /\ link' = [link EXCEPT ![m_clientFd] = [l EXCEPT !.resp = rest, !.split = left]]
    BY <1>15, <2>1, <2>2, <2>3, <2>4 DEF Recv
  <2>6. PICK outcome \in Parsed(taken) : Ends(c0, [outcome EXCEPT !.split = l.split \/ left])
    BY <1>15, <2>1, <2>2, <2>3, <2>4 DEF Recv
  <2>7. m_clientFd \in Link /\ l \in LinkType
    BY <1>1, <1>2, <1>4, <2>1, <2>5
  <2>8. /\ l.resp \in Seq(PieceType) /\ l.split \in BOOLEAN
        /\ l.peer # "open" => l.req = <<>>
    BY <1>6, <2>1, <2>7 DEF LinkType
  <2>9. /\ Len(taken) = n /\ \A i \in 1..n : taken[i] = l.resp[i]
        /\ rest \in Seq(PieceType) /\ (n = Len(l.resp) => rest = <<>> /\ taken = l.resp)
    <3>1. PICK r \in Seq(PieceType) : r = l.resp
      BY <2>8
    <3>2. n \in DOMAIN r
      BY <2>5, <3>1
    <3> QED BY <2>2, <2>3, <3>1, <3>2, Taking
  <2>10. Call(c0) \in CallType
    BY <1>1 DEF Call, CallType
  <2>11. ASSUME ~left
         PROVE  /\ rest = <<>> /\ l.req = <<>>
                /\ ~l.split => taken = CutUp(Call(c0), n)
    <3>1. taken[n].part = taken[n].of /\ (l.split => rest = <<>> /\ l.req = <<>>)
      BY <2>4, <2>9, <2>11 DEF LeftBehind
    <3>2. CASE l.split
      BY <3>1, <3>2
    <3>3. CASE ~l.split
      <4>1. l.resp # <<>>
        BY <2>5
      <4>2. PICK k \in Nat \ {0} : l.req = <<>> /\ l.resp = CutUp(Call(c0), k)
        BY <1>6, <2>1, <2>7, <3>3, <4>1 DEF Awaited
      <4>3. Len(l.resp) = k /\ n \in 1..k /\ l.resp[n].part = n /\ l.resp[n].of = k
        BY <2>5, <2>8, <2>10, <4>2, CutUpType
      <4>4. n = k
        BY <2>9, <3>1, <4>3
      <4> QED BY <2>9, <4>2, <4>3, <4>4
    <3> QED BY <3>2, <3>3
  <2>12. PICK x : x = [l EXCEPT !.resp = rest, !.split = left]
    OBVIOUS
  <2>13. x \in LinkType /\ x.peer = l.peer /\ x.req = l.req /\ x.resp = rest /\ x.split = left
    BY <2>7, <2>9, <2>12 DEF LinkType
  <2>14. /\ link' \in [{0} \cup Link -> LinkType] /\ link'[0] = BadFd /\ link'[m_clientFd] = x
         /\ \A k \in Link : k # m_clientFd => link'[k] = Closed
    BY <1>1, <1>5, <2>5, <2>7, <2>12, <2>13, LinkSet
  <2>15. \A k \in Link : /\ link'[k].peer # "open" => link'[k].req = <<>>
                         /\ link'[k].split \/ (link'[k].req = <<>> /\ link'[k].resp = <<>>)
    BY <1>9, <2>8, <2>11, <2>13, <2>14
  <2>16. PICK o : o = [outcome EXCEPT !.split = l.split \/ left] /\ Ends(c0, o)
    BY <2>6
  <2>17. ChannelTypes' /\ rpcPc'[c0] = "idle" /\ got'[c0] = o /\ callNo' = callNo
    BY <1>1, <2>5, <2>14, <2>16, EndsTypes DEF ChannelTypes, Link
  <2>18. o.split \/ o = Reply(Call(c0))
    <3>1. CASE l.split \/ left
      <4>1. o = [outcome EXCEPT !.split = TRUE]
        BY <2>16, <3>1
      <4>2. "split" \in DOMAIN outcome
        BY <2>6 DEF Parsed, Reply, Outcome
      <4> QED BY <4>1, <4>2
    <3>2. CASE ~l.split /\ ~left
      <4>1. taken = CutUp(Call(c0), n) /\ n \in Nat \ {0}
        BY <2>11, <3>2
      <4>2. taken[1].call = Call(c0)
        BY <2>10, <4>1, CutUpType
      <4>3. Whole(taken)
        BY <2>9, <4>1, <4>2 DEF Whole
      <4>4. outcome = Reply(Call(c0))
        BY <2>6, <4>2, <4>3 DEF Parsed
      <4>5. o = [Reply(Call(c0)) EXCEPT !.split = FALSE]
        BY <2>16, <3>2, <4>4
      <4>6. [Reply(Call(c0)) EXCEPT !.split = FALSE] = Reply(Call(c0))
        <5>1. PICK r \in [kind : {"reply"}, call : CallType, split : BOOLEAN] : r = Reply(Call(c0)) /\ r.split = FALSE
          <6>1. PICK c : c = Call(c0) /\ c \in CallType
            BY <2>10
          <6>2. Reply(c) \in [kind : {"reply"}, call : CallType, split : BOOLEAN] /\ Reply(c).split = FALSE
            BY <6>1 DEF Reply
          <6> QED BY <6>1, <6>2
        <5>2. [r EXCEPT !.split = FALSE] = r
          BY <5>1
        <5> QED BY <5>1, <5>2
      <4> QED BY <4>5, <4>6
    <3> QED BY <3>1, <3>2
  <2>19. Call(c0)' = Call(c0)
    BY <2>17 DEF Call
  <2> QED BY <1>8, <2>5, <2>14, <2>15, <2>17, <2>18, <2>19
<1>16. CASE RecvNothing(c0)
  <2>1. /\ rpcPc[c0] = "recv" /\ link[m_clientFd].peer = "gone" /\ link[m_clientFd].resp = <<>>
        /\ Ends(c0, Outcome("empty")) /\ UNCHANGED <<m_clientFd, link>>
    BY <1>16 DEF RecvNothing
  <2>2. m_clientFd \in Link
    BY <1>2, <1>4, <2>1
  <2>3. \A l \in Link : link[l].req = <<>> /\ link[l].resp = <<>>
    BY <1>5, <1>6, <1>9, <2>1, <2>2
  <2>4. ChannelTypes' /\ rpcPc'[c0] = "idle" /\ got'[c0] = Outcome("empty")
    BY <1>1, <2>1, EndsTypes DEF ChannelTypes, Link
  <2> QED BY <1>5, <1>8, <1>9, <2>1, <2>3, <2>4
<1>17. ASSUME NEW l \in Link, NEW n \in 1..Cardinality(Caller), NEW k \in 1..MaxPieces, OnMessage(l, n, k)
       PROVE  ChannelInv'
  <2>1. n = 1
    BY <1>3
  <2>2. PICK a : a = link[l] /\ a \in LinkType
    BY <1>1
  <2>3. /\ a.peer = "open" /\ 1 \in DOMAIN a.req
        /\ link' = [link EXCEPT ![l].req = SubSeq(@, 2, Len(@)), ![l].resp = @ \o CutUp(link[l].req[1], k)]
        /\ UNCHANGED <<m_clientFd, server, rpcPc, callNo, got>>
    BY <1>17, <2>1, <2>2 DEF OnMessage
  <2>4. a.req \in Seq(CallType) /\ a.resp \in Seq(PieceType)
    BY <2>2 DEF LinkType
  <2>5. PICK q \in Seq(CallType) : q = SubSeq(a.req, 2, Len(a.req)) /\ (Len(a.req) = 1 => q = <<>>)
    <3>1. PICK r \in Seq(CallType) : r = a.req /\ 1 \in DOMAIN r /\ 1 + 1 = 2
      BY <2>3, <2>4
    <3>2. SubSeq(r, 1 + 1, Len(r)) \in Seq(CallType) /\ (1 = Len(r) => SubSeq(r, 1 + 1, Len(r)) = <<>>)
      BY <3>1, Taking
    <3>3. SubSeq(r, 1 + 1, Len(r)) = SubSeq(r, 2, Len(r))
      BY <3>1
    <3> QED BY <3>1, <3>2, <3>3
  <2>6. PICK c \in CallType : c = a.req[1]
    BY <2>3, <2>4
  <2>7. PICK r \in Seq(PieceType) : r = a.resp \o CutUp(c, k) /\ (a.resp = <<>> => r = CutUp(c, k))
    <3>1. CutUp(c, k) \in Seq(PieceType)
      BY CutUpType
    <3>2. PICK u \in Seq(PieceType) : u = CutUp(c, k)
      BY <3>1
    <3>3. a.resp \o u \in Seq(PieceType) /\ (a.resp = <<>> => a.resp \o u = u)
      BY <2>4
    <3> QED BY <3>2, <3>3
  <2>8. PICK x : x = [a EXCEPT !.req = q, !.resp = r]
    OBVIOUS
  <2>9. x \in LinkType /\ x.peer = "open" /\ x.req = q /\ x.resp = r /\ x.split = a.split
    BY <2>2, <2>3, <2>8 DEF LinkType
  <2>10. /\ link' \in [{0} \cup Link -> LinkType] /\ link'[0] = BadFd /\ link'[l] = x
         /\ \A j \in Link : j # l => link'[j] = link[j]
    <3>1. link' = [link EXCEPT ![l] = x]
      BY <1>1, <2>2, <2>3, <2>5, <2>6, <2>7, <2>8 DEF LinkType
    <3> QED BY <1>1, <2>9, <3>1, LinkSet
  <2>11. l = m_clientFd
    BY <1>5, <1>9, <2>2, <2>3
  <2>12. ChannelTypes' /\ Call(c0)' = Call(c0)
    BY <1>1, <2>3, <2>10 DEF ChannelTypes, Link, Call
  <2>13. x.split \/ Awaited(c0, l)'
    <3> SUFFICES ASSUME ~a.split PROVE Awaited(c0, l)'
      BY <2>9
    <3>1. a.req = <<Call(c0)>> /\ a.resp = <<>> /\ rpcPc[c0] = "recv"
      BY <1>6, <2>2, <2>3 DEF Awaited
    <3>2. q = <<>> /\ c = Call(c0) /\ r = CutUp(Call(c0), k) /\ k \in Nat \ {0}
      BY <2>5, <2>6, <2>7, <3>1
    <3> QED BY <2>3, <2>9, <2>10, <2>12, <3>1, <3>2 DEF Awaited
  <2>14. \A j \in Link :
            /\ link'[j].peer # "open" => link'[j].req = <<>>
            /\ link'[j].split \/ (link'[j].req = <<>> /\ link'[j].resp = <<>>) \/ Awaited(c0, j)'
    BY <1>5, <1>9, <2>9, <2>10, <2>11, <2>13
  <2> QED BY <1>4, <1>5, <1>7, <1>8, <2>3, <2>10, <2>11, <2>12, <2>14
<1>18. CASE Crash
  <2>1. PICK how \in {"gone", "reset"} :
         link' = [l \in DOMAIN link |-> IF link[l].peer # "open" THEN link[l]
                                        ELSE [link[l] EXCEPT !.peer = how, !.req = <<>>]]
    BY <1>18 DEF Crash
  <2>2. UNCHANGED <<m_clientFd, rpcPc, callNo, got>> /\ server' = "down"
    BY <1>18 DEF Crash
  <2>3. \A l \in Link : /\ link'[l].resp = link[l].resp /\ link'[l].split = link[l].split
                        /\ link'[l].req = IF link[l].peer # "open" THEN link[l].req ELSE <<>>
                        /\ link'[l].peer # "open"
                        /\ link[l] = Closed => link'[l] = Closed
    BY <1>1, <1>9, <2>1 DEF LinkType
  <2>4. link' \in [{0} \cup Link -> LinkType] /\ link'[0] = BadFd
    <3>1. <<>> \in Seq(CallType)
      OBVIOUS
    <3>2. BadFd.peer = "reset"
      BY DEF BadFd, Closed
    <3> QED BY ZenonT(60), <1>1, <2>1, <3>1, <3>2 DEF LinkType
  <2>5. ChannelTypes'
    BY <1>1, <2>2, <2>4 DEF ChannelTypes, Link
  <2>6. Call(c0)' = Call(c0)
    BY <2>2 DEF Call
  <2>7. ASSUME NEW l \in Link
        PROVE  /\ link'[l].req = <<>>
               /\ link'[l].split \/ link'[l].resp = <<>> \/ Awaited(c0, l)'
    <3>1. link'[l].req = <<>>
      BY <1>6, <2>3
    <3>2. CASE Awaited(c0, l) /\ link[l].resp # <<>>
      <4>1. rpcPc'[c0] = "recv" /\ \E k \in Nat \ {0} : link'[l].resp = CutUp(Call(c0)', k)
        BY <2>2, <2>3, <2>6, <3>2 DEF Awaited
      <4> QED BY <3>1, <4>1 DEF Awaited
    <3> QED BY <1>6, <2>3, <3>1, <3>2
  <2> QED BY <1>4, <1>5, <1>7, <1>8, <2>2, <2>3, <2>5, <2>6, <2>7
<1>19. CASE UNCHANGED <<m_clientFd, link, rpcPc, callNo, got>> /\ server' \in {"down", "slow", "up"}
  <2>1. ChannelTypes' /\ Call(c0)' = Call(c0)
    BY <1>1, <1>19 DEF ChannelTypes, Link, Call
  <2>2. \A l \in Link : Awaited(c0, l)' <=> Awaited(c0, l)
    BY <1>19, <2>1 DEF Awaited
  <2> QED BY <1>4, <1>5, <1>6, <1>7, <1>8, <1>19, <2>1, <2>2
<1>20. ASSUME NEW s \in {"slow", "up"}, Become(s) PROVE ChannelInv'
  BY <1>19, <1>20 DEF Become
<1>21. CASE UNCHANGED rpcVars
  BY <1>1, <1>19, <1>21 DEF rpcVars
<1> QED BY <1>10, <1>11, <1>12, <1>13, <1>14, <1>15, <1>16, <1>17, <1>18, <1>20, <1>21
        DEF RpcNext, CallStep, Answering

\* A channel with one caller gives each call the reply to its own request, never
\* a late one, for any number of connections, crashes, timeouts and pieces of a
\* reply, as long as no recv has left a part of a reply on the connection:
\* CallMethod closes the connection at every other event after which a reply may
\* still come.
THEOREM OwnReplyCorrect ==
    ASSUME NEW c0, Caller = {c0}
    PROVE  RpcSpec => []OwnReply
<1>1. RpcInit => ChannelInv
  <2> SUFFICES ASSUME RpcInit PROVE ChannelInv
    OBVIOUS
  <2>1. /\ <<>> \in Seq(CallType) /\ <<>> \in Seq(PieceType) /\ 0 \in 0..MaxLinks
    BY RpcAssumption
  <2>2. Closed \in LinkType /\ BadFd \in LinkType /\ Closed.req = <<>> /\ Closed.resp = <<>>
    BY <2>1 DEF Closed, BadFd, LinkType
  <2>3. 0 \notin Link
    BY DEF Link
  <2>4. Outcome("none").kind = "none"
    BY DEF Outcome
  <2>5. ChannelTypes
    BY <2>1, <2>2, <2>3 DEF RpcInit, ChannelTypes
  <2>6. \A l \in Link : link[l] = Closed
    BY <2>3 DEF RpcInit
  <2>7. CarriesCall
    BY <2>2, <2>6 DEF CarriesCall, Carries
  <2>8. HasLink /\ OnlyLink /\ OwnOutcome
    BY <2>4, <2>6 DEF RpcInit, HasLink, OnlyLink, OwnOutcome
  <2> QED BY <2>5, <2>7, <2>8 DEF ChannelInv
<1>2. ChannelInv /\ [RpcNext]_rpcVars => ChannelInv'
  BY ChannelStep
<1>3. ChannelInv => OwnReply
  BY DEF ChannelInv, ChannelTypes, OwnOutcome, OwnReply, RpcTypeOK, LinkType
<1> QED BY <1>1, <1>2, <1>3, PTL DEF RpcSpec

-----------------------------------------------------------------------------
(* The fiber runtime. *)

\* A thread that has taken a task; one that has a fiber's context; one that is
\* counted as idle.
Busy == {"call", "run", "adding", "parking", "leaving"}
Carrying == {"run", "adding", "parking", "leaving"}
Idling == {"idle", "wait", "woken"}

\* The variables have their types, and a call has the number of its timer.
FiberTypes ==
    /\ pool \subseteq Worker /\ pool # {}
    /\ pc \in [Worker -> {"look", "none", "idle", "wait", "woken", "call", "run", "adding", "parking", "leaving", "exit"}]
    /\ cur \in [Worker -> Task \cup {NoTask}] /\ \A w \in pool : pc[w] \in Busy => cur[w] \in Task
    /\ saw \in [Worker -> BOOLEAN] /\ ready \in [Worker -> SUBSET Fiber]
    /\ expired \in [Worker -> Seq(Timer)] /\ idleTerm \in [Worker -> BOOLEAN]
    /\ tasks \in Seq(Task) /\ isStopped \in BOOLEAN /\ pipe \in BOOLEAN /\ missed \in BOOLEAN
    /\ state \in [Fiber -> {"none", "READY", "LEAVING", "RUNNING", "TERM"}]
    /\ doing \in [Fiber -> {"user", "sleep", "io", "connect"}]
    /\ call \in [Fiber -> Nat] /\ cancelled \in [Fiber -> BOOLEAN] /\ waits \in [Fiber -> 0..MaxWaits]
    /\ events \subseteq Fiber /\ timers \subseteq Timer /\ due \in Seq(Timer)
    /\ broken \in {"no", "panic", "torn"}

\* Every call with a timer has a number.
CallNumbers == \A f \in Fiber : call[f] <= waits[f] /\ (doing[f] \in {"io", "connect"} => call[f] >= 1)

\* The counters of the scheduler count its threads.
FiberCounts ==
    /\ active = Cardinality({w \in pool : pc[w] \in Busy})
    /\ idle = Cardinality({w \in pool : pc[w] \in Idling})

\* A fiber that runs or leaves is on exactly one thread.
OnOneThread ==
    /\ \A w \in pool : pc[w] \in Carrying =>
          state[cur[w].f] = IF pc[w] = "leaving" THEN "LEAVING" ELSE "RUNNING"
    /\ \A v, w \in pool : pc[v] \in Carrying /\ pc[w] \in Carrying /\ cur[v].f = cur[w].f => v = w
    /\ \A f \in Fiber : state[f] \in {"RUNNING", "LEAVING"} => \E w \in pool : pc[w] \in Carrying /\ cur[w].f = f

\* A fiber is started once.
StartedOnce ==
    \A i, j \in DOMAIN tasks : tasks[i].kind = "start" =>
        /\ state[tasks[i].f] = "none"
        /\ tasks[j].kind = "start" /\ tasks[j].f = tasks[i].f => i = j

\* The fiber has given up its thread, or is about to and has arranged its return.
Parked(f) ==
    state[f] \in {"READY", "LEAVING"} \/ \E w \in pool : pc[w] = "parking" /\ cur[w].f = f

\* Exactly the parked fibers have a waker, and only one.
WakersExact == \A f \in Fiber : Wakers(f) = IF Parked(f) THEN 1 ELSE 0

\* A thread ends its idle fiber only when the scheduler stops, never idles again,
\* and leaves the loop only then; expired callbacks are in its hands only between
\* epoll_wait and the end of the round.
EndsAtStop ==
    \A w \in pool :
        /\ idleTerm[w] => isStopped /\ pc[w] \notin Idling \cup {"none"}
        /\ pc[w] = "exit" => idleTerm[w]
        /\ pc[w] # "woken" => expired[w] = <<>>

\* After the last thread found the scheduler stopping, nothing is left.
NothingLeft ==
    (\A w \in pool : idleTerm[w]) =>
        tasks = <<>> /\ active = 0 /\ timers = {} /\ due = <<>> /\ events = {}

\* Over a queue that is not empty somebody is awake, unless the pipe or the
\* window of Push accounts for it.
SomebodyAwake ==
    tasks # <<>> => pipe \/ missed \/ \E w \in pool : pc[w] \in Busy \cup {"look"}

\* The inductive invariant.
FiberInv ==
    /\ FiberTypes /\ CallNumbers /\ FiberCounts /\ EndsAtStop /\ NothingLeft /\ SomebodyAwake
    /\ broken = "no" => OnOneThread /\ StartedOnce /\ WakersExact
    /\ OneThreadNeverPanics

\* The positions of a queue that resume f are finitely many.
LEMMA QueueCountType ==
    ASSUME NEW q, NEW S, q \in Seq(S), NEW f
    PROVE  /\ IsFiniteSet({i \in DOMAIN q : Resumes(q[i], f)})
           /\ InQueue(q, f) \in Nat
<1>1. Len(q) \in Nat /\ DOMAIN q = 1..Len(q)
  OBVIOUS
<1>2. IsFiniteSet(1..Len(q))
  BY <1>1, FS_Interval
<1>3. {i \in DOMAIN q : Resumes(q[i], f)} \in SUBSET (1..Len(q))
  BY <1>1
<1>4. IsFiniteSet({i \in DOMAIN q : Resumes(q[i], f)})
  BY <1>2, <1>3, FS_Subset
<1> QED BY <1>4, FS_CardinalityType DEF InQueue

\* An empty queue and one of a single task.
LEMMA QueueCountOne ==
    ASSUME NEW f, NEW t
    PROVE  InQueue(<<>>, f) = 0 /\ InQueue(<<t>>, f) = IF Resumes(t, f) THEN 1 ELSE 0
<1>1. {i \in DOMAIN <<>> : Resumes(<<>>[i], f)} = {}
  OBVIOUS
<1>2. {i \in DOMAIN <<t>> : Resumes(<<t>>[i], f)} = IF Resumes(t, f) THEN {1} ELSE {}
  OBVIOUS
<1> QED BY <1>1, <1>2, FS_EmptySet, FS_Singleton DEF InQueue

\* Queues that are appended add their counts.
LEMMA QueueCountConcat ==
    ASSUME NEW S, NEW q \in Seq(S), NEW r \in Seq(S), NEW f
    PROVE  InQueue(q \o r, f) = InQueue(q, f) + InQueue(r, f)
<1> DEFINE A == {i \in DOMAIN q : Resumes(q[i], f)}
           B == {i \in DOMAIN r : Resumes(r[i], f)}
           C == {i \in DOMAIN (q \o r) : Resumes((q \o r)[i], f)}
           n == Len(q)
           D == {i \in C : i > n}
           shift == [i \in B |-> i + n]
<1>1. /\ n \in Nat /\ Len(r) \in Nat /\ DOMAIN q = 1..n /\ DOMAIN r = 1..Len(r)
      /\ DOMAIN (q \o r) = 1..(n + Len(r))
      /\ \A i \in 1..n : (q \o r)[i] = q[i]
      /\ \A i \in 1..Len(r) : (q \o r)[i + n] = r[i]
  OBVIOUS
<1>2. IsFiniteSet(A) /\ IsFiniteSet(B)
  BY QueueCountType
<1>3. C = A \cup D
  BY <1>1
<1>4. A \cap D = {}
  BY <1>1
<1>5. shift \in Bijection(B, D)
  <2>1. \A i \in B : i \in 1..Len(r) /\ i + n \in D
    BY <1>1
  <2>2. shift \in [B -> D]
    BY <2>1
  <2>3. \A i, j \in B : shift[i] = shift[j] => i = j
    <3>1. \A i \in B : i \in Nat /\ shift[i] = i + n
      BY <1>1
    <3> HIDE DEF B, shift, n
    <3> QED BY <1>1, <3>1 DEF n
  <2>4. \A k \in D : \E i \in B : shift[i] = k
    <3>1. ASSUME NEW k \in D PROVE \E i \in B : shift[i] = k
      <4>1. k \in 1..(n + Len(r)) /\ k > n /\ Resumes((q \o r)[k], f)
        BY <1>1
      <4>2. k - n \in 1..Len(r) /\ (k - n) + n = k
        BY <1>1, <4>1
      <4>3. (q \o r)[k] = r[k - n]
        BY <1>1, <4>2
      <4>4. k - n \in B
        BY <1>1, <4>1, <4>2, <4>3
      <4> QED BY <4>2, <4>4
    <3> QED BY <3>1
  <2> HIDE DEF shift, B, D
  <2>5. shift \in Injection(B, D)
    BY <2>2, <2>3 DEF Injection, IsInjective
  <2>6. shift \in Surjection(B, D)
    BY <2>2, <2>4 DEF Surjection
  <2> QED BY <2>5, <2>6 DEF Bijection
<1>9. InQueue(q, f) = Cardinality(A) /\ InQueue(r, f) = Cardinality(B) /\ InQueue(q \o r, f) = Cardinality(C)
  BY DEF InQueue
<1> HIDE DEF A, B, C, D, shift, n
<1>6. IsFiniteSet(D) /\ Cardinality(D) = Cardinality(B)
  <2>1. ExistsBijection(B, D)
    BY <1>5 DEF ExistsBijection
  <2> QED BY <1>2, <2>1, FS_Bijection
<1>7. Cardinality(C) = Cardinality(A) + Cardinality(D) - Cardinality(A \cap D)
  BY <1>2, <1>3, <1>6, FS_Union
<1>8. Cardinality(A) \in Nat /\ Cardinality(B) \in Nat /\ Cardinality(A \cap D) = 0
  BY <1>2, <1>4, FS_CardinalityType, FS_EmptySet
<1> QED BY <1>6, <1>7, <1>8, <1>9

\* A queue is its head and its tail.
LEMMA QueueCountHead ==
    ASSUME NEW S, NEW q \in Seq(S), q # <<>>, NEW f
    PROVE  InQueue(q, f) = (IF Resumes(Head(q), f) THEN 1 ELSE 0) + InQueue(Tail(q), f)
<1>1. <<Head(q)>> \in Seq(S) /\ Tail(q) \in Seq(S)
  OBVIOUS
<1>2. q = <<Head(q)>> \o Tail(q)
  OBVIOUS
<1>3. InQueue(<<Head(q)>> \o Tail(q), f) = InQueue(<<Head(q)>>, f) + InQueue(Tail(q), f)
  BY <1>1, QueueCountConcat
<1> QED BY <1>2, <1>3, QueueCountOne

\* A timeout that is erased does not count.
LEMMA QueueCountErase ==
    ASSUME NEW S, NEW q \in Seq(S), NEW t, NEW f, ~Resumes(t, f)
    PROVE  Erase(q, t) \in Seq(S) /\ InQueue(Erase(q, t), f) = InQueue(q, f)
<1>1. CASE \E i \in DOMAIN q : q[i] = t
  <2> DEFINE n == CHOOSE i \in DOMAIN q : q[i] = t
             a == SubSeq(q, 1, n - 1)
             b == SubSeq(q, n + 1, Len(q))
             tb == SubSeq(q, n, Len(q))
  <2>1. n \in DOMAIN q /\ q[n] = t
    BY <1>1
  <2>2. Erase(q, t) = a \o b
    BY <1>1 DEF Erase, RemoveAt
  <2> HIDE DEF n
  <2>3. n \in 1..Len(q) /\ Len(q) \in Nat /\ t \in S
    BY <2>1
  <2>4. a \in Seq(S) /\ b \in Seq(S) /\ tb \in Seq(S) /\ <<t>> \in Seq(S)
    BY <2>3
  <2>5. tb = <<t>> \o b
    <3>1. Len(q) \in n..Len(q)
      BY <2>3
    <3> QED BY <2>1, <2>3, <3>1, SubSeqRecursiveFirst
  <2>6. q = a \o tb
    <3>1. 1 \in 1..(Len(q) + 1) /\ n - 1 \in (1 - 1)..Len(q) /\ Len(q) \in (n - 1)..Len(q) /\ (n - 1) + 1 = n
      BY <2>3
    <3>2. SubSeq(q, 1, n - 1) \o SubSeq(q, (n - 1) + 1, Len(q)) = SubSeq(q, 1, Len(q))
      BY <3>1, ConcatAdjacentSubSeq
    <3> QED BY <3>1, <3>2, SubSeqFull
  <2> HIDE DEF a, b, tb
  <2>7. InQueue(q, f) = InQueue(a, f) + InQueue(tb, f)
    BY <2>4, <2>6, QueueCountConcat
  <2>8. InQueue(tb, f) = InQueue(<<t>>, f) + InQueue(b, f)
    BY <2>4, <2>5, QueueCountConcat
  <2>9. InQueue(a \o b, f) = InQueue(a, f) + InQueue(b, f)
    BY <2>4, QueueCountConcat
  <2>10. InQueue(<<t>>, f) = 0 /\ InQueue(a, f) \in Nat /\ InQueue(b, f) \in Nat
    BY <2>4, QueueCountOne, QueueCountType
  <2>11. a \o b \in Seq(S)
    BY <2>4
  <2> QED BY <2>2, <2>7, <2>8, <2>9, <2>10, <2>11
<1>2. CASE ~(\E i \in DOMAIN q : q[i] = t)
  BY <1>2 DEF Erase
<1> QED BY <1>1, <1>2

\* The tasks of triggered events resume each of their fibers once.
LEMMA TriggeredCount ==
    ASSUME NEW fs \in SUBSET Fiber, NEW q \in Triggered(fs), NEW f \in Fiber
    PROVE  q \in Seq(Task) /\ InQueue(q, f) = IF f \in fs THEN 1 ELSE 0
<1>1. PICK r \in Orders(fs) : q = [i \in DOMAIN r |-> Of("fiber", r[i])]
  BY DEF Triggered
<1> DEFINE n == Cardinality(fs)
<1>2. IsFiniteSet(fs) /\ n \in Nat
  BY FiberAssumption, FS_Subset, FS_CardinalityType
<1>3. r \in [1..n -> fs] /\ \A i, j \in 1..n : i # j => r[i] # r[j]
  BY <1>1 DEF Orders
<1>4. r \in Injection(1..n, fs)
  BY <1>3 DEF Injection, IsInjective
<1>5. Cardinality(1..n) = n
  BY <1>2, FS_Interval
<1>6. r \in Surjection(1..n, fs)
  BY <1>2, <1>4, <1>5, FS_Injection
<1> HIDE DEF n
<1>7. q = [i \in 1..n |-> Of("fiber", r[i])]
  BY <1>1, <1>3
<1>8. q \in Seq(Task)
  <2>1. \A i \in 1..n : Of("fiber", r[i]) \in Task
    BY <1>3 DEF Of, Task
  <2> QED BY <1>2, <1>7, <2>1
<1>9. \A i \in 1..n : Resumes(q[i], f) <=> r[i] = f
  BY <1>7 DEF Resumes, Of
<1> DEFINE here == {i \in DOMAIN q : Resumes(q[i], f)}
<1>10. here = {i \in 1..n : r[i] = f}
  BY <1>7, <1>9
<1>11. CASE f \in fs
  <2>1. PICK i \in 1..n : r[i] = f
    BY <1>6, <1>11 DEF Surjection
  <2>2. here = {i}
    BY <1>3, <1>10, <2>1
  <2> HIDE DEF here
  <2>3. Cardinality(here) = 1
    BY <2>2, FS_Singleton
  <2> QED BY <1>8, <1>11, <2>3 DEF InQueue, here
<1>12. CASE f \notin fs
  <2>1. here = {}
    BY <1>3, <1>10, <1>12
  <2> HIDE DEF here
  <2>2. Cardinality(here) = 0
    BY <2>1, FS_EmptySet
  <2> QED BY <1>8, <1>12, <2>2 DEF InQueue, here
<1> QED BY <1>11, <1>12

\* A set in which only x may have come or gone.
LEMMA CountChange ==
    ASSUME NEW A, NEW B, NEW x, IsFiniteSet(A), A \ {x} = B \ {x}
    PROVE  /\ IsFiniteSet(B) /\ Cardinality(A) \in Nat /\ Cardinality(B) \in Nat
           /\ Cardinality(B) = Cardinality(A) - (IF x \in A THEN 1 ELSE 0) + (IF x \in B THEN 1 ELSE 0)
<1> DEFINE C == A \ {x}
<1>1. /\ IsFiniteSet(C) /\ Cardinality(A) \in Nat
      /\ Cardinality(C) = IF x \in A THEN Cardinality(A) - 1 ELSE Cardinality(A)
  BY FS_RemoveElement, FS_CardinalityType
<1>2. B = IF x \in B THEN C \cup {x} ELSE C
  OBVIOUS
<1>3. x \notin C
  OBVIOUS
<1> HIDE DEF C
<1>4. IsFiniteSet(C \cup {x}) /\ Cardinality(C \cup {x}) = Cardinality(C) + 1 /\ Cardinality(C) \in Nat
  BY <1>1, <1>3, FS_AddElement, FS_CardinalityType
<1>5. CASE x \in B
  <2>1. B = C \cup {x}
    BY <1>2, <1>5
  <2>2. IsFiniteSet(B) /\ Cardinality(B) = Cardinality(C) + 1
    BY <1>4, <2>1
  <2> QED BY <1>1, <1>4, <1>5, <2>2
<1>6. CASE x \notin B
  <2>1. IsFiniteSet(B) /\ Cardinality(B) = Cardinality(C)
    BY <1>1, <1>2, <1>6
  <2> QED BY <1>1, <1>4, <1>6, <2>1
<1> QED BY <1>5, <1>6

\* Of the timers only that of its sleep resumes a fiber.
LEMMA TimersCount ==
    ASSUME NEW ts \in SUBSET Timer, NEW f \in Fiber
    PROVE  Cardinality({t \in ts : Resumes(t, f)}) = IF Of("wake", f) \in ts THEN 1 ELSE 0
<1> DEFINE A == {t \in ts : Resumes(t, f)}
<1>1. \A t \in Timer : Resumes(t, f) <=> t = Of("wake", f)
  BY DEF Timer, Resumes, Of
<1>2. A = IF Of("wake", f) \in ts THEN {Of("wake", f)} ELSE {}
  BY <1>1
<1> HIDE DEF A
<1>3. Cardinality(A) = IF Of("wake", f) \in ts THEN 1 ELSE 0
  BY <1>2, FS_Singleton, FS_EmptySet
<1> QED BY <1>3 DEF A

\* The expired callbacks that the threads hold, if they are e.
Held(e, f) == Cardinality(UNION {{v} \X {i \in DOMAIN e[v] : Resumes(e[v][i], f)} : v \in pool})

\* The callbacks of one thread add to those of the others.
LEMMA HeldCount ==
    ASSUME pool \subseteq Worker, NEW e \in [Worker -> Seq(Timer)], NEW w \in pool, NEW f
    PROVE  /\ Held(e, f) \in Nat
           /\ Held(e, f) = Held([e EXCEPT ![w] = <<>>], f) + InQueue(e[w], f)
<1> DEFINE P(d, v) == {i \in DOMAIN d[v] : Resumes(d[v][i], f)}
           all(d) == {{v} \X P(d, v) : v \in pool}
           e0 == [e EXCEPT ![w] = <<>>]
<1>1. e0 \in [Worker -> Seq(Timer)] /\ e0[w] = <<>> /\ \A v \in pool : v # w => e0[v] = e[v]
  BY EmptySeq
<1>2. ASSUME NEW d \in [Worker -> Seq(Timer)] PROVE IsFiniteSet(UNION all(d)) /\ \A v \in pool : IsFiniteSet(P(d, v))
  <2>1. ASSUME NEW v \in pool PROVE IsFiniteSet(P(d, v)) /\ IsFiniteSet({v} \X P(d, v))
    <3>1. d[v] \in Seq(Timer)
      OBVIOUS
    <3>2. IsFiniteSet(P(d, v))
      BY <3>1, QueueCountType
    <3> HIDE DEF P
    <3> QED BY <3>2, FS_Product, FS_Singleton
  <2> DEFINE g == [v \in pool |-> {v} \X P(d, v)]
  <2>2. g \in Surjection(pool, all(d))
    BY DEF Surjection
  <2>3. IsFiniteSet(pool)
    BY FiberAssumption, FS_Subset
  <2> HIDE DEF g, P
  <2>4. \A T \in all(d) : IsFiniteSet(T)
    BY <2>1
  <2> HIDE DEF all
  <2>5. IsFiniteSet(all(d))
    BY <2>2, <2>3, FS_Surjection
  <2>6. IsFiniteSet(UNION all(d))
    BY <2>4, <2>5, FS_UNION
  <2> QED BY <2>1, <2>6
<1> DEFINE A == UNION all(e0)
           B == {w} \X P(e, w)
           C == UNION all(e)
<1>3. C = A \cup B
  <2>1. P(e0, w) = {} /\ \A v \in pool : v # w => P(e0, v) = P(e, v)
    BY <1>1
  <2> HIDE DEF P, e0
  <2> QED BY <2>1
<1>4. A \cap B = {}
  <2>1. P(e0, w) = {}
    BY <1>1
  <2> HIDE DEF P, e0
  <2> QED BY <2>1
<1>5. IsFiniteSet(A) /\ IsFiniteSet(C) /\ IsFiniteSet(P(e, w))
  BY <1>1, <1>2
<1>6. Held(e, f) = Cardinality(C) /\ Held(e0, f) = Cardinality(A)
  BY DEF Held
<1>7. InQueue(e[w], f) = Cardinality(P(e, w))
  BY DEF InQueue
<1> HIDE DEF P
<1>8. IsFiniteSet(B) /\ Cardinality(B) = Cardinality(P(e, w)) /\ Cardinality(P(e, w)) \in Nat
  <2>1. IsFiniteSet({w}) /\ Cardinality({w}) = 1
    BY FS_Singleton
  <2>2. IsFiniteSet({w} \X P(e, w)) /\ Cardinality({w} \X P(e, w)) = Cardinality({w}) * Cardinality(P(e, w))
    BY <1>5, <2>1, FS_Product
  <2>3. Cardinality(P(e, w)) \in Nat
    BY <1>5, FS_CardinalityType
  <2> QED BY <2>1, <2>2, <2>3
<1> HIDE DEF A, B, C, e0
<1>9. Cardinality(C) = Cardinality(A) + Cardinality(B) - Cardinality(A \cap B)
  BY <1>3, <1>5, <1>8, FS_Union
<1>10. Cardinality(A) \in Nat /\ Cardinality(C) \in Nat /\ Cardinality(A \cap B) = 0
  BY <1>4, <1>5, FS_CardinalityType, FS_EmptySet
<1> QED BY <1>6, <1>7, <1>8, <1>9, <1>10 DEF e0

-----------------------------------------------------------------------------
(* Types. *)

\* The tasks are timers' callbacks, fibers and starts.
LEMMA TaskKinds ==
    /\ \A f \in Fiber : Of("fiber", f) \in Task /\ Of("start", f) \in Task /\ Of("wake", f) \in Timer
    /\ \A f \in Fiber, n \in 1..MaxWaits : Timeout(f, n) \in Timer
    /\ Timer \subseteq Task
    /\ \A t \in Task : /\ t.f \in Fiber /\ t.kind \in {"fiber", "start", "wake", "timeout"}
                       /\ t.kind = "timeout" => t.call \in 1..MaxWaits /\ t = Timeout(t.f, t.call)
                       /\ t.kind # "timeout" => t = Of(t.kind, t.f)
    /\ NoTask.f = NoFiber /\ NoTask \notin Task /\ NoTask.kind = "none"
  BY FiberAssumption DEF Of, Timeout, Task, Timer, NoTask

\* A queue stays one when tasks are pushed or the first is taken.
LEMMA QueueTypes ==
    ASSUME NEW S, NEW q \in Seq(S)
    PROVE  /\ \A r \in Seq(S) : q \o r \in Seq(S)
           /\ \A t \in S : Append(q, t) \in Seq(S) /\ <<t>> \in Seq(S)
           /\ q # <<>> => Head(q) \in S /\ Tail(q) \in Seq(S)
           /\ <<>> \in Seq(S)
  OBVIOUS

\* Timers are tasks, in a queue too.
LEMMA TimerQueue == Seq(Timer) \subseteq Seq(Task)
  BY TaskKinds, SeqMonotonic

\* A queue from which a timer was erased.
LEMMA EraseType ==
    ASSUME NEW S, NEW q \in Seq(S), NEW t
    PROVE  Erase(q, t) \in Seq(S)
<1>1. CASE \E i \in DOMAIN q : q[i] = t
  <2> DEFINE n == CHOOSE i \in DOMAIN q : q[i] = t
  <2>1. n \in DOMAIN q
    BY <1>1
  <2>2. Erase(q, t) = SubSeq(q, 1, n - 1) \o SubSeq(q, n + 1, Len(q))
    BY <1>1 DEF Erase, RemoveAt
  <2> HIDE DEF n
  <2>3. n \in 1..Len(q) /\ Len(q) \in Nat
    BY <2>1
  <2> QED BY <2>2, <2>3
<1>2. CASE ~(\E i \in DOMAIN q : q[i] = t)
  BY <1>2 DEF Erase
<1> QED BY <1>1, <1>2

\* The number of the call under way is that of a timer.
LEMMA CallNumber ==
    ASSUME FiberTypes, CallNumbers, NEW f \in Fiber
    PROVE  /\ doing[f] \in {"io", "connect"} => Timeout(f, call[f]) \in Timer
           /\ waits[f] < MaxWaits => Timeout(f, call[f] + 1) \in Timer /\ call[f] + 1 \in Nat
  BY FiberAssumption, TaskKinds DEF FiberTypes, CallNumbers

\* The types of what a step changes.
LEMMA TypesOfWorkerStep ==
    ASSUME FiberTypes, NEW w \in pool,
           \/ Take(w) \/ FindNone(w) \/ GoIdle(w) \/ CheckStopping(w) \/ WaitReturns(w)
           \/ Dispatch(w) \/ WakeCallback(w) \/ TimeoutCallback(w)
    PROVE  FiberTypes'
<1>1. CASE Take(w)
  <2>1. Head(tasks) \in Task /\ Tail(tasks) \in Seq(Task) /\ tasks # <<>>
    BY <1>1, QueueTypes DEF FiberTypes, Take
  <2>2. Head(tasks).f \in Fiber
    BY <2>1, TaskKinds
  <2>3. pipe' \in BOOLEAN
    BY <1>1 DEF Take, tickle, FiberTypes
  <2>4. broken' \in {"no", "panic", "torn"}
    BY <1>1 DEF Take, resume
  <2>5. /\ pc' \in [Worker -> {"look", "none", "idle", "wait", "woken", "call", "run", "adding", "parking", "leaving", "exit"}]
        /\ cur' \in [Worker -> Task \cup {NoTask}] /\ \A v \in pool : pc'[v] \in Busy => cur'[v] \in Task
    BY <1>1, <2>1 DEF Take, FiberTypes
  <2>6. state' \in [Fiber -> {"none", "READY", "LEAVING", "RUNNING", "TERM"}]
    BY <1>1, <2>2 DEF Take, FiberTypes
  <2>7. tasks' \in Seq(Task) /\ missed' \in BOOLEAN
    BY <1>1, <2>1 DEF Take, FiberTypes
  <2> QED BY <1>1, <2>3, <2>4, <2>5, <2>6, <2>7 DEF Take, FiberTypes, waitVars
<1>2. CASE FindNone(w)
  BY <1>2 DEF FindNone, FiberTypes, queueVars, fiberVars, waitVars, Busy
<1>3. CASE GoIdle(w)
  BY <1>3 DEF GoIdle, FiberTypes, fiberVars, waitVars, Busy
<1>4. CASE CheckStopping(w)
  BY <1>4 DEF CheckStopping, FiberTypes, fiberVars, waitVars, Busy
<1>5. CASE WaitReturns(w)
  <2>1. ready' \in [Worker -> SUBSET Fiber] /\ saw' \in [Worker -> BOOLEAN]
        /\ expired' \in [Worker -> Seq(Timer)] /\ due' \in Seq(Timer)
    BY <1>5, QueueTypes DEF WaitReturns, FiberTypes
  <2>2. UNCHANGED <<pool, cur, idleTerm, queueVars, isStopped, fiberVars, events, timers, broken>>
        /\ pc' = [pc EXCEPT ![w] = "woken"]
    BY <1>5 DEF WaitReturns
  <2> QED BY <2>1, <2>2 DEF FiberTypes, queueVars, fiberVars, Busy
<1>6. CASE Dispatch(w)
  <2> DEFINE fs == StillRegistered(w)
  <2>1. PICK q \in Triggered(fs) : tasks' = tasks \o (expired[w] \o q)
    BY <1>6 DEF Dispatch
  <2>2. fs \in SUBSET Fiber
    BY DEF StillRegistered, FiberTypes
  <2>3. q \in Seq(Task)
    <3>1. CASE Fiber = {}
      <4>1. fs = {}
        BY <2>2, <3>1
      <4>2. Cardinality(fs) = 0
        BY <4>1, FS_EmptySet
      <4>3. PICK r \in Orders(fs) : q = [i \in DOMAIN r |-> Of("fiber", r[i])]
        BY <2>1 DEF Triggered
      <4>4. r \in [1..0 -> fs]
        BY <4>2, <4>3 DEF Orders
      <4>5. DOMAIN r = 1..0
        BY <4>4
      <4>6. q = [i \in 1..0 |-> Of("fiber", r[i])]
        BY <4>3, <4>5
      <4> QED BY <4>6
    <3>2. CASE \E f \in Fiber : TRUE
      BY <2>1, <2>2, <3>2, TriggeredCount
    <3> QED BY <3>1, <3>2
  <2>4. expired[w] \in Seq(Task) /\ tasks \in Seq(Task)
    BY TimerQueue DEF FiberTypes
  <2>5. tasks' \in Seq(Task)
    BY <2>1, <2>3, <2>4, QueueTypes
  <2>6. pipe' \in BOOLEAN /\ missed' \in BOOLEAN
    BY <1>6 DEF Dispatch, tickle, TicklesOn, FiberTypes
  <2>7. saw' \in [Worker -> BOOLEAN] /\ ready' \in [Worker -> SUBSET Fiber] /\ expired' \in [Worker -> Seq(Timer)]
    BY <1>6, QueueTypes DEF Dispatch, FiberTypes
  <2>8. /\ UNCHANGED <<pool, cur, idleTerm, active, isStopped, fiberVars, timers, due, broken>>
        /\ pc' = [pc EXCEPT ![w] = "look"] /\ events' \subseteq Fiber
    BY <1>6 DEF Dispatch, FiberTypes
  <2> QED BY <2>5, <2>6, <2>7, <2>8 DEF FiberTypes, fiberVars, Busy
<1>7. CASE WakeCallback(w)
  <2>1. cur[w] \in Task
    BY <1>7 DEF WakeCallback, FiberTypes, Busy
  <2>2. Of("fiber", cur[w].f) \in Task
    BY <2>1, TaskKinds
  <2>3. tasks' \in Seq(Task) /\ pipe' \in BOOLEAN /\ missed' \in BOOLEAN
    BY <1>7, <2>2, QueueTypes DEF WakeCallback, Push, tickle, TicklesOn, FiberTypes
  <2>4. /\ UNCHANGED <<pool, saw, ready, expired, idleTerm, isStopped, fiberVars, waitVars, broken>>
        /\ Return(w)
    BY <1>7 DEF WakeCallback
  <2> QED BY <2>3, <2>4 DEF FiberTypes, fiberVars, waitVars, Busy, Return
<1>8. CASE TimeoutCallback(w)
  <2>1. cur[w] \in Task
    BY <1>8 DEF TimeoutCallback, FiberTypes, Busy
  <2>2. cur[w].f \in Fiber /\ Of("fiber", cur[w].f) \in Task
    BY <2>1, TaskKinds
  <2>3. cancelEvent(cur[w]) \in Seq(Task)
    BY <2>2, QueueTypes DEF cancelEvent
  <2>4. tasks' \in Seq(Task) /\ pipe' \in BOOLEAN /\ missed' \in BOOLEAN
    BY <1>8, <2>3, QueueTypes DEF TimeoutCallback, Push, tickle, TicklesOn, FiberTypes
  <2>5. cancelled' \in [Fiber -> BOOLEAN] /\ events' \subseteq Fiber
    <3>1. Live(cur[w]) \in BOOLEAN
      BY <2>2 DEF Live, FiberTypes
    <3> QED BY <1>8, <2>2, <3>1 DEF TimeoutCallback, FiberTypes
  <2>6. /\ UNCHANGED <<pool, saw, ready, expired, idleTerm, isStopped, state, doing, call, waits, timers, due, broken>>
        /\ Return(w)
    BY <1>8 DEF TimeoutCallback
  <2> QED BY <2>4, <2>5, <2>6 DEF FiberTypes, Busy, Return
<1> QED BY <1>1, <1>2, <1>3, <1>4, <1>5, <1>6, <1>7, <1>8

\* The same for the steps of a fiber; its calls keep their numbers.
LEMMA TypesOfFiberStep ==
    ASSUME FiberTypes, CallNumbers, NEW w \in pool, NEW f \in Fiber, FiberStep(w, f)
    PROVE  FiberTypes' /\ CallNumbers'
<1> DEFINE Places == /\ pool' \subseteq Worker /\ pool' # {}
                     /\ pc' \in [Worker -> {"look", "none", "idle", "wait", "woken", "call", "run", "adding", "parking", "leaving", "exit"}]
                     /\ cur' \in [Worker -> Task \cup {NoTask}] /\ \A v \in pool' : pc'[v] \in Busy => cur'[v] \in Task
<1>1. CASE BeginSleep(w, f)
  <2>1. Places
    BY <1>1 DEF BeginSleep, Moves, Runs, FiberTypes, Busy
  <2>2. timers' \subseteq Timer /\ pipe' \in BOOLEAN
    BY <1>1, TaskKinds DEF BeginSleep, addTimer, tickle, FiberTypes
  <2>3. waits' \in [Fiber -> 0..MaxWaits] /\ doing' \in [Fiber -> {"user", "sleep", "io", "connect"}]
    BY <1>1, FiberAssumption DEF BeginSleep, FiberTypes
  <2>4. CallNumbers'
    BY <1>1, <2>3 DEF BeginSleep, CallNumbers, FiberTypes
  <2> QED BY <1>1, <2>1, <2>2, <2>3, <2>4 DEF BeginSleep, FiberTypes
<1>2. ASSUME NEW what \in {"io", "connect"}, NewCall(w, f, what) PROVE FiberTypes' /\ CallNumbers'
  <2>1. Places
    BY <1>2 DEF NewCall, Arm, Moves, Runs, FiberTypes, Busy
  <2>2. timers' \subseteq Timer /\ pipe' \in BOOLEAN
    BY <1>2, CallNumber DEF NewCall, Arm, addTimer, tickle, FiberTypes
  <2>3. /\ waits' \in [Fiber -> 0..MaxWaits] /\ doing' \in [Fiber -> {"user", "sleep", "io", "connect"}]
        /\ call' \in [Fiber -> Nat] /\ cancelled' \in [Fiber -> BOOLEAN]
    BY <1>2, FiberAssumption DEF NewCall, Arm, FiberTypes
  <2>4. CallNumbers'
    BY <1>2, <2>3 DEF NewCall, Arm, CallNumbers, FiberTypes
  <2> QED BY <1>2, <2>1, <2>2, <2>3, <2>4 DEF NewCall, Arm, FiberTypes
<1>3. CASE AddEvent(w, f) \/ Yield(w, f) \/ SwapContext(w, f) \/ Finish(w, f)
  <2>1. Places
    <3>1. CASE AddEvent(w, f)
      BY <3>1 DEF AddEvent, Moves, FiberTypes, Busy
    <3>2. CASE Yield(w, f)
      BY <3>2 DEF Yield, Moves, FiberTypes, Busy
    <3>3. CASE SwapContext(w, f) \/ Finish(w, f)
      <4>1. Return(w) /\ pool' = pool
        BY <3>3 DEF SwapContext, Finish
      <4> QED BY <4>1 DEF Return, FiberTypes, Busy
    <3> QED BY <1>3, <3>1, <3>2, <3>3
  <2>2. events' \subseteq Fiber /\ state' \in [Fiber -> {"none", "READY", "LEAVING", "RUNNING", "TERM"}]
    BY <1>3 DEF AddEvent, Yield, SwapContext, Finish, FiberTypes, fiberVars, waitVars
  <2>3. UNCHANGED <<saw, ready, expired, idleTerm, tasks, pipe, missed, isStopped, doing, call, cancelled, waits, timers, due, broken>>
    BY <1>3 DEF AddEvent, Yield, SwapContext, Finish, fiberVars, waitVars, queueVars
  <2> QED BY <2>1, <2>2, <2>3 DEF FiberTypes, CallNumbers
<1>4. CASE AddEventFails(w, f) \/ AfterSleep(w, f) \/ AfterIo(w, f)
  <2>1. Places
    BY <1>4 DEF AddEventFails, AfterSleep, AfterIo, Moves, Runs, FiberTypes, Busy, threadVars
  <2>2. timers' \subseteq Timer /\ due' \in Seq(Timer)
    BY <1>4, EraseType DEF AddEventFails, AfterSleep, AfterIo, Disarm, FiberTypes, waitVars
  <2>3. doing' = [doing EXCEPT ![f] = "user"]
        /\ UNCHANGED <<saw, ready, expired, idleTerm, tasks, pipe, missed, isStopped, state, call, cancelled, waits, events, broken>>
    BY <1>4 DEF AddEventFails, AfterSleep, AfterIo, queueVars, waitVars, threadVars
  <2> QED BY <2>1, <2>2, <2>3 DEF FiberTypes, CallNumbers
<1>5. CASE RetryIo(w, f)
  <2>1. Places
    BY <1>5 DEF RetryIo, Moves, Runs, FiberTypes, Busy
  <2>2. timers' \subseteq Timer /\ due' \in Seq(Timer)
    BY <1>5, EraseType, CallNumber DEF RetryIo, Runs, FiberTypes
  <2>3. pipe' \in BOOLEAN
    BY <1>5 DEF RetryIo, tickle, FiberTypes
  <2>4. waits' \in [Fiber -> 0..MaxWaits] /\ CallNumbers'
    BY <1>5, FiberAssumption DEF RetryIo, FiberTypes, CallNumbers
  <2> QED BY <1>5, <2>1, <2>2, <2>3, <2>4 DEF RetryIo, FiberTypes
<1>6. ASSUME NEW g \in Fiber, CloseFd(w, f, g) PROVE FiberTypes' /\ CallNumbers'
  <2>1. cancelAll(g) \in Seq(Task)
    BY TaskKinds, QueueTypes DEF cancelAll
  <2>2. tasks' \in Seq(Task) /\ pipe' \in BOOLEAN /\ missed' \in BOOLEAN
    BY <1>6, <2>1, QueueTypes DEF CloseFd, Push, tickle, TicklesOn, FiberTypes
  <2>3. UNCHANGED <<pool, threadVars, isStopped, fiberVars, timers, due, broken>> /\ events' \subseteq Fiber
    BY <1>6 DEF CloseFd, FiberTypes
  <2> QED BY <2>2, <2>3 DEF FiberTypes, CallNumbers, threadVars, fiberVars
<1> QED BY <1>1, <1>2, <1>3, <1>4, <1>5, <1>6 DEF FiberStep, BeginIo, BeginConnect

\* The same for what happens outside of the threads.
LEMMA TypesOfOutside ==
    ASSUME FiberTypes, CallNumbers,
           (\E t \in Timer : FallsDue(t)) \/ (\E f \in Fiber : Schedule(f)) \/ Stop \/ UNCHANGED vars
    PROVE  FiberTypes' /\ CallNumbers'
<1>1. ASSUME NEW t \in Timer, FallsDue(t) PROVE FiberTypes' /\ CallNumbers'
  <2>1. timers' \subseteq Timer /\ due' \in Seq(Timer)
    BY <1>1, QueueTypes DEF FallsDue, FiberTypes
  <2> QED BY <1>1, <2>1 DEF FallsDue, FiberTypes, CallNumbers, threadVars, queueVars, fiberVars
<1>2. ASSUME NEW f \in Fiber, Schedule(f) PROVE FiberTypes' /\ CallNumbers'
  <2>1. tasks' \in Seq(Task) /\ pipe' \in BOOLEAN /\ missed' \in BOOLEAN
    BY <1>2, TaskKinds, QueueTypes DEF Schedule, Push, tickle, TicklesOn, FiberTypes
  <2> QED BY <1>2, <2>1 DEF Schedule, FiberTypes, CallNumbers, threadVars, fiberVars, waitVars
<1>3. CASE Stop \/ UNCHANGED vars
  <2>1. pipe' \in BOOLEAN /\ isStopped' \in BOOLEAN
    BY <1>3 DEF Stop, tickle, vars, queueVars, FiberTypes
  <2> QED BY <1>3, <2>1 DEF Stop, vars, FiberTypes, CallNumbers, threadVars, queueVars, fiberVars, waitVars
<1> QED BY <1>1, <1>2, <1>3

\* Every step keeps the types.
LEMMA FiberTypesStep ==
    ASSUME FiberTypes, CallNumbers, [Next]_vars
    PROVE  FiberTypes' /\ CallNumbers'
<1>1. ASSUME NEW w \in pool, WorkerStep(w) PROVE FiberTypes' /\ CallNumbers'
  <2>1. ASSUME NEW f \in Fiber, FiberStep(w, f) PROVE FiberTypes' /\ CallNumbers'
    BY <2>1, TypesOfFiberStep
  <2>2. CASE \/ Take(w) \/ FindNone(w) \/ GoIdle(w) \/ CheckStopping(w) \/ WaitReturns(w)
             \/ Dispatch(w) \/ WakeCallback(w) \/ TimeoutCallback(w)
    <3>1. UNCHANGED <<doing, call, waits>>
      BY <2>2 DEF Take, FindNone, GoIdle, CheckStopping, WaitReturns, Dispatch, WakeCallback, TimeoutCallback, fiberVars
    <3> QED BY <2>2, <3>1, TypesOfWorkerStep DEF CallNumbers
  <2> QED BY <1>1, <2>1, <2>2 DEF WorkerStep
<1> QED BY <1>1, TypesOfOutside DEF Next

-----------------------------------------------------------------------------
(* The threads and their counters. *)

\* A step of thread w leaves the others where they are.
Apart(w) ==
    /\ pool' = pool
    /\ \A v \in pool : v # w =>
          pc'[v] = pc[v] /\ cur'[v] = cur[v] /\ idleTerm'[v] = idleTerm[v] /\ expired'[v] = expired[v]

\* Whether thread w counts as active, or as idle.
ActiveOne(w) == IF pc[w] \in Busy THEN 1 ELSE 0
IdleOne(w) == IF pc[w] \in Idling THEN 1 ELSE 0

\* The counters are numbers, and zero when there is nothing to count.
LEMMA CountsType ==
    ASSUME FiberTypes, FiberCounts
    PROVE  /\ IsFiniteSet(pool) /\ active \in Nat /\ idle \in Nat
           /\ active = 0 => \A w \in pool : pc[w] \notin Busy
           /\ idle = 0 => \A w \in pool : pc[w] \notin Idling
           /\ active <= Cardinality(pool) /\ idle <= Cardinality(pool)
<1> DEFINE A == {w \in pool : pc[w] \in Busy}
           B == {w \in pool : pc[w] \in Idling}
<1>1. IsFiniteSet(pool)
  BY FiberAssumption, FS_Subset DEF FiberTypes
<1>2. A \in SUBSET pool /\ B \in SUBSET pool /\ active = Cardinality(A) /\ idle = Cardinality(B)
  BY DEF FiberCounts
<1>3. /\ \A w \in pool : pc[w] \in Busy => w \in A
      /\ \A w \in pool : pc[w] \in Idling => w \in B
  OBVIOUS
<1> HIDE DEF A, B
<1>4. IsFiniteSet(A) /\ IsFiniteSet(B) /\ Cardinality(A) <= Cardinality(pool) /\ Cardinality(B) <= Cardinality(pool)
  BY <1>1, <1>2, FS_Subset
<1>5. Cardinality(A) \in Nat /\ Cardinality(B) \in Nat
  BY <1>4, FS_CardinalityType
<1>6. (Cardinality(A) = 0 => A = {}) /\ (Cardinality(B) = 0 => B = {})
  BY <1>4, FS_EmptySet
<1> QED BY <1>1, <1>2, <1>3, <1>4, <1>5, <1>6

\* The counters go on counting if they follow the one thread that moves.
LEMMA CountsFollow ==
    ASSUME FiberTypes, FiberCounts, NEW w \in pool, Apart(w),
           active' = active - ActiveOne(w) + ActiveOne(w)',
           idle' = idle - IdleOne(w) + IdleOne(w)'
    PROVE  FiberCounts'
<1> DEFINE A == {v \in pool : pc[v] \in Busy}
           B == {v \in pool : pc[v] \in Idling}
           A1 == {v \in pool : pc'[v] \in Busy}
           B1 == {v \in pool : pc'[v] \in Idling}
<1>1. IsFiniteSet(pool)
  BY CountsType
<1>2. A \in SUBSET pool /\ B \in SUBSET pool /\ active = Cardinality(A) /\ idle = Cardinality(B)
  BY DEF FiberCounts
<1>3. /\ A \ {w} = A1 \ {w} /\ (w \in A <=> pc[w] \in Busy) /\ (w \in A1 <=> pc'[w] \in Busy)
      /\ B \ {w} = B1 \ {w} /\ (w \in B <=> pc[w] \in Idling) /\ (w \in B1 <=> pc'[w] \in Idling)
  BY DEF Apart
<1>4. FiberCounts' <=> active' = Cardinality(A1) /\ idle' = Cardinality(B1)
  BY DEF FiberCounts, Apart, Busy, Idling
<1> HIDE DEF A, B, A1, B1
<1>5. IsFiniteSet(A) /\ IsFiniteSet(B)
  BY <1>1, <1>2, FS_Subset
<1>6. Cardinality(A1) = Cardinality(A) - (IF w \in A THEN 1 ELSE 0) + (IF w \in A1 THEN 1 ELSE 0)
  BY <1>3, <1>5, CountChange
<1>7. Cardinality(B1) = Cardinality(B) - (IF w \in B THEN 1 ELSE 0) + (IF w \in B1 THEN 1 ELSE 0)
  BY <1>3, <1>5, CountChange
<1>8. /\ ActiveOne(w) = (IF w \in A THEN 1 ELSE 0) /\ ActiveOne(w)' = (IF w \in A1 THEN 1 ELSE 0)
      /\ IdleOne(w) = (IF w \in B THEN 1 ELSE 0) /\ IdleOne(w)' = (IF w \in B1 THEN 1 ELSE 0)
  BY <1>3 DEF ActiveOne, IdleOne, Busy, Idling
<1> QED BY <1>2, <1>4, <1>6, <1>7, <1>8

\* Every step of a thread keeps the counters right, and what its idle fiber knows.
LEMMA ThreadStep ==
    ASSUME FiberTypes, FiberCounts, EndsAtStop, NEW w \in pool, WorkerStep(w)
    PROVE  /\ Apart(w) /\ isStopped' = isStopped
           /\ FiberCounts' /\ EndsAtStop'
<1>0. active \in Int /\ idle \in Int /\ w \in Worker
  BY CountsType DEF FiberTypes
<1> DEFINE Quit == /\ idleTerm'[w] => isStopped /\ pc'[w] \notin Idling \cup {"none"}
                   /\ pc'[w] = "exit" => idleTerm'[w]
                   /\ pc'[w] # "woken" => expired'[w] = <<>>
           Goal == /\ Apart(w) /\ isStopped' = isStopped /\ Quit
                   /\ active' = active - ActiveOne(w) + ActiveOne(w)'
                   /\ idle' = idle - IdleOne(w) + IdleOne(w)'
<1>1. ASSUME Take(w) PROVE Goal
  BY <1>0, <1>1 DEF Take, Apart, ActiveOne, IdleOne, Busy, Idling, FiberTypes, EndsAtStop
<1>2. ASSUME FindNone(w) PROVE Goal
  BY <1>0, <1>2 DEF FindNone, Apart, ActiveOne, IdleOne, Busy, Idling, FiberTypes, EndsAtStop, queueVars
<1>3. ASSUME GoIdle(w) PROVE Goal
  BY <1>0, <1>3 DEF GoIdle, Apart, ActiveOne, IdleOne, Busy, Idling, FiberTypes, EndsAtStop
<1>4. ASSUME CheckStopping(w) PROVE Goal
  BY <1>0, <1>4 DEF CheckStopping, stopping, Apart, ActiveOne, IdleOne, Busy, Idling, FiberTypes, EndsAtStop
<1>5. ASSUME WaitReturns(w) PROVE Goal
  BY <1>0, <1>5 DEF WaitReturns, Apart, ActiveOne, IdleOne, Busy, Idling, FiberTypes, EndsAtStop, queueVars
<1>6. ASSUME Dispatch(w) PROVE Goal
  <2>1. /\ pc[w] = "woken" /\ pc' = [pc EXCEPT ![w] = "look"] /\ expired' = [expired EXCEPT ![w] = <<>>]
        /\ idle' = idle - 1 /\ UNCHANGED <<pool, cur, idleTerm, active, isStopped>>
    BY <1>6 DEF Dispatch
  <2> QED BY <1>0, <2>1 DEF Apart, ActiveOne, IdleOne, Busy, Idling, FiberTypes, EndsAtStop
<1>7. ASSUME WakeCallback(w) \/ TimeoutCallback(w) PROVE Goal
  <2>1. pc[w] = "call" /\ Return(w) /\ UNCHANGED <<pool, expired, idleTerm, idle, isStopped>>
    BY <1>7 DEF WakeCallback, TimeoutCallback
  <2> QED BY <1>0, <2>1 DEF Return, Apart, ActiveOne, IdleOne, Busy, Idling, FiberTypes, EndsAtStop
<1>8. ASSUME NEW f \in Fiber, FiberStep(w, f) PROVE Goal
  <2>1. CASE SwapContext(w, f) \/ Finish(w, f)
    <3>1. pc[w] \in {"leaving", "run"} /\ Return(w) /\ UNCHANGED <<pool, expired, idleTerm, idle, isStopped>>
      BY <2>1 DEF SwapContext, Finish, Runs
    <3> QED BY <1>0, <3>1 DEF Return, Apart, ActiveOne, IdleOne, Busy, Idling, FiberTypes, EndsAtStop
  <2>2. CASE ~(SwapContext(w, f) \/ Finish(w, f))
    <3>1. /\ \E x \in Carrying : pc' = [pc EXCEPT ![w] = x]
          /\ pc[w] \in Carrying /\ UNCHANGED <<pool, cur, expired, idleTerm, active, idle, isStopped>>
      <4>1. CASE BeginSleep(w, f) \/ AddEvent(w, f) \/ AddEventFails(w, f) \/ Yield(w, f) \/ RetryIo(w, f)
        BY <4>1 DEF BeginSleep, AddEvent, AddEventFails, Yield, RetryIo, Runs, Moves, Carrying, queueVars
      <4>2. CASE BeginIo(w, f) \/ BeginConnect(w, f)
        BY <4>2 DEF BeginIo, BeginConnect, NewCall, Arm, Runs, Moves, Carrying
      <4>3. CASE AfterSleep(w, f) \/ AfterIo(w, f) \/ \E g \in Fiber : CloseFd(w, f, g)
        <5>1. pc[w] = "run" /\ UNCHANGED <<pool, pc, cur, expired, idleTerm, active, idle, isStopped>>
          BY <4>3 DEF AfterSleep, AfterIo, CloseFd, Runs, threadVars, queueVars
        <5>2. pc = [pc EXCEPT ![w] = pc[w]]
          BY DEF FiberTypes
        <5> QED BY <5>1, <5>2 DEF Carrying
      <4> QED BY <1>8, <2>2, <4>1, <4>2, <4>3 DEF FiberStep
    <3> QED BY <1>0, <3>1 DEF Carrying, Apart, ActiveOne, IdleOne, Busy, Idling, FiberTypes, EndsAtStop
  <2> QED BY <2>1, <2>2
<1>9. Goal
  BY <1>1, <1>2, <1>3, <1>4, <1>5, <1>6, <1>7, <1>8 DEF WorkerStep
<1>10. EndsAtStop'
  BY <1>9 DEF EndsAtStop, Apart, Idling
<1>11. FiberCounts'
  BY <1>9, CountsFollow
<1> QED BY <1>9, <1>10, <1>11

\* Once every thread has ended its idle fiber there is nothing left, and only
\* leaving the loop is left to do.
LEMMA NothingLeftStep ==
    ASSUME FiberTypes, FiberCounts, EndsAtStop, NothingLeft, [Next]_vars
    PROVE  NothingLeft'
<1>1. ASSUME NEW w \in pool, WorkerStep(w) PROVE NothingLeft'
  <2> SUFFICES ASSUME \A v \in pool' : idleTerm'[v]
               PROVE  tasks' = <<>> /\ active' = 0 /\ timers' = {} /\ due' = <<>> /\ events' = {}
    BY DEF NothingLeft
  <2>1. Apart(w)
    BY <1>1, ThreadStep
  <2>2. CASE CheckStopping(w)
    <3>1. CASE stopping
      BY <2>2, <3>1 DEF CheckStopping, stopping, waitVars
    <3>2. CASE ~stopping
      <4>1. idleTerm' = idleTerm /\ UNCHANGED <<tasks, active, waitVars>> /\ pool' = pool
        BY <2>2, <3>2 DEF CheckStopping
      <4> QED BY <4>1 DEF NothingLeft, waitVars
    <3> QED BY <3>1, <3>2
  <2>3. CASE ~CheckStopping(w)
    <3>1. idleTerm' = idleTerm
      BY <1>1, <2>3 DEF WorkerStep, FiberStep, Take, FindNone, GoIdle, WaitReturns, Dispatch, WakeCallback,
         TimeoutCallback, BeginSleep, BeginIo, BeginConnect, NewCall, Arm, AddEvent, AddEventFails, Yield,
         SwapContext, AfterSleep, AfterIo, RetryIo, Finish, CloseFd, threadVars
    <3>2. \A v \in pool : idleTerm[v]
      BY <2>1, <3>1 DEF Apart
    <3>3. tasks = <<>> /\ active = 0 /\ timers = {} /\ due = <<>> /\ events = {}
      BY <3>2 DEF NothingLeft
    <3>4. pc[w] \notin Busy /\ pc[w] \notin Idling \cup {"none"}
      BY <3>2, <3>3, CountsType DEF EndsAtStop
    <3>5. FindNone(w)
      BY <1>1, <3>3, <3>4 DEF WorkerStep, FiberStep, Take, GoIdle, CheckStopping, WaitReturns, Dispatch,
         WakeCallback, TimeoutCallback, BeginSleep, BeginIo, BeginConnect, NewCall, AddEvent, AddEventFails, Yield,
         SwapContext, AfterSleep, AfterIo, RetryIo, Finish, CloseFd, Runs, Busy, Idling
    <3> QED BY <3>3, <3>5 DEF FindNone, queueVars, waitVars
  <2> QED BY <2>2, <2>3
<1>2. ASSUME NEW t \in Timer, FallsDue(t) PROVE NothingLeft'
  BY <1>2 DEF FallsDue, NothingLeft, threadVars, queueVars
<1>3. ASSUME NEW f \in Fiber, Schedule(f) PROVE NothingLeft'
  <2>1. ~isStopped /\ pool' = pool /\ idleTerm' = idleTerm
    BY <1>3 DEF Schedule, threadVars
  <2> QED BY <2>1 DEF NothingLeft, EndsAtStop, FiberTypes
<1>4. CASE Stop \/ UNCHANGED vars
  BY <1>4 DEF Stop, vars, NothingLeft, threadVars, queueVars, waitVars
<1> QED BY <1>1, <1>2, <1>3, <1>4 DEF Next

\* A thread that wakes another, or keeps awake, while the queue is not empty.
LEMMA SomebodyAwakeStep ==
    ASSUME FiberTypes, FiberCounts, EndsAtStop, SomebodyAwake, [Next]_vars
    PROVE  SomebodyAwake'
<1>1. ASSUME NEW w \in pool, WorkerStep(w) PROVE SomebodyAwake'
  <2>1. Apart(w)
    BY <1>1, ThreadStep
  <2>2. CASE FindNone(w)
    BY <2>2 DEF FindNone, queueVars, SomebodyAwake
  <2>3. CASE GoIdle(w) \/ CheckStopping(w) \/ WaitReturns(w)
    <3>1. pc[w] \notin Busy \cup {"look"} /\ UNCHANGED <<tasks, pipe, missed>>
      BY <2>3 DEF GoIdle, CheckStopping, WaitReturns, queueVars, Busy
    <3> QED BY <2>1, <3>1 DEF SomebodyAwake, Apart, Busy
  <2>4. CASE ~(FindNone(w) \/ GoIdle(w) \/ CheckStopping(w) \/ WaitReturns(w))
    <3>1. pc'[w] \in Busy \cup {"look"}
      <4>1. CASE Take(w) \/ Dispatch(w) \/ WakeCallback(w) \/ TimeoutCallback(w)
        BY <4>1 DEF Take, Dispatch, WakeCallback, TimeoutCallback, Return, FiberTypes, Busy
      <4>2. ASSUME NEW f \in Fiber, FiberStep(w, f) PROVE pc'[w] \in Busy \cup {"look"}
        BY <4>2 DEF FiberStep, BeginSleep, BeginIo, BeginConnect, NewCall, Arm, AddEvent, AddEventFails, Yield,
           SwapContext, AfterSleep, AfterIo, RetryIo, Finish, CloseFd, Runs, Moves, Return, FiberTypes, Busy, threadVars
      <4> QED BY <1>1, <2>4, <4>1, <4>2 DEF WorkerStep
    <3> QED BY <2>1, <3>1 DEF SomebodyAwake, Apart, Busy
  <2> QED BY <2>2, <2>3, <2>4
<1>2. ASSUME NEW f \in Fiber, Schedule(f) PROVE SomebodyAwake'
  <2>1. /\ ~isStopped /\ UNCHANGED <<pool, pc>>
        /\ pipe' = (pipe \/ (TicklesOn(<<Of("start", f)>>) /\ idle > 0))
        /\ missed' = (missed \/ (<<Of("start", f)>> # <<>> /\ idle = 0 /\ \E w \in pool : pc[w] = "none"))
    BY <1>2 DEF Schedule, Push, tickle, threadVars
  <2>2. <<Of("start", f)>> # <<>>
    OBVIOUS
  <2>3. CASE tasks # <<>>
    BY <2>1, <2>3 DEF SomebodyAwake, Busy
  <2>4. CASE tasks = <<>>
    <3>1. pipe' \/ idle = 0
      <4>1. idle > 0 \/ idle = 0
        BY CountsType
      <4>2. TicklesOn(<<Of("start", f)>>)
        BY <2>2, <2>4 DEF TicklesOn
      <4>3. idle > 0 => pipe'
        BY <2>1, <4>2
      <4> QED BY <4>1, <4>3
    <3>2. ASSUME idle = 0, ~missed' PROVE \E w \in pool : pc[w] \in Busy \cup {"look"}
      <4>1. \A w \in pool : pc[w] \notin Idling \cup {"none", "exit"}
        BY <2>1, <2>2, <3>2, CountsType DEF EndsAtStop
      <4>2. PICK w : w \in pool
        BY DEF FiberTypes
      <4>3. pc[w] \in Busy \cup {"look"}
        BY <4>1, <4>2 DEF FiberTypes, Busy, Idling
      <4> QED BY <4>2, <4>3
    <3> QED BY <2>1, <3>1, <3>2 DEF SomebodyAwake, Busy
  <2> QED BY <2>3, <2>4
<1>3. CASE (\E t \in Timer : FallsDue(t)) \/ Stop \/ UNCHANGED vars
  <2>1. UNCHANGED <<pool, pc, tasks, missed>>
    BY <1>3 DEF FallsDue, Stop, vars, threadVars, queueVars
  <2>2. pipe' = pipe \/ pipe' = tickle(TRUE)
    BY <1>3 DEF FallsDue, Stop, vars, queueVars
  <2>3. pipe => pipe'
    BY <2>2 DEF tickle
  <2> QED BY <2>1, <2>3 DEF SomebodyAwake, Busy
<1> QED BY <1>1, <1>2, <1>3 DEF Next

-----------------------------------------------------------------------------
(* Fibers and their threads. *)

\* What a step of fiber f on thread w does to both: it stays on the thread, or
\* the thread goes back to run() and the fiber is parked or done.
CarrierMoves(w, f) ==
    /\ pc[w] \in Carrying /\ cur[w].f = f
    /\ \A g \in Fiber : g # f => state'[g] = state[g]
    /\ \/ /\ pc'[w] \in Carrying /\ cur'[w] = cur[w]
          /\ state'[f] = IF pc'[w] = "leaving" THEN "LEAVING" ELSE "RUNNING"
       \/ pc'[w] = "look" /\ state'[f] \in {"READY", "TERM"}

\* Every step of a fiber is such a move.
LEMMA CarrierStep ==
    ASSUME FiberTypes, OnOneThread, NEW w \in pool, NEW f \in Fiber, FiberStep(w, f)
    PROVE  CarrierMoves(w, f)
<1>0. w \in Worker /\ (pc[w] \in Carrying /\ cur[w].f = f
         => state[f] = IF pc[w] = "leaving" THEN "LEAVING" ELSE "RUNNING")
  BY DEF FiberTypes, OnOneThread
<1>1. CASE BeginSleep(w, f) \/ AddEvent(w, f) \/ AddEventFails(w, f) \/ RetryIo(w, f)
  BY <1>0, <1>1 DEF BeginSleep, AddEvent, AddEventFails, RetryIo, Runs, Moves, Carrying, FiberTypes, CarrierMoves, fiberVars
<1>2. CASE BeginIo(w, f) \/ BeginConnect(w, f)
  BY <1>0, <1>2 DEF BeginIo, BeginConnect, NewCall, Arm, Runs, Moves, Carrying, FiberTypes, CarrierMoves
<1>3. CASE Yield(w, f)
  BY <1>0, <1>3 DEF Yield, Moves, Carrying, FiberTypes, CarrierMoves
<1>4. CASE SwapContext(w, f) \/ Finish(w, f)
  BY <1>0, <1>4 DEF SwapContext, Finish, Return, Runs, Carrying, FiberTypes, CarrierMoves
<1>5. CASE AfterSleep(w, f) \/ AfterIo(w, f) \/ \E g \in Fiber : CloseFd(w, f, g)
  BY <1>0, <1>5 DEF AfterSleep, AfterIo, CloseFd, Runs, threadVars, fiberVars, Carrying, FiberTypes, CarrierMoves
<1> QED BY <1>1, <1>2, <1>3, <1>4, <1>5 DEF FiberStep

\* A task that is taken without a panic brings a fiber that is on no thread.
LEMMA TakenIsFree ==
    ASSUME FiberTypes, OnOneThread, StartedOnce, NEW w \in pool, Take(w), broken' = "no"
    PROVE  /\ tasks # <<>> /\ Head(tasks) \in Task /\ Head(tasks) = tasks[1] /\ 1 \in DOMAIN tasks
           /\ Head(tasks).kind = "fiber" => state[Head(tasks).f] = "READY"
           /\ Head(tasks).kind = "start" => state[Head(tasks).f] = "none"
           /\ Head(tasks).kind \in {"fiber", "start"} =>
                 \A v \in pool : pc[v] \in Carrying => cur[v].f # Head(tasks).f
<1>1. tasks # <<>> /\ tasks \in Seq(Task)
  BY DEF Take, FiberTypes
<1>2. Head(tasks) \in Task /\ Head(tasks) = tasks[1] /\ 1 \in DOMAIN tasks
  BY <1>1
<1>3. Head(tasks).kind = "fiber" => state[Head(tasks).f] = "READY"
  BY DEF Take, resume
<1>4. Head(tasks).kind = "start" => state[Head(tasks).f] = "none"
  BY <1>2 DEF StartedOnce
<1> QED BY <1>1, <1>2, <1>3, <1>4 DEF OnOneThread

\* A fiber stays on one thread.
LEMMA OnOneThreadStep ==
    ASSUME FiberTypes, FiberCounts, EndsAtStop, OnOneThread, StartedOnce, [Next]_vars, broken' = "no"
    PROVE  OnOneThread'
<1>1. ASSUME NEW w \in pool, WorkerStep(w) PROVE OnOneThread'
  <2>0. Apart(w) /\ w \in Worker
    BY <1>1, ThreadStep DEF FiberTypes
  <2>1. CASE Take(w)
    <3> DEFINE t == Head(tasks)
    <3>1. /\ t \in Task
          /\ t.kind \in {"fiber", "start"} => \A v \in pool : pc[v] \in Carrying => cur[v].f # t.f
      BY <2>1, TakenIsFree
    <3>2. t.f \in Fiber /\ t.kind \in {"fiber", "start", "wake", "timeout"}
      BY <3>1, TaskKinds
    <3>3. /\ pc[w] = "look" /\ cur'[w] = t
          /\ pc'[w] = IF t.kind \in {"fiber", "start"} THEN "run" ELSE "call"
          /\ state' = IF t.kind \in {"fiber", "start"} THEN [state EXCEPT ![t.f] = "RUNNING"] ELSE state
      BY <2>0, <2>1 DEF Take, FiberTypes
    <3> HIDE DEF t
    <3>4. CASE t.kind \in {"fiber", "start"}
      <4>1. /\ pc'[w] = "run" /\ state'[t.f] = "RUNNING" /\ \A g \in Fiber : g # t.f => state'[g] = state[g]
        BY <3>2, <3>3, <3>4 DEF FiberTypes
      <4>2. \A v \in pool : pc[v] \in Carrying => cur[v].f \in Fiber /\ v # w
        BY <3>3, TaskKinds DEF FiberTypes, Busy, Carrying
      <4>3. pool' = pool /\ \A v \in pool : v # w => pc'[v] = pc[v] /\ cur'[v] = cur[v]
        BY <2>0 DEF Apart
      <4>4. \A v \in pool : pc'[v] \in Carrying => state'[cur'[v].f] = IF pc'[v] = "leaving" THEN "LEAVING" ELSE "RUNNING"
        BY <3>1, <3>3, <3>4, <4>1, <4>2, <4>3 DEF OnOneThread
      <4>5. \A u, v \in pool : pc'[u] \in Carrying /\ pc'[v] \in Carrying /\ cur'[u].f = cur'[v].f => u = v
        BY <3>1, <3>3, <3>4, <4>2, <4>3 DEF OnOneThread
      <4>6. \A g \in Fiber : state'[g] \in {"RUNNING", "LEAVING"} => \E v \in pool : pc'[v] \in Carrying /\ cur'[v].f = g
        <5>1. ASSUME NEW g \in Fiber, state'[g] \in {"RUNNING", "LEAVING"}, g # t.f
              PROVE  \E v \in pool : pc'[v] \in Carrying /\ cur'[v].f = g
          <6>1. PICK v \in pool : pc[v] \in Carrying /\ cur[v].f = g
            BY <4>1, <5>1 DEF OnOneThread
          <6> QED BY <4>2, <4>3, <6>1
        <5>2. pc'[w] \in Carrying /\ cur'[w].f = t.f
          BY <3>3, <4>1 DEF Carrying
        <5> QED BY <5>1, <5>2
      <4> QED BY <4>3, <4>4, <4>5, <4>6 DEF OnOneThread, Carrying
    <3>5. CASE t.kind \notin {"fiber", "start"}
      <4>1. pc[w] \notin Carrying /\ pc'[w] \notin Carrying /\ state' = state
        BY <3>3, <3>5 DEF Carrying
      <4> QED BY <2>0, <4>1 DEF OnOneThread, Apart, Carrying
    <3> QED BY <3>4, <3>5
  <2>2. CASE \/ FindNone(w) \/ GoIdle(w) \/ CheckStopping(w) \/ WaitReturns(w)
             \/ Dispatch(w) \/ WakeCallback(w) \/ TimeoutCallback(w)
    <3>1. pc[w] \notin Carrying /\ pc'[w] \notin Carrying /\ state' = state
      BY <2>0, <2>2 DEF FindNone, GoIdle, CheckStopping, WaitReturns, Dispatch, WakeCallback,
         TimeoutCallback, Return, fiberVars, Carrying, FiberTypes
    <3> QED BY <2>0, <3>1 DEF OnOneThread, Apart, Carrying
  <2>3. ASSUME NEW f \in Fiber, FiberStep(w, f) PROVE OnOneThread'
    <3>1. CarrierMoves(w, f)
      BY <2>3, CarrierStep
    <3>2. \A v \in pool : pc[v] \in Carrying => cur[v].f \in Fiber
      BY TaskKinds DEF FiberTypes, Busy, Carrying
    <3>3. pool' = pool /\ \A v \in pool : v # w => pc'[v] = pc[v] /\ cur'[v] = cur[v]
      BY <2>0 DEF Apart
    <3>4. \A v \in pool : v # w /\ pc[v] \in Carrying => cur[v].f # f
      BY <3>1 DEF OnOneThread, CarrierMoves
    <3>5. \A v \in pool : pc'[v] \in Carrying => state'[cur'[v].f] = IF pc'[v] = "leaving" THEN "LEAVING" ELSE "RUNNING"
      BY <3>1, <3>2, <3>3, <3>4 DEF OnOneThread, CarrierMoves, Carrying
    <3>6. \A u, v \in pool : pc'[u] \in Carrying /\ pc'[v] \in Carrying /\ cur'[u].f = cur'[v].f => u = v
      BY <3>1, <3>3, <3>4 DEF OnOneThread, CarrierMoves, Carrying
    <3>7. \A g \in Fiber : state'[g] \in {"RUNNING", "LEAVING"} => \E v \in pool : pc'[v] \in Carrying /\ cur'[v].f = g
      BY <3>1, <3>3 DEF OnOneThread, CarrierMoves, Carrying
    <3> QED BY <3>3, <3>5, <3>6, <3>7 DEF OnOneThread, Carrying
  <2> QED BY <1>1, <2>1, <2>2, <2>3 DEF WorkerStep
<1>2. CASE (\E t \in Timer : FallsDue(t)) \/ (\E f \in Fiber : Schedule(f)) \/ Stop \/ UNCHANGED vars
  <2>1. UNCHANGED <<pool, pc, cur, state>>
    BY <1>2 DEF FallsDue, Schedule, Stop, vars, threadVars, fiberVars
  <2> QED BY <2>1 DEF OnOneThread, Carrying
<1> QED BY <1>1, <1>2 DEF Next

\* Pushing tasks that start nobody keeps the starts apart.
LEMMA StartsKept ==
    ASSUME FiberTypes, StartedOnce, NEW r \in Seq(Task), tasks' = tasks \o r,
           \A i \in DOMAIN r : r[i].kind # "start",
           \A g \in Fiber : state[g] = "none" => state'[g] = "none"
    PROVE  StartedOnce'
<1>1. tasks \in Seq(Task)
  BY DEF FiberTypes
<1>2. \A i \in DOMAIN tasks' : tasks'[i].kind = "start" => i \in DOMAIN tasks /\ tasks'[i] = tasks[i]
  <2> SUFFICES ASSUME NEW i \in DOMAIN (tasks \o r), (tasks \o r)[i].kind = "start"
               PROVE  i \in DOMAIN tasks /\ (tasks \o r)[i] = tasks[i]
    OBVIOUS
  <2>1. CASE i <= Len(tasks)
    BY <1>1, <2>1
  <2>2. CASE i > Len(tasks)
    <3>1. i - Len(tasks) \in DOMAIN r /\ (tasks \o r)[i] = r[i - Len(tasks)]
      BY <1>1, <2>2
    <3> QED BY <3>1
  <2> QED BY <1>1, <2>1, <2>2
<1>3. \A i \in DOMAIN tasks : tasks[i].f \in Fiber
  BY <1>1, TaskKinds
<1> SUFFICES ASSUME NEW i \in DOMAIN tasks', NEW j \in DOMAIN tasks', tasks'[i].kind = "start"
             PROVE  /\ state'[tasks'[i].f] = "none"
                    /\ tasks'[j].kind = "start" /\ tasks'[j].f = tasks'[i].f => i = j
  BY DEF StartedOnce
<1>4. i \in DOMAIN tasks /\ tasks'[i] = tasks[i] /\ tasks[i].kind = "start"
  BY <1>2
<1>5. state'[tasks'[i].f] = "none"
  BY <1>3, <1>4 DEF StartedOnce
<1>6. ASSUME tasks'[j].kind = "start", tasks'[j].f = tasks'[i].f PROVE i = j
  <2>1. j \in DOMAIN tasks /\ tasks'[j] = tasks[j]
    BY <1>2, <1>6
  <2> QED BY <1>4, <1>6, <2>1 DEF StartedOnce
<1> QED BY <1>5, <1>6

\* What a trigger pushes starts nobody.
LEMMA OneTrigger ==
    /\ \A f \in Fiber : /\ <<Of("fiber", f)>> \in Seq(Task)
                        /\ \A i \in DOMAIN <<Of("fiber", f)>> : <<Of("fiber", f)>>[i].kind # "start"
    /\ <<>> \in Seq(Task) /\ \A i \in DOMAIN <<>> : <<>>[i].kind # "start"
<1>1. ASSUME NEW f \in Fiber
      PROVE  /\ <<Of("fiber", f)>> \in Seq(Task)
             /\ \A i \in DOMAIN <<Of("fiber", f)>> : <<Of("fiber", f)>>[i].kind # "start"
  <2> DEFINE t == Of("fiber", f)
  <2>1. t \in Task /\ t.kind # "start"
    BY TaskKinds DEF Of
  <2> HIDE DEF t
  <2>2. <<t>> \in Seq(Task) /\ \A i \in DOMAIN <<t>> : <<t>>[i].kind # "start"
    BY <2>1
  <2> QED BY <2>2 DEF t
<1>2. <<>> \in Seq(Task) /\ \A i \in DOMAIN <<>> : <<>>[i].kind # "start"
  OBVIOUS
<1> QED BY <1>1, <1>2

\* The tasks of triggered events start nobody.
LEMMA TriggeredKind ==
    ASSUME NEW fs \in SUBSET Fiber, NEW q \in Triggered(fs)
    PROVE  q \in Seq(Task) /\ \A i \in DOMAIN q : q[i].kind = "fiber"
<1>1. PICK r \in Orders(fs) : q = [i \in DOMAIN r |-> Of("fiber", r[i])]
  BY DEF Triggered
<1>2. IsFiniteSet(fs) /\ Cardinality(fs) \in Nat
  BY FiberAssumption, FS_Subset, FS_CardinalityType
<1>3. r \in [1..Cardinality(fs) -> fs]
  BY <1>1 DEF Orders
<1>4. DOMAIN r = 1..Cardinality(fs) /\ \A i \in 1..Cardinality(fs) : Of("fiber", r[i]) \in Task
  BY <1>3, TaskKinds
<1>5. q = [i \in 1..Cardinality(fs) |-> Of("fiber", r[i])]
  BY <1>1, <1>4
<1> HIDE DEF Of
<1>6. q \in Seq(Task)
  BY <1>2, <1>4, <1>5
<1> QED BY <1>5, <1>6 DEF Of

\* A fiber is started once.
LEMMA StartedOnceStep ==
    ASSUME FiberTypes, FiberCounts, EndsAtStop, OnOneThread, StartedOnce, [Next]_vars, broken' = "no"
    PROVE  StartedOnce'
<1>0. tasks \in Seq(Task) /\ <<>> \in Seq(Task) /\ tasks \o <<>> = tasks
  BY ConcatEmptySeq DEF FiberTypes
<1>1. ASSUME NEW w \in pool, WorkerStep(w) PROVE StartedOnce'
  <2>1. CASE Take(w)
    <3> DEFINE t == Head(tasks)
    <3>1. /\ tasks # <<>> /\ t \in Task /\ t = tasks[1] /\ 1 \in DOMAIN tasks
          /\ t.kind = "fiber" => state[t.f] = "READY"
      BY <2>1, TakenIsFree
    <3>2. tasks' = Tail(tasks)
          /\ state' = IF t.kind \in {"fiber", "start"} THEN [state EXCEPT ![t.f] = "RUNNING"] ELSE state
      BY <2>1 DEF Take
    <3> HIDE DEF t
    <3>3. \A i \in DOMAIN tasks' : i + 1 \in DOMAIN tasks /\ i + 1 # 1 /\ i \in Nat /\ tasks'[i] = tasks[i + 1]
      BY <1>0, <3>1, <3>2
    <3>4. \A i \in DOMAIN tasks : tasks[i].f \in Fiber
      BY <1>0, TaskKinds
    <3>5. ASSUME NEW i \in DOMAIN tasks', tasks'[i].kind = "start" PROVE state'[tasks'[i].f] = "none"
      <4>1. state[tasks[i + 1].f] = "none"
        BY <3>3, <3>5 DEF StartedOnce
      <4>2. t.kind \in {"fiber", "start"} => tasks[i + 1].f # t.f
        <5>1. CASE t.kind = "fiber"
          BY <3>1, <4>1, <5>1
        <5>2. CASE t.kind = "start"
          BY <3>1, <3>3, <3>5, <5>2 DEF StartedOnce
        <5> QED BY <5>1, <5>2
      <4> QED BY <3>2, <3>3, <3>4, <4>1, <4>2 DEF FiberTypes
    <3>6. ASSUME NEW i \in DOMAIN tasks', NEW j \in DOMAIN tasks', tasks'[i].kind = "start",
                 tasks'[j].kind = "start", tasks'[j].f = tasks'[i].f
          PROVE  i = j
      <4>1. i + 1 = j + 1
        BY <3>3, <3>6 DEF StartedOnce
      <4> QED BY <3>3, <4>1
    <3> QED BY <3>5, <3>6 DEF StartedOnce
  <2>2. CASE FindNone(w) \/ GoIdle(w) \/ CheckStopping(w) \/ WaitReturns(w)
    BY <2>2 DEF FindNone, GoIdle, CheckStopping, WaitReturns, StartedOnce, queueVars, fiberVars
  <2>3. CASE Dispatch(w)
    <3>1. StillRegistered(w) \in SUBSET Fiber
      BY DEF StillRegistered, FiberTypes
    <3>2. PICK q \in Triggered(StillRegistered(w)) : tasks' = tasks \o (expired[w] \o q)
      BY <2>3 DEF Dispatch
    <3>3. q \in Seq(Task) /\ \A i \in DOMAIN q : q[i].kind = "fiber"
      BY <3>1, <3>2, TriggeredKind
    <3>4. expired[w] \in Seq(Task) /\ \A i \in DOMAIN expired[w] : expired[w][i].kind # "start"
      <4>1. expired[w] \in Seq(Timer)
        BY DEF FiberTypes
      <4>2. \A i \in DOMAIN expired[w] : expired[w][i] \in Timer
        BY <4>1
      <4> QED BY <4>1, <4>2, TimerQueue DEF Timer
    <3> DEFINE r == expired[w] \o q
    <3>5. r \in Seq(Task) /\ \A i \in DOMAIN r : r[i].kind # "start"
      <4>1. r \in Seq(Task)
        BY <3>3, <3>4
      <4>2. ASSUME NEW i \in DOMAIN r PROVE r[i].kind # "start"
        <5>1. i \in 1..(Len(expired[w]) + Len(q))
          BY <3>3, <3>4
        <5>2. r[i] = IF i <= Len(expired[w]) THEN expired[w][i] ELSE q[i - Len(expired[w])]
          BY <3>3, <3>4, <5>1, ConcatProperties
        <5>3. CASE i <= Len(expired[w])
          BY <3>4, <5>1, <5>2, <5>3
        <5>4. CASE i > Len(expired[w])
          <6>1. i - Len(expired[w]) \in DOMAIN q
            BY <3>3, <3>4, <5>1, <5>4
          <6> HIDE DEF r
          <6> QED BY <3>3, <3>4, <5>1, <5>2, <5>4, <6>1
        <5> QED BY <3>4, <5>1, <5>3, <5>4
      <4> QED BY <4>1, <4>2
    <3>6. state' = state
      BY <2>3 DEF Dispatch, fiberVars
    <3> HIDE DEF r
    <3> QED BY <3>2, <3>5, <3>6, StartsKept DEF r
  <2>4. CASE WakeCallback(w)
    <3>1. cur[w] \in Task
      BY <2>4 DEF WakeCallback, FiberTypes, Busy
    <3> DEFINE r == <<Of("fiber", cur[w].f)>>
    <3>2. r \in Seq(Task) /\ \A i \in DOMAIN r : r[i].kind # "start"
      BY <3>1, TaskKinds, OneTrigger
    <3>3. tasks' = tasks \o r /\ state' = state
      BY <2>4 DEF WakeCallback, Push, fiberVars
    <3> QED BY <3>2, <3>3, StartsKept
  <2>5. CASE TimeoutCallback(w)
    <3>1. cur[w] \in Task
      BY <2>5 DEF TimeoutCallback, FiberTypes, Busy
    <3> DEFINE r == cancelEvent(cur[w])
    <3>2. r \in Seq(Task) /\ \A i \in DOMAIN r : r[i].kind # "start"
      BY <3>1, TaskKinds, OneTrigger DEF cancelEvent
    <3>3. tasks' = tasks \o r /\ state' = state
      BY <2>5 DEF TimeoutCallback, Push
    <3> QED BY <3>2, <3>3, StartsKept
  <2>6. ASSUME NEW f \in Fiber, FiberStep(w, f) PROVE StartedOnce'
    <3>1. CarrierMoves(w, f)
      BY <2>6, CarrierStep
    <3>2. \A g \in Fiber : state[g] = "none" => state'[g] = "none"
      BY <3>1 DEF CarrierMoves, OnOneThread
    <3>3. PICK r \in Seq(Task) : tasks' = tasks \o r /\ \A i \in DOMAIN r : r[i].kind # "start"
      <4>1. ASSUME NEW g \in Fiber, CloseFd(w, f, g)
            PROVE  \E r \in Seq(Task) : tasks' = tasks \o r /\ \A i \in DOMAIN r : r[i].kind # "start"
        <5>1. cancelAll(g) \in Seq(Task) /\ \A i \in DOMAIN cancelAll(g) : cancelAll(g)[i].kind # "start"
          BY OneTrigger DEF cancelAll
        <5> QED BY <4>1, <5>1 DEF CloseFd, Push
      <4>2. CASE tasks' = tasks
        <5>1. \A i \in DOMAIN <<>> : <<>>[i].kind # "start"
          OBVIOUS
        <5> QED BY <1>0, <4>2, <5>1
      <4>3. tasks' = tasks \/ \E g \in Fiber : CloseFd(w, f, g)
        BY <2>6 DEF FiberStep, BeginSleep, BeginIo, BeginConnect, NewCall, Arm, AddEvent, AddEventFails, Yield,
           SwapContext, AfterSleep, AfterIo, RetryIo, Finish, queueVars
      <4> QED BY <4>1, <4>2, <4>3
    <3> QED BY <3>2, <3>3, StartsKept
  <2> QED BY <1>1, <2>1, <2>2, <2>3, <2>4, <2>5, <2>6 DEF WorkerStep
<1>2. ASSUME NEW f \in Fiber, Schedule(f) PROVE StartedOnce'
  <2> DEFINE t == Of("start", f)
  <2>1. /\ state[f] = "none" /\ (\A i \in DOMAIN tasks : tasks[i].f # f) /\ state' = state
        /\ tasks' = tasks \o <<t>>
    BY <1>2 DEF Schedule, Push, fiberVars
  <2>2. t \in Task /\ t.f = f
    BY TaskKinds DEF Of
  <2> HIDE DEF t
  <2>3. \A i \in DOMAIN tasks' : (i \in DOMAIN tasks /\ tasks'[i] = tasks[i]) \/ (i = Len(tasks) + 1 /\ tasks'[i] = t)
    BY <1>0, <2>1, <2>2
  <2>4. ASSUME NEW i \in DOMAIN tasks', NEW j \in DOMAIN tasks', tasks'[i].kind = "start",
               tasks'[j].kind = "start", tasks'[j].f = tasks'[i].f
        PROVE  i = j
    BY <2>1, <2>2, <2>3, <2>4 DEF StartedOnce
  <2>5. ASSUME NEW i \in DOMAIN tasks', tasks'[i].kind = "start" PROVE state'[tasks'[i].f] = "none"
    BY <2>1, <2>2, <2>3, <2>5 DEF StartedOnce
  <2> QED BY <2>4, <2>5 DEF StartedOnce
<1>3. CASE (\E t \in Timer : FallsDue(t)) \/ Stop \/ UNCHANGED vars
  <2>1. tasks' = tasks /\ state' = state
    BY <1>3 DEF FallsDue, Stop, vars, queueVars, fiberVars
  <2> QED BY <2>1 DEF StartedOnce
<1> QED BY <1>1, <1>2, <1>3 DEF Next

-----------------------------------------------------------------------------
(* The wakers of a fiber. *)

\* One for an event, for a sleep timer not yet due, and for a callback in hand.
ByEvent(f) == IF f \in events THEN 1 ELSE 0
ByTimer(f) == IF Of("wake", f) \in timers THEN 1 ELSE 0
ByCallback(w, f) == IF pc[w] = "call" /\ Resumes(cur[w], f) THEN 1 ELSE 0

\* The wakers of a fiber are the sum of their kinds.
LEMMA WakersSum ==
    ASSUME FiberTypes, NEW f \in Fiber
    PROVE  /\ Wakers(f) = ByEvent(f) + ByTimer(f) + InQueue(due, f) + InQueue(tasks, f)
                          + InCallbacks(f) + Held(expired, f)
           /\ InQueue(due, f) \in Nat /\ InQueue(tasks, f) \in Nat /\ InCallbacks(f) \in Nat
           /\ Held(expired, f) \in Nat
<1>1. InTimers(f) = ByTimer(f)
  <2>1. timers \in SUBSET Timer
    BY DEF FiberTypes
  <2>2. Cardinality({t \in timers : Resumes(t, f)}) = IF Of("wake", f) \in timers THEN 1 ELSE 0
    BY <2>1, TimersCount
  <2> QED BY <2>2 DEF InTimers, ByTimer
<1>2. InExpired(f) = Held(expired, f)
  BY DEF InExpired, Held
<1>3. InQueue(due, f) \in Nat /\ InQueue(tasks, f) \in Nat
  BY QueueCountType DEF FiberTypes
<1>4. Held(expired, f) \in Nat
  <2>1. PICK w : w \in pool
    BY DEF FiberTypes
  <2> QED BY <2>1, HeldCount DEF FiberTypes
<1>5. InCallbacks(f) \in Nat
  <2> DEFINE A == {w \in pool : pc[w] = "call" /\ Resumes(cur[w], f)}
  <2>1. IsFiniteSet(A)
    BY FiberAssumption, FS_Subset DEF FiberTypes
  <2>2. InCallbacks(f) = Cardinality(A)
    BY DEF InCallbacks
  <2> HIDE DEF A
  <2> QED BY <2>1, <2>2, FS_CardinalityType
<1> QED BY <1>1, <1>2, <1>3, <1>4, <1>5 DEF Wakers, ByEvent

\* The same after a step.
LEMMA WakersSumNext ==
    ASSUME FiberTypes, FiberTypes', pool' = pool, NEW f \in Fiber
    PROVE  /\ Wakers(f)' = ByEvent(f)' + ByTimer(f)' + InQueue(due', f) + InQueue(tasks', f)
                           + InCallbacks(f)' + Held(expired', f)
           /\ InQueue(due', f) \in Nat /\ InQueue(tasks', f) \in Nat /\ Held(expired', f) \in Nat
<1>1. InTimers(f)' = ByTimer(f)'
  <2>1. timers' \in SUBSET Timer
    BY DEF FiberTypes
  <2>2. Cardinality({t \in timers' : Resumes(t, f)}) = IF Of("wake", f) \in timers' THEN 1 ELSE 0
    BY <2>1, TimersCount
  <2> QED BY <2>2 DEF InTimers, ByTimer
<1>2. InExpired(f)' = Held(expired', f)
  BY DEF InExpired, Held
<1>3. InQueue(due', f) \in Nat /\ InQueue(tasks', f) \in Nat
  <2>1. due' \in Seq(Timer) /\ tasks' \in Seq(Task)
    BY DEF FiberTypes
  <2> QED BY <2>1, QueueCountType
<1>4. Held(expired', f) \in Nat
  <2>1. PICK w : w \in pool
    BY DEF FiberTypes
  <2>2. expired' \in [Worker -> Seq(Timer)] /\ pool \subseteq Worker
    BY DEF FiberTypes
  <2> QED BY <2>1, <2>2, HeldCount
<1>5. Wakers(f)' = ByEvent(f)' + InTimers(f)' + InQueue(due', f) + InQueue(tasks', f) + InCallbacks(f)' + InExpired(f)'
  BY DEF Wakers, ByEvent
<1> QED BY <1>1, <1>2, <1>3, <1>4, <1>5

\* How the number of wakers of f changes in a step of thread w.
LEMMA WakersFollow ==
    ASSUME FiberTypes, FiberTypes', NEW w \in pool, Apart(w), NEW f \in Fiber
    PROVE  /\ Wakers(f)' = Wakers(f) + (ByEvent(f)' - ByEvent(f)) + (ByTimer(f)' - ByTimer(f))
                + (InQueue(due', f) - InQueue(due, f)) + (InQueue(tasks', f) - InQueue(tasks, f))
                + (ByCallback(w, f)' - ByCallback(w, f)) + (Held(expired', f) - Held(expired, f))
           /\ Wakers(f) \in Nat
           /\ InQueue(due', f) \in Nat /\ InQueue(tasks', f) \in Nat /\ Held(expired', f) \in Nat
           /\ InQueue(due, f) \in Nat /\ InQueue(tasks, f) \in Nat /\ Held(expired, f) \in Nat
           /\ Wakers(f) >= ByEvent(f) + ByTimer(f)
<1> DEFINE A == {v \in pool : pc[v] = "call" /\ Resumes(cur[v], f)}
           B == {v \in pool : pc'[v] = "call" /\ Resumes(cur'[v], f)}
<1>1. pool' = pool
  BY DEF Apart
<1>2. IsFiniteSet(A)
  BY FiberAssumption, FS_Subset DEF FiberTypes
<1>3. A \ {w} = B \ {w}
  BY DEF Apart
<1>4. InCallbacks(f) = Cardinality(A) /\ InCallbacks(f)' = Cardinality(B)
  BY <1>1 DEF InCallbacks, Resumes
<1>5. /\ ByCallback(w, f) = (IF w \in A THEN 1 ELSE 0)
      /\ ByCallback(w, f)' = (IF w \in B THEN 1 ELSE 0)
  BY DEF ByCallback, Resumes
<1> HIDE DEF A, B
<1>6. /\ Cardinality(A) \in Nat /\ Cardinality(B) \in Nat
      /\ Cardinality(B) = Cardinality(A) - (IF w \in A THEN 1 ELSE 0) + (IF w \in B THEN 1 ELSE 0)
  BY <1>2, <1>3, CountChange
<1>7. /\ ByEvent(f) \in {0, 1} /\ ByTimer(f) \in {0, 1} /\ ByCallback(w, f) \in {0, 1}
      /\ ByEvent(f)' \in {0, 1} /\ ByTimer(f)' \in {0, 1} /\ ByCallback(w, f)' \in {0, 1}
  BY <1>5 DEF ByEvent, ByTimer
<1>8. /\ Wakers(f) = ByEvent(f) + ByTimer(f) + InQueue(due, f) + InQueue(tasks, f)
                          + InCallbacks(f) + Held(expired, f)
      /\ InQueue(due, f) \in Nat /\ InQueue(tasks, f) \in Nat /\ InCallbacks(f) \in Nat
      /\ Held(expired, f) \in Nat
  BY WakersSum
<1>9. /\ Wakers(f)' = ByEvent(f)' + ByTimer(f)' + InQueue(due', f) + InQueue(tasks', f)
                           + InCallbacks(f)' + Held(expired', f)
      /\ InQueue(due', f) \in Nat /\ InQueue(tasks', f) \in Nat /\ Held(expired', f) \in Nat
  BY <1>1, WakersSumNext
<1>10. InCallbacks(f)' = InCallbacks(f) - ByCallback(w, f) + ByCallback(w, f)'
  BY <1>4, <1>5, <1>6
<1> QED BY <1>7, <1>8, <1>9, <1>10

\* A step of fiber f parks nobody else; f is parked from its last look at the
\* hook to the end of the switch.
LEMMA ParkedFollow ==
    ASSUME FiberTypes, OnOneThread, NEW w \in pool, NEW f \in Fiber, Apart(w), CarrierMoves(w, f)
    PROVE  /\ \A g \in Fiber : g # f => (Parked(g)' <=> Parked(g))
           /\ Parked(f) <=> pc[w] \in {"parking", "leaving"}
           /\ Parked(f)' <=> pc'[w] = "parking" \/ state'[f] \in {"READY", "LEAVING"}
<1>1. /\ pc[w] \in Carrying /\ cur[w].f = f
      /\ state[f] = IF pc[w] = "leaving" THEN "LEAVING" ELSE "RUNNING"
      /\ \A v \in pool : v # w /\ pc[v] \in Carrying => cur[v].f # f
  BY DEF OnOneThread, CarrierMoves
<1>2. pool' = pool /\ \A v \in pool : v # w => pc'[v] = pc[v] /\ cur'[v] = cur[v]
  BY DEF Apart
<1>3. pc'[w] = "parking" => cur'[w].f = f
  BY <1>1 DEF CarrierMoves, Carrying
<1>4. \A v \in pool : pc[v] = "parking" => pc[v] \in Carrying
  BY DEF Carrying
<1>5. ASSUME NEW g \in Fiber, g # f PROVE Parked(g)' <=> Parked(g)
  <2>1. state'[g] = state[g]
    BY <1>5 DEF CarrierMoves
  <2> QED BY <1>1, <1>2, <1>3, <1>5, <2>1 DEF Parked
<1>6. Parked(f) <=> pc[w] \in {"parking", "leaving"}
  BY <1>1, <1>4 DEF Parked, Carrying
<1>7. Parked(f)' <=> pc'[w] = "parking" \/ state'[f] \in {"READY", "LEAVING"}
  BY <1>1, <1>2, <1>3, <1>4 DEF Parked
<1> QED BY <1>5, <1>6, <1>7

\* A step that moves no fiber parks nobody.
LEMMA ParkedSame ==
    ASSUME NEW w \in pool, Apart(w), state' = state, pc[w] # "parking", pc'[w] # "parking", NEW g
    PROVE  Parked(g)' <=> Parked(g)
  BY DEF Parked, Apart

\* Taking a task: the fiber it resumes loses its waker and is no longer parked.
LEMMA TakeWakes ==
    ASSUME FiberTypes, FiberTypes', OnOneThread, StartedOnce, WakersExact, NEW w \in pool, Apart(w),
           Take(w), broken' = "no"
    PROVE  WakersExact'
<1> SUFFICES ASSUME NEW f \in Fiber PROVE Wakers(f)' = IF Parked(f)' THEN 1 ELSE 0
  BY DEF WakersExact
<1> DEFINE t == Head(tasks)
<1>1. /\ tasks # <<>> /\ t \in Task
      /\ t.kind = "fiber" => state[t.f] = "READY"
      /\ t.kind = "start" => state[t.f] = "none"
      /\ t.kind \in {"fiber", "start"} => \A v \in pool : pc[v] \in Carrying => cur[v].f # t.f
  BY TakenIsFree
<1>2. InQueue(tasks, f) = (IF Resumes(t, f) THEN 1 ELSE 0) + InQueue(Tail(tasks), f)
  BY <1>1, QueueCountHead DEF FiberTypes
<1>3. /\ tasks' = Tail(tasks) /\ pc[w] = "look" /\ cur'[w] = t
      /\ pc'[w] = IF t.kind \in {"fiber", "start"} THEN "run" ELSE "call"
      /\ state' = IF t.kind \in {"fiber", "start"} THEN [state EXCEPT ![t.f] = "RUNNING"] ELSE state
      /\ UNCHANGED <<pool, expired, events, timers, due>>
  BY DEF Take, FiberTypes, waitVars
<1>4. t.f \in Fiber /\ t.kind \in {"fiber", "start", "wake", "timeout"}
  BY <1>1, TaskKinds
<1> HIDE DEF t
<1>5. /\ Wakers(f)' = Wakers(f) + (ByEvent(f)' - ByEvent(f)) + (ByTimer(f)' - ByTimer(f))
                + (InQueue(due', f) - InQueue(due, f)) + (InQueue(tasks', f) - InQueue(tasks, f))
                + (ByCallback(w, f)' - ByCallback(w, f)) + (Held(expired', f) - Held(expired, f))
      /\ Wakers(f) \in Nat
      /\ InQueue(due, f) \in Nat /\ InQueue(tasks', f) \in Nat /\ InQueue(tasks, f) \in Nat /\ Held(expired, f) \in Nat
  BY WakersFollow
<1>6. ByEvent(f)' = ByEvent(f) /\ ByTimer(f)' = ByTimer(f) /\ ByEvent(f) \in {0, 1} /\ ByTimer(f) \in {0, 1}
  BY <1>3 DEF ByEvent, ByTimer
<1>7. /\ ByCallback(w, f) = 0
      /\ ByCallback(w, f)' = IF t.kind \notin {"fiber", "start"} /\ Resumes(t, f) THEN 1 ELSE 0
  BY <1>3 DEF ByCallback, Resumes
<1>8. Wakers(f)' = Wakers(f) - (IF t.kind = "fiber" /\ t.f = f THEN 1 ELSE 0)
  <2>1. CASE Resumes(t, f)
    BY <1>2, <1>3, <1>5, <1>6, <1>7, <2>1 DEF Resumes
  <2>2. CASE ~Resumes(t, f)
    BY <1>2, <1>3, <1>5, <1>6, <1>7, <2>2 DEF Resumes
  <2> QED BY <2>1, <2>2
<1>9. Wakers(f) = IF Parked(f) THEN 1 ELSE 0
  BY DEF WakersExact
<1>10. CASE t.kind \in {"fiber", "start"}
  <2>1. \A v \in pool : pc'[v] = "parking" => v # w /\ pc[v] = "parking" /\ cur'[v] = cur[v]
    BY <1>3, <1>10 DEF Apart
  <2>2. \A v \in pool : pc[v] = "parking" => v # w /\ pc'[v] = "parking" /\ cur'[v] = cur[v]
    BY <1>3 DEF Apart
  <2>3. \A v \in pool : pc[v] = "parking" => cur[v].f # t.f
    BY <1>1, <1>10 DEF Carrying
  <2>4. CASE f = t.f
    <3>1. state'[f] = "RUNNING"
      BY <1>3, <1>4, <1>10, <2>4 DEF FiberTypes
    <3>2. ~Parked(f)'
      BY <1>3, <2>1, <2>3, <2>4, <3>1 DEF Parked
    <3>3. Parked(f) <=> t.kind = "fiber"
      BY <1>1, <1>10, <2>3, <2>4 DEF Parked
    <3> QED BY <1>8, <1>9, <2>4, <3>2, <3>3
  <2>5. CASE f # t.f
    <3>1. state'[f] = state[f]
      BY <1>3, <1>4, <1>10, <2>5 DEF FiberTypes
    <3>2. Parked(f)' <=> Parked(f)
      BY <1>3, <2>1, <2>2, <3>1 DEF Parked
    <3> QED BY <1>5, <1>8, <1>9, <2>5, <3>2
  <2> QED BY <2>4, <2>5
<1>11. CASE t.kind \notin {"fiber", "start"}
  <2>1. Parked(f)' <=> Parked(f)
    BY <1>3, <1>11, ParkedSame
  <2> QED BY <1>5, <1>8, <1>9, <1>11, <2>1
<1> QED BY <1>10, <1>11

\* epoll_wait and the end of the round: due timers, expired callbacks and tasks
\* are handed on one for one.
LEMMA RoundWakes ==
    ASSUME FiberTypes, FiberTypes', EndsAtStop, WakersExact, NEW w \in pool, Apart(w),
           WaitReturns(w) \/ Dispatch(w)
    PROVE  WakersExact'
<1> SUFFICES ASSUME NEW f \in Fiber PROVE Wakers(f)' = IF Parked(f)' THEN 1 ELSE 0
  BY DEF WakersExact
<1>1. /\ Wakers(f)' = Wakers(f) + (ByEvent(f)' - ByEvent(f)) + (ByTimer(f)' - ByTimer(f))
                + (InQueue(due', f) - InQueue(due, f)) + (InQueue(tasks', f) - InQueue(tasks, f))
                + (ByCallback(w, f)' - ByCallback(w, f)) + (Held(expired', f) - Held(expired, f))
      /\ Wakers(f) \in Nat
      /\ InQueue(due', f) \in Nat /\ InQueue(tasks', f) \in Nat /\ Held(expired', f) \in Nat
      /\ InQueue(due, f) \in Nat /\ InQueue(tasks, f) \in Nat /\ Held(expired, f) \in Nat
  BY WakersFollow
<1>2. Wakers(f) = IF Parked(f) THEN 1 ELSE 0
  BY DEF WakersExact
<1>3. w \in Worker /\ expired \in [Worker -> Seq(Timer)] /\ pool \subseteq Worker /\ expired' \in [Worker -> Seq(Timer)]
  BY DEF FiberTypes
<1>4. timers' = timers /\ state' = state /\ pc[w] \in {"wait", "woken"} /\ pc'[w] \in {"woken", "look"}
  BY DEF WaitReturns, Dispatch, fiberVars, FiberTypes
<1>5. ByTimer(f)' = ByTimer(f) /\ ByTimer(f) \in {0, 1} /\ ByCallback(w, f)' = 0 /\ ByCallback(w, f) = 0
  BY <1>4 DEF ByTimer, ByCallback
<1>6. Parked(f)' <=> Parked(f)
  BY <1>4, ParkedSame
<1>7. CASE WaitReturns(w)
  <2>1. /\ expired' = [expired EXCEPT ![w] = due] /\ due' = <<>> /\ tasks' = tasks /\ events' = events
        /\ pc[w] = "wait"
    BY <1>7 DEF WaitReturns, queueVars
  <2>2. expired[w] = <<>>
    BY <2>1 DEF EndsAtStop
  <2>3. [expired' EXCEPT ![w] = <<>>] = expired /\ expired'[w] = due
    BY <1>3, <2>1, <2>2
  <2>4. Held(expired', f) = Held([expired' EXCEPT ![w] = <<>>], f) + InQueue(expired'[w], f)
    BY <1>3, HeldCount
  <2>5. Held(expired', f) = Held(expired, f) + InQueue(due, f)
    BY <2>3, <2>4
  <2>6. InQueue(due', f) = 0 /\ InQueue(tasks', f) = InQueue(tasks, f)
    BY <2>1, QueueCountOne
  <2>7. ByEvent(f)' = ByEvent(f) /\ ByEvent(f) \in {0, 1}
    BY <2>1 DEF ByEvent
  <2>8. Wakers(f)' = Wakers(f)
    BY <1>1, <1>5, <2>5, <2>6, <2>7
  <2> QED BY <1>2, <1>6, <2>8
<1>8. CASE Dispatch(w)
  <2> DEFINE fs == StillRegistered(w)
  <2>1. /\ expired' = [expired EXCEPT ![w] = <<>>] /\ due' = due /\ events' = events \ fs
        /\ pc[w] = "woken"
    BY <1>8 DEF Dispatch
  <2>2. PICK q \in Triggered(fs) : tasks' = tasks \o (expired[w] \o q)
    BY <1>8 DEF Dispatch
  <2>3. fs \in SUBSET Fiber /\ fs \subseteq events
    BY DEF StillRegistered, FiberTypes
  <2> HIDE DEF fs
  <2>4. q \in Seq(Task) /\ InQueue(q, f) = IF f \in fs THEN 1 ELSE 0
    BY <2>2, <2>3, TriggeredCount
  <2>5. expired[w] \in Seq(Task) /\ tasks \in Seq(Task)
    BY <1>3, TimerQueue DEF FiberTypes
  <2>6. expired[w] \o q \in Seq(Task)
    BY <2>4, <2>5, QueueTypes
  <2>7. InQueue(expired[w] \o q, f) = InQueue(expired[w], f) + InQueue(q, f)
    BY <2>4, <2>5, QueueCountConcat
  <2>8. InQueue(tasks', f) = InQueue(tasks, f) + InQueue(expired[w] \o q, f)
    BY ZenonT(60), <2>2, <2>5, <2>6, QueueCountConcat
  <2>9. Held(expired, f) = Held(expired', f) + InQueue(expired[w], f)
    BY ZenonT(60), <1>3, <2>1, HeldCount
  <2>10. InQueue(expired[w], f) \in Nat
    BY <2>5, QueueCountType
  <2>11. ByEvent(f)' = ByEvent(f) - (IF f \in fs THEN 1 ELSE 0) /\ ByEvent(f) \in {0, 1}
    BY <2>1, <2>3 DEF ByEvent
  <2>12. Wakers(f)' = Wakers(f)
    <3> DEFINE d == IF f \in fs THEN 1 ELSE 0
    <3>1. d \in Int /\ InQueue(q, f) = d /\ ByEvent(f)' = ByEvent(f) - d
      BY <2>4, <2>11
    <3> HIDE DEF d
    <3>2. InQueue(tasks', f) - InQueue(tasks, f) = InQueue(expired[w], f) + d
      BY <1>1, <2>7, <2>8, <2>10, <3>1
    <3>3. Held(expired', f) - Held(expired, f) = 0 - InQueue(expired[w], f)
      BY <1>1, <2>9, <2>10
    <3>4. InQueue(due', f) - InQueue(due, f) = 0
      BY <1>1, <2>1
    <3>5. ByEvent(f)' - ByEvent(f) = 0 - d
      BY <2>11, <3>1
    <3>6. Wakers(f)' = Wakers(f) + (0 - d) + 0 + 0 + (InQueue(expired[w], f) + d) + 0 + (0 - InQueue(expired[w], f))
      BY <1>1, <1>5, <3>2, <3>3, <3>4, <3>5
    <3> QED BY <1>1, <2>10, <3>1, <3>6
  <2> QED BY <1>2, <1>6, <2>12
<1> QED BY <1>7, <1>8

\* The callbacks of timers: what is in hand, or the event, becomes a task.
LEMMA CallbackWakes ==
    ASSUME FiberTypes, FiberTypes', WakersExact, NEW w \in pool, Apart(w),
           WakeCallback(w) \/ TimeoutCallback(w)
    PROVE  WakersExact'
<1> SUFFICES ASSUME NEW f \in Fiber PROVE Wakers(f)' = IF Parked(f)' THEN 1 ELSE 0
  BY DEF WakersExact
<1>1. /\ Wakers(f)' = Wakers(f) + (ByEvent(f)' - ByEvent(f)) + (ByTimer(f)' - ByTimer(f))
                + (InQueue(due', f) - InQueue(due, f)) + (InQueue(tasks', f) - InQueue(tasks, f))
                + (ByCallback(w, f)' - ByCallback(w, f)) + (Held(expired', f) - Held(expired, f))
      /\ Wakers(f) \in Nat
      /\ InQueue(due, f) \in Nat /\ InQueue(tasks, f) \in Nat /\ Held(expired, f) \in Nat
  BY WakersFollow
<1>2. Wakers(f) = IF Parked(f) THEN 1 ELSE 0
  BY DEF WakersExact
<1>3. /\ timers' = timers /\ due' = due /\ expired' = expired /\ state' = state
      /\ pc[w] = "call" /\ pc'[w] = "look" /\ cur[w] \in Task
  BY DEF WakeCallback, TimeoutCallback, Return, FiberTypes, fiberVars, waitVars, Busy
<1>4. ByTimer(f)' = ByTimer(f) /\ ByTimer(f) \in {0, 1} /\ ByCallback(w, f)' = 0
  BY <1>3 DEF ByTimer, ByCallback
<1>5. Parked(f)' <=> Parked(f)
  BY <1>3, ParkedSame
<1>6. tasks \in Seq(Task) /\ cur[w].f \in Fiber /\ <<Of("fiber", cur[w].f)>> \in Seq(Task) /\ <<>> \in Seq(Task)
  BY <1>3, TaskKinds, OneTrigger DEF FiberTypes
<1>7. /\ InQueue(<<Of("fiber", cur[w].f)>>, f) = (IF cur[w].f = f THEN 1 ELSE 0)
      /\ InQueue(<<>>, f) = 0
  BY QueueCountOne DEF Resumes, Of
<1>8. \A r \in Seq(Task) : InQueue(tasks \o r, f) = InQueue(tasks, f) + InQueue(r, f)
  BY <1>6, QueueCountConcat
<1> DEFINE d == IF cur[w].f = f THEN 1 ELSE 0
<1>9. CASE WakeCallback(w)
  <2>1. tasks' = tasks \o <<Of("fiber", cur[w].f)>> /\ events' = events /\ cur[w].kind = "wake"
    BY <1>9 DEF WakeCallback, Push, waitVars
  <2>2. ByEvent(f)' = ByEvent(f) /\ ByEvent(f) \in {0, 1}
    BY <2>1 DEF ByEvent
  <2>3. ByCallback(w, f) = d /\ d \in Int
    BY <1>3, <2>1 DEF ByCallback, Resumes
  <2>4. InQueue(tasks', f) = InQueue(tasks, f) + d
    BY <1>6, <1>7, <1>8, <2>1
  <2> HIDE DEF d
  <2>5. Wakers(f)' = Wakers(f)
    BY <1>1, <1>3, <1>4, <2>2, <2>3, <2>4
  <2> QED BY <1>2, <1>5, <2>5
<1>10. CASE TimeoutCallback(w)
  <2> DEFINE e == IF Live(cur[w]) /\ cur[w].f \in events /\ cur[w].f = f THEN 1 ELSE 0
  <2>1. /\ tasks' = tasks \o cancelEvent(cur[w]) /\ cur[w].kind = "timeout"
        /\ events' = IF Live(cur[w]) THEN events \ {cur[w].f} ELSE events
    BY <1>10 DEF TimeoutCallback, Push
  <2>2. ByEvent(f)' = ByEvent(f) - e /\ ByEvent(f) \in {0, 1}
    BY <2>1 DEF ByEvent
  <2>3. ByCallback(w, f) = 0
    BY <2>1 DEF ByCallback, Resumes
  <2>4. cancelEvent(cur[w]) \in Seq(Task) /\ InQueue(cancelEvent(cur[w]), f) = e
    BY <1>6, <1>7 DEF cancelEvent
  <2>5. InQueue(tasks', f) = InQueue(tasks, f) + e /\ e \in Int
    BY <1>8, <2>1, <2>4
  <2> HIDE DEF e
  <2>6. Wakers(f)' = Wakers(f)
    BY <1>1, <1>3, <1>4, <2>2, <2>3, <2>5
  <2> QED BY <1>2, <1>5, <2>6
<1> QED BY <1>9, <1>10

\* The steps of a fiber: it has a waker exactly from the timer of its sleep, or
\* from addEvent, to the task that resumes it.
LEMMA FiberWakes ==
    ASSUME FiberTypes, FiberTypes', CallNumbers, OnOneThread, WakersExact, NEW w \in pool, Apart(w),
           NEW h \in Fiber, FiberStep(w, h)
    PROVE  WakersExact'
<1> SUFFICES ASSUME NEW f \in Fiber PROVE Wakers(f)' = IF Parked(f)' THEN 1 ELSE 0
  BY DEF WakersExact
<1>1. /\ Wakers(f)' = Wakers(f) + (ByEvent(f)' - ByEvent(f)) + (ByTimer(f)' - ByTimer(f))
                + (InQueue(due', f) - InQueue(due, f)) + (InQueue(tasks', f) - InQueue(tasks, f))
                + (ByCallback(w, f)' - ByCallback(w, f)) + (Held(expired', f) - Held(expired, f))
      /\ Wakers(f) \in Nat /\ Wakers(f) >= ByEvent(f) + ByTimer(f)
      /\ InQueue(due, f) \in Nat /\ InQueue(tasks, f) \in Nat /\ Held(expired, f) \in Nat
  BY WakersFollow
<1>2. Wakers(f) = IF Parked(f) THEN 1 ELSE 0
  BY DEF WakersExact
<1>3. CarrierMoves(w, h)
  BY CarrierStep
<1>4. /\ \A g \in Fiber : g # h => (Parked(g)' <=> Parked(g))
      /\ Parked(h) <=> pc[w] \in {"parking", "leaving"}
      /\ Parked(h)' <=> pc'[w] = "parking" \/ state'[h] \in {"READY", "LEAVING"}
  BY <1>3, ParkedFollow
<1>5. ByCallback(w, f) = 0 /\ ByCallback(w, f)' = 0
  BY <1>3 DEF CarrierMoves, ByCallback, Carrying
<1>6. ByTimer(f) \in {0, 1} /\ ByEvent(f) \in {0, 1}
  BY DEF ByTimer, ByEvent
<1>7. expired' = expired
  BY DEF FiberStep, BeginSleep, BeginIo, BeginConnect, NewCall, Arm, AddEvent, AddEventFails, Yield,
     SwapContext, AfterSleep, AfterIo, RetryIo, Finish, CloseFd, threadVars
<1>8. w \in Worker
  BY DEF FiberTypes
<1>9. CASE BeginSleep(w, h)
  <2>1. /\ timers' = timers \cup {Of("wake", h)} /\ pc[w] = "run" /\ pc'[w] = "parking"
        /\ UNCHANGED <<tasks, events, due>>
    BY <1>8, <1>9 DEF BeginSleep, addTimer, Runs, Moves, FiberTypes
  <2>2. ByEvent(f)' = ByEvent(f)
    BY <2>1 DEF ByEvent
  <2>3. CASE f = h
    <3>1. Wakers(f) = 0 /\ Parked(f)'
      BY <1>2, <1>4, <2>1, <2>3
    <3>2. ByTimer(f) = 0
      BY <1>1, <1>6, <3>1
    <3>3. ByTimer(f)' = 1
      BY <2>1, <2>3 DEF ByTimer
    <3> QED BY <1>1, <1>5, <1>6, <1>7, <2>1, <2>2, <3>1, <3>2, <3>3
  <2>4. CASE f # h
    <3>1. Of("wake", f) # Of("wake", h)
      BY <2>4 DEF Of
    <3>2. ByTimer(f)' = ByTimer(f)
      BY <2>1, <3>1 DEF ByTimer
    <3> QED BY <1>1, <1>2, <1>4, <1>5, <1>6, <1>7, <2>1, <2>2, <2>4, <3>2
  <2> QED BY <2>3, <2>4
<1>10. CASE AddEvent(w, h)
  <2>1. /\ events' = events \cup {h} /\ pc[w] = "adding" /\ pc'[w] = "parking"
        /\ UNCHANGED <<tasks, timers, due>>
    BY <1>8, <1>10 DEF AddEvent, Moves, FiberTypes, queueVars
  <2>2. ByTimer(f)' = ByTimer(f)
    BY <2>1 DEF ByTimer
  <2>3. CASE f = h
    <3>1. Wakers(f) = 0 /\ Parked(f)'
      BY <1>2, <1>4, <2>1, <2>3
    <3>2. ByEvent(f) = 0
      BY <1>1, <1>6, <3>1
    <3>3. ByEvent(f)' = 1
      BY <2>1, <2>3 DEF ByEvent
    <3> QED BY <1>1, <1>5, <1>6, <1>7, <2>1, <2>2, <3>1, <3>2, <3>3
  <2>4. CASE f # h
    <3>1. ByEvent(f)' = ByEvent(f)
      BY <2>1, <2>4 DEF ByEvent
    <3> QED BY <1>1, <1>2, <1>4, <1>5, <1>6, <1>7, <2>1, <2>2, <2>4, <3>1
  <2> QED BY <2>3, <2>4
<1>11. CASE Yield(w, h) \/ SwapContext(w, h) \/ Finish(w, h) \/ AfterSleep(w, h)
  <2>1. UNCHANGED <<tasks, events, timers, due>>
    BY <1>11 DEF Yield, SwapContext, Finish, AfterSleep, queueVars, waitVars
  <2>2. Parked(h)' <=> Parked(h)
    <3>1. CASE Yield(w, h)
      BY <1>4, <1>8, <3>1 DEF Yield, FiberTypes
    <3>2. CASE SwapContext(w, h)
      BY <1>4, <1>8, <3>2 DEF SwapContext, FiberTypes
    <3>3. CASE Finish(w, h)
      <4>1. pc[w] = "run" /\ pc'[w] = "look" /\ state'[h] = "TERM"
        BY <1>8, <3>3 DEF Finish, Return, Runs, FiberTypes
      <4> QED BY <1>4, <4>1
    <3>4. CASE AfterSleep(w, h)
      <4>1. pc[w] = "run" /\ pc'[w] = "run"
        BY <3>4 DEF AfterSleep, Runs, threadVars
      <4>2. state'[h] = "RUNNING"
        BY <1>3, <4>1 DEF CarrierMoves
      <4> QED BY <1>4, <4>1, <4>2
    <3> QED BY <1>11, <3>1, <3>2, <3>3, <3>4
  <2>3. ByEvent(f)' = ByEvent(f) /\ ByTimer(f)' = ByTimer(f)
    BY <2>1 DEF ByEvent, ByTimer
  <2>4. Wakers(f)' = Wakers(f)
    BY <1>1, <1>5, <1>6, <1>7, <2>1, <2>3
  <2> QED BY <1>2, <1>4, <2>2, <2>4
<1>12. CASE \/ BeginIo(w, h) \/ BeginConnect(w, h) \/ AddEventFails(w, h) \/ AfterIo(w, h) \/ RetryIo(w, h)
  <2>1. /\ UNCHANGED <<tasks, events>> /\ pc[w] \in {"run", "adding"} /\ pc'[w] \in {"run", "adding"}
        /\ \A t \in timers : t \in timers' \/ \E n : t = Timeout(h, n)
        /\ \A t \in timers' : t \in timers \/ \E n : t = Timeout(h, n)
        /\ due' = due \/ \E n : due' = Erase(due, Timeout(h, n))
    <3>1. CASE BeginIo(w, h) \/ BeginConnect(w, h)
      BY <1>8, <3>1 DEF BeginIo, BeginConnect, NewCall, Arm, addTimer, Runs, Moves, FiberTypes
    <3>2. CASE AddEventFails(w, h)
      BY <1>8, <3>2 DEF AddEventFails, Disarm, Moves, FiberTypes, queueVars
    <3>3. CASE AfterIo(w, h)
      BY <1>8, <3>3 DEF AfterIo, Disarm, Runs, FiberTypes, queueVars, threadVars
    <3>4. CASE RetryIo(w, h)
      BY <1>8, <3>4 DEF RetryIo, Runs, Moves, FiberTypes
    <3> QED BY <1>12, <3>1, <3>2, <3>3, <3>4
  <2>2. \A n : Timeout(h, n) # Of("wake", f) /\ ~Resumes(Timeout(h, n), f)
    BY DEF Timeout, Of, Resumes
  <2>3. ByEvent(f)' = ByEvent(f) /\ ByTimer(f)' = ByTimer(f)
    BY <2>1, <2>2 DEF ByEvent, ByTimer
  <2>4. InQueue(due', f) = InQueue(due, f)
    <3>1. CASE due' = due
      BY <3>1
    <3>2. ASSUME NEW n, due' = Erase(due, Timeout(h, n)) PROVE InQueue(due', f) = InQueue(due, f)
      <4>1. due \in Seq(Timer)
        BY DEF FiberTypes
      <4> QED BY <2>2, <3>2, <4>1, QueueCountErase
    <3> QED BY <2>1, <3>1, <3>2
  <2>5. ~Parked(h) /\ ~Parked(h)'
    <3>1. state'[h] = "RUNNING"
      BY <1>3, <2>1 DEF CarrierMoves
    <3> QED BY <1>4, <2>1, <3>1
  <2>6. Wakers(f)' = Wakers(f)
    BY <1>1, <1>5, <1>6, <1>7, <2>1, <2>3, <2>4
  <2> QED BY <1>2, <1>4, <2>5, <2>6
<1>13. ASSUME NEW g \in Fiber, CloseFd(w, h, g) PROVE Wakers(f)' = IF Parked(f)' THEN 1 ELSE 0
  <2>1. /\ g \in events /\ tasks' = tasks \o <<Of("fiber", g)>> /\ events' = events \ {g}
        /\ UNCHANGED <<timers, due>> /\ pc[w] = "run" /\ pc'[w] = "run"
    BY <1>13 DEF CloseFd, Push, cancelAll, Runs, threadVars
  <2> DEFINE d == IF f = g THEN 1 ELSE 0
  <2>2. ByEvent(f)' = ByEvent(f) - d /\ ByTimer(f)' = ByTimer(f) /\ d \in Int
    BY <2>1 DEF ByEvent, ByTimer
  <2>3. InQueue(<<Of("fiber", g)>>, f) = d /\ <<Of("fiber", g)>> \in Seq(Task)
    BY QueueCountOne, OneTrigger DEF Resumes, Of
  <2> HIDE DEF d
  <2>4. InQueue(tasks', f) = InQueue(tasks, f) + d
    <3>1. tasks \in Seq(Task)
      BY DEF FiberTypes
    <3>2. InQueue(tasks \o <<Of("fiber", g)>>, f) = InQueue(tasks, f) + InQueue(<<Of("fiber", g)>>, f)
      BY <2>3, <3>1, QueueCountConcat
    <3> QED BY <2>1, <2>3, <3>2
  <2>5. Wakers(f)' = Wakers(f)
    BY <1>1, <1>5, <1>6, <1>7, <2>1, <2>2, <2>4
  <2>6. ~Parked(h) /\ ~Parked(h)'
    <3>1. state'[h] = "RUNNING"
      BY <1>3, <2>1 DEF CarrierMoves
    <3> QED BY <1>4, <2>1, <3>1
  <2> QED BY <1>2, <1>4, <2>5, <2>6
<1> QED BY <1>9, <1>10, <1>11, <1>12, <1>13 DEF FiberStep

\* What happens outside of the threads: a timer falls due, a fiber is to start.
LEMMA OutsideWakes ==
    ASSUME FiberTypes, FiberTypes', WakersExact,
           (\E t \in Timer : FallsDue(t)) \/ (\E g \in Fiber : Schedule(g)) \/ Stop \/ UNCHANGED vars
    PROVE  WakersExact'
<1> SUFFICES ASSUME NEW f \in Fiber PROVE Wakers(f)' = IF Parked(f)' THEN 1 ELSE 0
  BY DEF WakersExact
<1>1. PICK w : w \in pool
  BY DEF FiberTypes
<1>2. UNCHANGED <<pool, pc, cur, idleTerm, expired, state, events>>
  BY DEF FallsDue, Schedule, Stop, vars, threadVars, fiberVars, waitVars
<1>3. Apart(w)
  BY <1>2 DEF Apart
<1>4. Parked(f)' <=> Parked(f)
  BY <1>2 DEF Parked
<1>5. /\ Wakers(f)' = Wakers(f) + (ByEvent(f)' - ByEvent(f)) + (ByTimer(f)' - ByTimer(f))
                + (InQueue(due', f) - InQueue(due, f)) + (InQueue(tasks', f) - InQueue(tasks, f))
                + (ByCallback(w, f)' - ByCallback(w, f)) + (Held(expired', f) - Held(expired, f))
      /\ Wakers(f) \in Nat
      /\ InQueue(due, f) \in Nat /\ InQueue(tasks, f) \in Nat /\ Held(expired, f) \in Nat
  BY <1>1, <1>3, WakersFollow
<1>6. /\ ByEvent(f)' = ByEvent(f) /\ ByCallback(w, f)' = ByCallback(w, f)
      /\ ByEvent(f) \in {0, 1} /\ ByCallback(w, f) \in {0, 1} /\ ByTimer(f) \in {0, 1}
  BY <1>2 DEF ByEvent, ByCallback, ByTimer, Resumes
<1>7. Wakers(f)' = Wakers(f)
  <2>1. ASSUME NEW t \in Timer, FallsDue(t) PROVE Wakers(f)' = Wakers(f)
    <3> DEFINE d == IF t = Of("wake", f) THEN 1 ELSE 0
    <3>1. t \in timers /\ timers' = timers \ {t} /\ due' = Append(due, t) /\ tasks' = tasks
      BY <2>1 DEF FallsDue, queueVars
    <3>2. Resumes(t, f) <=> t = Of("wake", f)
      BY DEF Timer, Resumes, Of
    <3>3. ByTimer(f)' = ByTimer(f) - d /\ d \in Int
      BY <3>1 DEF ByTimer
    <3>4. due' = due \o <<t>> /\ due \in Seq(Timer) /\ <<t>> \in Seq(Timer)
      BY SMTT(60), <3>1 DEF FiberTypes
    <3>5. InQueue(due', f) = InQueue(due, f) + InQueue(<<t>>, f)
      BY <3>4, QueueCountConcat
    <3>6. InQueue(<<t>>, f) = d
      BY <3>2, QueueCountOne
    <3> HIDE DEF d
    <3>7. /\ ByTimer(f)' - ByTimer(f) = 0 - d /\ InQueue(due', f) - InQueue(due, f) = d
          /\ InQueue(tasks', f) - InQueue(tasks, f) = 0 /\ Held(expired', f) - Held(expired, f) = 0
          /\ ByEvent(f)' - ByEvent(f) = 0 /\ ByCallback(w, f)' - ByCallback(w, f) = 0
      BY <1>2, <1>5, <1>6, <3>1, <3>3, <3>5, <3>6
    <3>8. Wakers(f)' = Wakers(f) + 0 + (0 - d) + d + 0 + 0 + 0
      BY <1>5, <3>7
    <3> QED BY <1>5, <3>3, <3>8
  <2>2. ASSUME NEW g \in Fiber, Schedule(g) PROVE Wakers(f)' = Wakers(f)
    <3>1. tasks' = tasks \o <<Of("start", g)>> /\ timers' = timers /\ due' = due
      BY <2>2 DEF Schedule, Push, waitVars
    <3>2. <<Of("start", g)>> \in Seq(Task) /\ tasks \in Seq(Task)
      BY TaskKinds, QueueTypes DEF FiberTypes
    <3>3. InQueue(tasks', f) = InQueue(tasks, f) + InQueue(<<Of("start", g)>>, f)
      BY <3>1, <3>2, QueueCountConcat
    <3>4. InQueue(<<Of("start", g)>>, f) = 0
      BY QueueCountOne DEF Resumes, Of
    <3>5. ByTimer(f)' = ByTimer(f)
      BY <3>1 DEF ByTimer
    <3> QED BY <1>2, <1>5, <1>6, <3>1, <3>3, <3>4, <3>5
  <2>3. CASE Stop \/ UNCHANGED vars
    <3>1. UNCHANGED <<tasks, timers, due>>
      BY <2>3 DEF Stop, vars, queueVars, waitVars
    <3>2. ByTimer(f)' = ByTimer(f)
      BY <3>1 DEF ByTimer
    <3> QED BY <1>2, <1>5, <1>6, <3>1, <3>2
  <2> QED BY <2>1, <2>2, <2>3
<1> QED BY <1>4, <1>7 DEF WakersExact

\* Exactly the parked fibers keep one waker, as long as no fiber is torn.
LEMMA WakersExactStep ==
    ASSUME FiberTypes, CallNumbers, FiberCounts, EndsAtStop, OnOneThread, StartedOnce, WakersExact,
           [Next]_vars, broken' = "no"
    PROVE  WakersExact'
<1>1. FiberTypes'
  BY FiberTypesStep
<1>2. ASSUME NEW w \in pool, WorkerStep(w) PROVE WakersExact'
  <2>1. Apart(w) /\ w \in Worker
    BY <1>2, ThreadStep DEF FiberTypes
  <2>2. CASE FindNone(w) \/ GoIdle(w) \/ CheckStopping(w)
    <3> SUFFICES ASSUME NEW f \in Fiber PROVE Wakers(f)' = IF Parked(f)' THEN 1 ELSE 0
      BY DEF WakersExact
    <3>1. /\ UNCHANGED <<tasks, events, timers, due, expired, state>>
          /\ pc[w] \in {"look", "none", "idle"} /\ pc'[w] \in {"exit", "none", "idle", "look", "wait"}
      BY <2>1, <2>2 DEF FindNone, GoIdle, CheckStopping, FiberTypes, queueVars, fiberVars, waitVars
    <3>2. Parked(f)' <=> Parked(f)
      BY <2>1, <3>1, ParkedSame
    <3>3. /\ Wakers(f)' = Wakers(f) + (ByEvent(f)' - ByEvent(f)) + (ByTimer(f)' - ByTimer(f))
                + (InQueue(due', f) - InQueue(due, f)) + (InQueue(tasks', f) - InQueue(tasks, f))
                + (ByCallback(w, f)' - ByCallback(w, f)) + (Held(expired', f) - Held(expired, f))
          /\ Wakers(f) \in Nat
          /\ InQueue(due, f) \in Nat /\ InQueue(tasks, f) \in Nat /\ Held(expired, f) \in Nat
      BY <1>1, <2>1, WakersFollow
    <3>4. /\ ByEvent(f)' = ByEvent(f) /\ ByTimer(f)' = ByTimer(f) /\ ByCallback(w, f)' = 0 /\ ByCallback(w, f) = 0
          /\ ByEvent(f) \in {0, 1} /\ ByTimer(f) \in {0, 1}
      BY <3>1 DEF ByEvent, ByTimer, ByCallback
    <3>5. Wakers(f)' = Wakers(f)
      BY <3>1, <3>3, <3>4
    <3> QED BY <3>2, <3>5 DEF WakersExact
  <2>3. CASE Take(w)
    BY <1>1, <2>1, <2>3, TakeWakes
  <2>4. CASE WaitReturns(w) \/ Dispatch(w)
    BY <1>1, <2>1, <2>4, RoundWakes
  <2>5. CASE WakeCallback(w) \/ TimeoutCallback(w)
    BY <1>1, <2>1, <2>5, CallbackWakes
  <2>6. ASSUME NEW f \in Fiber, FiberStep(w, f) PROVE WakersExact'
    BY <1>1, <2>1, <2>6, FiberWakes
  <2> QED BY <1>2, <2>2, <2>3, <2>4, <2>5, <2>6 DEF WorkerStep
<1> QED BY <1>1, <1>2, OutsideWakes DEF Next

\* A task that resumes a fiber is in the queue, so the fiber is parked.
LEMMA QueuedIsParked ==
    ASSUME FiberTypes, WakersExact, tasks # <<>>, Head(tasks).kind = "fiber"
    PROVE  Parked(Head(tasks).f)
<1> DEFINE f == Head(tasks).f
<1>1. tasks \in Seq(Task) /\ Head(tasks) \in Task
  BY QueueTypes DEF FiberTypes
<1>2. f \in Fiber /\ Resumes(Head(tasks), f)
  BY <1>1, TaskKinds DEF Resumes
<1> HIDE DEF f
<1>3. InQueue(tasks, f) = 1 + InQueue(Tail(tasks), f) /\ InQueue(Tail(tasks), f) \in Nat
  <2>1. Tail(tasks) \in Seq(Task)
    BY <1>1, QueueTypes
  <2> QED BY <1>1, <1>2, <2>1, QueueCountHead, QueueCountType
<1>4. /\ Wakers(f) = ByEvent(f) + ByTimer(f) + InQueue(due, f) + InQueue(tasks, f)
                          + InCallbacks(f) + Held(expired, f)
      /\ InQueue(due, f) \in Nat /\ InCallbacks(f) \in Nat /\ Held(expired, f) \in Nat
  BY <1>2, WakersSum
<1>5. ByEvent(f) \in {0, 1} /\ ByTimer(f) \in {0, 1}
  BY DEF ByEvent, ByTimer
<1>6. Wakers(f) # 0
  BY <1>3, <1>4, <1>5
<1> QED BY <1>2, <1>6 DEF WakersExact, f

\* Only run() can set broken, and the threads of a scheduler stay.
LEMMA PoolAndBroken ==
    ASSUME [Next]_vars
    PROVE  /\ pool' = pool
           /\ (~\E w \in pool : Take(w)) => broken' = broken
<1>1. ASSUME NEW w \in pool, Take(w) PROVE pool' = pool
  BY <1>1 DEF Take
<1>2. ASSUME NEW w \in pool, FindNone(w) \/ GoIdle(w) \/ CheckStopping(w) \/ WaitReturns(w)
      PROVE  UNCHANGED <<pool, broken>>
  BY <1>2 DEF FindNone, GoIdle, CheckStopping, WaitReturns
<1>3. ASSUME NEW w \in pool, Dispatch(w) PROVE UNCHANGED <<pool, broken>>
  BY <1>3 DEF Dispatch
<1>4. ASSUME NEW w \in pool, WakeCallback(w) \/ TimeoutCallback(w) PROVE UNCHANGED <<pool, broken>>
  BY <1>4 DEF WakeCallback, TimeoutCallback
<1>5. ASSUME NEW w \in pool, NEW f \in Fiber, FiberStep(w, f) PROVE UNCHANGED <<pool, broken>>
  <2>1. CASE BeginSleep(w, f) \/ AddEvent(w, f) \/ Yield(w, f) \/ SwapContext(w, f)
    BY <2>1 DEF BeginSleep, AddEvent, Yield, SwapContext
  <2>2. CASE BeginIo(w, f) \/ BeginConnect(w, f)
    BY <2>2 DEF BeginIo, BeginConnect, NewCall, Arm
  <2>3. CASE AddEventFails(w, f) \/ AfterSleep(w, f) \/ AfterIo(w, f) \/ RetryIo(w, f) \/ Finish(w, f)
    BY <2>3 DEF AddEventFails, AfterSleep, AfterIo, RetryIo, Finish
  <2>4. CASE \E g \in Fiber : CloseFd(w, f, g)
    BY <2>4 DEF CloseFd
  <2> QED BY <1>5, <2>1, <2>2, <2>3, <2>4 DEF FiberStep
<1>6. CASE (\E t \in Timer : FallsDue(t)) \/ (\E f \in Fiber : Schedule(f)) \/ Stop \/ UNCHANGED vars
  BY <1>6 DEF FallsDue, Schedule, Stop, vars
<1> QED BY <1>1, <1>2, <1>3, <1>4, <1>5, <1>6 DEF Next, WorkerStep

\* The only thread takes a task while it runs no fiber: who is parked has left.
LEMMA OneThreadStep ==
    ASSUME FiberTypes, OneThreadNeverPanics, [Next]_vars,
           broken = "no" => OnOneThread /\ WakersExact
    PROVE  OneThreadNeverPanics'
<1> SUFFICES ASSUME Cardinality(pool') = 1 PROVE broken' = "no"
  BY DEF OneThreadNeverPanics
<1>1. pool' = pool
  BY PoolAndBroken
<1>2. broken = "no"
  BY <1>1 DEF OneThreadNeverPanics
<1>3. CASE \E w \in pool : Take(w)
  <2>1. PICK w \in pool : Take(w)
    BY <1>3
  <2>2. \A v \in pool : v = w
    <3>1. IsFiniteSet(pool)
      BY FiberAssumption, FS_Subset DEF FiberTypes
    <3>2. PICK x : pool = {x}
      BY <1>1, <3>1, FS_Singleton
    <3> QED BY <3>2
  <2>3. pc[w] = "look" /\ tasks # <<>> /\ broken' = resume(Head(tasks))
    BY <2>1 DEF Take
  <2>4. \A v \in pool : pc[v] \notin Carrying /\ pc[v] # "parking"
    BY <2>2, <2>3 DEF Carrying
  <2>5. CASE Head(tasks).kind = "fiber"
    <3>1. Head(tasks).f \in Fiber
      BY <2>3, QueueTypes, TaskKinds DEF FiberTypes
    <3>2. Parked(Head(tasks).f)
      BY <1>2, <2>3, <2>5, QueuedIsParked
    <3>3. state[Head(tasks).f] \in {"READY", "LEAVING"}
      BY <2>4, <3>2 DEF Parked
    <3>4. state[Head(tasks).f] # "LEAVING"
      BY <1>2, <2>4, <3>1 DEF OnOneThread
    <3> QED BY <2>3, <3>3, <3>4 DEF resume
  <2>6. CASE Head(tasks).kind # "fiber"
    BY <2>3, <2>6 DEF resume
  <2> QED BY <2>5, <2>6
<1>4. CASE ~\E w \in pool : Take(w)
  <2>1. broken' = broken
    BY <1>4, PoolAndBroken
  <2> QED BY <1>2, <2>1
<1> QED BY <1>3, <1>4

\* The invariant holds at the start,
LEMMA FiberInit == Init => FiberInv
<1> SUFFICES ASSUME Init PROVE FiberInv
  OBVIOUS
<1>1. /\ pool \subseteq Worker /\ pool # {}
      /\ pc = [w \in Worker |-> IF w \in pool THEN "look" ELSE "exit"]
      /\ idleTerm = [w \in Worker |-> w \notin pool]
  <2>1. Start
    BY DEF Init
  <2>2. pool \in (SUBSET Worker) \ {{}}
    BY <2>1 DEF Start
  <2>3. pool \subseteq Worker /\ pool # {}
    BY <2>2
  <2> QED BY <2>1, <2>3 DEF Start
<1>2. FiberTypes
  <2>1. cur \in [Worker -> Task \cup {NoTask}]
    BY DEF Init
  <2>2. <<>> \in Seq(Task) /\ <<>> \in Seq(Timer)
    OBVIOUS
  <2>3. /\ pc \in [Worker -> {"look", "none", "idle", "wait", "woken", "call", "run", "adding", "parking", "leaving", "exit"}]
        /\ \A w \in pool : pc[w] \notin Busy
    BY <1>1 DEF Busy
  <2>4. /\ saw \in [Worker -> BOOLEAN] /\ ready \in [Worker -> SUBSET Fiber] /\ expired \in [Worker -> Seq(Timer)]
        /\ idleTerm \in [Worker -> BOOLEAN]
    BY <1>1, <2>2 DEF Init
  <2>5. /\ state \in [Fiber -> {"none", "READY", "LEAVING", "RUNNING", "TERM"}]
        /\ doing \in [Fiber -> {"user", "sleep", "io", "connect"}]
        /\ call \in [Fiber -> Nat] /\ cancelled \in [Fiber -> BOOLEAN] /\ waits \in [Fiber -> 0..MaxWaits]
    BY FiberAssumption DEF Init
  <2> QED BY <1>1, <2>1, <2>2, <2>3, <2>4, <2>5 DEF FiberTypes, Init
<1>3. CallNumbers
  BY DEF Init, CallNumbers
<1>4. FiberCounts
  <2>1. {w \in pool : pc[w] \in Busy} = {} /\ {w \in pool : pc[w] \in Idling} = {}
    BY <1>1 DEF Busy, Idling
  <2> QED BY <2>1, FS_EmptySet DEF FiberCounts, Init
<1>5. EndsAtStop
  BY <1>1 DEF EndsAtStop, Init
<1>6. NothingLeft /\ SomebodyAwake
  BY DEF NothingLeft, SomebodyAwake, Init
<1>7. OnOneThread /\ StartedOnce
  BY <1>1 DEF OnOneThread, StartedOnce, Init, Carrying
<1>8. WakersExact
  <2> SUFFICES ASSUME NEW f \in Fiber PROVE Wakers(f) = IF Parked(f) THEN 1 ELSE 0
    BY DEF WakersExact
  <2>1. ~Parked(f)
    BY <1>1 DEF Parked, Init
  <2>2. InQueue(due, f) = 0 /\ InQueue(tasks, f) = 0 /\ ByEvent(f) = 0 /\ ByTimer(f) = 0
    BY QueueCountOne DEF Init, ByEvent, ByTimer
  <2>3. InCallbacks(f) = 0
    <3>1. {w \in pool : pc[w] = "call" /\ Resumes(cur[w], f)} = {}
      BY <1>1
    <3> QED BY <3>1, FS_EmptySet DEF InCallbacks
  <2>4. Held(expired, f) = 0
    <3>1. UNION {{v} \X {i \in DOMAIN expired[v] : Resumes(expired[v][i], f)} : v \in pool} = {}
      <4>1. \A v \in pool : {i \in DOMAIN expired[v] : Resumes(expired[v][i], f)} = {}
        BY <1>1 DEF Init
      <4> QED BY <4>1
    <3> QED BY <3>1, FS_EmptySet DEF Held
  <2>5. Wakers(f) = ByEvent(f) + ByTimer(f) + InQueue(due, f) + InQueue(tasks, f) + InCallbacks(f) + Held(expired, f)
    BY <1>2, WakersSum
  <2> QED BY <2>1, <2>2, <2>3, <2>4, <2>5
<1>9. OneThreadNeverPanics
  BY DEF OneThreadNeverPanics, Init
<1> QED BY <1>2, <1>3, <1>4, <1>5, <1>6, <1>7, <1>8, <1>9 DEF FiberInv

\* and every step keeps it: only run() can take a wrong fiber.
LEMMA FiberNext == FiberInv /\ [Next]_vars => FiberInv'
<1> SUFFICES ASSUME FiberInv, [Next]_vars PROVE FiberInv'
  OBVIOUS
<1>1. /\ FiberTypes /\ CallNumbers /\ FiberCounts /\ EndsAtStop /\ NothingLeft /\ SomebodyAwake
      /\ broken = "no" => OnOneThread /\ StartedOnce /\ WakersExact
      /\ OneThreadNeverPanics
  BY DEF FiberInv
<1>2. FiberTypes' /\ CallNumbers' /\ NothingLeft' /\ SomebodyAwake'
  BY <1>1, FiberTypesStep, NothingLeftStep, SomebodyAwakeStep
<1>3. FiberCounts' /\ EndsAtStop'
  <2>1. ASSUME NEW w \in pool, WorkerStep(w) PROVE FiberCounts' /\ EndsAtStop'
    BY <1>1, <2>1, ThreadStep
  <2>2. CASE (\E t \in Timer : FallsDue(t)) \/ (\E f \in Fiber : Schedule(f)) \/ Stop \/ UNCHANGED vars
    <3>1. UNCHANGED <<pool, pc, idleTerm, expired, active, idle>>
      BY <2>2 DEF FallsDue, Schedule, Stop, vars, threadVars, queueVars
    <3>2. isStopped' = isStopped \/ isStopped' = TRUE
      BY <2>2 DEF FallsDue, Schedule, Stop, vars
    <3> QED BY <1>1, <3>1, <3>2 DEF FiberCounts, EndsAtStop, Busy, Idling
  <2> QED BY <2>1, <2>2 DEF Next
<1>4. OneThreadNeverPanics'
  BY <1>1, OneThreadStep
<1>5. ASSUME broken' = "no" PROVE OnOneThread' /\ StartedOnce' /\ WakersExact'
  <2>1. broken = "no"
    BY <1>5 DEF Next, vars
  <2> QED BY <1>1, <1>5, <2>1, OnOneThreadStep, StartedOnceStep, WakersExactStep
<1> QED BY <1>2, <1>3, <1>4, <1>5 DEF FiberInv

\* The invariant holds in every reachable state.
LEMMA FiberInvariant == Spec => []FiberInv
  BY FiberInit, FiberNext, PTL DEF Spec

\* A parked fiber has exactly one thing that will resume it, for any number of
\* threads, fibers and waits: an event, a timeout or a close that races another
\* finds the registration gone (triggerEvent and cancelEvent under the lock).
THEOREM OneWakerCorrect == Spec => []OneWaker
<1>1. FiberInv => OneWaker
  <2> SUFFICES ASSUME FiberInv, broken = "no", NEW f \in Fiber
               PROVE  /\ state[f] = "READY" => Wakers(f) = 1
                      /\ state[f] \in {"none", "TERM"} => Wakers(f) = 0
    BY DEF OneWaker
  <2>1. FiberTypes /\ OnOneThread /\ Wakers(f) = IF Parked(f) THEN 1 ELSE 0
    BY DEF FiberInv, WakersExact
  <2>2. state[f] = "READY" => Parked(f)
    BY DEF Parked
  <2>3. state[f] \in {"none", "TERM"} => ~Parked(f)
    BY <2>1 DEF Parked, OnOneThread, Carrying
  <2> QED BY <2>1, <2>2, <2>3
<1> QED BY <1>1, FiberInvariant, PTL

\* A scheduler with one thread, as Raft::init makes it, never resumes a fiber that
\* is not READY with its context saved, for any number of fibers and waits.
THEOREM OneThreadNeverPanicsCorrect == Spec => []OneThreadNeverPanics
<1>1. FiberInv => OneThreadNeverPanics
  BY DEF FiberInv
<1> QED BY <1>1, FiberInvariant, PTL

\* With any number of threads no task is slept over, except in the window between
\* a thread's look at the queue and its ++idleThreadCnt_ (Scheduler::run).
THEOREM NoLostTickleCorrect == Spec => []NoLostTickle
<1>1. FiberInv => NoLostTickle
  BY DEF FiberInv, SomebodyAwake, NoLostTickle, Busy
<1> QED BY <1>1, FiberInvariant, PTL

\* Scheduler::stop waits for everything, with any number of threads: the last one
\* to end its idle fiber found nothing queued, registered, armed or active.
THEOREM StopWaitsForAllCorrect == Spec => []StopWaitsForAll
<1>1. FiberInv => StopWaitsForAll
  <2> SUFFICES ASSUME FiberInv PROVE StopWaitsForAll
    OBVIOUS
  <2>1. /\ FiberTypes /\ FiberCounts /\ EndsAtStop /\ NothingLeft
        /\ broken = "no" => OnOneThread /\ WakersExact
    BY DEF FiberInv
  <2>2. IsFiniteSet(pool) /\ Cardinality(pool) \in Nat
    BY <2>1, CountsType, FS_CardinalityType
  <2>3. active \in 0..Cardinality(pool) /\ idle \in 0..Cardinality(pool)
    BY <2>1, <2>2, CountsType
  <2>4. TypeOK
    BY <2>1, <2>3 DEF TypeOK, FiberTypes
  <2>5. ASSUME broken = "no", \A w \in pool : pc[w] = "exit"
        PROVE  /\ tasks = <<>> /\ events = {} /\ timers = {} /\ due = <<>>
               /\ \A f \in Fiber : state[f] \in {"none", "TERM"}
    <3>1. tasks = <<>> /\ events = {} /\ timers = {} /\ due = <<>>
      BY <2>1, <2>5 DEF EndsAtStop, NothingLeft
    <3>2. ASSUME NEW f \in Fiber PROVE state[f] \in {"none", "TERM"}
      <4>1. InQueue(due, f) = 0 /\ InQueue(tasks, f) = 0 /\ ByEvent(f) = 0 /\ ByTimer(f) = 0
        BY <3>1, QueueCountOne DEF ByEvent, ByTimer
      <4>2. InCallbacks(f) = 0
        <5>1. {w \in pool : pc[w] = "call" /\ Resumes(cur[w], f)} = {}
          BY <2>5
        <5> QED BY <5>1, FS_EmptySet DEF InCallbacks
      <4>3. Held(expired, f) = 0
        <5>1. \A v \in pool : expired[v] = <<>>
          BY <2>1, <2>5 DEF EndsAtStop
        <5>2. \A v \in pool : {i \in DOMAIN expired[v] : Resumes(expired[v][i], f)} = {}
          BY <5>1
        <5>3. UNION {{v} \X {i \in DOMAIN expired[v] : Resumes(expired[v][i], f)} : v \in pool} = {}
          BY <5>2
        <5> QED BY <5>3, FS_EmptySet DEF Held
      <4>4. Wakers(f) = 0
        BY <2>1, <4>1, <4>2, <4>3, WakersSum
      <4>5. ~Parked(f)
        BY <2>1, <2>5, <4>4 DEF WakersExact
      <4>6. state[f] \notin {"RUNNING", "LEAVING"}
        BY <2>1, <2>5 DEF OnOneThread, Carrying
      <4> QED BY <2>1, <4>5, <4>6 DEF Parked, FiberTypes
    <3> QED BY <3>1, <3>2
  <2> QED BY <2>4, <2>5 DEF StopWaitsForAll
<1> QED BY <1>1, FiberInvariant, PTL

-----------------------------------------------------------------------------
(* The skip list. *)

\* Some natural numbers have a least one.
LEMMA LeastNumber ==
    ASSUME NEW T \in SUBSET Nat, T # {}
    PROVE  \E n \in T : \A m \in T : n <= m
<1>1. PICK n \in T : \A m \in T : ~(<<m, n>> \in OpToRel(<, Nat))
  BY NatLessThanWellFounded, WFMin
<1>2. \A m \in T : ~(m < n)
  BY <1>1 DEF OpToRel
<1> QED BY <1>2

\* What holds of b, and of each number below b if of the next one, holds of 0.
LEMMA Downward ==
    ASSUME NEW b \in Nat, NEW T \in SUBSET (0..b), b \in T,
           \A n \in 0..b : n + 1 \in T => n \in T
    PROVE  T = 0..b
<1>1. T \in SUBSET Nat /\ T # {}
  OBVIOUS
<1>2. SUFFICES ASSUME NEW x \in 0..b, x \notin T PROVE FALSE
  OBVIOUS
<1> DEFINE U == {n \in Nat : x < n /\ n \in T}
<1>3. U \in SUBSET Nat /\ b \in U
  BY <1>2
<1>4. PICK n \in U : \A m \in U : n <= m
  BY <1>3, LeastNumber
<1>5. n - 1 \in 0..b /\ n - 1 \in T
  BY <1>4, <1>2
<1> QED BY <1>5, <1>4, <1>2

\* What holds of 0, and of each number up to b if of the one before, holds up to b.
LEMMA Upward ==
    ASSUME NEW b \in Nat, NEW T \in SUBSET (0..b), 0 \in T,
           \A n \in 0..b : n \in T /\ n < b => n + 1 \in T
    PROVE  T = 0..b
<1> SUFFICES ASSUME NEW x \in 0..b, x \notin T PROVE FALSE
  OBVIOUS
<1> DEFINE U == {n \in 0..b : n \notin T}
<1>1. U \in SUBSET Nat /\ x \in U
  OBVIOUS
<1>2. PICK n \in U : \A m \in U : n <= m
  BY <1>1, LeastNumber
<1>3. n - 1 \in 0..b /\ n - 1 \in T /\ n - 1 < b
  BY <1>2
<1> QED BY <1>2, <1>3

\* The nodes linked on level i, and those a walk along it can stand on.
Tower(s, i) == {k \in Key : s.lvl[k] >= i}
Place(s, i) == {Header} \cup Tower(s, i)

\* x comes next after n on level i.
Follows(s, i, n, x) ==
    \/ x = Null /\ \A k \in Tower(s, i) : k <= n
    \/ x \in Tower(s, i) /\ n < x /\ \A k \in Tower(s, i) : k <= n \/ x <= k

\* u is the last place on level i before the key.
Before(s, i, key, u) == u \in Place(s, i) /\ u < key /\ \A k \in Tower(s, i) : k < key => k <= u

\* Fields of the list have their types.
ListTypes(s) ==
    /\ s.f \in [Level -> [{Header} \cup Key -> Key \cup {Null}]]
    /\ s.lvl \in [Key -> -1..MaxLevel] /\ s.val \in [Key -> Value \cup {NoValue}]
    /\ s.top \in Level

\* Each level links the nodes that reach it in order; a node points nowhere
\* on the levels above its own, and no node is higher than the list.
Linked(s) ==
    /\ ListTypes(s)
    /\ \A i \in Level : \A n \in Place(s, i) : Follows(s, i, n, s.f[i][n])
    /\ \A i \in Level : \A n \in Key \ Tower(s, i) : s.f[i][n] = Null
    /\ \A k \in Key : s.lvl[k] <= s.top

\* The list stands for map m.
Stands(s, m) ==
    /\ m \in [Key -> Value \cup {NoValue}]
    /\ \A k \in Key : s.lvl[k] = -1 <=> m[k] = NoValue
    /\ s.val = m
    /\ s.n = Cardinality(Tower(s, 0))

\* What dump_file can have written.
Entry == [key : Key, value : Value]

\* The list's values and the map's: on the same keys, and equal unless load_file
\* brought the key.
Agrees ==
    /\ store \in [Key -> Value \cup {NoValue}]
    /\ \A k \in Key : /\ value[k] = NoValue <=> store[k] = NoValue
                      /\ k \notin loaded => value[k] = store[k]

\* The inductive invariant of SkipList.
ListInv == Linked(Links) /\ Stands(Links, value) /\ Agrees /\ dumped \in Seq(Entry)

\* Numbers and places of the list.
LEMMA PlaceTypes ==
    ASSUME NEW s, ListTypes(s), NEW i \in Level
    PROVE  /\ MaxKey \in Nat /\ MaxLevel \in Nat /\ Key \in SUBSET Nat /\ Header = 0 /\ Null = MaxKey + 1
           /\ Tower(s, i) \in SUBSET Key /\ Place(s, i) \in SUBSET (0..MaxKey)
           /\ {Header} \cup Key = 0..MaxKey
           /\ \A k \in Key : k \in 1..MaxKey /\ s.lvl[k] \in Int
BY SkipAssumption DEF Tower, Place, Key, Header, Null, ListTypes

\* A link leads to a later node of its level.
LEMMA LinkForward ==
    ASSUME NEW s, Linked(s), NEW i \in Level, NEW n \in 0..MaxKey, s.f[i][n] # Null
    PROVE  s.f[i][n] \in Tower(s, i) /\ s.f[i][n] \in 1..MaxKey /\ n < s.f[i][n]
<1>1. n \in Place(s, i)
  BY PlaceTypes DEF Linked, Place
<1>2. Follows(s, i, n, s.f[i][n])
  BY <1>1 DEF Linked
<1> QED BY <1>2, PlaceTypes DEF Follows, Linked

\* The body of Along's loop as a function of the place.
Step(s, i, key, g, n) == IF s.f[i][n] # Null /\ s.f[i][n] < key THEN g[s.f[i][n]] ELSE n

\* The loop ends: there is a function the recursion of Along defines.
LEMMA AlongEnds ==
    ASSUME NEW s, Linked(s), NEW i \in Level, NEW key \in Key
    PROVE  \E g : g = [n \in 0..MaxKey |-> Step(s, i, key, g, n)]
<1> DEFINE T == {n \in 0..(MaxKey + 1) : \E g : g = [m \in n..MaxKey |-> Step(s, i, key, g, m)]}
<1>0. MaxKey \in Nat /\ MaxKey + 1 \in Nat
  BY SkipAssumption
<1>1. MaxKey + 1 \in T
  <2> DEFINE g0 == [m \in (MaxKey + 1)..MaxKey |-> m]
  <2>1. g0 = [m \in (MaxKey + 1)..MaxKey |-> Step(s, i, key, g0, m)]
    BY <1>0
  <2> HIDE DEF g0
  <2>2. \E g : g = [m \in (MaxKey + 1)..MaxKey |-> Step(s, i, key, g, m)]
    BY <2>1
  <2>3. MaxKey + 1 \in 0..(MaxKey + 1)
    BY <1>0
  <2> QED BY <2>2, <2>3
<1>2. ASSUME NEW n \in 0..(MaxKey + 1), n + 1 \in T PROVE n \in T
  <2>1. n \in 0..MaxKey
    BY <1>2, <1>0
  <2>2. PICK g : g = [m \in (n + 1)..MaxKey |-> Step(s, i, key, g, m)]
    BY <1>2
  <2> DEFINE h == [m \in n..MaxKey |-> IF m = n THEN Step(s, i, key, g, n) ELSE g[m]]
  <2>3. ASSUME NEW m \in n..MaxKey PROVE h[m] = Step(s, i, key, h, m)
    <3>1. s.f[i][m] # Null => s.f[i][m] \in (n + 1)..MaxKey
      BY <2>1, LinkForward
    <3>2. s.f[i][m] # Null => h[s.f[i][m]] = g[s.f[i][m]]
      BY <3>1, <2>1
    <3>3. Step(s, i, key, h, m) = Step(s, i, key, g, m)
      BY <3>2 DEF Step
    <3>4. m # n => g[m] = Step(s, i, key, g, m)
      BY <2>2, <2>1, <1>0
    <3> QED BY <3>3, <3>4
  <2>4. h = [m \in n..MaxKey |-> Step(s, i, key, h, m)]
    BY <2>3
  <2> QED BY <2>4, <2>1, <1>0
<1> HIDE DEF T
<1>3. T \in SUBSET (0..(MaxKey + 1))
  BY DEF T
<1>4. T = 0..(MaxKey + 1)
  BY <1>0, <1>1, <1>2, <1>3, Downward
<1>5. 0 \in T
  BY <1>4, <1>0
<1> QED BY <1>5 DEF T

\* Along stops at the last place of the level before the key.
LEMMA AlongStops ==
    ASSUME NEW s, Linked(s), NEW i \in Level, NEW key \in Key, NEW from \in Place(s, i), from < key
    PROVE  Before(s, i, key, Along(s, i, from, key))
<1>0. MaxKey \in Nat /\ MaxKey + 1 \in Nat /\ {Header} \cup Key = 0..MaxKey
      /\ Place(s, i) \in SUBSET (0..MaxKey) /\ key \in Nat /\ Header = 0 /\ Tower(s, i) \in SUBSET (0..MaxKey) /\ Null = MaxKey + 1
  BY PlaceTypes DEF Linked, Place
<1>1. PICK g : g = [n \in {Header} \cup Key |-> Step(s, i, key, g, n)] /\ Along(s, i, from, key) = g[from]
  <2>1. \E g : g = [n \in {Header} \cup Key |-> Step(s, i, key, g, n)]
    <3>1. PICK g : g = [n \in 0..MaxKey |-> Step(s, i, key, g, n)]
      BY AlongEnds
    <3>2. g = [n \in {Header} \cup Key |-> Step(s, i, key, g, n)]
      BY <3>1, <1>0, Zenon
    <3> QED BY <3>2
  <2> QED BY <2>1 DEF Along, Step
<1> DEFINE T == {n \in 0..(MaxKey + 1) : \A m \in n..MaxKey :
                    m \in Place(s, i) /\ m < key => Before(s, i, key, g[m])}
<1>2. MaxKey + 1 \in T
  BY <1>0
<1>3. ASSUME NEW n \in 0..(MaxKey + 1), n + 1 \in T PROVE n \in T
  <2>1. n \in 0..MaxKey
    BY <1>3, <1>0
  <2>2. SUFFICES ASSUME n \in Place(s, i), n < key PROVE Before(s, i, key, g[n])
    <3>1. ASSUME NEW m \in n..MaxKey, m # n PROVE m \in (n + 1)..MaxKey
      BY <3>1, <2>1, <1>0
    <3> QED BY <1>3, <2>1, <3>1, <1>0
  <2>3. g[n] = Step(s, i, key, g, n)
    BY <1>1, <1>0, <2>1
  <2>4. Follows(s, i, n, s.f[i][n])
    BY <2>2 DEF Linked
  <2>5. CASE s.f[i][n] # Null /\ s.f[i][n] < key
    <3>1. s.f[i][n] \in Tower(s, i) /\ s.f[i][n] \in (n + 1)..MaxKey
      BY <2>5, <2>1, LinkForward
    <3>2. Before(s, i, key, g[s.f[i][n]])
      BY <3>1, <1>3, <2>5 DEF Place
    <3> QED BY <3>2, <2>3, <2>5 DEF Step
  <2>6. CASE ~(s.f[i][n] # Null /\ s.f[i][n] < key)
    <3>1. g[n] = n
      BY <2>3, <2>6 DEF Step
    <3>2. ASSUME NEW k \in Tower(s, i), k < key PROVE k <= n
      BY <3>2, <2>4, <2>6, <1>0, <2>1 DEF Follows
    <3> QED BY <3>1, <2>2, <3>2 DEF Before
  <2> QED BY <2>5, <2>6
<1> HIDE DEF T
<1>4. T \in SUBSET (0..(MaxKey + 1))
  BY DEF T
<1>5. T = 0..(MaxKey + 1)
  BY <1>0, <1>2, <1>3, <1>4, Downward
<1>6. 0 \in T /\ from \in 0..MaxKey
  BY <1>5, <1>0
<1> QED BY <1>6, <1>1 DEF T

\* One level of update, given the place found on the level above.
Found(s, key, g, i) == Along(s, i, IF i = s.top THEN Header ELSE g[i + 1], key)

\* There is a function the recursion of update defines.
LEMMA UpdateEnds ==
    ASSUME NEW s, Linked(s), NEW key \in Key
    PROVE  \E g : g = [i \in 0..s.top |-> Found(s, key, g, i)]
<1> DEFINE T == {n \in 0..(s.top + 1) : \E g : g = [i \in n..s.top |-> Found(s, key, g, i)]}
<1>0. s.top \in Nat /\ s.top + 1 \in Nat
  BY SkipAssumption DEF Linked, ListTypes, Level
<1>1. s.top + 1 \in T
  <2> DEFINE g0 == [i \in (s.top + 1)..s.top |-> i]
  <2>1. g0 = [i \in (s.top + 1)..s.top |-> Found(s, key, g0, i)]
    BY <1>0
  <2> HIDE DEF g0
  <2>2. \E g : g = [i \in (s.top + 1)..s.top |-> Found(s, key, g, i)]
    BY <2>1
  <2>3. s.top + 1 \in 0..(s.top + 1)
    BY <1>0
  <2> QED BY <2>2, <2>3
<1>2. ASSUME NEW n \in 0..(s.top + 1), n + 1 \in T PROVE n \in T
  <2>1. n \in 0..s.top
    BY <1>2, <1>0
  <2>2. PICK g : g = [i \in (n + 1)..s.top |-> Found(s, key, g, i)]
    BY <1>2
  <2> DEFINE h == [i \in n..s.top |-> IF i = n THEN Found(s, key, g, n) ELSE g[i]]
  <2>3. ASSUME NEW i \in n..s.top PROVE h[i] = Found(s, key, h, i)
    <3>1. i # s.top => h[i + 1] = g[i + 1]
      BY <2>1, <1>0
    <3>2. Found(s, key, h, i) = Found(s, key, g, i)
      BY <3>1 DEF Found
    <3>3. i # n => g[i] = Found(s, key, g, i)
      BY <2>2, <2>1, <1>0
    <3> QED BY <3>2, <3>3
  <2>4. h = [i \in n..s.top |-> Found(s, key, h, i)]
    BY <2>3
  <2> QED BY <2>4, <2>1, <1>0
<1> HIDE DEF T
<1>3. T \in SUBSET (0..(s.top + 1))
  BY DEF T
<1>4. T = 0..(s.top + 1)
  BY <1>0, <1>1, <1>2, <1>3, Downward
<1>5. 0 \in T
  BY <1>4, <1>0
<1> QED BY <1>5 DEF T

\* update finds the last place before the key on every level of the list.
LEMMA UpdateFinds ==
    ASSUME NEW s, Linked(s), NEW key \in Key
    PROVE  \A i \in 0..s.top : i \in Level /\ Before(s, i, key, update(s, key)[i])
<1>0. /\ s.top \in Nat /\ s.top + 1 \in Nat /\ 0..s.top \in SUBSET Level
      /\ key \in Nat /\ 0 < key /\ Header = 0
  BY SkipAssumption DEF Linked, ListTypes, Level, Key, Header
<1>1. PICK g : g = [i \in 0..s.top |-> Found(s, key, g, i)] /\ update(s, key) = g
  BY UpdateEnds DEF update, Found
<1> DEFINE T == {n \in 0..(s.top + 1) : \A i \in n..s.top : Before(s, i, key, g[i])}
<1>2. s.top + 1 \in T
  BY <1>0
<1>3. ASSUME NEW n \in 0..(s.top + 1), n + 1 \in T PROVE n \in T
  <2>1. n \in 0..s.top /\ n \in Level
    BY <1>3, <1>0
  <2>2. SUFFICES Before(s, n, key, g[n])
    <3>1. ASSUME NEW m \in n..s.top, m # n PROVE m \in (n + 1)..s.top
      BY <3>1, <2>1, <1>0
    <3> QED BY <1>3, <2>1, <3>1, <1>0
  <2> DEFINE from == IF n = s.top THEN Header ELSE g[n + 1]
  <2>3. g[n] = Along(s, n, from, key)
    BY <1>1, <2>1 DEF Found
  <2>4. from \in Place(s, n) /\ from < key
    <3>1. CASE n = s.top
      BY <3>1, <1>0 DEF Place
    <3>2. CASE n # s.top
      <4>1. n + 1 \in (n + 1)..s.top
        BY <3>2, <2>1, <1>0
      <4>2. Before(s, n + 1, key, g[n + 1])
        BY <4>1, <1>3
      <4>3. Place(s, n + 1) \subseteq Place(s, n)
        BY <2>1, <1>0, PlaceTypes DEF Place, Tower, Linked
      <4> QED BY <4>2, <4>3, <3>2 DEF Before
    <3> QED BY <3>1, <3>2
  <2> HIDE DEF from
  <2> QED BY <2>3, <2>4, <2>1, AlongStops
<1> HIDE DEF T
<1>4. T \in SUBSET (0..(s.top + 1))
  BY DEF T
<1>5. T = 0..(s.top + 1)
  BY <1>0, <1>2, <1>3, <1>4, Downward
<1>6. 0 \in T
  BY <1>5, <1>0
<1> QED BY <1>6, <1>1, <1>0 DEF T

\* The node after the last place before the key is the key's, if it is on the level.
LEMMA NextIsKey ==
    ASSUME NEW s, Linked(s), NEW i \in Level, NEW key \in Key, NEW u, Before(s, i, key, u)
    PROVE  s.f[i][u] = key <=> key \in Tower(s, i)
<1>1. Follows(s, i, u, s.f[i][u])
  BY DEF Before, Linked
<1>2. /\ MaxKey \in Nat /\ Tower(s, i) \in SUBSET (1..MaxKey) /\ u \in 0..MaxKey /\ key \in 1..MaxKey
      /\ Null = MaxKey + 1
  BY PlaceTypes DEF Before, Linked, Key
<1> QED BY <1>1, <1>2 DEF Before, Follows

\* Where the search ends: at the key's node exactly if there is one.
LEMMA ReachedKey ==
    ASSUME NEW s, Linked(s), NEW key \in Key
    PROVE  Reached(s, key) = key <=> s.lvl[key] # -1
<1>1. 0 \in 0..s.top /\ 0 \in Level
  BY SkipAssumption DEF Linked, ListTypes, Level
<1>2. Reached(s, key) = key <=> key \in Tower(s, 0)
  BY <1>1, UpdateFinds, NextIsKey DEF Reached
<1>3. s.lvl[key] \in -1..MaxLevel /\ MaxLevel \in Nat
  BY SkipAssumption DEF Linked, ListTypes
<1> QED BY <1>2, <1>3 DEF Tower

\* There are finitely many nodes.
LEMMA TowerFinite ==
    ASSUME NEW s, NEW i
    PROVE  IsFiniteSet(Key) /\ IsFiniteSet(Tower(s, i)) /\ Cardinality(Tower(s, i)) \in 0..MaxKey
<1>1. MaxKey \in Nat /\ 1 \in Int /\ MaxKey \in Int
  BY SkipAssumption
<1>2. IsFiniteSet(Key) /\ Cardinality(Key) = MaxKey
  <2>1. IsFiniteSet(1..MaxKey) /\ Cardinality(1..MaxKey) = IF 1 > MaxKey THEN 0 ELSE MaxKey - 1 + 1
    BY <1>1, FS_Interval
  <2> QED BY <2>1, <1>1 DEF Key
<1>3. Tower(s, i) \subseteq Key
  BY DEF Tower
<1>4. IsFiniteSet(Tower(s, i)) /\ Cardinality(Tower(s, i)) <= Cardinality(Key)
  BY <1>2, <1>3, FS_Subset
<1>5. Cardinality(Tower(s, i)) \in Nat
  BY <1>4, FS_CardinalityType
<1> QED BY <1>1, <1>2, <1>4, <1>5

\* A link put in before the key: the key's node follows its predecessor, and
\* what followed that follows the key; all other links of the level stay.
LEMMA LinkIn ==
    ASSUME NEW s, Linked(s), NEW i \in Level, NEW key \in Key, key \notin Tower(s, i),
           NEW p, Before(s, i, key, p), NEW t, Tower(t, i) = Tower(s, i) \cup {key},
           NEW g, g[key] = s.f[i][p], g[p] = key, \A n \in {Header} \cup Key : n # key /\ n # p => g[n] = s.f[i][n],
           NEW n \in Place(t, i)
    PROVE  Follows(t, i, n, g[n])
<1>1. /\ MaxKey \in Nat /\ Tower(s, i) \in SUBSET (1..MaxKey) /\ p \in 0..MaxKey /\ key \in 1..MaxKey
      /\ Null = MaxKey + 1 /\ Header = 0 /\ p < key /\ n \in 0..MaxKey /\ p \in Place(s, i)
      /\ p # 0 => p \in Tower(s, i)
      /\ n # key => n \in Place(s, i)
      /\ \A k \in Tower(s, i) : k < key => k <= p
  BY PlaceTypes DEF Before, Linked, Key, Place
<1>3. g[key] = s.f[i][p] /\ g[p] = key /\ (n # key /\ n # p => g[n] = s.f[i][n])
  BY <1>1, PlaceTypes DEF Linked
<1>4. Follows(s, i, p, s.f[i][p])
  BY <1>1 DEF Linked
<1>5. CASE n = key
  <2>1. CASE s.f[i][p] = Null /\ \A k \in Tower(s, i) : k <= p
    BY <2>1, <1>1, <1>3, <1>5 DEF Follows
  <2>2. CASE s.f[i][p] \in Tower(s, i) /\ p < s.f[i][p] /\ \A k \in Tower(s, i) : k <= p \/ s.f[i][p] <= k
    <3>1. key < s.f[i][p]
      BY <2>2, <1>1
    <3> QED BY <2>2, <3>1, <1>1, <1>3, <1>5 DEF Follows
  <2> QED BY <2>1, <2>2, <1>4 DEF Follows
<1>6. CASE n = p
  <2>1. \A k \in Tower(t, i) : k <= p \/ key <= k
    BY <1>1
  <2> QED BY <2>1, <1>1, <1>3, <1>6 DEF Follows
<1>7. CASE n # key /\ n # p
  <2> DEFINE x == s.f[i][n]
  <2>1. Follows(s, i, n, x)
    BY <1>1, <1>7 DEF Linked
  <2>2. g[n] = x
    BY <1>3, <1>7
  <2>3. n < key => n < p /\ p \in Tower(s, i)
    BY <1>1, <1>7 DEF Place
  <2> HIDE DEF x
  <2>4. CASE x = Null /\ \A k \in Tower(s, i) : k <= n
    <3>1. key <= n
      BY <2>4, <2>3, <1>1
    <3> QED BY <2>4, <3>1, <2>2 DEF Follows
  <2>5. CASE x \in Tower(s, i) /\ n < x /\ \A k \in Tower(s, i) : k <= n \/ x <= k
    <3>1. key <= n \/ x <= key
      BY <2>5, <2>3, <1>1
    <3> QED BY <2>5, <3>1, <2>2 DEF Follows
  <2> QED BY <2>1, <2>4, <2>5 DEF Follows
<1> QED BY <1>5, <1>6, <1>7

\* On every level, also above the list, the predecessor is the last place before the key.
LEMMA PredecessorBefore ==
    ASSUME NEW s, Linked(s), NEW key \in Key, NEW i \in Level
    PROVE  Before(s, i, key, Predecessor(s, update(s, key), i))
<1>1. s.top \in Nat /\ i \in Nat
  BY SkipAssumption DEF Linked, ListTypes, Level
<1>2. CASE i <= s.top
  BY <1>1, <1>2, UpdateFinds DEF Predecessor
<1>3. CASE ~(i <= s.top)
  <2>1. Tower(s, i) = {}
    BY <1>1, <1>3, PlaceTypes DEF Tower, Linked
  <2>2. Header < key
    BY SkipAssumption DEF Header, Key
  <2> QED BY <2>1, <2>2, <1>3 DEF Predecessor, Before, Place
<1> QED BY <1>2, <1>3

\* insert_element of a new key keeps the links in order and adds the key to the map.
LEMMA InsertSound ==
    ASSUME NEW s, Linked(s), NEW m, Stands(s, m), NEW key \in Key, s.lvl[key] = -1,
           NEW v \in Value, NEW level \in RandomLevel
    PROVE  /\ Linked(insert_element(s, key, v, level))
           /\ Stands(insert_element(s, key, v, level), [m EXCEPT ![key] = v])
<1> DEFINE u == update(s, key)
           p(i) == Predecessor(s, u, i)
           t == insert_element(s, key, v, level)
<1>1. /\ t.f = [i \in Level |-> IF i > level THEN s.f[i] ELSE [s.f[i] EXCEPT ![key] = s.f[i][p(i)], ![p(i)] = key]]
      /\ t.lvl = [s.lvl EXCEPT ![key] = level] /\ t.val = [s.val EXCEPT ![key] = v]
      /\ t.top = IF level > s.top THEN level ELSE s.top
      /\ t.n = s.n + 1
  BY ReachedKey DEF insert_element
<1>2. \A i \in Level : Before(s, i, key, p(i))
  BY PredecessorBefore
<1> HIDE DEF u, p, t
<1>3. /\ MaxKey \in Nat /\ MaxLevel \in Nat \ {0} /\ level \in 1..MaxLevel /\ Level = 0..MaxLevel
      /\ s.lvl \in [Key -> -1..MaxLevel] /\ s.top \in 0..MaxLevel /\ NoValue \notin Value
      /\ s.f \in [Level -> [{Header} \cup Key -> Key \cup {Null}]]
      /\ s.val \in [Key -> Value \cup {NoValue}]
      /\ \A k \in Key : s.lvl[k] <= s.top
  BY SkipAssumption DEF Linked, ListTypes, RandomLevel, Level, NoValue
<1>4. ASSUME NEW i \in Level
      PROVE  /\ i <= level => Tower(t, i) = Tower(s, i) \cup {key}
             /\ i > level => Tower(t, i) = Tower(s, i)
             /\ key \notin Tower(s, i)
             /\ p(i) \in {Header} \cup Key /\ Place(s, i) \subseteq {Header} \cup Key
  <2>1. i \in Nat /\ level \in Nat /\ \A k \in Key : s.lvl[k] \in Int
    BY <1>3
  <2>2. \A k \in Key : t.lvl[k] = IF k = key THEN level ELSE s.lvl[k]
    BY <1>1, <1>3
  <2>3. key \notin Tower(s, i)
    BY <2>1 DEF Tower
  <2>4. i <= level => Tower(t, i) = Tower(s, i) \cup {key}
    BY <2>1, <2>2 DEF Tower
  <2>5. i > level => Tower(t, i) = Tower(s, i)
    BY <2>1, <2>2, <2>3 DEF Tower
  <2>6. Place(s, i) \subseteq {Header} \cup Key
    BY DEF Place, Tower
  <2>7. p(i) \in {Header} \cup Key
    BY <1>2, <2>6 DEF Before
  <2> QED BY <2>3, <2>4, <2>5, <2>6, <2>7
<1>5. ListTypes(t)
  <2>1. t.f \in [Level -> [{Header} \cup Key -> Key \cup {Null}]]
    <3>1. ASSUME NEW i \in Level PROVE t.f[i] \in [{Header} \cup Key -> Key \cup {Null}]
      <4>1. PICK q \in {Header} \cup Key : q = p(i)
        BY <1>4
      <4>2. PICK g \in [{Header} \cup Key -> Key \cup {Null}] : g = s.f[i]
        BY <1>3
      <4>3. t.f[i] = g \/ t.f[i] = [g EXCEPT ![key] = g[q], ![q] = key]
        BY <1>1, <4>1, <4>2
      <4> QED BY <4>3
    <3> QED BY <3>1, <1>1
  <2>2. t.lvl \in [Key -> -1..MaxLevel] /\ t.val \in [Key -> Value \cup {NoValue}] /\ t.top \in Level
    BY <1>1, <1>3
  <2> QED BY <2>1, <2>2 DEF ListTypes
<1>6. ASSUME NEW i \in Level, NEW n \in Place(t, i) PROVE Follows(t, i, n, t.f[i][n])
  <2>1. CASE i > level
    <3>1. Tower(t, i) = Tower(s, i) /\ t.f[i] = s.f[i]
      BY <2>1, <1>1, <1>4
    <3>2. Follows(s, i, n, s.f[i][n])
      BY <3>1 DEF Linked, Place
    <3> QED BY <3>1, <3>2 DEF Follows
  <2>2. CASE ~(i > level)
    <3>1. t.f[i] = [s.f[i] EXCEPT ![key] = s.f[i][p(i)], ![p(i)] = key]
      BY <2>2, <1>1
    <3>2. Tower(t, i) = Tower(s, i) \cup {key} /\ key \notin Tower(s, i)
      BY <2>2, <1>4, <1>3
    <3>3. PICK q : q = p(i) /\ Before(s, i, key, q)
      BY <1>2
    <3>4. PICK g : g = t.f[i]
      OBVIOUS
    <3>6. q # key /\ q \in {Header} \cup Key /\ DOMAIN s.f[i] = {Header} \cup Key
      BY <3>3, <1>4, <1>3, PlaceTypes DEF Before, Linked
    <3>7. /\ g[key] = s.f[i][q] /\ g[q] = key
          /\ \A k \in {Header} \cup Key : k # key /\ k # q => g[k] = s.f[i][k]
      BY <3>1, <3>3, <3>4, <3>6
    <3>5. Follows(t, i, n, g[n])
      BY <3>2, <3>3, <3>7, LinkIn
    <3> QED BY <3>4, <3>5
  <2> QED BY <2>1, <2>2
<1>7. ASSUME NEW i \in Level, NEW n \in Key \ Tower(t, i) PROVE t.f[i][n] = Null
  <2>1. n \in Key \ Tower(s, i) /\ s.f[i][n] = Null
    BY <1>4, <1>3 DEF Linked
  <2>2. n # p(i) /\ (i <= level => n # key)
    BY <2>1, <1>2, <1>4, SkipAssumption DEF Before, Place, Key, Header
  <2> QED BY <2>1, <2>2, <1>1, <1>3
<1>8. \A k \in Key : t.lvl[k] <= t.top
  BY <1>1, <1>3
<1>9. Stands(t, [m EXCEPT ![key] = v])
  <2>1. Tower(t, 0) = Tower(s, 0) \cup {key} /\ key \notin Tower(s, 0)
    BY <1>4, <1>3
  <2>2. IsFiniteSet(Key) /\ IsFiniteSet(Tower(s, 0))
    BY TowerFinite
  <2>3. Cardinality(Tower(t, 0)) = Cardinality(Tower(s, 0)) + 1
    BY <2>1, <2>2, FS_AddElement
  <2> QED BY <2>3, <1>1, <1>3 DEF Stands
<1> QED BY <1>5, <1>6, <1>7, <1>8, <1>9 DEF Linked, t

\* A link taken out: what followed the key's node follows its predecessor, and
\* the node points nowhere.
LEMMA LinkOut ==
    ASSUME NEW s, Linked(s), NEW i \in Level, NEW key \in Key, key \in Tower(s, i),
           NEW p, Before(s, i, key, p), NEW t, Tower(t, i) = Tower(s, i) \ {key},
           NEW g, g[p] = s.f[i][key], \A n \in {Header} \cup Key : n # key /\ n # p => g[n] = s.f[i][n],
           NEW n \in Place(t, i)
    PROVE  Follows(t, i, n, g[n])
<1>1. /\ MaxKey \in Nat /\ Tower(s, i) \in SUBSET (1..MaxKey) /\ p \in 0..MaxKey /\ key \in 1..MaxKey
      /\ Null = MaxKey + 1 /\ Header = 0 /\ p < key /\ n \in 0..MaxKey /\ p \in Place(s, i)
      /\ n # key /\ n \in Place(s, i)
      /\ \A k \in Tower(s, i) : k < key => k <= p
      /\ key \in Place(s, i)
  BY PlaceTypes DEF Before, Linked, Key, Place
<1>3. g[p] = s.f[i][key] /\ (n # p => g[n] = s.f[i][n])
  BY <1>1, PlaceTypes DEF Linked
<1>4. CASE n = p
  <2> DEFINE x == s.f[i][key]
  <2>1. Follows(s, i, key, x)
    BY <1>1 DEF Linked
  <2> HIDE DEF x
  <2>2. g[n] = x
    BY <1>3, <1>4 DEF x
  <2>3. CASE x = Null /\ \A k \in Tower(s, i) : k <= key
    BY <2>2, <2>3, <1>1, <1>4 DEF Follows
  <2>4. CASE x \in Tower(s, i) /\ key < x /\ \A k \in Tower(s, i) : k <= key \/ x <= k
    BY <2>2, <2>4, <1>1, <1>4 DEF Follows
  <2> QED BY <2>1, <2>3, <2>4 DEF Follows
<1>5. CASE n # p
  <2> DEFINE x == s.f[i][n]
  <2>1. Follows(s, i, n, x)
    BY <1>1 DEF Linked
  <2> HIDE DEF x
  <2>2. g[n] = x
    BY <1>3, <1>5 DEF x
  <2>3. CASE x = Null /\ \A k \in Tower(s, i) : k <= n
    BY <2>2, <2>3 DEF Follows
  <2>4. CASE x \in Tower(s, i) /\ n < x /\ \A k \in Tower(s, i) : k <= n \/ x <= k
    <3>1. x # key
      <4>1. SUFFICES ASSUME x = key PROVE FALSE
        OBVIOUS
      <4>2. n < p /\ p \in Tower(s, i)
        BY <4>1, <2>4, <1>1, <1>5 DEF Place
      <4> QED BY <4>1, <4>2, <2>4, <1>1
    <3> QED BY <2>2, <2>4, <3>1 DEF Follows
  <2> QED BY <2>1, <2>3, <2>4 DEF Follows
<1> QED BY <1>4, <1>5

\* The list's level after a deletion: the highest one with a node, or 0.
LEMMA LoweredLevel ==
    ASSUME NEW s, Linked(s), NEW f
    PROVE  /\ Lowered(s, f) \in 0..s.top
           /\ \A j \in (Lowered(s, f) + 1)..s.top : f[j][Header] = Null
<1> DEFINE P(i) == /\ i = 0 \/ f[i][Header] # Null
                   /\ \A j \in (i + 1)..s.top : f[j][Header] = Null
           U == {i \in 0..s.top : \A j \in (i + 1)..s.top : f[j][Header] = Null}
<1>1. s.top \in Nat
  BY SkipAssumption DEF Linked, ListTypes, Level
<1>2. U \in SUBSET Nat /\ s.top \in U
  BY <1>1
<1>3. PICK i \in U : \A j \in U : i <= j
  BY <1>2, LeastNumber
<1>4. i \in 0..s.top /\ P(i)
  <2>1. CASE i = 0
    BY <2>1, <1>3
  <2>2. CASE i # 0 /\ f[i][Header] = Null
    <3>1. i - 1 \in 0..s.top
      BY <2>2, <1>3, <1>1
    <3>2. ASSUME NEW j \in ((i - 1) + 1)..s.top PROVE f[j][Header] = Null
      BY <2>2, <1>3, <1>1
    <3>3. i - 1 \in U
      BY <3>1, <3>2
    <3> QED BY <3>3, <1>3, <1>1
  <2> QED BY <2>1, <2>2, <1>3
<1>5. Lowered(s, f) \in 0..s.top /\ P(Lowered(s, f))
  BY <1>4 DEF Lowered
<1> QED BY <1>5

\* A key that is on the lists of some levels is on those of the lower ones:
\* Unlinked takes it out of all of them.
LEMMA UnlinkedLevels ==
    ASSUME NEW s, Linked(s), NEW key \in Key, NEW i \in Level
    PROVE  (i <= s.top /\ \A j \in 0..i : s.f[j][update(s, key)[j]] = key) <=> key \in Tower(s, i)
<1>1. /\ MaxLevel \in Nat /\ s.top \in 0..MaxLevel /\ i \in 0..MaxLevel /\ s.lvl[key] \in -1..MaxLevel
      /\ s.lvl[key] <= s.top /\ Level = 0..MaxLevel
  BY SkipAssumption DEF Linked, ListTypes, Level
<1>2. ASSUME NEW j \in 0..s.top PROVE s.f[j][update(s, key)[j]] = key <=> key \in Tower(s, j)
  BY UpdateFinds, NextIsKey
<1>3. \A j \in 0..s.top : key \in Tower(s, j) <=> s.lvl[key] >= j
  BY DEF Tower
<1>4. key \in Tower(s, i) <=> s.lvl[key] >= i
  BY DEF Tower
<1> QED BY <1>1, <1>2, <1>3, <1>4

\* delete_element of a present key keeps the links in order and takes the key
\* out of the map.
LEMMA DeleteSound ==
    ASSUME NEW s, Linked(s), NEW m, Stands(s, m), NEW key \in Key, s.lvl[key] # -1
    PROVE  /\ Linked(delete_element(s, key))
           /\ Stands(delete_element(s, key), [m EXCEPT ![key] = NoValue])
           /\ delete_element(s, key).lvl[key] = -1
<1> DEFINE u == update(s, key)
           t == delete_element(s, key)
<1>1. /\ t.f = Unlinked(s, u, key)
      /\ t.lvl = [s.lvl EXCEPT ![key] = -1] /\ t.val = [s.val EXCEPT ![key] = NoValue]
      /\ t.top = Lowered(s, t.f)
      /\ t.n = s.n - 1
  BY ReachedKey DEF delete_element
<1>2. t.f = [i \in Level |-> IF key \in Tower(s, i)
                             THEN [s.f[i] EXCEPT ![u[i]] = s.f[i][key], ![key] = Null] ELSE s.f[i]]
  BY <1>1, UnlinkedLevels DEF Unlinked
<1>3. \A i \in 0..s.top : i \in Level /\ Before(s, i, key, u[i])
  BY UpdateFinds
<1> HIDE DEF u, t
<1>4. /\ MaxKey \in Nat /\ MaxLevel \in Nat \ {0} /\ Level = 0..MaxLevel
      /\ s.lvl \in [Key -> -1..MaxLevel] /\ s.top \in 0..MaxLevel /\ NoValue \notin Value
      /\ s.f \in [Level -> [{Header} \cup Key -> Key \cup {Null}]]
      /\ s.val \in [Key -> Value \cup {NoValue}]
      /\ \A k \in Key : s.lvl[k] <= s.top
  BY SkipAssumption DEF Linked, ListTypes, Level, NoValue
<1>5. ASSUME NEW i \in Level
      PROVE  /\ Tower(t, i) = Tower(s, i) \ {key}
             /\ key \in Tower(s, i) => i \in 0..s.top /\ Before(s, i, key, u[i]) /\ u[i] \in {Header} \cup Key
             /\ key \notin Tower(s, i) => Tower(t, i) = Tower(s, i)
  <2>1. Tower(t, i) = Tower(s, i) \ {key}
    BY <1>1, <1>4 DEF Tower
  <2>2. key \in Tower(s, i) => i \in 0..s.top
    BY <1>4 DEF Tower
  <2> QED BY <2>1, <2>2, <1>3 DEF Before, Place, Tower
<1>6. t.f \in [Level -> [{Header} \cup Key -> Key \cup {Null}]]
  <2>1. ASSUME NEW i \in Level PROVE t.f[i] \in [{Header} \cup Key -> Key \cup {Null}]
    <3>1. PICK g \in [{Header} \cup Key -> Key \cup {Null}] : g = s.f[i]
      BY <1>4
    <3>2. t.f[i] = g \/ t.f[i] = [g EXCEPT ![u[i]] = g[key], ![key] = Null]
      BY <1>2, <3>1
    <3> QED BY <3>2
  <2> QED BY <2>1, <1>2
<1>7. ASSUME NEW i \in Level, NEW n \in Place(t, i) PROVE Follows(t, i, n, t.f[i][n])
  <2>1. CASE key \notin Tower(s, i)
    <3>1. Tower(t, i) = Tower(s, i) /\ t.f[i] = s.f[i]
      BY <2>1, <1>2, <1>5
    <3>2. Follows(s, i, n, s.f[i][n])
      BY <3>1 DEF Linked, Place
    <3> QED BY <3>1, <3>2 DEF Follows
  <2>2. CASE key \in Tower(s, i)
    <3>1. PICK q : q = u[i] /\ Before(s, i, key, q)
      BY <1>5, <2>2
    <3>2. PICK g : g = t.f[i]
      OBVIOUS
    <3>5. q # key /\ q \in {Header} \cup Key /\ DOMAIN s.f[i] = {Header} \cup Key
      BY <3>1, <1>5, <2>2, <1>4, PlaceTypes DEF Before, Linked
    <3>6. g = [s.f[i] EXCEPT ![q] = s.f[i][key], ![key] = Null]
      BY <3>1, <3>2, <1>2, <2>2
    <3>7. /\ g[q] = s.f[i][key]
          /\ \A k \in {Header} \cup Key : k # key /\ k # q => g[k] = s.f[i][k]
      BY <3>5, <3>6
    <3>3. Tower(t, i) = Tower(s, i) \ {key}
      BY <1>5
    <3>4. Follows(t, i, n, g[n])
      BY <3>1, <3>7, <3>3, <2>2, LinkOut
    <3> QED BY <3>2, <3>4
  <2> QED BY <2>1, <2>2
<1>8. ASSUME NEW i \in Level, NEW n \in Key \ Tower(t, i) PROVE t.f[i][n] = Null
  <2>1. CASE key \notin Tower(s, i)
    BY <2>1, <1>2, <1>5 DEF Linked
  <2>2. CASE key \in Tower(s, i)
    <3>1. t.f[i] = [s.f[i] EXCEPT ![u[i]] = s.f[i][key], ![key] = Null]
      BY <2>2, <1>2
    <3>2. CASE n = key
      BY <3>1, <3>2, <1>4
    <3>3. CASE n # key
      <4>1. n \notin Tower(s, i) /\ s.f[i][n] = Null
        BY <3>3, <1>5 DEF Linked
      <4>2. n # u[i]
        BY <4>1, <2>2, <1>5, SkipAssumption DEF Before, Place, Key, Header
      <4> QED BY <3>1, <3>3, <4>1, <4>2, <1>4
    <3> QED BY <3>2, <3>3
  <2> QED BY <2>1, <2>2
<1>9. t.top \in 0..s.top /\ \A k \in Key : t.lvl[k] <= t.top
  <2>1. t.top \in 0..s.top /\ \A j \in (t.top + 1)..s.top : t.f[j][Header] = Null
    BY <1>1, LoweredLevel
  <2>2. SUFFICES ASSUME NEW k \in Key, ~(t.lvl[k] <= t.top) PROVE FALSE
    BY <2>1
  <2>3. t.lvl[k] \in (t.top + 1)..s.top /\ t.lvl[k] \in Level
    BY <2>1, <2>2, <1>1, <1>4
  <2>4. k \in Tower(t, t.lvl[k]) /\ Header \in Place(t, t.lvl[k]) /\ k \in 1..MaxKey
    BY <2>3, <1>4 DEF Tower, Place, Key
  <2>5. Follows(t, t.lvl[k], Header, Null)
    BY <2>1, <2>3, <2>4, <1>7
  <2> QED BY <2>4, <2>5, <1>4 DEF Follows, Header, Null, Tower, Key
<1>10. Stands(t, [m EXCEPT ![key] = NoValue])
  <2>1. Tower(t, 0) = Tower(s, 0) \ {key} /\ key \in Tower(s, 0)
    BY <1>5, <1>4 DEF Tower
  <2>2. Cardinality(Tower(t, 0)) = Cardinality(Tower(s, 0)) - 1
    BY <2>1, TowerFinite, FS_RemoveElement
  <2> QED BY <2>2, <1>1, <1>4 DEF Stands
<1>11. ListTypes(t)
  <2>1. t.top \in Level
    BY <1>4, <1>9
  <2>2. t.lvl \in [Key -> -1..MaxLevel] /\ t.val \in [Key -> Value \cup {NoValue}]
    BY <1>1, <1>4
  <2> QED BY <2>1, <2>2, <1>6 DEF ListTypes
<1>12. t.lvl[key] = -1
  BY <1>1, <1>4
<1> QED BY <1>7, <1>8, <1>9, <1>10, <1>11, <1>12 DEF Linked, t

\* The nodes after place n, and a dump w of them: in order, all of them, each once.
After(s, n) == {k \in Tower(s, 0) : n < k}
Lists(s, n, w) ==
    /\ w \in Seq(Entry)
    /\ \A i, j \in DOMAIN w : i < j => w[i].key < w[j].key
    /\ {w[i].key : i \in DOMAIN w} = After(s, n)
    /\ Len(w) = Cardinality(After(s, n))

\* A dump from the next node, with that node in front, is a dump from here.
LEMMA ListsMore ==
    ASSUME NEW s, Linked(s), NEW n \in 0..MaxKey, NEW x \in Tower(s, 0), n < x,
           \A k \in Tower(s, 0) : k <= n \/ x <= k, s.val[x] \in Value, NEW w, Lists(s, x, w)
    PROVE  Lists(s, n, <<[key |-> x, value |-> s.val[x]]>> \o w)
<1> DEFINE e == [key |-> x, value |-> s.val[x]]
           q == <<e>> \o w
<1>1. MaxKey \in Nat /\ Tower(s, 0) \in SUBSET (1..MaxKey) /\ Tower(s, 0) \in SUBSET Key
  BY SkipAssumption DEF Tower, Key
<1>2. e \in Entry /\ e.key = x
  BY <1>1 DEF Entry, Linked, ListTypes
<1> HIDE DEF e
<1>3. w \in Seq(Entry) /\ Len(w) \in Nat
  BY DEF Lists
<1>4. /\ q \in Seq(Entry) /\ Len(q) = Len(w) + 1
      /\ q[1] = e /\ \A i \in 1..Len(w) : q[i + 1] = w[i]
  BY <1>2, <1>3
<1> HIDE DEF q
<1>5. /\ DOMAIN q = 1..(Len(w) + 1) /\ DOMAIN w = 1..Len(w)
      /\ \A i \in DOMAIN q : i # 1 => i - 1 \in DOMAIN w /\ q[i] = w[i - 1]
  <2>1. DOMAIN q = 1..(Len(w) + 1) /\ DOMAIN w = 1..Len(w)
    BY <1>3, <1>4
  <2>2. ASSUME NEW i \in DOMAIN q, i # 1 PROVE i - 1 \in 1..Len(w) /\ q[i] = w[i - 1]
    BY <2>1, <2>2, <1>3, <1>4
  <2> QED BY <2>1, <2>2
<1>6. \A i \in DOMAIN w : w[i].key \in After(s, x)
  BY DEF Lists
<1>7. ASSUME NEW i \in DOMAIN q, NEW j \in DOMAIN q, i < j PROVE q[i].key < q[j].key
  <2>1. j # 1 /\ j - 1 \in DOMAIN w /\ q[j] = w[j - 1]
    BY <1>7, <1>5, <1>3
  <2>2. CASE i = 1
    BY <2>1, <2>2, <1>2, <1>4, <1>6 DEF After
  <2>3. CASE i # 1
    <3>1. i - 1 \in DOMAIN w /\ q[i] = w[i - 1] /\ i - 1 < j - 1
      BY <2>3, <1>5, <1>7, <1>3
    <3> QED BY <2>1, <3>1 DEF Lists
  <2> QED BY <2>2, <2>3
<1>8. After(s, n) = After(s, x) \cup {x} /\ x \notin After(s, x)
  BY <1>1 DEF After
<1>9. {q[i].key : i \in DOMAIN q} = After(s, n)
  <2>1. ASSUME NEW i \in DOMAIN q PROVE q[i].key \in After(s, n)
    BY <1>5, <1>6, <1>8, <1>2, <1>4
  <2>2. ASSUME NEW k \in After(s, n) PROVE \E i \in DOMAIN q : q[i].key = k
    <3>1. CASE k = x
      <4>1. 1 \in DOMAIN q
        BY <1>5, <1>3
      <4> QED BY <4>1, <3>1, <1>2, <1>4
    <3>2. CASE k # x
      <4>1. k \in {w[i].key : i \in DOMAIN w}
        BY <3>2, <1>8 DEF Lists
      <4>2. PICK i \in DOMAIN w : w[i].key = k
        BY <4>1
      <4>3. i + 1 \in DOMAIN q /\ q[i + 1] = w[i]
        BY <4>2, <1>5, <1>4, <1>3
      <4> QED BY <4>2, <4>3
    <3> QED BY <3>1, <3>2
  <2> QED BY <2>1, <2>2
<1>10. IsFiniteSet(After(s, x))
  BY TowerFinite, FS_Subset DEF After
<1>11. Cardinality(After(s, n)) = Cardinality(After(s, x)) + 1
  BY <1>8, <1>10, FS_AddElement
<1>12. Len(q) = Cardinality(After(s, n))
  BY <1>11, <1>4 DEF Lists
<1> QED BY <1>4, <1>7, <1>9, <1>12 DEF Lists, q, e

\* The body of Walk's recursion.
Onward(s, g, n) ==
    IF s.f[0][n] = Null THEN <<>> ELSE <<[key |-> s.f[0][n], value |-> s.val[s.f[0][n]]]>> \o g[s.f[0][n]]

\* The walk along level 0 ends.
LEMMA WalkEnds ==
    ASSUME NEW s, Linked(s)
    PROVE  \E g : g = [n \in 0..MaxKey |-> Onward(s, g, n)]
<1> DEFINE T == {n \in 0..(MaxKey + 1) : \E g : g = [m \in n..MaxKey |-> Onward(s, g, m)]}
<1>0. MaxKey \in Nat /\ MaxKey + 1 \in Nat /\ 0 \in Level
  BY SkipAssumption DEF Level
<1>1. MaxKey + 1 \in T
  <2> DEFINE g0 == [m \in (MaxKey + 1)..MaxKey |-> m]
  <2>1. g0 = [m \in (MaxKey + 1)..MaxKey |-> Onward(s, g0, m)]
    BY <1>0
  <2> HIDE DEF g0
  <2>2. \E g : g = [m \in (MaxKey + 1)..MaxKey |-> Onward(s, g, m)]
    BY <2>1
  <2>3. MaxKey + 1 \in 0..(MaxKey + 1)
    BY <1>0
  <2> QED BY <2>2, <2>3
<1>2. ASSUME NEW n \in 0..(MaxKey + 1), n + 1 \in T PROVE n \in T
  <2>1. n \in 0..MaxKey
    BY <1>2, <1>0
  <2>2. PICK g : g = [m \in (n + 1)..MaxKey |-> Onward(s, g, m)]
    BY <1>2
  <2> DEFINE h == [m \in n..MaxKey |-> IF m = n THEN Onward(s, g, n) ELSE g[m]]
  <2>3. ASSUME NEW m \in n..MaxKey PROVE h[m] = Onward(s, h, m)
    <3>1. s.f[0][m] # Null => s.f[0][m] \in (n + 1)..MaxKey
      BY <2>1, <1>0, LinkForward
    <3>2. s.f[0][m] # Null => h[s.f[0][m]] = g[s.f[0][m]]
      BY <3>1, <2>1
    <3>3. Onward(s, h, m) = Onward(s, g, m)
      BY <3>2 DEF Onward
    <3>4. m # n => g[m] = Onward(s, g, m)
      BY <2>2, <2>1, <1>0
    <3> QED BY <3>3, <3>4
  <2>4. h = [m \in n..MaxKey |-> Onward(s, h, m)]
    BY <2>3
  <2> QED BY <2>4, <2>1, <1>0
<1> HIDE DEF T
<1>3. T \in SUBSET (0..(MaxKey + 1))
  BY DEF T
<1>4. T = 0..(MaxKey + 1)
  BY <1>0, <1>1, <1>2, <1>3, Downward
<1>5. 0 \in T
  BY <1>4, <1>0
<1> QED BY <1>5 DEF T

\* dump_file writes every node of the list once, in the order of the keys.
LEMMA WalkLists ==
    ASSUME NEW s, Linked(s), NEW vals, Stands(s, vals)
    PROVE  Lists(s, Header, Walk(s))
<1>0. /\ MaxKey \in Nat /\ MaxKey + 1 \in Nat /\ {Header} \cup Key = 0..MaxKey /\ Header = 0 /\ 0 \in Level
      /\ Place(s, 0) \in SUBSET (0..MaxKey) /\ Tower(s, 0) \in SUBSET (1..MaxKey) /\ Null = MaxKey + 1
  BY SkipAssumption, PlaceTypes DEF Linked, Level, Key
<1>1. PICK g : g = [n \in {Header} \cup Key |-> Onward(s, g, n)] /\ Walk(s) = g[Header]
  <2>1. PICK g : g = [n \in 0..MaxKey |-> Onward(s, g, n)]
    BY WalkEnds
  <2>2. g = [n \in {Header} \cup Key |-> Onward(s, g, n)]
    BY <2>1, <1>0, Zenon
  <2> QED BY <2>2 DEF Walk, Onward
<1> DEFINE T == {n \in 0..(MaxKey + 1) : \A m \in n..MaxKey : m \in Place(s, 0) => Lists(s, m, g[m])}
<1>2. MaxKey + 1 \in T
  BY <1>0
<1>3. ASSUME NEW n \in 0..(MaxKey + 1), n + 1 \in T PROVE n \in T
  <2>1. n \in 0..MaxKey
    BY <1>3, <1>0
  <2>2. SUFFICES ASSUME n \in Place(s, 0) PROVE Lists(s, n, g[n])
    <3>1. ASSUME NEW m \in n..MaxKey, m # n PROVE m \in (n + 1)..MaxKey
      BY <3>1, <2>1, <1>0
    <3> QED BY <1>3, <2>1, <3>1, <1>0
  <2>3. g[n] = Onward(s, g, n)
    BY <1>1, <1>0, <2>1
  <2>4. Follows(s, 0, n, s.f[0][n])
    BY <2>2, <1>0 DEF Linked
  <2>5. CASE s.f[0][n] # Null
    <3>1. PICK x : x = s.f[0][n]
      OBVIOUS
    <3>2. x \in Tower(s, 0) /\ n < x /\ \A k \in Tower(s, 0) : k <= n \/ x <= k
      BY <2>5, <2>4, <3>1 DEF Follows
    <3>3. x \in (n + 1)..MaxKey /\ x \in Place(s, 0)
      BY <3>2, <2>1, <1>0 DEF Place
    <3>4. PICK w : w = g[x] /\ Lists(s, x, w)
      BY <3>3, <1>3
    <3>7. s.val[x] \in Value
      <4>1. x \in Key /\ s.lvl[x] >= 0
        BY <3>2 DEF Tower
      <4> QED BY <4>1 DEF Stands
    <3>5. Lists(s, n, <<[key |-> x, value |-> s.val[x]]>> \o w)
      BY <3>2, <3>4, <3>7, <2>1, ListsMore
    <3>6. g[n] = <<[key |-> x, value |-> s.val[x]]>> \o w
      BY <2>3, <2>5, <3>1, <3>4 DEF Onward
    <3> QED BY <3>5, <3>6
  <2>6. CASE s.f[0][n] = Null
    <3>1. g[n] = <<>>
      BY <2>3, <2>6 DEF Onward
    <3>2. After(s, n) = {}
      BY <2>4, <2>6, <1>0, <2>1 DEF Follows, After
    <3>3. Cardinality(After(s, n)) = 0
      BY <3>2, FS_EmptySet
    <3>4. <<>> \in Seq(Entry) /\ Len(<<>>) = 0 /\ DOMAIN <<>> = {}
      OBVIOUS
    <3> QED BY <3>1, <3>2, <3>3, <3>4 DEF Lists
  <2> QED BY <2>5, <2>6
<1> HIDE DEF T
<1>4. T \in SUBSET (0..(MaxKey + 1))
  BY DEF T
<1>5. T = 0..(MaxKey + 1)
  BY <1>0, <1>2, <1>3, <1>4, Downward
<1>6. 0 \in T /\ 0 \in 0..MaxKey /\ Header \in Place(s, 0)
  BY <1>5, <1>0 DEF Place
<1>7. Lists(s, 0, g[0])
  BY <1>6, <1>0 DEF T
<1> QED BY <1>7, <1>1, <1>0

\* Both depend on the fields of the list only.
LEMMA SameFields ==
    ASSUME NEW s, NEW t, t.f = s.f, t.lvl = s.lvl, t.val = s.val, t.top = s.top, t.n = s.n,
           Linked(s), NEW m, Stands(s, m)
    PROVE  Linked(t) /\ Stands(t, m)
<1>1. \A i : Tower(t, i) = Tower(s, i) /\ Place(t, i) = Place(s, i)
  BY DEF Tower, Place
<1>2. \A i, n, x : Follows(s, i, n, x) => Follows(t, i, n, x)
  BY <1>1 DEF Follows
<1>3. ListTypes(t)
  BY DEF Linked, ListTypes
<1>4. Linked(t)
  BY <1>1, <1>2, <1>3 DEF Linked
<1>5. Stands(t, m)
  BY <1>1 DEF Stands
<1> QED BY <1>4, <1>5

\* The variables after Becomes are the fields of the list.
LEMMA BecomesSound ==
    ASSUME NEW s, Becomes(s), Linked(s), NEW m, Stands(s, m)
    PROVE  Linked(Links)' /\ Stands(Links, value)' /\ value' = m
<1> DEFINE t == [f |-> forward', lvl |-> node_level', val |-> value', top |-> listLevel', n |-> count']
<1>1. t.f = s.f /\ t.lvl = s.lvl /\ t.val = s.val /\ t.top = s.top /\ t.n = s.n
  BY DEF Becomes
<1> HIDE DEF t
<1>2. Linked(t) /\ Stands(t, m)
  BY <1>1, SameFields
<1>3. Links' = t
  BY DEF Links, t
<1>4. value' = m
  BY DEF Becomes, Stands
<1> QED BY <1>2, <1>3, <1>4

\* search_element answers as the map.
LEMMA SearchAnswers ==
    ASSUME NEW s, Linked(s), NEW m, Stands(s, m), NEW k \in Key
    PROVE  search_element(s, k) = m[k]
BY ReachedKey DEF search_element, Stands

\* The empty list stands for the empty map.
LEMMA EmptySound == Linked(EmptyList) /\ Stands(EmptyList, [k \in Key |-> NoValue])
<1> DEFINE t == EmptyList
<1>1. /\ t.f = [i \in Level |-> [n \in {Header} \cup Key |-> Null]]
      /\ t.lvl = [k \in Key |-> -1] /\ t.val = [k \in Key |-> NoValue] /\ t.top = 0 /\ t.n = 0
  BY DEF EmptyList
<1> HIDE DEF t
<1>2. MaxLevel \in Nat /\ Level = 0..MaxLevel /\ 0 \in Level
  BY SkipAssumption DEF Level
<1>3. \A i \in Level : Tower(t, i) = {} /\ Place(t, i) = {Header}
  BY <1>1, <1>2 DEF Tower, Place
<1>4. ListTypes(t)
  BY <1>1, <1>2 DEF ListTypes
<1>5. Linked(t)
  BY <1>1, <1>2, <1>3, <1>4 DEF Linked, Follows
<1>6. Cardinality(Tower(t, 0)) = 0
  BY <1>2, <1>3, FS_EmptySet
<1>7. Stands(t, [k \in Key |-> NoValue])
  BY <1>1, <1>6 DEF Stands
<1> QED BY <1>5, <1>7 DEF t

\* insert_set_element: what was there under the key is gone, the new value is there.
LEMMA InsertSetSound ==
    ASSUME Linked(Links), Stands(Links, value), NEW k \in Key, NEW v \in Value, NEW level \in RandomLevel,
           InsertSet(k, v, level)
    PROVE  Linked(Links)' /\ Stands(Links, value)' /\ value' = [value EXCEPT ![k] = v]
<1>1. PICK s : s = Links /\ Linked(s) /\ Stands(s, value)
  OBVIOUS
<1>2. PICK c : c = Cleared(s, k)
  OBVIOUS
<1>3. value \in [Key -> Value \cup {NoValue}] /\ (s.lvl[k] = -1 <=> value[k] = NoValue)
  BY <1>1 DEF Stands
<1>4. PICK m \in [Key -> Value \cup {NoValue}] :
         /\ Linked(c) /\ Stands(c, m) /\ c.lvl[k] = -1
         /\ [m EXCEPT ![k] = v] = [value EXCEPT ![k] = v]
  <2>1. CASE value[k] = NoValue
    <3>1. c = s
      BY <2>1, <1>1, <1>2, SearchAnswers DEF Cleared
    <3> QED BY <3>1, <2>1, <1>1, <1>3 DEF Stands
  <2>2. CASE value[k] # NoValue
    <3>1. c = delete_element(s, k) /\ s.lvl[k] # -1
      BY <2>2, <1>1, <1>2, <1>3, SearchAnswers DEF Cleared, Stands
    <3>2. PICK m : m = [value EXCEPT ![k] = NoValue]
      OBVIOUS
    <3>3. Linked(c) /\ Stands(c, m) /\ c.lvl[k] = -1
      BY <3>1, <3>2, <1>1, DeleteSound
    <3>4. m \in [Key -> Value \cup {NoValue}] /\ [m EXCEPT ![k] = v] = [value EXCEPT ![k] = v]
      BY <3>2, <1>3
    <3> QED BY <3>3, <3>4
  <2> QED BY <2>1, <2>2
<1>5. PICK t : t = insert_element(c, k, v, level)
  OBVIOUS
<1>6. Linked(t) /\ Stands(t, [m EXCEPT ![k] = v])
  BY <1>4, <1>5, InsertSound
<1>7. Becomes(t)
  BY <1>1, <1>2, <1>5 DEF InsertSet
<1>8. PICK r : r = [value EXCEPT ![k] = v] /\ Stands(t, r)
  BY <1>4, <1>6
<1> QED BY <1>6, <1>7, <1>8, BecomesSound

\* delete_element of the server's list.
LEMMA DeleteStepSound ==
    ASSUME Linked(Links), Stands(Links, value), NEW k \in Key, Delete(k)
    PROVE  Linked(Links)' /\ Stands(Links, value)' /\ value' = [value EXCEPT ![k] = NoValue]
<1>1. PICK s : s = Links /\ Linked(s) /\ Stands(s, value)
  OBVIOUS
<1>2. PICK t : t = delete_element(s, k)
  OBVIOUS
<1>3. PICK r : Becomes(t) /\ r = [value EXCEPT ![k] = NoValue]
  BY <1>1, <1>2 DEF Delete
<1>4. value \in [Key -> Value \cup {NoValue}] /\ (s.lvl[k] = -1 <=> value[k] = NoValue)
  BY <1>1 DEF Stands
<1>5. Linked(t) /\ Stands(t, r)
  <2>1. CASE s.lvl[k] # -1
    BY <2>1, <1>1, <1>2, <1>3, DeleteSound
  <2>2. CASE s.lvl[k] = -1
    <3>1. t = s
      BY <2>2, <1>1, <1>2, ReachedKey DEF delete_element
    <3>2. r = value
      BY <2>2, <1>3, <1>4
    <3> QED BY <3>1, <3>2, <1>1
  <2> QED BY <2>1, <2>2
<1> QED BY <1>3, <1>5, BecomesSound

\* The map after i keys of the dump were loaded.
Loaded(i) == [k \in Key |-> IF value[k] = NoValue /\ \E j \in 1..i : dumped[j].key = k THEN "key" ELSE value[k]]

\* One step of load_file's recursion.
LoadStep(levels, g, i) ==
    IF i = 0 THEN Links ELSE insert_element(g[i - 1], dumped[i].key, "key", levels[dumped[i].key])

\* There is a function the recursion of load_file defines.
LEMMA LoadEnds ==
    ASSUME dumped \in Seq(Entry), NEW levels
    PROVE  \E g : g = [i \in 0..Len(dumped) |-> LoadStep(levels, g, i)]
<1> DEFINE L == Len(dumped)
           T == {n \in 0..L : \E g : g = [i \in 0..n |-> LoadStep(levels, g, i)]}
<1>0. L \in Nat
  OBVIOUS
<1> HIDE DEF L
<1>1. 0 \in T
  <2> DEFINE g0 == [i \in 0..0 |-> Links]
  <2>1. g0 = [i \in 0..0 |-> LoadStep(levels, g0, i)]
    BY DEF LoadStep
  <2> HIDE DEF g0
  <2>2. \E g : g = [i \in 0..0 |-> LoadStep(levels, g, i)]
    BY <2>1
  <2>3. 0 \in 0..L
    BY <1>0
  <2> QED BY <2>2, <2>3
<1>2. ASSUME NEW n \in 0..L, n \in T, n < L PROVE n + 1 \in T
  <2>1. PICK g : g = [i \in 0..n |-> LoadStep(levels, g, i)]
    BY <1>2
  <2> DEFINE h == [i \in 0..(n + 1) |-> IF i = n + 1 THEN LoadStep(levels, g, n + 1) ELSE g[i]]
  <2>2. ASSUME NEW i \in 0..(n + 1) PROVE h[i] = LoadStep(levels, h, i)
    <3>1. i # 0 => i - 1 \in 0..n /\ h[i - 1] = g[i - 1]
      BY <1>0
    <3>2. LoadStep(levels, h, i) = LoadStep(levels, g, i)
      BY <3>1 DEF LoadStep
    <3>3. i # n + 1 => i \in 0..n /\ g[i] = LoadStep(levels, g, i)
      <4>1. i # n + 1 => i \in 0..n
        BY <1>0
      <4> QED BY <2>1, <4>1
    <3> QED BY <3>2, <3>3
  <2>3. h = [i \in 0..(n + 1) |-> LoadStep(levels, h, i)]
    BY <2>2
  <2> HIDE DEF h
  <2>4. \E f : f = [i \in 0..(n + 1) |-> LoadStep(levels, f, i)]
    BY <2>3
  <2>5. n + 1 \in 0..L
    BY <1>2, <1>0
  <2> QED BY <2>4, <2>5
<1> HIDE DEF T
<1>3. T \in SUBSET (0..L)
  BY DEF T
<1>4. T = 0..L
  BY <1>0, <1>1, <1>2, <1>3, Upward
<1>5. L \in T
  BY <1>4, <1>0
<1> QED BY <1>5 DEF T, L

\* load_file inserts the keys of the dump that are not there; the others stay.
LEMMA LoadSound ==
    ASSUME Linked(Links), Stands(Links, value), dumped \in Seq(Entry),
           NEW levels \in [Key -> RandomLevel], load_file(levels)
    PROVE  Linked(Links)' /\ Stands(Links, value)' /\ value' = Loaded(Len(dumped))
<1> DEFINE L == Len(dumped)
<1>0. /\ L \in Nat /\ DOMAIN dumped = 1..L /\ \A i \in 1..L : dumped[i].key \in Key
      /\ "key" \in Value /\ NoValue \notin Value /\ "key" # NoValue
      /\ value \in [Key -> Value \cup {NoValue}]
  <2>1. L \in Nat /\ DOMAIN dumped = 1..L /\ \A i \in 1..L : dumped[i] \in Entry
    OBVIOUS
  <2>2. \A e \in Entry : e.key \in Key
    BY DEF Entry
  <2>3. "key" \in Value /\ NoValue \notin Value /\ "key" # NoValue
    BY SkipAssumption DEF NoValue
  <2>4. value \in [Key -> Value \cup {NoValue}]
    BY DEF Stands
  <2> QED BY <2>1, <2>2, <2>3, <2>4
<1>1. PICK g : g = [i \in 0..L |-> LoadStep(levels, g, i)] /\ Becomes(g[L])
  BY LoadEnds DEF load_file, LoadStep
<1> HIDE DEF L
<1> DEFINE T == {n \in 0..L : Linked(g[n]) /\ Stands(g[n], Loaded(n))}
<1>3. 0 \in T
  <2>1. g[0] = Links
    BY <1>0, <1>1 DEF LoadStep
  <2>2. Loaded(0) = value
    BY <1>0 DEF Loaded
  <2> QED BY <2>1, <2>2, <1>0
<1>4. ASSUME NEW n \in 0..L, n \in T, n < L PROVE n + 1 \in T
  <2>1. n + 1 \in 1..L /\ n + 1 \in 0..L /\ (n + 1) - 1 = n /\ n + 1 # 0
    BY <1>4, <1>0
  <2>2. PICK k \in Key : k = dumped[n + 1].key
    BY <2>1, <1>0
  <2>3. PICK s : s = g[n] /\ Linked(s) /\ Stands(s, Loaded(n))
    BY <1>4
  <2>4. g[n + 1] = insert_element(s, k, "key", levels[k])
    BY <1>1, <2>1, <2>2, <2>3 DEF LoadStep
  <2>5. s.lvl[k] = -1 <=> Loaded(n)[k] = NoValue
    BY <2>3 DEF Stands
  <2>6. \A x \in Key : (\E j \in 1..(n + 1) : dumped[j].key = x) <=> (x = k \/ \E j \in 1..n : dumped[j].key = x)
    <3>1. 1..(n + 1) = 1..n \cup {n + 1}
      BY <2>1, <1>0
    <3> QED BY <3>1, <2>2
  <2>7. CASE s.lvl[k] = -1
    <3>1. [Loaded(n) EXCEPT ![k] = "key"] = Loaded(n + 1)
      <4>1. value[k] = NoValue
        BY <2>5, <2>7, <1>0 DEF Loaded
      <4> QED BY <4>1, <2>6 DEF Loaded
    <3>2. levels[k] \in RandomLevel
      OBVIOUS
    <3>3. PICK m : m = Loaded(n) /\ Stands(s, m)
      BY <2>3
    <3>4. Linked(g[n + 1]) /\ Stands(g[n + 1], [m EXCEPT ![k] = "key"])
      BY <2>3, <2>4, <2>7, <3>2, <3>3, <1>0, InsertSound
    <3> QED BY <3>1, <3>3, <3>4, <2>1
  <2>8. CASE s.lvl[k] # -1
    <3>1. g[n + 1] = s
      BY <2>3, <2>4, <2>8, ReachedKey DEF insert_element
    <3>2. Loaded(n + 1) = Loaded(n)
      <4>1. value[k] # NoValue \/ \E j \in 1..n : dumped[j].key = k
        BY <2>5, <2>8 DEF Loaded
      <4> QED BY <4>1, <2>6 DEF Loaded
    <3> QED BY <3>1, <3>2, <2>3, <2>1
  <2> QED BY <2>7, <2>8
<1> HIDE DEF T
<1>5. T \in SUBSET (0..L)
  BY DEF T
<1>6. T = 0..L
  BY <1>0, <1>3, <1>4, <1>5, Upward
<1>7. L \in T
  BY <1>6, <1>0
<1>8. PICK m : m = Loaded(L) /\ Linked(g[L]) /\ Stands(g[L], m)
  BY <1>7 DEF T
<1> QED BY <1>8, <1>1, BecomesSound DEF L

\* The invariant gives what the run checks.
LEMMA ListInvSound == ListInv => ListSound
<1> SUFFICES ASSUME ListInv PROVE ListSound
  OBVIOUS
<1>1. PICK s : s = Links /\ Linked(s) /\ Stands(s, value)
  BY DEF ListInv
<1>2. s.f = forward /\ s.lvl = node_level /\ s.val = value /\ s.top = listLevel /\ s.n = count
  BY <1>1 DEF Links
<1>3. /\ MaxKey \in Nat /\ MaxLevel \in Nat /\ Level = 0..MaxLevel /\ Key = 1..MaxKey /\ Header = 0
      /\ Null = MaxKey + 1 /\ listLevel \in Level /\ node_level \in [Key -> -1..MaxLevel]
  BY <1>1, <1>2, SkipAssumption DEF Linked, ListTypes, Level, Key, Header, Null
<1>4. SkipTypeOK
  <2>1. ListTypes(s) /\ s.n = Cardinality(Tower(s, 0))
    BY <1>1 DEF Linked, Stands
  <2>2. s.n \in 0..MaxKey
    BY <2>1, TowerFinite
  <2> QED BY <2>1, <2>2, <1>2 DEF SkipTypeOK, ListTypes
<1>5. LevelsNested
  <2> SUFFICES ASSUME NEW i \in Level, NEW n \in {Header} \cup {k \in Key : node_level[k] >= i},
                      NEW later, later = {k \in Key : k > n /\ node_level[k] >= i}
               PROVE  /\ forward[i][n] = IF later = {} THEN Null ELSE CHOOSE k \in later : \A l \in later : k <= l
                      /\ i > listLevel => later = {}
    BY DEF LevelsNested
  <2>1. Follows(s, i, n, forward[i][n])
    BY <1>1, <1>2 DEF Linked, Place, Tower
  <2>2. later = {k \in Tower(s, i) : k > n} /\ n \in Int /\ later \in SUBSET Int
    BY <1>2, <1>3 DEF Tower
  <2>3. i > listLevel => later = {}
    BY <1>1, <1>2, <1>3 DEF Linked
  <2>4. CASE later = {}
    BY <2>1, <2>2, <2>3, <2>4, <1>3 DEF Follows
  <2>5. CASE later # {}
    <3>1. forward[i][n] \in later /\ \A l \in later : forward[i][n] <= l
      <4>1. PICK x : x = forward[i][n] /\ Follows(s, i, n, x)
        BY <2>1
      <4>2. PICK y \in later : y \in Tower(s, i) /\ y > n
        BY <2>2, <2>5
      <4>3. ~(\A k \in Tower(s, i) : k <= n)
        BY <4>2, <2>2
      <4>4. x \in Tower(s, i) /\ n < x /\ \A k \in Tower(s, i) : k <= n \/ x <= k
        BY <4>1, <4>3 DEF Follows
      <4>5. x \in later
        BY <4>4, <2>2, <1>3 DEF Tower
      <4>6. ASSUME NEW l \in later PROVE x <= l
        BY <4>4, <2>2
      <4> QED BY <4>1, <4>5, <4>6
    <3>2. \A k \in later : (\A l \in later : k <= l) => k = forward[i][n]
      BY <3>1, <2>2
    <3>3. (CHOOSE k \in later : \A l \in later : k <= l) = forward[i][n]
      BY <3>1, <3>2
    <3> QED BY <3>3, <2>3, <2>5
  <2> QED BY <2>4, <2>5
<1>6. AnswersAsMap
  <2>0. Agrees
    BY DEF ListInv
  <2>1. \A k \in Key : search_element(Links, k) = value[k]
    BY <1>1, SearchAnswers
  <2>2. PICK w : w = Walk(Links) /\ Lists(s, Header, w)
    BY <1>1, WalkLists
  <2>3. After(s, Header) = Tower(s, 0)
    BY <1>3 DEF After, Tower
  <2>4. Tower(s, 0) = {k \in Key : store[k] # NoValue}
    <3>1. Tower(s, 0) = {k \in Key : value[k] # NoValue}
      BY <1>1, <1>2, <1>3 DEF Tower, Stands
    <3> QED BY <2>0, <3>1 DEF Agrees
  <2>5. count = Cardinality(Tower(s, 0))
    BY <1>1, <1>2 DEF Stands
  <2>6. /\ \A i, j \in DOMAIN w : i < j => w[i].key < w[j].key
        /\ {w[i].key : i \in DOMAIN w} = {k \in Key : store[k] # NoValue}
        /\ count = Len(w)
    BY <2>2, <2>3, <2>4, <2>5 DEF Lists
  <2> QED BY <2>0, <2>1, <2>2, <2>6 DEF AnswersAsMap, Agrees
<1> QED BY <1>4, <1>5, <1>6 DEF ListSound

\* Every step of the list keeps the invariant.
LEMMA ListInvStep == ListInv /\ [SkipNext]_skipVars => ListInv'
<1> SUFFICES ASSUME ListInv, [SkipNext]_skipVars PROVE ListInv'
  OBVIOUS
<1>0. Linked(Links) /\ Stands(Links, value) /\ Agrees /\ dumped \in Seq(Entry)
  BY DEF ListInv
<1>1. ASSUME NEW k \in Key, NEW v \in Value, NEW l \in RandomLevel, InsertSet(k, v, l) PROVE ListInv'
  <2>1. Linked(Links)' /\ Stands(Links, value)' /\ value' = [value EXCEPT ![k] = v]
    BY <1>0, <1>1, InsertSetSound
  <2>2. /\ store' = [store EXCEPT ![k] = v] /\ loaded' = loaded \ {k} /\ dumped' = dumped
    BY <1>1 DEF InsertSet
  <2>3. value \in [Key -> Value \cup {NoValue}] /\ v # NoValue
    BY <1>0, SkipAssumption DEF Stands, NoValue
  <2>4. Agrees'
    BY <1>0, <2>1, <2>2, <2>3 DEF Agrees
  <2> QED BY <1>0, <2>1, <2>2, <2>4 DEF ListInv
<1>2. ASSUME NEW k \in Key, Delete(k) PROVE ListInv'
  <2>1. Linked(Links)' /\ Stands(Links, value)' /\ value' = [value EXCEPT ![k] = NoValue]
    BY <1>0, <1>2, DeleteStepSound
  <2>2. /\ store' = [store EXCEPT ![k] = NoValue] /\ loaded' = loaded \ {k} /\ dumped' = dumped
    BY <1>2 DEF Delete
  <2>3. value \in [Key -> Value \cup {NoValue}]
    BY <1>0 DEF Stands
  <2>4. Agrees'
    BY <1>0, <2>1, <2>2, <2>3 DEF Agrees
  <2> QED BY <1>0, <2>1, <2>2, <2>4 DEF ListInv
<1>3. CASE dump_file
  <2>1. Links' = Links /\ value' = value /\ store' = store /\ loaded' = loaded
    BY <1>3 DEF dump_file, Links
  <2>2. Walk(Links) \in Seq(Entry)
    BY <1>0, WalkLists DEF Lists
  <2>3. dumped' \in Seq(Entry)
    BY <1>3, <2>2 DEF dump_file
  <2> QED BY <1>0, <2>1, <2>3 DEF ListInv, Agrees
<1>4. CASE Renew
  <2>1. PICK s : s = EmptyList /\ Becomes(s)
    BY <1>4 DEF Renew
  <2>2. PICK m : m = [k \in Key |-> NoValue] /\ Linked(s) /\ Stands(s, m)
    BY <2>1, EmptySound
  <2>3. Linked(Links)' /\ Stands(Links, value)' /\ value' = m
    BY <2>1, <2>2, BecomesSound
  <2>4. store' = m /\ dumped' = dumped
    BY <1>4, <2>2 DEF Renew
  <2>5. Agrees'
    BY <2>2, <2>3, <2>4 DEF Agrees
  <2> QED BY <1>0, <2>3, <2>4, <2>5 DEF ListInv
<1>5. ASSUME NEW ls \in [Key -> RandomLevel], load_file(ls) PROVE ListInv'
  <2>1. Linked(Links)' /\ Stands(Links, value)' /\ value' = Loaded(Len(dumped))
    BY <1>0, <1>5, LoadSound
  <2>2. /\ dumped' = dumped /\ loaded' = loaded \cup Dumped
        /\ store' = [k \in Key |-> IF k \in Dumped THEN DumpedValue(k) ELSE store[k]]
    BY <1>5 DEF load_file
  <2>3. \A k \in Key : k \in Dumped <=> \E j \in 1..Len(dumped) : dumped[j].key = k
    BY <1>0 DEF Dumped
  <2>4. \A k \in Dumped : DumpedValue(k) \in Value
    <3>1. ASSUME NEW k \in Dumped PROVE DumpedValue(k) \in Value
      <4>1. \E i \in DOMAIN dumped : dumped[i].key = k
        BY <3>1 DEF Dumped
      <4>2. PICK i \in DOMAIN dumped : i = CHOOSE x \in DOMAIN dumped : dumped[x].key = k
        BY <4>1
      <4>3. dumped[i] \in Entry
        BY <1>0, <4>2
      <4> QED BY <4>2, <4>3 DEF DumpedValue, Entry
    <3> QED BY <3>1
  <2>5. "key" \in Value /\ NoValue \notin Value
    BY SkipAssumption DEF NoValue
  <2>6. \A k \in Key : value'[k] = IF value[k] = NoValue /\ k \in Dumped THEN "key" ELSE value[k]
    BY <2>1, <2>3 DEF Loaded
  <2>7. Agrees'
    BY <1>0, <2>2, <2>4, <2>5, <2>6 DEF Agrees
  <2> QED BY <2>1, <2>2, <2>7, <1>0 DEF ListInv
<1>6. CASE UNCHANGED skipVars
  <2>1. Links' = Links /\ value' = value /\ store' = store /\ loaded' = loaded /\ dumped' = dumped
    BY <1>6 DEF skipVars, Links
  <2> QED BY <2>1, <1>0 DEF ListInv, Agrees
<1> QED BY <1>1, <1>2, <1>3, <1>4, <1>5, <1>6 DEF SkipNext

\* Whatever keys are inserted, overwritten, deleted, dumped and loaded, and
\* however the coins of get_random_level fall, the towers of the skip list stay
\* nested, search_element and dump_file find the keys of the map, and a key that
\* load_file did not bring has the value it was given last: for every number of
\* keys and levels.
THEOREM ListSoundCorrect == SkipSpec => []ListSound
<1>1. SkipInit => ListInv
  <2> SUFFICES ASSUME SkipInit PROVE ListInv
    OBVIOUS
  <2>1. Links = EmptyList /\ store = [k \in Key |-> NoValue] /\ value = [k \in Key |-> NoValue] /\ dumped = <<>>
    BY DEF SkipInit, Links, EmptyList
  <2>2. dumped \in Seq(Entry)
    BY <2>1
  <2> QED BY <2>1, <2>2, EmptySound DEF ListInv, Agrees
<1> QED BY <1>1, ListInvStep, ListInvSound, PTL DEF SkipSpec
=============================================================================
