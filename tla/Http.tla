-------------------------------- MODULE Http --------------------------------
(* One TCP connection of the web server, from the bytes that arrive to the     *)
(* request handler and back: TLS (SslConnection), the incremental HTTP parser  *)
(* (HttpContext, HttpRequest), HttpServer::onMessage, the middleware chain     *)
(* with its rate limiter, the router, the upgrade to WebSocket and the frame   *)
(* loop (WebSocketServer, WebSocketContext, WebSocketFrame).                   *)
(*                                                                             *)
(* What the client sends is a list of messages, each cut into units: a request *)
(* line, the Content-Length field, the empty line, body bytes, a frame header, *)
(* payload bytes.  The network delivers any number of units at a time; a unit  *)
(* cut in two is, to the parser, one that has not arrived.  onMessage runs to  *)
(* its end before the next delivery; its loops are steps of this module.       *)
EXTENDS Integers, Sequences, FiniteSets

CONSTANTS
    Message,       \* the kinds of message the client may send (subset of DOMAIN Shape)
    MaxSent,       \* bound: messages of a connection
    MaxRefills,    \* bound: tokens the rate limiter gains
    BucketCapacity \* capacity_ of the token bucket

VARIABLES
    sent,      \* history: the messages the client sent
    wire,      \* units on their way
    shake,     \* TLS handshake units still to come; 0: established, or no TLS
    buf,       \* units received (decrypted) and not yet consumed
    pc,        \* onMessage: "wait" for data, "parse", "frames"
    state_,    \* HttpContext: "line", "headers", "body", "all"
    request,   \* request_: which message it was read from, method, length, body
    tcp,       \* "connected", "disconnecting" after shutdown(), "down"
    ws,        \* this connection is in WebSocketServer::contexts_
    tokens, refills, admitted,   \* token bucket of the client's address; history
    handled,   \* history: requests given to the router, with the body they carry
    answered,  \* history: responses that left: message and status
    frames,    \* history: frames given to the WebSocket handler
    aborted    \* the assertion of setMethod failed

httpVars == <<sent, wire, shake, buf, pc, state_, request, tcp, ws, tokens, refills,
              admitted, handled, answered, frames, aborted>>

-----------------------------------------------------------------------------
(* Messages. len: Content-Length (-1 none, -2 not a number) or payload size;   *)
(* bytes: what follows the header; path: a registered route, or not.           *)

Request(m, path, len) ==
    [kind |-> "request", method |-> m, path |-> path, len |-> len, bytes |-> IF len < 0 THEN 0 ELSE len,
     version |-> TRUE]
Frame(op, size) ==
    [kind |-> op, method |-> "none", path |-> "none", len |-> size, bytes |-> size, version |-> TRUE]

Shape ==
    [get     |-> Request("GET", "page", -1),
     post    |-> Request("POST", "page", 2),
     empty   |-> Request("POST", "page", 0),
     options |-> Request("OPTIONS", "page", -1),
     missing |-> Request("GET", "none", -1),
     upgrade |-> Request("GET", "ws", -1),
     nolen   |-> Request("POST", "page", -1),
     badlen  |-> Request("POST", "page", -2),
     method  |-> Request("PATCH", "page", -1),
     version |-> [Request("GET", "page", -1) EXCEPT !.version = FALSE],
     text    |-> Frame("text", 1),
     ping    |-> Frame("ping", 0),
     close   |-> Frame("close", 0)]

ASSUME HttpAssumption ==
    /\ Message \subseteq DOMAIN Shape
    /\ MaxSent \in Nat /\ MaxRefills \in Nat /\ BucketCapacity \in Nat

FrameKinds == {"text", "ping", "close"}
M(i) == Shape[sent[i]]
Unit(t, i) == [t |-> t, of |-> i]

Units(i, m) ==
    (IF m.kind \in FrameKinds THEN <<Unit("frame", i)>>
     ELSE <<Unit("line", i)>> \o (IF m.len = -1 THEN <<>> ELSE <<Unit("field", i)>>) \o <<Unit("end", i)>>)
    \o [j \in 1..m.bytes |-> Unit("byte", i)]

NoRequest == [of |-> 0, method |-> "kInvalid", len |-> -1, body |-> 0]

HttpInit ==
    /\ sent = <<>> /\ buf = <<>> /\ pc = "wait"
    /\ shake \in {0, 2} /\ wire = [j \in 1..shake |-> Unit("hello", 0)]
    /\ state_ = "line" /\ request = NoRequest
    /\ tcp = "connected" /\ ws = FALSE
    /\ tokens = BucketCapacity /\ refills = 0 /\ admitted = 0
    /\ handled = <<>> /\ answered = <<>> /\ frames = <<>>
    /\ aborted = FALSE

-----------------------------------------------------------------------------
(* The client and the network. *)

\* The client sends requests, and frames once it has asked for an upgrade; it
\* may send before the previous request was answered.
Send(k) ==
    /\ Len(sent) < MaxSent /\ tcp # "down"
    /\ Shape[k].kind \in FrameKinds <=> \E i \in DOMAIN sent : sent[i] = "upgrade"
    /\ ~\E i \in DOMAIN sent : sent[i] = "close"
    /\ sent' = Append(sent, k)
    /\ wire' = wire \o Units(Len(sent) + 1, Shape[k])
    /\ UNCHANGED <<shake, buf, pc, state_, request, tcp, ws, tokens, refills, admitted,
                   handled, answered, frames, aborted>>

\* SslConnection::handleHandshake takes its units of the n that arrived; what
\* comes after them onRead decrypts into the buffer.
handleHandshake(n) == IF n < shake THEN n ELSE shake
onRead(n) == SubSeq(wire, handleHandshake(n) + 1, n)

\* onMessage up to the parser.
Deliver(n) ==
    LET data == onRead(n)
    IN  /\ pc = "wait" /\ tcp # "down" /\ ~aborted
        /\ n \in DOMAIN wire
        /\ wire' = SubSeq(wire, n + 1, Len(wire))
        /\ shake' = shake - handleHandshake(n)
        /\ buf' = buf \o data
        /\ pc' = IF shake' > 0 \/ buf' = <<>> THEN "wait" ELSE IF ws THEN "frames" ELSE "parse"
        /\ UNCHANGED <<sent, state_, request, tcp, ws, tokens, refills, admitted,
                       handled, answered, frames, aborted>>

\* onConnection for a connection that went away.
Disconnect ==
    /\ pc = "wait" /\ tcp # "down"
    /\ tcp' = "down" /\ ws' = FALSE /\ wire' = <<>>
    /\ UNCHANGED <<sent, shake, buf, pc, state_, request, tokens, refills, admitted,
                   handled, answered, frames, aborted>>

\* TokenBucket::refill by the time that passed, up to the capacity.
Refill ==
    /\ refills < MaxRefills
    /\ refills' = refills + 1
    /\ tokens' = IF tokens < BucketCapacity THEN tokens + 1 ELSE BucketCapacity
    /\ UNCHANGED <<sent, wire, shake, buf, pc, state_, request, tcp, ws, admitted,
                   handled, answered, frames, aborted>>

-----------------------------------------------------------------------------
(* HttpContext::parseRequest, one round of its loop per step. *)

HasCRLF(u) == u.t \in {"line", "field", "end"}
Line == buf # <<>> /\ \E i \in DOMAIN buf : HasCRLF(buf[i])

\* conn->send drops what is sent after shutdown().
Answer(i, status) == IF tcp = "connected" THEN Append(answered, [of |-> i, status |-> status]) ELSE answered

\* 400 and shutdown.
Refuse(i) ==
    /\ answered' = Answer(i, 400)
    /\ tcp' = "disconnecting"
    /\ pc' = "wait"
    /\ UNCHANGED <<sent, wire, shake, ws, tokens, refills, admitted, handled, frames>>

Parsing == UNCHANGED <<sent, wire, shake, tcp, ws, tokens, refills, admitted, handled, answered, frames, aborted>>

KnownMethods == {"GET", "POST", "OPTIONS"}

\* processRequestLine: method (setMethod asserts that none is set yet), path, version.
ParseLine ==
    LET u == Head(buf)
    IN  /\ pc = "parse" /\ state_ = "line" /\ Line /\ u.t = "line"
        /\ request.method = "kInvalid"
        /\ M(u.of).method \in KnownMethods /\ M(u.of).version
        /\ request' = [request EXCEPT !.of = u.of, !.method = M(u.of).method]
        /\ state_' = "headers"
        /\ buf' = Tail(buf)
        /\ UNCHANGED pc /\ Parsing

\* A request line that does not parse stays in the buffer, and what of it was
\* set stays in request_.
RefuseLine ==
    LET u == Head(buf)
    IN  /\ pc = "parse" /\ state_ = "line" /\ Line
        /\ u.t # "line" \/ M(u.of).method \notin KnownMethods \/ ~M(u.of).version
        /\ u.t = "line" => request.method = "kInvalid"
        /\ request' = IF u.t = "line" /\ M(u.of).method \in KnownMethods
                      THEN [request EXCEPT !.of = u.of, !.method = M(u.of).method] ELSE request
        /\ Refuse(u.of)
        /\ UNCHANGED <<state_, buf, aborted>>

AssertFails ==
    /\ pc = "parse" /\ state_ = "line" /\ Line /\ Head(buf).t = "line"
    /\ request.method # "kInvalid"
    /\ aborted' = TRUE /\ pc' = "wait"
    /\ UNCHANGED <<sent, wire, shake, buf, state_, request, tcp, ws, tokens, refills, admitted,
                   handled, answered, frames>>

\* addHeader; of the fields only Content-Length matters here.
ParseField ==
    LET u == Head(buf)
    IN  /\ pc = "parse" /\ state_ = "headers" /\ Line /\ u.t = "field"
        /\ request' = [request EXCEPT !.len = M(u.of).len]
        /\ buf' = Tail(buf)
        /\ UNCHANGED <<pc, state_>> /\ Parsing

\* What the empty line leads to, for POST and PUT.
AfterHeaders(len) == CASE len = -1 -> "error" [] len > 0 -> "body" [] OTHER -> "all"

ParseEnd ==
    LET next == IF request.method = "POST" THEN AfterHeaders(request.len) ELSE "all"
    IN  /\ pc = "parse" /\ state_ = "headers" /\ Line /\ Head(buf).t = "end"
        /\ request.method = "POST" => request.len # -2
        /\ buf' = Tail(buf)
        /\ UNCHANGED request
        /\ IF next = "error"
           THEN Refuse(request.of) /\ UNCHANGED <<state_, aborted>>
           ELSE state_' = next /\ UNCHANGED pc /\ Parsing

\* std::stoi throws before anything is consumed; onMessage answers 400.
RefuseLength ==
    /\ pc = "parse" /\ state_ = "headers" /\ Line /\ Head(buf).t = "end"
    /\ request.method = "POST" /\ request.len = -2
    /\ Refuse(request.of)
    /\ UNCHANGED <<buf, state_, request, aborted>>

\* A line without a colon where a header should be.
RefuseHeader ==
    /\ pc = "parse" /\ state_ = "headers" /\ Line /\ ~(Head(buf).t \in {"field", "end"})
    /\ buf' = LET i == CHOOSE i \in DOMAIN buf : HasCRLF(buf[i]) /\ \A j \in 1..(i - 1) : ~HasCRLF(buf[j])
              IN  SubSeq(buf, i + 1, Len(buf))
    /\ Refuse(request.of)
    /\ UNCHANGED <<state_, request, aborted>>

\* Mutant of BodyComplete: the body is taken as soon as one byte of it is there.
SomeBody == Len(buf) > 0

\* Mutant of BodyComplete: off by one.
MoreThanBody == Len(buf) > request.len

BodyComplete == Len(buf) >= request.len

ParseBody ==
    /\ pc = "parse" /\ state_ = "body" /\ BodyComplete
    /\ request' = [request EXCEPT !.body = Head(buf).of]
    /\ buf' = SubSeq(buf, (IF request.len < Len(buf) THEN request.len ELSE Len(buf)) + 1, Len(buf))
    /\ state_' = "all"
    /\ UNCHANGED pc /\ Parsing

\* Not enough data: onMessage returns.
NeedMore ==
    /\ pc = "parse"
    /\ (state_ \in {"line", "headers"} /\ ~Line) \/ (state_ = "body" /\ ~BodyComplete)
    /\ pc' = "wait"
    /\ UNCHANGED <<buf, state_, request>> /\ Parsing

-----------------------------------------------------------------------------
(* onRequest and handleRequest. *)

\* TokenBucket::tryConsume, in RateLimiterMiddleware::before.
tryConsume == tokens >= 1

\* Router::route: a handler is registered for the method and the path.
route(r) == M(r.of).path \in {"page", "ws"} /\ r.method # "none"

Outcome(status, close) == [status |-> status, close |-> close]

\* CorsMiddleware::before answers a preflight request by throwing the response.
preflight(r) == r.method = "OPTIONS"

\* WebSocketServer::handleUpgrade behind /ws: 101, or 401 for somebody who is
\* not logged in.
handleUpgrade == {Outcome(101, FALSE), Outcome(401, TRUE)}

\* What a handler of the application answers, or 500 when it throws; whether the
\* connection is closed is the Connection header's say or the handler's.
Page == {Outcome(200, close) : close \in BOOLEAN}

\* handleRequest: the outcomes.  The chain is logging, rate limiter, CORS; what
\* before() throws, a response that closes the connection by default, skips the
\* router and the rest of the chain.
Outcomes(r) ==
    CASE ~tryConsume            -> {Outcome(429, TRUE)}
      [] tryConsume /\ preflight(r) -> {Outcome(204, TRUE)}
      [] tryConsume /\ ~preflight(r) /\ ~route(r) -> {Outcome(404, TRUE)}
      [] OTHER                  -> IF M(r.of).path = "ws" THEN handleUpgrade ELSE Page

\* HttpContext::reset swaps the request with a fresh one; HttpRequest::swap
\* leaves the body and the length where they are.
reset(r) == [NoRequest EXCEPT !.body = r.body]

OnRequest ==
    /\ pc = "parse" /\ state_ = "all"
    /\ \E o \in Outcomes(request) :
         /\ answered' = Answer(request.of, o.status)
         /\ tcp' = IF o.close /\ tcp = "connected" THEN "disconnecting" ELSE tcp
         /\ handled' = IF o.status \in {200, 101, 401}
                       THEN Append(handled, [of |-> request.of, body |-> request.body]) ELSE handled
         /\ ws' = (o.status = 101)
         /\ pc' = IF o.status = 101 /\ buf # <<>> THEN "frames" ELSE "wait"
    /\ tokens' = IF tryConsume THEN tokens - 1 ELSE tokens
    /\ admitted' = IF tryConsume THEN admitted + 1 ELSE admitted
    /\ request' = reset(request) /\ state_' = "line"
    /\ UNCHANGED <<sent, wire, shake, buf, refills, frames, aborted>>

-----------------------------------------------------------------------------
(* WebSocketServer::processFrame. *)

\* WebSocketFrame::parseFrame finds a whole frame.
FrameComplete == buf # <<>> /\ Len(buf) >= 1 + M(Head(buf).of).bytes

\* One frame: a text goes to the handler, a ping is answered, a close is
\* answered and the connection is no WebSocket any more.
ProcessFrame ==
    LET i == Head(buf).of
        size == 1 + M(i).bytes
    IN  /\ pc = "frames" /\ FrameComplete
        /\ buf' = SubSeq(buf, (IF size < Len(buf) THEN size ELSE Len(buf)) + 1, Len(buf))
        /\ frames' = Append(frames, i)
        /\ answered' = IF M(i).kind \in {"ping", "close"} THEN Answer(i, 0) ELSE answered
        /\ ws' = (ws /\ M(i).kind # "close")
        /\ pc' = IF M(i).kind = "close" \/ buf' = <<>> THEN "wait" ELSE "frames"
        /\ UNCHANGED <<sent, wire, shake, state_, request, tcp, tokens, refills, admitted, handled, aborted>>

FrameIncomplete ==
    /\ pc = "frames" /\ ~FrameComplete
    /\ pc' = "wait"
    /\ UNCHANGED <<buf, state_, request>> /\ Parsing

-----------------------------------------------------------------------------
Serve ==
    \/ ParseLine \/ RefuseLine \/ AssertFails \/ ParseField \/ ParseEnd \/ RefuseLength
    \/ RefuseHeader \/ ParseBody \/ NeedMore \/ OnRequest \/ ProcessFrame \/ FrameIncomplete

DeliverAll == Deliver(Len(wire))

HttpNext ==
    \/ \E k \in Message : Send(k)
    \/ \E n \in 1..Len(wire) : Deliver(n)
    \/ Disconnect \/ Refill \/ Serve

HttpSpec == HttpInit /\ [][HttpNext]_httpVars

-----------------------------------------------------------------------------
\* Types; the token bucket of TokenBucket::tryConsume never goes negative.
HttpTypeOK ==
    /\ sent \in Seq(Message) /\ pc \in {"wait", "parse", "frames"}
    /\ state_ \in {"line", "headers", "body", "all"} /\ shake \in 0..2
    /\ request.of \in 0..MaxSent /\ request.body \in 0..MaxSent
    /\ tcp \in {"connected", "disconnecting", "down"} /\ ws \in BOOLEAN
    /\ tokens \in 0..BucketCapacity /\ aborted \in BOOLEAN

Refused == \E i \in DOMAIN answered : answered[i].status = 400

\* The requests and frames that were served, as messages of the client.
Served == [i \in DOMAIN handled |-> handled[i].of] \o frames

\* However the bytes are cut and however many requests and frames arrive at
\* once (onMessage, parseRequest, processFrame): while the connection has neither
\* been refused nor shut down, what was served is what the client sent, whole, in
\* its order, with nothing in between left out.
ServedAsSent ==
    ~Refused /\ tcp = "connected" =>
        /\ \A i, j \in DOMAIN Served : i < j => Served[i] < Served[j]
        /\ \A i \in DOMAIN Served : \A k \in 1..Served[i] : \E j \in DOMAIN Served : Served[j] = k

\* However the bytes are cut: a client whose every message is well-formed is
\* never refused with 400, and never trips the assertion of setMethod; what is
\* left in the buffer and in the context is always the start of a message.
\* Well-formed are the other kinds in Shape.  HttpContext asks for more than HTTP
\* does: a GET with a body and a length header in lower case are not among them.
WellFormedAccepted ==
    (\A i \in DOMAIN sent : sent[i] \notin {"nolen", "badlen", "method", "version"}) => ~Refused /\ ~aborted

\* A request that has a body is handled with its own body (HttpContext: the body
\* is taken when all of it has arrived).
OwnBody ==
    \A i \in DOMAIN handled :
        tcp = "connected" /\ ~Refused /\ M(handled[i].of).len > 0 => handled[i].body = handled[i].of

\* No message is answered twice, and none before the ones sent earlier, though
\* responses come from the parser, the middleware, the router and the frame loop.
AnswersInOrder ==
    \A i, j \in DOMAIN answered : i < j => answered[i].of < answered[j].of

\* TokenBucket: of one address, never more requests pass than the capacity and
\* what was refilled since.
RateBound == admitted <= BucketCapacity + refills

\* All of this together is what a client may rely on, however the network cuts its
\* bytes (HttpServer::onMessage, HttpContext, WebSocketServer, TokenBucket).
ConnectionSound ==
    /\ HttpTypeOK
    /\ WellFormedAccepted /\ ServedAsSent /\ OwnBody /\ AnswersInOrder /\ RateBound

\* One request was sent on the connection, and nothing after it.
Alone == Len(sent) = 1 /\ sent[1] \notin FrameKinds

\* A client that sends its first request and waits is answered or shut down
\* (onMessage, NeedMore): the request never stays in the parser, however it is cut.
\* It is the first request on a connection; later ones are not spoken of.
EventuallyAnswered == Alone ~> (answered # <<>> \/ Len(sent) > 1 \/ tcp # "connected")
=============================================================================
