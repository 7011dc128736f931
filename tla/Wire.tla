-------------------------------- MODULE Wire --------------------------------
(* The RPC messages as bytes: the generated protobuf code of the two services,  *)
(* the frame MprpcChannel::CallMethod builds around a request, and what         *)
(* RpcProvider::OnMessage makes of the bytes TCP happens to deliver.  A message *)
(* is a record of its fields; a schema says how its class reads and writes      *)
(* them.  Integers are IntBits wide, varints WireBits, in place of 32 and 64.   *)
EXTENDS Integers, Sequences, FiniteSets, TLC
LOCAL INSTANCE SequencesExt
LOCAL INSTANCE FiniteSetsExt

CONSTANTS IntBits, WireBits,
          MaxAsked   \* bound: requests sent on the connection
ASSUME WireAssumption == IntBits \in Nat /\ WireBits \in Nat /\ IntBits < WireBits /\ MaxAsked \in Nat

Bytes == Seq(0..255)
Digit == 128   \* of a varint: seven bits, and one that says more follow

-----------------------------------------------------------------------------
(* The messages.                                                               *)

Field(number, name, kind) == [number |-> number, name |-> name, kind |-> kind]

LogEntry == << Field(1, "Command", "bytes"), Field(2, "LogTerm", "int32"), Field(3, "LogIndex", "int32") >>
AppendEntriesArgs ==
    << Field(1, "Term", "int32"), Field(2, "LeaderId", "int32"), Field(3, "PrevLogIndex", "int32"),
       Field(4, "PrevLogTerm", "int32"), Field(5, "Entries", "entries"), Field(6, "LeaderCommit", "int32") >>
AppendEntriesReply ==
    << Field(1, "Term", "int32"), Field(2, "Success", "bool"), Field(3, "UpdateNextIndex", "int32"),
       Field(4, "AppState", "int32") >>
RequestVoteArgs ==
    << Field(1, "Term", "int32"), Field(2, "CandidateId", "int32"), Field(3, "LastLogIndex", "int32"),
       Field(4, "LastLogTerm", "int32") >>
RequestVoteReply == << Field(1, "Term", "int32"), Field(2, "VoteGranted", "bool"), Field(3, "VoteState", "int32") >>
InstallSnapshotRequest ==
    << Field(1, "LeaderId", "int32"), Field(2, "Term", "int32"), Field(3, "LastSnapShotIncludeIndex", "int32"),
       Field(4, "LastSnapShotIncludeTerm", "int32"), Field(5, "Data", "bytes") >>
InstallSnapshotResponse == << Field(1, "Term", "int32") >>
GetArgs == << Field(1, "Key", "bytes"), Field(2, "ClientId", "bytes"), Field(3, "RequestId", "int32") >>
GetReply == << Field(1, "Err", "bytes"), Field(2, "Value", "bytes") >>
PutAppendArgs ==
    << Field(1, "Key", "bytes"), Field(2, "Value", "bytes"), Field(3, "Op", "bytes"),
       Field(4, "ClientId", "bytes"), Field(5, "RequestId", "int32") >>
PutAppendReply == << Field(1, "Err", "bytes") >>
RpcHeader == << Field(1, "service_name", "bytes"), Field(2, "method_name", "bytes"), Field(3, "args_size", "uint32") >>

\* The services and their methods.  A name is a string of one byte.
raftRpc == [name |-> <<201>>,
            request |-> ( <<211>> :> AppendEntriesArgs @@ <<212>> :> InstallSnapshotRequest @@ <<213>> :> RequestVoteArgs )]
kvServerRpc == [name |-> <<202>>, request |-> ( <<221>> :> PutAppendArgs @@ <<222>> :> GetArgs )]

-----------------------------------------------------------------------------
(* Writing.                                                                    *)

Varint(v) ==
    LET n == CHOOSE k \in 1..(WireBits \div 7) : v < Digit^k /\ (k = 1 \/ v >= Digit^(k - 1))
    IN  [i \in 1..n |-> ((v \div Digit^(i - 1)) % Digit) + (IF i < n THEN Digit ELSE 0)]

WireType(kind) == IF kind \in {"bytes", "entries"} THEN 2 ELSE 0
Tag(f) == 8 * f.number + WireType(f.kind)
Sized(s) == Varint(Len(s)) \o s

Default(kind) == CASE kind = "bool" -> FALSE [] kind \in {"int32", "uint32"} -> 0 [] OTHER -> << >>
Names(schema) == {schema[i].name : i \in DOMAIN schema}
FieldOf(schema, name) == schema[CHOOSE i \in DOMAIN schema : schema[i].name = name]
default_instance(schema) == [name \in Names(schema) |-> Default(FieldOf(schema, name).kind)]

\* A field that has its default value is not written.
Scalar(f, v) ==
    CASE v = Default(f.kind)               -> << >>
      [] v # Default(f.kind) /\ f.kind = "bytes" -> <<Tag(f)>> \o Sized(v)
      [] v # Default(f.kind) /\ f.kind = "bool"  -> <<Tag(f), 1>>
      [] OTHER                             -> <<Tag(f)>> \o Varint(v % 2^WireBits)

SerializeEntry(e) == FlattenSeq([i \in DOMAIN LogEntry |-> Scalar(LogEntry[i], e[LogEntry[i].name])])

Written(f, v) ==
    IF f.kind = "entries" THEN FlattenSeq([i \in DOMAIN v |-> <<Tag(f)>> \o Sized(SerializeEntry(v[i]))])
    ELSE Scalar(f, v)

Serialize(schema, m) == FlattenSeq([i \in DOMAIN schema |-> Written(schema[i], m[schema[i].name])])

-----------------------------------------------------------------------------
(* Reading.  Pieces are the fields of a message as they stand in it; number 0   *)
(* stands for what cannot be read.                                              *)

\* Mutant of ReadVarint: the end of the bytes ends a varint too.
ReadVarintToEnd(s, p) ==
    LET ends == {q \in p..Len(s) : q - p < WireBits \div 7 /\ (s[q] < Digit \/ q = Len(s))}
    IN  IF ends = {} THEN [next |-> 0, value |-> 0]
        ELSE [next  |-> Min(ends) + 1,
              value |-> MapThenSumSet(LAMBDA i : (s[i] % Digit) * Digit^(i - p), p..Min(ends))]

\* The varint at position p of s and the position after it, 0 if there is none.
ReadVarint(s, p) ==
    LET ends == {q \in p..Len(s) : q - p < WireBits \div 7 /\ s[q] < Digit}
    IN  IF ends = {} THEN [next |-> 0, value |-> 0]
        ELSE [next  |-> Min(ends) + 1,
              value |-> MapThenSumSet(LAMBDA i : (s[i] % Digit) * Digit^(i - p), p..Min(ends))]

Unreadable == [number |-> 0, type |-> 0, value |-> 0, next |-> 0]

\* A field with its tag and the varint behind it, which is its value or its
\* length.  Of the unknown ones, groups are refused and fields of a fixed size
\* skipped.
Tagged(s, tag, val) ==
    LET type == tag.value % 8
        fits(next) == next <= Len(s) + 1
        of(value, next) == [number |-> tag.value \div 8, type |-> type, value |-> value, next |-> next]
    IN  CASE tag.next = 0 \/ tag.value \div 8 = 0 -> Unreadable
          [] type = 0 /\ val.next # 0 -> of(val.value, val.next)
          [] type = 2 /\ val.next # 0 /\ fits(val.next + val.value) ->
               of(SubSeq(s, val.next, val.next + val.value - 1), val.next + val.value)
          [] type = 1 /\ fits(tag.next + 8) -> of(0, tag.next + 8)
          [] type = 5 /\ fits(tag.next + 4) -> of(0, tag.next + 4)
          [] OTHER -> Unreadable

Piece(s, p) == LET tag == ReadVarint(s, p) IN Tagged(s, tag, ReadVarint(s, tag.next))

Pieces[s \in Bytes] ==
    LET from[p \in 1..(Len(s) + 1)] ==
            IF p = Len(s) + 1 THEN << >>
            ELSE LET piece == Piece(s, p)
                 IN  <<piece>> \o (IF piece.next = 0 THEN << >> ELSE from[piece.next])
    IN  from[1]

OfField(pieces, f) == SelectSeq(pieces, LAMBDA x : x.number = f.number /\ x.type = WireType(f.kind))

Int32(v) == LET u == v % 2^IntBits IN IF u < 2^(IntBits - 1) THEN u ELSE u - 2^IntBits

ValueOf(kind, v) ==
    CASE kind = "int32" -> Int32(v) [] kind = "uint32" -> v % 2^IntBits [] kind = "bool" -> v # 0 [] OTHER -> v

\* The last occurrence of a field counts, unknown ones are left aside.
LastOf(pieces, f) ==
    LET found == OfField(pieces, f)
    IN  IF found = << >> THEN Default(f.kind) ELSE ValueOf(f.kind, Last(found).value)

ParseEntry[s \in Bytes] == [name \in Names(LogEntry) |-> LastOf(Pieces[s], FieldOf(LogEntry, name))]

Readable[s \in Bytes] == LET pieces == Pieces[s] IN \A i \in DOMAIN pieces : pieces[i].number # 0

\* ParseFromString says yes.
Parses(schema, s) ==
    /\ Readable[s]
    /\ \A f \in Range(schema) : f.kind = "entries" =>
         \A x \in Range(OfField(Pieces[s], f)) : Readable[x.value]

Parse(schema, s) ==
    [name \in Names(schema) |->
        LET f == FieldOf(schema, name)
            raw == OfField(Pieces[s], f)
        IN  IF f.kind = "entries" THEN [i \in DOMAIN raw |-> ParseEntry[raw[i].value]]
            ELSE LastOf(Pieces[s], f)]

\* MergeFrom leaves a field alone that the other message has at its default.
Kept(v, w, kind) == w = Default(kind)

MergeFrom(schema, a, b) ==
    [name \in Names(schema) |->
        LET f == FieldOf(schema, name)
        IN  IF f.kind = "entries" THEN a[name] \o b[name]
            ELSE IF Kept(a[name], b[name], f.kind) THEN a[name] ELSE b[name]]

-----------------------------------------------------------------------------
(* The frame of a request, and the provider.                                   *)

Frame(service, method, args) ==
    Sized(Serialize(RpcHeader, [service_name |-> service, method_name |-> method, args_size |-> Len(args)])) \o args

m_serviceMap == ( raftRpc.name :> raftRpc.request @@ kvServerRpc.name :> kvServerRpc.request )

\* Mutant of ReadArgs: what is there is taken, whether it is all or not.
ReadSome(buf, at, size) == [ok |-> TRUE, args |-> SubSeq(buf, at, Min({at + size - 1, Len(buf)}))]

ReadArgs(buf, at, size) == [ok |-> at + size <= Len(buf) + 1, args |-> SubSeq(buf, at, Min({at + size - 1, Len(buf)}))]

\* The calls OnMessage makes, one or none, for a header and the arguments.
Dispatch(rpcHeader, args) ==
    LET methods == m_serviceMap[rpcHeader.service_name]
        schema == methods[rpcHeader.method_name]
    IN  IF /\ args.ok
           /\ rpcHeader.service_name \in DOMAIN m_serviceMap /\ rpcHeader.method_name \in DOMAIN methods
           /\ Parses(schema, args.args)
        THEN << [service |-> rpcHeader.service_name, method |-> rpcHeader.method_name,
                 args |-> Parse(schema, args.args)] >>
        ELSE << >>

\* OnMessage on the whole buffer.  The header string is what there is of it;
\* that it may be short goes unnoticed.
OnBuffer[buf \in Bytes] ==
    LET size   == ReadVarint(buf, 1)
        start  == IF size.next = 0 THEN Len(buf) + 1 ELSE size.next
        upto   == Min({start + size.value - 1, Len(buf)})
        header == SubSeq(buf, start, upto)
        rpcHeader == Parse(RpcHeader, header)
    IN  IF Parses(RpcHeader, header)
        THEN Dispatch(rpcHeader, ReadArgs(buf, upto + 1, rpcHeader.args_size))
        ELSE << >>

-----------------------------------------------------------------------------
(* Messages to try, and requests on one connection.                            *)

\* A key or a value is any string of bytes, one that reads as a frame included.
Entry == [Command |-> <<7>>, LogTerm |-> 3, LogIndex |-> -1]
Sample(kind) ==
    CASE kind = "int32" -> {-1, 300} [] kind = "uint32" -> {300} [] kind = "bool" -> {TRUE}
      [] kind = "bytes" -> { <<0>>, <<10, 1>>, Frame(kvServerRpc.name, <<222>>, << >>) }
      [] kind = "entries" -> { <<default_instance(LogEntry)>>, <<Entry, Entry>> }

\* The messages with at most two fields that are not at their default.
Samples(schema) ==
    {default_instance(schema)} \cup
    UNION { UNION { { [default_instance(schema) EXCEPT ![f.name] = v, ![g.name] = w] :
                        v \in Sample(f.kind), w \in Sample(g.kind) } : g \in Range(schema) } : f \in Range(schema) }

Schemas == { LogEntry, AppendEntriesArgs, AppendEntriesReply, RequestVoteArgs, RequestVoteReply, InstallSnapshotRequest,
             InstallSnapshotResponse, GetArgs, GetReply, PutAppendArgs, PutAppendReply, RpcHeader }

\* The requests that carry message m.
RequestsWith(schema, m) ==
    UNION { { [service |-> s, method |-> method, args |-> m] :
                method \in {x \in DOMAIN m_serviceMap[s] : m_serviceMap[s][x] = schema} } : s \in DOMAIN m_serviceMap }

VARIABLES
    msg,     \* a message, with its schema
    asked,   \* the requests sent on the connection
    stream,  \* their bytes that OnMessage has not seen yet
    called   \* the calls OnMessage made of the last buffer it got; history: the request at
             \* whose first byte the buffer began, 0 for none, and whether it held all of it

wireVars == <<msg, asked, stream, called>>

WireInit ==
    /\ msg \in UNION { { [schema |-> s, fields |-> m] : m \in Samples(s) } : s \in Schemas }
    /\ asked = << >> /\ stream = << >> /\ called = [calls |-> << >>, of |-> 0, whole |-> FALSE]

FrameOf(r) == Frame(r.service, r.method, Serialize(m_serviceMap[r.service][r.method], r.args))

\* The request whose first byte is the next one OnMessage gets, 0 if one is half
\* read: as many bytes are left as it and the ones after it have.
Beginning ==
    LET size == [j \in DOMAIN asked |-> Len(FrameOf(asked[j]))]
        begins == {j \in DOMAIN asked : MapThenSumSet(LAMBDA i : size[i], j..Len(asked)) = Len(stream)}
    IN  IF begins = {} THEN 0 ELSE Min(begins)

\* CallMethod, on the way out.  The first request carries msg; a further
\* one, of another thread, is empty.
SendRequest(r) ==
    /\ Len(asked) < MaxAsked
    /\ asked' = Append(asked, r)
    /\ stream' = stream \o FrameOf(r)
    /\ UNCHANGED <<msg, called>>

\* TCP has delivered n bytes; OnMessage takes them all.
Provide(n) ==
    /\ n \in DOMAIN stream
    /\ LET j == Beginning
       IN  called' = [calls |-> OnBuffer[SubSeq(stream, 1, n)], of |-> j,
                      whole |-> j # 0 /\ n >= Len(FrameOf(asked[j]))]
    /\ stream' = SubSeq(stream, n + 1, Len(stream))
    /\ UNCHANGED <<msg, asked>>

WireNext ==
    \/ asked = << >> /\ \E r \in RequestsWith(msg.schema, msg.fields) : SendRequest(r)
    \/ asked # << >> /\ \E r \in RequestsWith(msg.schema, default_instance(msg.schema)) : SendRequest(r)
    \/ \E n \in DOMAIN stream : Provide(n)

WireSpec == WireInit /\ [][WireNext]_wireVars

-----------------------------------------------------------------------------
Int32s == -(2^(IntBits - 1)) .. (2^(IntBits - 1) - 1)
LogEntryType == [Command : Bytes, LogTerm : Int32s, LogIndex : Int32s]
AppendEntriesArgsType ==
    [Term : Int32s, LeaderId : Int32s, PrevLogIndex : Int32s, PrevLogTerm : Int32s, Entries : Seq(LogEntryType),
     LeaderCommit : Int32s]
RequestVoteArgsType == [Term : Int32s, CandidateId : Int32s, LastLogIndex : Int32s, LastLogTerm : Int32s]
InstallSnapshotRequestType ==
    [LeaderId : Int32s, Term : Int32s, LastSnapShotIncludeIndex : Int32s, LastSnapShotIncludeTerm : Int32s, Data : Bytes]
PutAppendArgsType == [Key : Bytes, Value : Bytes, Op : Bytes, ClientId : Bytes, RequestId : Int32s]
GetArgsType == [Key : Bytes, ClientId : Bytes, RequestId : Int32s]

\* What OnMessage hands to a method is a message of the class the method takes.
WireTypeOK ==
    /\ stream \in Bytes
    /\ \A c \in Range(called.calls) : c.args \in CASE c.method = <<211>> -> AppendEntriesArgsType
                                    [] c.method = <<212>> -> InstallSnapshotRequestType
                                    [] c.method = <<213>> -> RequestVoteArgsType
                                    [] c.method = <<221>> -> PutAppendArgsType
                                    [] c.method = <<222>> -> GetArgsType

\* m agrees with full up to some field, and has the later ones at their default.
CutOf(schema, m, full) ==
    \E k \in 0..Len(schema) : \A i \in DOMAIN schema :
        LET f == schema[i]
        IN  CASE i < k -> m[f.name] = full[f.name]
              [] i = k -> m[f.name] = full[f.name] \/ (f.kind = "entries" /\ IsPrefix(m[f.name], full[f.name]))
              [] i > k -> m[f.name] = Default(f.kind)

\* A message read back is the message written, and one of which only a part was
\* read, as recv with its 1024 bytes may do, is refused or lacks its last fields:
\* no field is ever read with a value nobody wrote.  Two replies that one recv
\* reads together are taken for one, the merge of the two: fields of the first
\* that the second leaves out show through.
ReadAsWritten == asked = << >> =>
    LET s == Serialize(msg.schema, msg.fields)
    IN  /\ Parses(msg.schema, s) /\ Parse(msg.schema, s) = msg.fields
        /\ \A n \in 0..(Len(s) - 1) :
             LET part == SubSeq(s, 1, n)
             IN  Parses(msg.schema, part) => CutOf(msg.schema, Parse(msg.schema, part), msg.fields)
        /\ \A m \in Samples(msg.schema) :
             Parse(msg.schema, s \o Serialize(msg.schema, m)) = MergeFrom(msg.schema, msg.fields, m)

\* However TCP cuts the requests of a connection or runs them together: a buffer
\* that begins with a request and holds all of it makes OnMessage call exactly
\* that request; one that ends inside it makes no call or, when the cut fell in
\* the header, one without arguments, but never one with arguments read short.
\* Nothing is said of a buffer that begins inside a request: OnMessage takes
\* whatever it finds there for a frame.
CallsAsAsked ==
    /\ WireTypeOK
    /\ called.of # 0 =>
         LET r == asked[called.of]
             emptied == [r EXCEPT !.args = default_instance(m_serviceMap[r.service][r.method])]
         IN  called.calls \in IF called.whole THEN {<<r>>} ELSE {<< >>, <<emptied>>}
=============================================================================
