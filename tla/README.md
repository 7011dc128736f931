# TLA+ models of HTTPServer-raftKv

The repository is a replicated key-value store (`raft_KV`) and a web server with a
Gomoku game that keeps its matches in that store (`HTTPServer`). This directory
holds TLA+ models of its parts, the TLC configurations that check them, and TLAPS
proofs of the most important results.

## Inventory

| Part | State | Operations | Hard behaviour | Module |
|---|---|---|---|---|
| Raft core (`raftCore/raft.cpp`) | term, vote, role, log and snapshot boundary, commit and applied index, per-peer next/match index, one shared counter per election and per heartbeat round | `doElection`, `RequestVote`, `sendRequestVote`, `Start`, `doHeartBeat`, `AppendEntries1`, `sendAppendEntries`, `leaderSendSnapShot`, `InstallSnapshot`, `Snapshot`, `applierTicker`, `init` | every RPC has its own thread, replies are handled after other handlers ran; assertions that end the process; death and restart | `Raft`, `AgreedLog` |
| Persister (`raftCore/Persister.cpp`) | two streams, two files, a size counter | `Save`, `SaveRaftState`, `ReadSnapshot`, `ReadRaftState`, the constructor | files truncated when reopened | in `Raft` and `KvServer` |
| KvServer (`raftCore/kvServer.cpp`) | skip list, last request number per client, wait channel per log index | `Get`, `PutAppend`, the apply loop, snapshots | handlers wait outside the lock; timeout against late apply; `Get` executes outside the log order | `KvServer`, `ReplicatedLog` |
| Clerk (`raftClerk/clerk.cpp`) | request number, presumed leader | `TryGet`, `TryPutAppend`, the endless `Get`, `Put`, `Append` | retries after unknown outcomes | `Clerk` |
| Skip list (`skipList/include/skipList.h`) | towers of nodes | insert, set, search, delete, dump, load | long sequences of calls; random levels | `SkipList` |
| RPC transport (`rpc/*.cpp`) | one socket per peer | `CallMethod`, `OnMessage` | timeouts, late replies, dead connections, a stream without message boundaries | `RpcChannel`, `Wire` |
| Protobuf classes (`raftRpcPro`, `rpcheader`) | the fields | parse, serialize, merge | cut and joined input | `Wire` |
| Fiber runtime (`fiber/*.cpp`) | run queue, timers, epoll registrations, hooked descriptors | schedule, tickle, timers, hooked I/O, stop | timer against event against close; idle against push; stop | `Fiber` |
| Durable game state (`PvpGameService`, `RaftGameStateStore`) | one JSON envelope in the store | create, move, finish, recover | read-modify-write over a Put of unknown outcome; restarts | `GameState`, `PvpGame` |
| Rooms and WebSocket flow (`GomokuServer`, `GameWsHandler`, `GameRoom`, `MatchmakingPool`, `ChatManager`) | room cache, waiting player, lobby, connection tables | match, move, leave, log out, close, drop | cache against store, several connections of a user | `GameWs` |
| Accounts (`LoginHandler`, `RegisterHandler`, `Loginout`, `SessionManager`) | users, sessions, who is online | register, login, logout, page visits | two records of one fact, expiry | `Accounts` |
| Game against the program (`AiGame`) | board, move count | start, move, answer | line detection, threat heuristic | `AiGame` |
| HTTP and WebSocket server, TLS, rate limit (`HttpServer/src`) | parser state, buffer, frames, token bucket | `onMessage`, parser, router, upgrade, frame loop | partial and pipelined input | `Http` |
| Database pool (`DbConnectionPool`) | queue of connections, condition variable | `getConnection`, give back, the checking thread | lock held while asleep, failed pings | `DbPool` |

Raft calls the transport and the Persister; it hands committed commands to
KvServer through the queue `applyChan`, and KvServer hands commands and snapshots
to Raft. Raft's timers run on the fiber runtime. Clerk talks to KvServer over the same transport. The
Gomoku store is a Clerk; the WebSocket handlers call the game service and send what
it reports. The web server's parts meet in `HttpServer::onMessage`.

What makes each part correct: Raft elects one leader per term, never loses a
committed entry, applies the same entries in the same order everywhere, and makes
progress while a majority lives. KvServer executes every request once and answers
only what was committed. The transport gives each caller its own reply. The fiber
runtime wakes every parked fiber once. The game never goes back behind what
players were told. The server serves what was sent, and the pools hand out
what they have.

`PROJECT.json` lists the parts file by file, the hazards line by line, and for each
definition the source lines it models.

## Modules

### The replicated store

**`Raft`** models class `Raft` with one action per critical section of `m_mtx`.
The variables carry the names of the members; `proc` is the process (running,
killed, or ended by a named `myAssert`), `disk` what `persist()` last handed to
the Persister, `votedNum` and `appendNums` the shared counters that the sender
threads increment. An RPC in flight is a record in `rvCalls`, `aeCalls` or
`isCalls`: the arguments, and after the handler ran the reply. A thread that was
started and has not run yet is a record in `snapThreads`. `ballots`, `leaders` and
`applied` are history variables that no guard reads, except that `MaxElections`
counts the ballots candidates cast for themselves.

| Code | Definition |
|---|---|
| `doElection` | `doElection` |
| `RequestVote` | `RequestVote`, `GrantsVote`, `UpToDate` |
| `sendRequestVote` after the RPC | `sendRequestVoteNewerTerm`, `-Ignored`, `-Counted`, `-Elected` |
| `Start`, `doHeartBeat`, `applierTicker`, `Snapshot` | same names |
| `AppendEntries1` | `AppendEntries1Stale`, `-BehindSnapshot`, `-Mismatch`, `-Conflict`, `-Accept` |
| `sendAppendEntries` after the RPC | `sendAppendEntriesNewerTerm`, `-Ignored`, `-Refused`, `-Accepted` |
| `leaderSendSnapShot` before / after the RPC | `leaderSendSnapShot` / `leaderSendSnapShotIgnored`, `-NewerTerm`, `-Done` |
| `InstallSnapshot` | `InstallSnapshotStale`, `-Outdated`, `InstallSnapshot` |
| process end, `init` | `Crash`, `Abort`, `Restart` |
| a failed RPC | `CallFails` |

Choices of the model:

- The tickers only decide when an election or a heartbeat starts. Here both may
  start at any time, so no property depends on timing.
- Calls overtake each other and may fail. A request is executed at most once,
  because no code sends one again. A reply reaches the call it answers. This last
  point is an assumption: `MprpcChannel` shares one socket between the threads of a
  process without a lock (`mprpcchannel.cpp:108`); see `RpcChannel`.
- The Persister constructor truncates the files (`Persister.cpp:70`), so a restarted
  process starts from nothing. Requests the dead process had sent may still arrive.
- `AppendEntries1` walks back from a mismatch over entries of one term. The model
  lets it stop where the code's loop stops.
- A failed `myAssert` calls `exit`; the process is then dead like a killed one.
- Snapshot contents are not modelled here, only the boundary. The data that really
  travels is the subject of `KvServer`.

**`AgreedLog`** is the abstract specification of Raft: one log that only grows, of
which every server has executed a beginning, the next entries in order and none
twice; a server that was replaced by an empty one begins again. `Raft` implements it
under the mapping `log <- AppliedLog` (the entries some server has applied) and
`done <- m_lastApplied`; `raft_replication` checks the refinement.

**`MCRaft`** gives TLC its instances. `SpecLed` and `SpecDeposed` start in states
that `Init` reaches (after a first election; after a leader change that left
the old leader with three entries nobody else has), which leaves the bounds for what comes later. `SecondEntryOrSnapshots`
keeps `raft_replication` to behaviours with a second entry or with snapshots, `RestartOrRounds` keeps
`raft_restart` to those in which a process dies or the leader has a second round in flight,
`ThirdElectionOrEntries` keeps `raft_election` to a third election or to entries.

**`ReplicatedLog`** is what the service above Raft is promised: one committed log, a
leader of the newest term that has all of it, servers that lead or believe so. It
keeps two habits of the code: a deposed leader goes on taking commands until it
hears of its successor, and a server's log is overwritten but never cut. Entries
have no terms here; an entry is the command. The promise is an assumption of the
modules below it. `raft_replication` checks its content, and `raft_stale_suffix`
shows where Raft breaks it.

**`KvServer`** models class `KvServer`. Every RPC ever sent is a record in `calls`;
its field `st` follows the handler from critical section to critical section:

| Code | Definition |
|---|---|
| `Start` in `Get`, `PutAppend` | `NotLeader`, `HandOver` |
| channel looked up or made | `OpenChannel` |
| `timeOutPop` delivers | `Pop` |
| `timeOutPop` gives up | `TimeOutPut`; `TimeOutGet` (asks Raft), then `LateGet` (asks the duplicate table) |
| `ExecuteGetOpOnKVDB` | same name |
| channel erased and deleted, reply sent | `CloseChannel` |
| `applierTicker`, `GetCommandFromRaft`, `SendMessageToWaitChan`, `GetSnapShotFromRaft` | same names |
| `ExecutePutOpOnKVDB`, `ExecuteAppendOpOnKVDB` | `ExecutePutOpOnKVDB` |
| `Raft::InstallSnapshot` as the server sees it | `InstallSnapshot` |

- The data is one key, and its value is the write that set it. Put and Append both
  call `insert_set_element`, so one kind of write is enough.
- A channel is named by the call that made it; `waitApplyCh` is the set of channels
  that are in the map.
- `applyChan` includes the batch `applierTicker` has in hand, and a snapshot message
  comes from a detached thread, so it may overtake commands. `snapMsgs` is a set for
  this reason.
- What arrives as a snapshot is what `Persister::ReadSnapshot` returns: the first
  word of the archive, on which `parseFromString` throws and the process ends, or
  nothing, which `ReadSnapShotToInstall` takes for a fresh start. Which of the two
  depends on how often the file was read; the model allows both.
- A snapshot a server takes of itself changes nothing the service can see, because
  `raftLog` is the whole log; it appears when it is installed elsewhere.
- `setBack` is history: the Gets that, finishing late, wrote a smaller number over a larger
  one in `m_lastRequestId`.

**`Clerk`** composes the servers with their clients: a request is numbered once and
sent to one server after the other (`Try`, `Retry`) until an answer (`Answer`) or
the deadline (`GiveUp`). A call the clerk has left goes on in its server.
`Clerk::Put` is a `GiveUp` followed by a new request with a new number.

**`MCClerk`** gives TLC its instances; `SpecSeasoned` lets the clients start with any
presumed leader, which is where earlier requests leave them. `ReadsOrManyChanges`
keeps the run within its time: around a leader change a client's second request is a
write, a second change finds single writes, and a snapshot one write and its retry around
at most one change; a third call is the second copy of a write while an earlier `Get` of the
client is late.

### Below the store

**`SkipList`** models the towers: `forward` per level, the level of each node,
`_skip_list_level`, the counter. The path of predecessors (`update`) is found as the
code finds it, level by level; insertion takes any level the coins may give;
`delete_element` unlinks until the first level the node is not on. `dump_file` and
`load_file` are actions of their own, and `Renew` is the new server that loads. A history variable, `store`, holds the
map the list should stand for; after a load that is what was dumped, whatever `load_file`
made of it, and `loaded` names the keys it brought.

**`RpcChannel`** models `MprpcChannel::CallMethod` step by step (connect, send, recv,
with the closing of the descriptor on each error) and `RpcProvider` at the other
end, with a server that is up, slow (a reply may come after the receive timeout) or
down. A reply carries nothing that names its call, so it must be the connection that
keeps them apart. A reply is a sequence of pieces, one if it fits into the one `recv` of 1024 bytes
and TCP delivers it at once. `Recv` takes any number of pieces that are there, perhaps the rest of
one reply and the next; what is not one whole reply fails to parse, with the descriptor kept, or
parses as something nobody sent (`garbled`). `split` is history: a part of a reply was left on the connection.

**`Wire`** models the messages as bytes. A schema lists the fields of a class; reading,
writing and merging follow the generated code, with integers of `IntBits` and varints of `WireBits`
in place of 32 and 64 bits. On top of them are the frame `CallMethod` builds and
what `OnMessage` calls for any part of the stream that TCP delivers. Keys and values
include one whose bytes are a frame. `called` records with the calls of a buffer where in the
requests the buffer began.

**`Fiber`** models `Scheduler`, `IOManager`, `TimerManager`, `Fiber` and `hook.cpp`. A step
is what one thread does between two accesses to shared state. `idle()` is
`CheckStopping`, `WaitReturns`, `Dispatch`; a hooked call is `Arm` (the timer),
`AddEvent`, `Yield`, `SwapContext`, `AfterIo`, `RetryIo`. Times are not modelled: a timer falls
due at some point after it was set. `broken` names how the process failed: a fiber
resumed that was not ready, or whose context was not saved yet.

**`MCNode`** checks `SkipList`, `RpcChannel` and `Wire`, which share no state, in one run:
a behaviour is one of the part chosen at its start, the others stay in their
first state. **`MCFiber`** has the bound of the fiber run.

### The game

**`GameState`** has no variables: a room, the envelope that holds every room, the
active index and the next id, and the operations on them, as `GameRoom` and
`RaftGameStateStore` define them. The board is the sequence of cells played; whether a
stone wins is a free choice.

**`PvpGame`** gives them threads: an operation takes `writerMutex_`, reads the
index (`LoadActive`), reads the envelope again (`ReplaceGet`) and puts it back
(`PutOk`, `PutUnavailable`). A Put reported unavailable may land between any two
steps, in the order the Puts were sent; one that is overtaken by a later answered Put of the same clerk
is void, because `KvServer` skips its older number. That is assumed here; a given-up
`Get` that sets the number back can break it. A restart empties the
application and reads the index.

**`GameWs`** models the one I/O loop: TCP connections, their upgrade and end, the two
maps of `GameWsHandler`, `MatchmakingPool`, the lobby and the room cache. A handler is one
action, the service call in it included, which commits, fails, or is of unknown
outcome. `told` is history: the room each user was last told of, and how: as the result of an
operation, by a state request (which shows what the store holds at that moment), or by a
state request while Puts made from one state were open (`forked`).
**`MCPvpGame`** and **`MCGameWs`** give TLC their instances; `Explored` cuts off what no property
speaks about (a Put of an earlier incarnation has landed) and keeps second
rooms to two connections, without a restart or a Put of unknown outcome, and a third connection to
the time before the first stone, without a restart or an open Put.

### The web server

**`Http`** is one connection. What the client sends is cut into units (a request
line, a header, the empty line, body bytes, a frame header, payload); the network
delivers any number of them at a time, perhaps behind a TLS handshake. The actions are the
parser's states, the refusals, `OnRequest` with the outcomes of middleware, router and
handler, and the frame loop after an upgrade.

**`Accounts`** has browsers as cookie jars, the users table, sessions, and who is
online; a handler is one step. **`AiGame`** has the board, `checkWin` along the last stone,
`evaluateThreat` and `getBestMove` in the code's scan order; board size, line length and
reach are constants. **`DbPool`** has workers, the queue, the condition variable with its lost and spurious
wakeups, and the checking thread, which may sleep with the mutex.

**`MCWeb`** checks these four in one run, one part per behaviour as in `MCNode`.

The modules named **`...Proofs`** hold the theorems: `RaftProofs`, `RaftElectionProofs`
(which extends it), `KvProofs` (about `KvServer` and `Clerk`), `NodeProofs` (`RpcChannel`,
`Fiber` and `SkipList`), `GameStateProofs` (lemmas about rooms and envelopes), `PvpGameProofs`, `GameWsProofs` and
`WebProofs` (`Accounts`, `DbPool`, `AiGame`, `Http`).

## Runs

All bounds are named constants. At the bounds a run has nothing left to do, so
deadlock is not checked. Symmetry is used in safety runs only.

| Run | Instance | Shows |
|---|---|---|
| `raft_election` | 3 servers, 3 elections, 3 terms; or 2 elections, 2 commands and the leaders' AppendEntries | under every order of requests and replies `ElectionSafety`, `ElectedOnce`, `LeaderUntilNewerTerm`, and `OneCommand`: an index and a term name one command in every log and state machine, and no `AppendEntries1` ends its process over a conflict |
| `raft_replication` | leader of term 1 with 2 entries, second election; or one entry and snapshots | `LogMatching`, `StateMachineSafety`, `LeaderCompleteness`, `MajorityCommits`, `NeverTakesBack`, and the refinement `ImplementsAgreedLog` |
| `raft_restart` | a crash, a restart, old requests on the wire; or a leader with 2 heartbeat rounds in flight and 2 entries; with both a lost call and snapshots | `IndexOrder`, `Durable`; without a restart `MatchIndexSound`: what a leader counts is stored, although calls of one leader overtake each other and replies of an earlier round come late or not at all |
| `raft_progress` | 3 servers, one may die, fair scheduling, snapshots | `Progress` |
| `kv` | 2 servers that may both believe to lead, 2 clients with 2 requests, 2 leader changes or a snapshot; a late `Get` and 2 copies of a write | `ExecutedOnce`: deduplication survives retries, lost answers and leader changes, except where a late `Get` set the number back; `ChannelAlive`: no handler deletes another's channel; `AnswerCommitted`: an answer, also one given after a timeout, is about a committed and applied request; `TypeOK`, with only committed commands queued |
| `node` | lists of 3 keys and 3 levels; a channel with one caller, 2 connections, replies in up to 3 pieces, a server that crashes and is slow; every message of the services with boundary values, 2 requests in any cut | `ListSound` (`LevelsNested`, `AnswersAsMap`), `OwnReply`, `ReadAsWritten`, `CallsAsAsked`, `ChannelRecovers` |
| `fiber` | 1 or 2 threads, 2 fibers, one of them without timeouts, 2 waits each (2 together with two threads) | `OneWaker`, `OneThreadNeverPanics`, `NoLostTickle`, `StopWaitsForAll`, `FibersEnd` |
| `pvp_store` | 2 threads, 2 players, 2 rooms, 2 cells, 2 Puts of unknown outcome of which one may land inside an operation, 1 restart | `AckedKept`, `IndexFits` |
| `game_ws` | 2 users, 3 connections, 2 cells, 2 rooms, 2 Puts of unknown outcome, 1 restart | `LocalBehindStore`, `OverIsOver`, `FramesToWebSockets`, `QueueSound` |
| `web` | 3 messages of 13 kinds per connection, bucket of 2; 2 users, 2 browsers, 3 sessions; a 3x3 board; 4 workers, 2 connections | `ConnectionSound` (`WellFormedAccepted`, `ServedAsSent`, `OwnBody`, `AnswersInOrder`, `RateBound`), `OneSessionPerUser`, `GameSound` (`AnswerTrue`, `WinsOnlyByTwoThreats`), `PoolSound` (`OnePlace`, `NoSleeperForgotten`), `EventuallyAnswered`, `SomebodyServed` |

Why the bounds are enough for the cases to happen. Two terms and two entries are the
smallest at which a deposed leader's uncommitted entry, a conflicting one and a
committed one coexist; three servers are the cluster of the demo scripts. The
key-value run needs two copies of a request, or two requests, in handlers at the
same time, and a leader change between them; a write that is executed twice takes three
handlers, the late `Get` and the write's two copies. Two rounds in flight are a call of a leader, or its
reply, that a later one overtakes. Three keys and three levels give a node
with neighbours on both sides on each level. Two connections are an old one with a
late reply and its successor; three pieces on one are a rest and a new reply, whole or divided again. Ten-bit integers take two varint bytes, and a negative one takes
the full width, as 32 bits do in 64. One fiber whose event, timeout and close race needs a
second fiber to close its descriptor. Two Puts of unknown outcome can land in an
order and between the steps of a third operation. A third connection is a user's
second one. Three messages are a request, its pipelined successor and one that finds
what these left behind. Four workers are two that hold the connections and two that wait.

Two runs end in a violation. Each checks a sentence of the repository that the
code does not keep (`findings` quotes them):

| Run | What happens |
|---|---|
| `raft_stale_suffix` | with three servers, three terms and logs of three entries: a conflicting entry is replaced but old entries behind it stay; a voter whose log ends in that tail has an old last term, votes for a server that lacks a committed entry, and that server wins |
| `kv_replicas` | a `Get` records its number on the server that executed it only; a write of the same client that was given up and is applied later is then skipped there and executed elsewhere |

Every property of a passing run has a mutant of the code's logic that breaks it.
Six of them (`IndexOrder`, `IndexFits`, `QueueSound`, `StopWaitsForAll`, `OneSessionPerUser`, `OwnReply`)
and those named `...Sound` carry their module's type invariant as a first part, and
`CallsAsAsked` that of `Wire`.

### Known deviations that are part of the models and not kept as runs

The properties are stated so that these are excepted, by a guard the property names
or by the instance.

- Raft: the branch for a `prevLogIndex` behind the snapshot lacks a `return`, and
  `matchLog`'s assertion ends the process (`raft.cpp:53`, `Abort`). With five servers of which
  two are dead, the reply that completes a majority may carry no entries; the counter is
  reset and a stored entry is not committed before another one arrives. A restarted server
  forgets its vote, so `ElectionSafety` needs `MaxRestarts = 0`. It also forgets its log: a leader
  that is killed, comes back and wins its own term again takes another command at an index
  it used before, while its old AppendEntries still arrive, so `OneCommand` and `MatchIndexSound` need it too. A late
  `leaderSendSnapShot` thread of an old leader reads the new term and makes the new leader step
  down, so `LeaderUntilNewerTerm` needs `Snapshots = FALSE`.
- KvServer: `Persister::ReadSnapshot` truncates the file it reads, so a second
  follower installs nothing and skips the commands. A `Get` that was given up
  and finishes after a later write sets the client's number back (`kvServer.cpp:53`), and the second copy of that
  write is executed again, against the comment at `kvServer.cpp:179`. `ExecutedOnce` names this as its one exception;
  `kv` reaches it, and TLC finds the double execution when the exception is taken out.
- Skip list: `load_file` stores each key's own text as its value (`skipList.h:299`), and leaves a key that is there as it
  is: restoring a snapshot loses the values, against
  `raft_KV/docs/Raft-KV源码阅读与数据流指南.md:341`. `AnswersAsMap` excepts the values of keys that `load_file` brought.
- Transport: two threads that share a channel mix up their replies (`OwnReply` is checked for one caller);
  `recv` returning 0 is an empty success. A reply of more than 1024 bytes, or one TCP cuts, leaves
  its rest for the next call, the descriptor is kept when the parts do not parse, and the connection
  may stay one reply behind until it breaks: `OwnReply` excepts the calls on such a connection and no
  others, and `ChannelRecovers` speaks of one that is in step. The repository's notes on
  Protobuf admit these limits (`raft_KV/docs/Protobuf在C++与本项目RPC中的工作原理.md:250-252`). A request
  cut in its header still parses, with arguments of size 0, and is called with empty arguments. Of two requests in one buffer
  the second is dropped, and the rest of a request that was cut is taken for a frame; a value whose bytes are
  a frame can then be called. `CallsAsAsked` says nothing about a buffer that begins inside a request.
- Fiber: with two threads a fiber is READY before its context is saved, and a timer may
  fire before `addEvent`; `OneThreadNeverPanics` and `FibersEnd` speak of the one thread
  `Raft::init` asks for. A push between a thread's look at the queue and its `++idleThreadCnt_` waits up to
  5 seconds (`missed`).
- Game: a Put of unknown outcome that lands between the reads of index and envelope
  leaves a live game out of the index (`crossed`), which a restart then does not recover (`docs/data-flow.md:78`); one
  that lands inside `createRoom` leaves a room at or above the next id, and after a restart, which has
  forgotten that room, the next `createRoom` overwrites it with the moves committed in it.
  One of a killed application may land in its successor's time (`overrun`). Of two
  operations of unknown outcome made from one state the first may land, be shown and copied into the local
  room by a state request, and be overwritten by the second (`forked`): both players leave
  while the cluster does not answer, and one is shown to have won before the other has. A room
  that a state request finds finished stays in the cache, so its players count as in a game
  until one of them leaves; `OverIsOver` says that such a room is at least over. When a room cannot be created
  both users are out of the queue (`GameWsHandler.cpp:192`), and only one is told.
- Web: after a 400 the parser goes on with what is in the buffer, and a later request line
  then meets the assertion of `setMethod`; a pipelined request waits until more data
  arrives; the body of a GET is read as the next request; `reset` leaves the old body to a
  request without one; the program prefers to block over winning when the blocking cell comes
  first; the checking thread may ping a connection that a worker uses, and while the pool is empty it
  sleeps with the mutex, takes it again at once, and may keep everybody from giving a connection
  back (`SomebodyServed` names this loop as its exception); an account
  stays online, and nobody can log in to it, after its session expired, after a login as somebody
  else in the same browser, or after a logout whose body does not parse.

## Fairness

`Raft`: weak fairness of what the code does unconditionally: every live server's
heartbeat ticker and applier keep running, every request that reached a live process
is handled, every reply is handled by its waiting thread, and calls to a dead
process fail. Nothing is assumed about elections, commands, snapshots, crashes or losses.

`Fiber`: every thread of the pool is scheduled (`epoll_wait` returns after 5 seconds at
the latest) and every timer falls due. No peer is assumed to send anything.

`MCNode`: the client's thread goes on calling and the provider's loop goes on reading;
the server may be slow or die as often as it likes, and `ChannelRecovers` speaks of a
server that stays up from some point on.

`MCWeb`: `onMessage` runs to its end and TCP delivers. In the pool a query, a ping and a
sleep end, and a thread that could go on and on take a free mutex does. All of this is weak
fairness. `std::mutex` promises no more: a thread whose mutex is taken again before it runs
may wait for ever, which is why `SomebodyServed` excepts a checking thread that
forever finds the pool empty. No other starvation is possible.

The other runs check safety only.

## Proofs

`RaftProofs` proves `TypeCorrect` and `IndexOrderCorrect` for every finite set of
servers and every value of the bounds, restarts and snapshots included. `IndexOrder`
is not inductive: an assertion of the leader depends on what is on the wire. The
inductive invariant `IndexInv` adds

- `LogBounds`: boundary, applied, committed and last index are in order;
- `PeerBounds`: `nextIndex` and `matchIndex` stay inside the server's own log;
- `AppendBounds`: a call on the wire ends inside its sender's log, and a refusal
  points to an index from 1 to one past that log;
- `SnapshotBounds`: the same for InstallSnapshot.

They hold because a server's last index never shrinks while it lives: the code
replaces entries and never cuts the log (which is also what makes
`raft_stale_suffix` go wrong). After a restart the old calls are orphans whose
replies nobody reads.

`RaftElectionProofs` proves `ElectionSafetyCorrect`: without restarts, no server
votes twice in a term and no two servers win one. The assumption is needed: a
restarted process starts from empty files and votes again in a term it voted in. The
argument counts: `CountInv` says the anonymous counter of a candidate is at most the
number of its voters whose replies were already handled, `CallsUnique` that no voter
is counted twice, `LeaderInv` that every winner had a majority, and two majorities
intersect.

`RaftProofs` also proves two properties from `IndexInv`. `DurableCorrect` needs nothing
more: every handler that changes vote or log calls `persist` before it returns
(`PersistWrites`), and the ones that only raise the term clear the vote.
`NeverTakesBackCorrect` is an action property; its part about commits needs
`IndexInv`, because a leader's new commit index comes from what it knows about its peers.

`RaftElectionProofs` adds `ElectedOnceCorrect` with `WonInv` (the counter of a leader and the
replies still to come cannot make a second majority), and
`LeaderUntilNewerTermCorrect` with `SentByLeader` (the term of every AppendEntries on the
wire was won by its sender). The second assumes `Snapshots = FALSE`, as the run does: a
late `leaderSendSnapShot` thread sends a term its server has not won.

`OneCommandCorrect` is about the loop of `AppendEntries1`, whose author wonders in a comment whether
the assertion in it can fail (`raft.cpp:78`). Without restarts it cannot. The property speaks of logs and
state machines; `EntryInv` speaks of every entry at an index, wherever it is (`Item`: in a log, in a
call on the wire, applied), and says that its term was won by somebody, and that no entry of a
term lies beyond the log of the term's winner, as long as the winner is in that term. `ItemStep` shows that no step makes an entry but `Start`: merging, cutting at a
snapshot and sending only move entries, with their index. `Start` puts its entry behind the
winner's log, and by `ElectionSafety` nobody else won that term. Log matching is not needed,
and could not be: the stale suffix breaks it.

`KvProofs` proves `TypeCorrect` and `ChannelAliveCorrect` for any number of servers,
clients, requests, calls, leader changes and snapshots. `ChannelAlive` needs
`ChannelInv`: `IndexInLog` (a handler's index lies inside its server's log),
`IndexUnique` (two handlers of a server never have the same index) and
`ChannelOwned` (a handler waits on the channel it made). They hold because `Start`
hands out the index after the last one and `LogsGrow`: no step shortens a log. With
a log that is cut, as in Raft's paper, an index comes back while its first handler
still waits, and the delete at the end of `PutAppend` hits the second one; the
mutant `Truncate` shows it.

`AnswerCommittedCorrect` has the longest chain. `SentInv` says that the leader holds the
committed log, that a clerk's request numbers are used for one request, and that what is in
any log was asked for. `EarnedInv` follows a request from the committed log over the apply queue
(`QueueApplied`) to the duplicate table (`TableEarned`), the value (`ValueApplied`), the channel
(`CallsEarned`) and the clerk (`AnswersEarned`): whatever is found at one of these places has
passed the one before.

`ExecutedOnceCorrect` is for clients that read and write. `ExecutedBelow` says that every write a
server executed is at or below the client's number in its table, and below a write of the
client it is about to execute, unless a `Get` with a smaller number set the client's number back
there (`SetBackBelow`): only `ExecuteGetOpOnKVDB` lowers a number, and `setBack` records it.

`NodeProofs` proves `OwnReplyCorrect` for a channel with one caller (the assumption is needed,
`MprpcChannel` has no lock), replies in any number of pieces. The invariant `ChannelInv`: only the connection whose
descriptor the caller holds is open to it (`OnlyLink`). As long as no part of a reply was left on it, it carries
at most one request or reply, of the current call (`CarriesCall`): the errors of `send` and `recv`
close it, and a `recv` that takes all there is leaves nothing. A connection on which a part was left is out of step
until it is closed or read empty, and the calls on it are the exception of `OwnReply`.

It also proves the four invariants of `Fiber`, for any number of threads, fibers and waits.
Their invariant `FiberInv` says:

- the scheduler's counters count its threads: `activeThreadCnt_` those with a task,
  `idleThreadCnt_` those in `idle()` (`FiberCounts`);
- while nothing is broken, a fiber that runs or leaves is on one thread (`OnOneThread`),
  is started once (`StartedOnce`), and exactly the parked fibers have a waker and only one
  (`WakersExact`). Wakers are counted over six places: registered events, sleep timers, due
  timers, the queue, callbacks a thread has in hand and those it took with `listExpiredCb`. Every step
  moves at most one waker per fiber from one place to another;
- a thread ends its idle fiber only after `stop` (`EndsAtStop`), once all have done so
  nothing is left (`NothingLeft`), and over a queue that is not empty somebody is awake or
  will be woken (`SomebodyAwake`).

`OneThreadNeverPanicsCorrect` is the consequence that matters to Raft: only `run()` can take a wrong fiber; a queued fiber
is parked, and if the thread that takes it is the only one, no thread is still leaving it.

`ListSoundCorrect` is the third part of `NodeProofs`, for every number of keys and levels and all
coins. `ListInv` says that on each level the nodes that reach it are linked in order and the
others point nowhere, that no node is higher than the list (`Linked`), that the values are on the nodes and
the element count is theirs (`Stands`), and that keys and values are those of the map, but for the
values of keys `load_file` brought (`Agrees`). What a search finds on its way down is the last smaller
key of each level; an insertion or deletion relinks exactly there. The walks are
recursive functions. That these exist and what they return is shown by the least number at which
it would fail (`LeastNumber`, `Downward`, `Upward`), which needs no theorem with an operator parameter.
The proof asks that `NoValue`, the model's mark for a key that is absent, is no stored value; this
is part of `SkipAssumption`.

`PvpGameProofs` proves `AckedKeptCorrect` and `IndexFitsCorrect`. `PvpInv` says of the store, of every
Put that may still land and of what each thread is about to put (a) that its index fits its
rooms, as long as no Put landed inside an operation (`FitsInv`), and (b) that it keeps
every acknowledged game (`KeepsInv`). The second holds across such Puts until a restart.
An answered Put makes the open Puts of its clerk void, so nothing older than an
acknowledgement can land. Both premises were found by trying to prove without them; TLC
gives the counterexamples described above.

`GameWsProofs` proves all four invariants of `GameWs` from `WsInv`: `ConnInv` (who is named in a map or
in the lobby has a connection that is registered, or closed) and `GameInv` (what was told
and the local rooms are continued by the store and by everything that may land). What a user was told
in the forked case may be overwritten, so `KeepsTold` is about the others (`Sure`); a state request
shows what the store holds, and while no two open Puts were made from one state all of them
continue it. `Free` is the part about games that are over.
Its lemmas about rooms, `Extends` and `Kept` are in `GameStateProofs`.

`WebProofs` proves `OneSessionPerUserCorrect` (with `AccInv`: ids in use were generated
before, a session has a user exactly if it is logged in, and no two live ones have the same) and `PoolSoundCorrect` (with `PoolInv`:
every connection is in the queue, in one thread's hands or with the checking thread, and in one
of these places only).

It proves `GameSoundCorrect` for every board size, line length and reach. `AiInv` adds that a game that goes on has no line and
as many stones of each side (`GoesOn`), and that where the human can win now there were two threats
before the program's move (`TwoWays`). Two lemmas carry it: a new line goes through the last stone, so
`checkWin` along that stone finds a line exactly if there is one, and `getBestMove` returns the first cell in its scan
order, which exists as a least number.

`ConnectionSoundCorrect` is for every sequence of messages and every way the network cuts it.
`HttpInv` looks at the stream, the buffer and behind it what is on its way: it consists of
whole messages, but for the one the parser is in (`WholeMessages`). There is a place `n` such that the
first `n` messages were served, each with its own body, nothing behind them was answered (`FirstServed`), and
the state of the parser says how much of the next one was consumed (`ParserAt`). It exists
until something is refused; a client that sends nothing malformed is in step to the end
(`InStep`). For the rate limit, admitted requests and tokens together are at most the
bucket and its refills.

The theorems hold for all finite sets of servers, clients, users, connections and so on,
and for all values of the bounds. The assumptions on the constants are the named `ASSUME`s of the
modules, and the few on single theorems (no restart, no snapshots, one caller), each of which the section on deviations explains.

Only model-checked, and why:

- liveness (`Progress`, `FibersEnd`, `ChannelRecovers`, `EventuallyAnswered`, `SomebodyServed`): out of the prover's reach;
- `LogMatching`, `StateMachineSafety`, `LeaderCompleteness`, `MatchIndexSound` and the refinement of
  `AgreedLog`: with three terms and logs of three entries the stale suffix (`raft_stale_suffix`)
  breaks leader completeness and what rests on it. They hold for the two terms and two entries of
  `raft_replication` (the fourth for the one term of `raft_restart`) and not for all values of the bounds, so there is no theorem to prove;
- `MajorityCommits`: with five servers it fails, as described among the deviations;
- `ReadAsWritten`, `CallsAsAsked`: `Wire` computes with sums and powers of 2 over fields and bytes by folds that take an
  operator, which the prover cannot instantiate for every input.

## Plan

All parts of the plan are built. A next step would be the proof of leader completeness for an
`AppendEntries1` that cuts a conflicting suffix, should the code be changed to do so.

## Not modelled

- Persister's stream buffer and size counter: the raft-state stream is as `Raft` uses it.
- The descriptor table and its flags, recurring timers, tasks bound to a thread, and the
  semaphore and mutex wrappers of the fiber runtime.
- Copies, swaps, arenas and reflection of the generated protobuf classes: no code of the
  repository depends on how they work.
- Query strings, cookie syntax, response texts, masking and the handshake key of
  WebSocket, CORS headers, logging: text without state. Continuation frames, which the
  code drops, are not sent.
- OpenSSL beyond the fact that a handshake takes several messages; SQL text.
- `SlidingWindow`, which the application does not use.
- Pages, demo programs and scripts, except for the cluster size they choose.
