-------------------------------- MODULE Raft --------------------------------
(***************************************************************************)
(* The consensus core of raft_KV (raftCore/raft.cpp, class Raft).          *)
(*                                                                         *)
(* Every server is one operating-system process.  All its handlers run     *)
(* under m_mtx, so one handler is one action; what happens between two     *)
(* critical sections (an RPC in flight, a thread spawned but not yet       *)
(* running) is state: rvCalls, aeCalls, isCalls and snapThreads.           *)
(* The timers only decide WHEN doElection and doHeartBeat run; here they   *)
(* may run at any time.                                                    *)
(*                                                                         *)
(* An outstanding RPC is a record with the arguments and, once the callee  *)
(* has answered, the reply.  Calls overtake each other freely (each one is *)
(* sent by a thread of its own) and may fail at any point, but a request   *)
(* is executed at most once: no code resends one.                          *)
(***************************************************************************)
EXTENDS Integers, Sequences, FiniteSets

CONSTANTS
    Server,         \* the processes, m_peers
    Command,        \* the serialized Ops handed to Start
    Nil,            \* m_votedFor = -1
    MaxTerm,        \* bound: elections stop at this term
    MaxElections,   \* bound: elections started, over all servers
    MaxLog,         \* bound: Start stops at this log index
    MaxRounds,      \* bound: heartbeat rounds of one server in flight
    MaxCrashes,     \* bound: processes killed from outside
    MaxRestarts,    \* bound: processes started again
    MaxLosses,      \* bound: calls lost although the callee is alive
    Snapshots       \* whether the state machine takes snapshots

ASSUME ServerAssumption == IsFiniteSet(Server) /\ Server # {}
ASSUME NilAssumption == Nil \notin Server
ASSUME BoundAssumption ==
    /\ MaxTerm \in Nat /\ MaxElections \in Nat /\ MaxLog \in Nat /\ MaxRounds \in Nat
    /\ MaxCrashes \in Nat /\ MaxRestarts \in Nat /\ MaxLosses \in Nat
    /\ Snapshots \in BOOLEAN

VARIABLES
    proc,                       \* "up", "killed", or the myAssert that ended it
    m_currentTerm, m_votedFor, m_status,
    m_logs,                     \* entries after the snapshot boundary
    m_lastSnapshotIncludeIndex, m_lastSnapshotIncludeTerm,
    m_commitIndex, m_lastApplied,
    m_nextIndex, m_matchIndex,
    votedNum,                   \* the shared counter of the latest election
    appendNums,                 \* one shared counter per heartbeat round
    disk,                       \* what persist() last handed to Persister's stream
    rvCalls, aeCalls, isCalls,  \* outstanding RPCs
    snapThreads,                \* leaderSendSnapShot threads not yet running
    crashes, restarts, losses,  \* how often the environment struck
    ballots, leaders, applied   \* history: votes cast, elections won, entries applied

serverVars == <<proc, m_currentTerm, m_votedFor, m_status>>
logVars    == <<m_logs, m_lastSnapshotIncludeIndex, m_lastSnapshotIncludeTerm>>
applyVars  == <<m_commitIndex, m_lastApplied>>
leaderVars == <<m_nextIndex, m_matchIndex, appendNums>>
netVars    == <<rvCalls, aeCalls, isCalls, snapThreads>>
faultVars  == <<crashes, restarts, losses>>
voteVars   == <<votedNum, ballots, leaders>>

vars == <<serverVars, logVars, applyVars, leaderVars, netVars, faultVars,
          voteVars, disk, applied>>

-----------------------------------------------------------------------------
Follower  == "Follower"
Candidate == "Candidate"
Leader    == "Leader"

Rounds == 1..MaxRounds
Max2(a, b) == IF a >= b THEN a ELSE b
Min2(a, b) == IF a <= b THEN a ELSE b

\* Mutant of Majority: the + 1 is missing.
HalfOfThem == Cardinality(Server) \div 2

\* m_peers.size() / 2 + 1
Majority == (Cardinality(Server) \div 2) + 1

Entry == [term : Nat, command : Command]

\* What persistData serializes.
PersistData ==
    [term : Nat, votedFor : Server \cup {Nil}, logs : Seq(Entry),
     snapIndex : Nat, snapTerm : Nat]

EmptyFile ==
    [term |-> 0, votedFor |-> Nil, logs |-> <<>>, snapIndex |-> 0, snapTerm |-> 0]

getLastLogIndex(s) == m_lastSnapshotIncludeIndex[s] + Len(m_logs[s])

getLastLogTerm(s) ==
    IF m_logs[s] = <<>> THEN m_lastSnapshotIncludeTerm[s]
    ELSE m_logs[s][Len(m_logs[s])].term

\* Defined from the snapshot boundary to the last index.
getLogTermFromLogIndex(s, i) ==
    IF i = m_lastSnapshotIncludeIndex[s] THEN m_lastSnapshotIncludeTerm[s]
    ELSE m_logs[s][i - m_lastSnapshotIncludeIndex[s]].term

\* Mutant of UpToDate: the logs are not compared.
AnyLogUpToDate(s, index, term) == TRUE

UpToDate(s, index, term) ==
    \/ term > getLastLogTerm(s)
    \/ term = getLastLogTerm(s) /\ index >= getLastLogIndex(s)

\* Mutant of persist: nothing is written.
Forget(s) == UNCHANGED disk

\* persist(): the new memory state is handed to Persister's raft-state stream.
persist(s) ==
    disk' = [disk EXCEPT ![s] =
        [term |-> m_currentTerm'[s], votedFor |-> m_votedFor'[s],
         logs |-> m_logs'[s], snapIndex |-> m_lastSnapshotIncludeIndex'[s],
         snapTerm |-> m_lastSnapshotIncludeTerm'[s]]]

\* "Three changes": a larger term makes the server a follower of that term.
StepDown(s, term) ==
    /\ m_currentTerm' = [m_currentTerm EXCEPT ![s] = term]
    /\ m_votedFor' = [m_votedFor EXCEPT ![s] = Nil]
    /\ m_status' = [m_status EXCEPT ![s] = Follower]

\* A failed myAssert ends the process.
Abort(s, which) == proc' = [proc EXCEPT ![s] = which]

-----------------------------------------------------------------------------
(* The RPC layer: MprpcChannel on the caller's side, RpcProvider on the    *)
(* callee's.  A call is "req" until the callee answers and then "rep".  It *)
(* is "orphan" when its caller's process was replaced while the request    *)
(* was on the wire: it may still be executed, nobody reads the reply.      *)

Waiting(c) == c.st \in {"req", "orphan"} /\ proc[c.to] = "up"

Answered(c) == c.st = "rep" /\ proc[c.from] = "up"

\* The calls after c got the reply fields of answer.
Reply(calls, c, answer) ==
    (calls \ {c}) \cup (IF c.st = "req" THEN {answer} ELSE {})

\* The calls as a new process in the place of s finds them.
AfterRestart(calls, s) ==
    {IF c.from = s THEN [c EXCEPT !.st = "orphan"] ELSE c :
        c \in {d \in calls : /\ d.to # s
                             /\ d.from = s => d.st # "rep"}}

\* The connection fails, as it surely does when the callee died: the caller
\* sees !ok (or, for votes and entries, a default reply) and does nothing more.
Breaks(c) ==
    \/ proc[c.to] # "up" /\ UNCHANGED losses
    \/ proc[c.to] = "up" /\ losses < MaxLosses /\ losses' = losses + 1

CallFails ==
    /\ \/ \E c \in rvCalls : /\ Breaks(c)
                             /\ rvCalls' = rvCalls \ {c}
                             /\ UNCHANGED <<aeCalls, isCalls>>
       \/ \E c \in aeCalls : /\ Breaks(c)
                             /\ aeCalls' = aeCalls \ {c}
                             /\ UNCHANGED <<rvCalls, isCalls>>
       \/ \E c \in isCalls : /\ Breaks(c)
                             /\ isCalls' = isCalls \ {c}
                             /\ UNCHANGED <<rvCalls, aeCalls>>
    /\ UNCHANGED <<serverVars, logVars, applyVars, leaderVars, snapThreads,
                   crashes, restarts, voteVars, disk, applied>>

-----------------------------------------------------------------------------
(* Elections *)

RequestVoteArgs(s, p) ==
    [from |-> s, to |-> p, st |-> "req", term |-> m_currentTerm[s] + 1,
     lastLogIndex |-> getLastLogIndex(s), lastLogTerm |-> getLastLogTerm(s),
     replyTerm |-> 0, voteGranted |-> FALSE]

doElection(s) ==
    /\ proc[s] = "up"
    /\ m_status[s] # Leader
    /\ m_currentTerm[s] < MaxTerm
    /\ Cardinality({b \in ballots : b[1] = b[3]}) < MaxElections
    /\ m_status' = [m_status EXCEPT ![s] = Candidate]
    /\ m_currentTerm' = [m_currentTerm EXCEPT ![s] = @ + 1]
    /\ m_votedFor' = [m_votedFor EXCEPT ![s] = s]
    /\ votedNum' = [votedNum EXCEPT ![s] = 1]
    /\ ballots' = ballots \cup {<<s, m_currentTerm[s] + 1, s>>}
    /\ rvCalls' = rvCalls \cup {RequestVoteArgs(s, p) : p \in Server \ {s}}
    /\ UNCHANGED <<proc, logVars, applyVars, leaderVars, aeCalls, isCalls,
                   snapThreads, faultVars, leaders, applied>>
    /\ persist(s)

\* Whether the callee of c grants the vote (its term is then c.term).
GrantsVote(c) ==
    /\ c.term >= m_currentTerm[c.to]
    /\ UpToDate(c.to, c.lastLogIndex, c.lastLogTerm)
    /\ \/ c.term > m_currentTerm[c.to]
       \/ m_votedFor[c.to] \in {Nil, c.from}

\* Mutant of NewerTerm: >= for >.
NotOlderTerm(c) == c.term >= m_currentTerm[c.to]

NewerTerm(c) == c.term > m_currentTerm[c.to]

\* The Raft::RequestVote handler; every path ends in persist().
RequestVote(c) ==
    LET v     == c.to
        newer == NewerTerm(c)
        grant == GrantsVote(c)
    IN  /\ Waiting(c)
        /\ m_currentTerm' = [m_currentTerm EXCEPT ![v] = Max2(@, c.term)]
        /\ m_status' = [m_status EXCEPT ![v] = IF newer THEN Follower ELSE @]
        /\ m_votedFor' = [m_votedFor EXCEPT ![v] =
                IF grant THEN c.from ELSE IF newer THEN Nil ELSE @]
        /\ ballots' = IF grant THEN ballots \cup {<<v, c.term, c.from>>} ELSE ballots
        /\ rvCalls' = Reply(rvCalls, c,
                [c EXCEPT !.st = "rep", !.replyTerm = Max2(m_currentTerm[v], c.term),
                          !.voteGranted = grant])
        /\ UNCHANGED <<proc, logVars, applyVars, leaderVars, aeCalls, isCalls,
                       snapThreads, faultVars, votedNum, leaders, applied>>
        /\ persist(v)

\* sendRequestVote, the part after the RPC returned with ok.
sendRequestVoteNewerTerm(c) ==
    /\ Answered(c)
    /\ c.replyTerm > m_currentTerm[c.from]
    /\ StepDown(c.from, c.replyTerm)
    /\ rvCalls' = rvCalls \ {c}
    /\ UNCHANGED <<proc, logVars, applyVars, leaderVars, aeCalls, isCalls,
                   snapThreads, faultVars, voteVars, applied>>
    /\ persist(c.from)

sendRequestVoteIgnored(c) ==
    /\ Answered(c)
    /\ \/ c.replyTerm < m_currentTerm[c.from]
       \/ c.replyTerm = m_currentTerm[c.from] /\ ~c.voteGranted
    /\ rvCalls' = rvCalls \ {c}
    /\ UNCHANGED <<serverVars, logVars, applyVars, leaderVars, aeCalls, isCalls,
                   snapThreads, faultVars, voteVars, disk, applied>>

\* Mutant of CountsVote: a grant of an older term counts too.
CountsOldVote(c) ==
    /\ Answered(c)
    /\ c.replyTerm <= m_currentTerm[c.from]
    /\ c.voteGranted

CountsVote(c) ==
    /\ Answered(c)
    /\ c.replyTerm = m_currentTerm[c.from]
    /\ c.voteGranted

sendRequestVoteCounted(c) ==
    /\ CountsVote(c)
    /\ votedNum[c.from] + 1 < Majority
    /\ votedNum' = [votedNum EXCEPT ![c.from] = @ + 1]
    /\ rvCalls' = rvCalls \ {c}
    /\ UNCHANGED <<serverVars, logVars, applyVars, leaderVars, aeCalls, isCalls,
                   snapThreads, faultVars, ballots, leaders, disk, applied>>

\* The counter reaches the majority.  The code does not look whether the
\* server is still a candidate; that it is not yet a leader is a myAssert.
sendRequestVoteElected(c) ==
    LET s == c.from
    IN  /\ CountsVote(c)
        /\ votedNum[s] + 1 >= Majority
        /\ votedNum' = [votedNum EXCEPT ![s] = 0]
        /\ proc' = [proc EXCEPT ![s] =
                IF m_status[s] = Leader THEN "electedTwice" ELSE @]
        /\ m_status' = [m_status EXCEPT ![s] = Leader]
        /\ m_nextIndex' = [m_nextIndex EXCEPT ![s] =
                [p \in Server |-> getLastLogIndex(s) + 1]]
        /\ m_matchIndex' = [m_matchIndex EXCEPT ![s] = [p \in Server |-> 0]]
        /\ leaders' = leaders \cup {<<s, m_currentTerm[s]>>}
        /\ rvCalls' = rvCalls \ {c}
        /\ UNCHANGED <<m_currentTerm, m_votedFor, logVars, applyVars,
                       appendNums, aeCalls, isCalls, snapThreads, faultVars,
                       ballots, applied>>
        /\ persist(s)

-----------------------------------------------------------------------------
(* Log replication *)

\* A leader accepts a command; the next heartbeat will replicate it.
Start(s, command) ==
    /\ proc[s] = "up"
    /\ m_status[s] = Leader
    /\ getLastLogIndex(s) < MaxLog
    /\ m_logs' = [m_logs EXCEPT ![s] =
            Append(@, [term |-> m_currentTerm[s], command |-> command])]
    /\ UNCHANGED <<serverVars, m_lastSnapshotIncludeIndex, m_lastSnapshotIncludeTerm,
                   applyVars, leaderVars, netVars, faultVars, voteVars, applied>>
    /\ persist(s)

\* A round is named by a number no call or thread of the server still uses.
FreeRound(s, r) ==
    /\ \A c \in aeCalls \cup isCalls : c.from # s \/ c.round # r \/ c.st = "orphan"
    /\ \A t \in snapThreads : t.from # s \/ t.round # r

\* The peers whose next entry was already folded into the snapshot.
NeedsSnapshot(s) ==
    {p \in Server \ {s} : m_nextIndex[s][p] <= m_lastSnapshotIncludeIndex[s]}

\* getPrevLogInfo and the entries from there to the end of the log.
AppendEntriesArgs(s, p, r) ==
    LET prev == m_nextIndex[s][p] - 1
    IN  [from |-> s, to |-> p, st |-> "req", round |-> r, term |-> m_currentTerm[s],
         prevLogIndex |-> prev, prevLogTerm |-> getLogTermFromLogIndex(s, prev),
         entries |-> SubSeq(m_logs[s], prev - m_lastSnapshotIncludeIndex[s] + 1,
                            Len(m_logs[s])),
         leaderCommit |-> m_commitIndex[s],
         replyTerm |-> 0, success |-> FALSE, updateNextIndex |-> 0]

doHeartBeat(s) ==
    /\ proc[s] = "up"
    /\ m_status[s] = Leader
    /\ \E r \in Rounds :
          /\ FreeRound(s, r)
          /\ \A q \in Rounds : q < r => ~FreeRound(s, q)
          /\ appendNums' = [appendNums EXCEPT ![s][r] = 1]
          /\ snapThreads' = snapThreads \cup
                {[from |-> s, to |-> p, round |-> r] : p \in NeedsSnapshot(s)}
          /\ aeCalls' = aeCalls \cup
                {AppendEntriesArgs(s, p, r) : p \in (Server \ {s}) \ NeedsSnapshot(s)}
    /\ UNCHANGED <<serverVars, logVars, applyVars, m_nextIndex, m_matchIndex,
                   rvCalls, isCalls, faultVars, voteVars, disk, applied>>

\* AppendEntries1 from a leader of an older term.
AppendEntries1Stale(c) ==
    /\ Waiting(c)
    /\ c.term < m_currentTerm[c.to]
    /\ aeCalls' = Reply(aeCalls, c,
            [c EXCEPT !.st = "rep", !.replyTerm = m_currentTerm[c.to],
                      !.updateNextIndex = -100])
    /\ UNCHANGED <<serverVars, logVars, applyVars, leaderVars, rvCalls, isCalls,
                   snapThreads, faultVars, voteVars, disk, applied>>

\* Mutant of FollowLeader: a leader of an older term keeps its status.
FollowInName(s, term) ==
    /\ term >= m_currentTerm[s]
    /\ m_currentTerm' = [m_currentTerm EXCEPT ![s] = term]
    /\ m_votedFor' = [m_votedFor EXCEPT ![s] = IF term > m_currentTerm[s] THEN Nil ELSE @]
    /\ UNCHANGED m_status

\* Otherwise the callee is a follower of the caller's term from here on.
FollowLeader(s, term) ==
    /\ term >= m_currentTerm[s]
    /\ m_currentTerm' = [m_currentTerm EXCEPT ![s] = term]
    /\ m_votedFor' = [m_votedFor EXCEPT ![s] =
            IF term > m_currentTerm[s] THEN Nil ELSE @]
    /\ m_status' = [m_status EXCEPT ![s] = Follower]

\* Mutant of GoBackTo: one index too far for a log that is too short.
GoBackTooFar(s, prev, u) == u = Min2(prev, getLastLogIndex(s))

\* The index u a refusal tells the leader to go back to: just past the log if
\* prev is beyond its end; else the first index of the run of entries that have
\* the conflicting term, or prev itself when that run starts at the boundary.
GoBackTo(s, prev, u) ==
    LET first == m_lastSnapshotIncludeIndex[s]
        Conflicting(i) == getLogTermFromLogIndex(s, i) = getLogTermFromLogIndex(s, prev)
    IN  \/ prev > getLastLogIndex(s) /\ u = getLastLogIndex(s) + 1
        \/ /\ prev <= getLastLogIndex(s)
           /\ \A i \in first..prev : Conflicting(i)
           /\ u = prev
        \/ /\ prev <= getLastLogIndex(s)
           /\ u \in (first + 1)..prev
           /\ ~Conflicting(u - 1)
           /\ \A i \in u..prev : Conflicting(i)

matchLog(s, index, term) ==
    /\ index \in m_lastSnapshotIncludeIndex[s]..getLastLogIndex(s)
    /\ getLogTermFromLogIndex(s, index) = term

AppendEntries1Mismatch(c) ==
    LET s == c.to
    IN  /\ Waiting(c)
        /\ FollowLeader(s, c.term)
        /\ c.prevLogIndex >= m_lastSnapshotIncludeIndex[s]
        /\ ~matchLog(s, c.prevLogIndex, c.prevLogTerm)
        /\ \E u \in 0..(getLastLogIndex(s) + 1) :
              /\ GoBackTo(s, c.prevLogIndex, u)
              /\ aeCalls' = Reply(aeCalls, c,
                    [c EXCEPT !.st = "rep", !.replyTerm = c.term, !.updateNextIndex = u])
        /\ UNCHANGED <<proc, logVars, applyVars, leaderVars, rvCalls, isCalls,
                       snapThreads, faultVars, voteVars, applied>>
        /\ persist(s)

\* prevLogIndex precedes the snapshot boundary: the branch fills in a refusal
\* but does not return, so matchLog's myAssert ends the process.
AppendEntries1BehindSnapshot(c) ==
    /\ Waiting(c)
    /\ c.term >= m_currentTerm[c.to]
    /\ c.prevLogIndex < m_lastSnapshotIncludeIndex[c.to]
    /\ Abort(c.to, "matchLog")
    /\ UNCHANGED <<m_currentTerm, m_votedFor, m_status, logVars, applyVars, leaderVars,
                   netVars, faultVars, voteVars, disk, applied>>

\* Mutant of MergedLog: entries are appended but never replaced.
AppendedLog(s, prev, entries) ==
    LET have == getLastLogIndex(s) - prev
    IN  m_logs[s] \o SubSeq(entries, have + 1, Len(entries))

\* The loop over the entries: one past the end is appended, one whose term
\* differs replaces the entry in its place, what lies behind is kept.
MergedLog(s, prev, entries) ==
    LET off == prev - m_lastSnapshotIncludeIndex[s]
        log == m_logs[s]
    IN  [i \in 1..Max2(Len(log), off + Len(entries)) |->
            IF i \in (off + 1)..(off + Len(entries))
                  /\ (i > Len(log) \/ log[i].term # entries[i - off].term)
            THEN entries[i - off]
            ELSE log[i]]

\* The case the loop's myAssert excludes: same index and term, other command.
ConflictingCommand(s, prev, entries) ==
    LET off == prev - m_lastSnapshotIncludeIndex[s]
    IN  \E i \in 1..Len(entries) :
           /\ off + i <= Len(m_logs[s])
           /\ m_logs[s][off + i].term = entries[i].term
           /\ m_logs[s][off + i].command # entries[i].command

AppendEntries1Conflict(c) ==
    /\ Waiting(c)
    /\ c.term >= m_currentTerm[c.to]
    /\ matchLog(c.to, c.prevLogIndex, c.prevLogTerm)
    /\ ConflictingCommand(c.to, c.prevLogIndex, c.entries)
    /\ Abort(c.to, "conflictingCommand")
    /\ UNCHANGED <<m_currentTerm, m_votedFor, m_status, logVars, applyVars, leaderVars,
                   netVars, faultVars, voteVars, disk, applied>>

\* Mutant of FollowerCommit: the leader's commit index is taken as it comes.
CommitAsTold(s, leaderCommit, last) == Min2(leaderCommit, last)

\* A follower's commit index follows the leader's as far as the log goes.
FollowerCommit(s, leaderCommit, last) ==
    IF leaderCommit > m_commitIndex[s] THEN Min2(leaderCommit, last) ELSE m_commitIndex[s]

AppendEntries1Accept(c) ==
    LET s    == c.to
        log  == MergedLog(s, c.prevLogIndex, c.entries)
        last == m_lastSnapshotIncludeIndex[s] + Len(log)
    IN  /\ Waiting(c)
        /\ FollowLeader(s, c.term)
        /\ matchLog(s, c.prevLogIndex, c.prevLogTerm)
        /\ ~ConflictingCommand(s, c.prevLogIndex, c.entries)
        /\ m_logs' = [m_logs EXCEPT ![s] = log]
        /\ m_commitIndex' = [m_commitIndex EXCEPT ![s] =
                FollowerCommit(s, c.leaderCommit, last)]
        /\ aeCalls' = Reply(aeCalls, c,
                [c EXCEPT !.st = "rep", !.replyTerm = c.term, !.success = TRUE])
        /\ UNCHANGED <<proc, m_lastSnapshotIncludeIndex, m_lastSnapshotIncludeTerm,
                       m_lastApplied, leaderVars, rvCalls, isCalls, snapThreads,
                       faultVars, voteVars, applied>>
        /\ persist(s)

\* sendAppendEntries, the part after the RPC returned with ok.  Stepping down
\* for a larger term is the one place that does not persist().
sendAppendEntriesNewerTerm(c) ==
    /\ Answered(c)
    /\ c.replyTerm > m_currentTerm[c.from]
    /\ StepDown(c.from, c.replyTerm)
    /\ aeCalls' = aeCalls \ {c}
    /\ UNCHANGED <<proc, logVars, applyVars, leaderVars, rvCalls, isCalls,
                   snapThreads, faultVars, voteVars, disk, applied>>

\* The reply is of the term this server leads.
ReplyToLeader(c) ==
    /\ Answered(c)
    /\ c.replyTerm = m_currentTerm[c.from]
    /\ m_status[c.from] = Leader

sendAppendEntriesIgnored(c) ==
    /\ Answered(c)
    /\ c.replyTerm <= m_currentTerm[c.from]
    /\ ReplyToLeader(c) => (~c.success /\ c.updateNextIndex = -100)
    /\ aeCalls' = aeCalls \ {c}
    /\ UNCHANGED <<serverVars, logVars, applyVars, leaderVars, rvCalls, isCalls,
                   snapThreads, faultVars, voteVars, disk, applied>>

sendAppendEntriesRefused(c) ==
    /\ ReplyToLeader(c)
    /\ ~c.success
    /\ c.updateNextIndex # -100
    /\ m_nextIndex' = [m_nextIndex EXCEPT ![c.from][c.to] = c.updateNextIndex]
    /\ aeCalls' = aeCalls \ {c}
    /\ UNCHANGED <<serverVars, logVars, applyVars, m_matchIndex, appendNums, rvCalls,
                   isCalls, snapThreads, faultVars, voteVars, disk, applied>>

\* Mutant of AcceptedUpTo: the whole log, as it is now, counts as accepted.
AcceptedAll(c) == getLastLogIndex(c.from)

\* The last index the callee of c has confirmed.
AcceptedUpTo(c) == c.prevLogIndex + Len(c.entries)

\* Mutant of Acks: the counter is read before it is incremented.
AcksBefore(c) == appendNums[c.from][c.round]

\* How many servers, the leader included, have accepted c's round.
Acks(c) == appendNums[c.from][c.round] + 1

\* The round's counter decides when its entries are committed: at the reply
\* that completes the majority, if that reply's own request carried entries
\* that end in the current term.
sendAppendEntriesAccepted(c) ==
    LET s       == c.from
        upTo    == AcceptedUpTo(c)
        match   == Max2(m_matchIndex[s][c.to], upTo)
        acks    == Acks(c)
        commits == /\ acks >= Majority
                   /\ c.entries # <<>>
                   /\ c.entries[Len(c.entries)].term = m_currentTerm[s]
    IN  /\ ReplyToLeader(c)
        /\ c.success
        /\ m_matchIndex' = [m_matchIndex EXCEPT ![s][c.to] = match]
        /\ m_nextIndex' = [m_nextIndex EXCEPT ![s][c.to] = match + 1]
        /\ appendNums' = [appendNums EXCEPT ![s][c.round] =
                IF acks >= Majority THEN 0 ELSE acks]
        /\ m_commitIndex' = [m_commitIndex EXCEPT ![s] =
                IF commits THEN Max2(@, upTo) ELSE @]
        /\ aeCalls' = aeCalls \ {c}
        /\ UNCHANGED <<serverVars, logVars, m_lastApplied, rvCalls, isCalls,
                       snapThreads, faultVars, voteVars, disk, applied>>

-----------------------------------------------------------------------------
(* Applying and snapshots *)

\* applierTicker hands all committed entries to the state machine, in order.
applierTicker(s) ==
    /\ proc[s] = "up"
    /\ m_lastApplied[s] < m_commitIndex[s]
    /\ m_lastApplied' = [m_lastApplied EXCEPT ![s] = m_commitIndex[s]]
    /\ applied' = applied \cup
          {<<i, m_logs[s][i - m_lastSnapshotIncludeIndex[s]]>> :
                i \in (m_lastApplied[s] + 1)..m_commitIndex[s]}
    /\ UNCHANGED <<serverVars, logVars, m_commitIndex, leaderVars, netVars, faultVars,
                   voteVars, disk>>

\* The state machine has folded the log up to index into a snapshot.  It only
\* knows applied indexes; an index that is not past the boundary is rejected.
Snapshot(s, index) ==
    LET keep == index - m_lastSnapshotIncludeIndex[s]
    IN  /\ Snapshots
        /\ proc[s] = "up"
        /\ index > m_lastSnapshotIncludeIndex[s]
        /\ index <= m_commitIndex[s]
        /\ m_logs' = [m_logs EXCEPT ![s] = SubSeq(@, keep + 1, Len(@))]
        /\ m_lastSnapshotIncludeIndex' = [m_lastSnapshotIncludeIndex EXCEPT ![s] = index]
        /\ m_lastSnapshotIncludeTerm' = [m_lastSnapshotIncludeTerm EXCEPT ![s] =
                m_logs[s][keep].term]
        /\ m_lastApplied' = [m_lastApplied EXCEPT ![s] = Max2(@, index)]
        /\ UNCHANGED <<serverVars, m_commitIndex, leaderVars, netVars, faultVars,
                       voteVars, applied>>
        /\ persist(s)

\* The thread runs: it reads the term and the boundary as they are now and
\* does not look whether the server still leads.
leaderSendSnapShot(t) ==
    /\ proc[t.from] = "up"
    /\ snapThreads' = snapThreads \ {t}
    /\ isCalls' = isCalls \cup
          {[from |-> t.from, to |-> t.to, st |-> "req", round |-> t.round,
            term |-> m_currentTerm[t.from],
            index |-> m_lastSnapshotIncludeIndex[t.from],
            snapTerm |-> m_lastSnapshotIncludeTerm[t.from], replyTerm |-> 0]}
    /\ UNCHANGED <<serverVars, logVars, applyVars, leaderVars, rvCalls, aeCalls,
                   faultVars, voteVars, disk, applied>>

InstallSnapshotStale(c) ==
    /\ Waiting(c)
    /\ c.term < m_currentTerm[c.to]
    /\ isCalls' = Reply(isCalls, c, [c EXCEPT !.st = "rep", !.replyTerm = m_currentTerm[c.to]])
    /\ UNCHANGED <<serverVars, logVars, applyVars, leaderVars, rvCalls, aeCalls,
                   snapThreads, faultVars, voteVars, disk, applied>>

\* Not past the own boundary: the term counts, the reply's term stays unset,
\* and only a larger term is persisted.
InstallSnapshotOutdated(c) ==
    LET s == c.to
    IN  /\ Waiting(c)
        /\ FollowLeader(s, c.term)
        /\ c.index <= m_lastSnapshotIncludeIndex[s]
        /\ isCalls' = Reply(isCalls, c, [c EXCEPT !.st = "rep"])
        /\ UNCHANGED <<proc, logVars, applyVars, leaderVars, rvCalls, aeCalls,
                       snapThreads, faultVars, voteVars, applied>>
        /\ IF c.term > m_currentTerm[s] THEN persist(s) ELSE UNCHANGED disk

\* A log longer than the snapshot keeps its tail, whatever its terms.
InstallSnapshot(c) ==
    LET s == c.to
    IN  /\ Waiting(c)
        /\ FollowLeader(s, c.term)
        /\ c.index > m_lastSnapshotIncludeIndex[s]
        /\ m_logs' = [m_logs EXCEPT ![s] =
                IF getLastLogIndex(s) > c.index
                THEN SubSeq(@, c.index - m_lastSnapshotIncludeIndex[s] + 1, Len(@))
                ELSE <<>>]
        /\ m_commitIndex' = [m_commitIndex EXCEPT ![s] = Max2(@, c.index)]
        /\ m_lastApplied' = [m_lastApplied EXCEPT ![s] = Max2(@, c.index)]
        /\ m_lastSnapshotIncludeIndex' = [m_lastSnapshotIncludeIndex EXCEPT ![s] = c.index]
        /\ m_lastSnapshotIncludeTerm' = [m_lastSnapshotIncludeTerm EXCEPT ![s] = c.snapTerm]
        /\ isCalls' = Reply(isCalls, c, [c EXCEPT !.st = "rep", !.replyTerm = c.term])
        /\ UNCHANGED <<proc, leaderVars, rvCalls, aeCalls, snapThreads, faultVars,
                       voteVars, applied>>
        /\ persist(s)

\* leaderSendSnapShot, the part after the RPC.  A connection closed by a dying
\* callee reads as a reply with term 0, which counts as success.
SnapshotReturns(c) ==
    \/ Answered(c)
    \/ c.st = "req" /\ proc[c.to] # "up" /\ proc[c.from] = "up"

StillLeaderOf(c) == m_status[c.from] = Leader /\ m_currentTerm[c.from] = c.term

leaderSendSnapShotIgnored(c) ==
    /\ SnapshotReturns(c)
    /\ ~StillLeaderOf(c)
    /\ isCalls' = isCalls \ {c}
    /\ UNCHANGED <<serverVars, logVars, applyVars, leaderVars, rvCalls, aeCalls,
                   snapThreads, faultVars, voteVars, disk, applied>>

leaderSendSnapShotNewerTerm(c) ==
    /\ SnapshotReturns(c)
    /\ StillLeaderOf(c)
    /\ c.replyTerm > m_currentTerm[c.from]
    /\ StepDown(c.from, c.replyTerm)
    /\ isCalls' = isCalls \ {c}
    /\ UNCHANGED <<proc, logVars, applyVars, leaderVars, rvCalls, aeCalls,
                   snapThreads, faultVars, voteVars, applied>>
    /\ persist(c.from)

leaderSendSnapShotDone(c) ==
    /\ SnapshotReturns(c)
    /\ StillLeaderOf(c)
    /\ c.replyTerm <= m_currentTerm[c.from]
    /\ m_matchIndex' = [m_matchIndex EXCEPT ![c.from][c.to] = c.index]
    /\ m_nextIndex' = [m_nextIndex EXCEPT ![c.from][c.to] = c.index + 1]
    /\ isCalls' = isCalls \ {c}
    /\ UNCHANGED <<serverVars, logVars, applyVars, appendNums, rvCalls, aeCalls,
                   snapThreads, faultVars, voteVars, disk, applied>>

-----------------------------------------------------------------------------
(* Processes *)

Crash(s) ==
    /\ proc[s] = "up"
    /\ crashes < MaxCrashes
    /\ Abort(s, "killed")
    /\ crashes' = crashes + 1
    /\ UNCHANGED <<m_currentTerm, m_votedFor, m_status, logVars, applyVars, leaderVars,
                   netVars, restarts, losses, voteVars, disk, applied>>

\* A new process for s: the Persister constructor truncates the raft-state
\* file before init reads it, so readPersist finds nothing.
Restart(s) ==
    /\ proc[s] # "up"
    /\ restarts < MaxRestarts
    /\ restarts' = restarts + 1
    /\ proc' = [proc EXCEPT ![s] = "up"]
    /\ m_currentTerm' = [m_currentTerm EXCEPT ![s] = 0]
    /\ m_votedFor' = [m_votedFor EXCEPT ![s] = Nil]
    /\ m_status' = [m_status EXCEPT ![s] = Follower]
    /\ m_logs' = [m_logs EXCEPT ![s] = <<>>]
    /\ m_lastSnapshotIncludeIndex' = [m_lastSnapshotIncludeIndex EXCEPT ![s] = 0]
    /\ m_lastSnapshotIncludeTerm' = [m_lastSnapshotIncludeTerm EXCEPT ![s] = 0]
    /\ m_commitIndex' = [m_commitIndex EXCEPT ![s] = 0]
    /\ m_lastApplied' = [m_lastApplied EXCEPT ![s] = 0]
    /\ m_nextIndex' = [m_nextIndex EXCEPT ![s] = [p \in Server |-> 0]]
    /\ m_matchIndex' = [m_matchIndex EXCEPT ![s] = [p \in Server |-> 0]]
    /\ votedNum' = [votedNum EXCEPT ![s] = 0]
    /\ appendNums' = [appendNums EXCEPT ![s] = [r \in Rounds |-> 0]]
    /\ disk' = [disk EXCEPT ![s] = EmptyFile]
    /\ rvCalls' = AfterRestart(rvCalls, s)
    /\ aeCalls' = AfterRestart(aeCalls, s)
    /\ isCalls' = AfterRestart(isCalls, s)
    /\ snapThreads' = {t \in snapThreads : t.from # s}
    /\ UNCHANGED <<crashes, losses, ballots, leaders, applied>>

-----------------------------------------------------------------------------
\* Raft::init on a freshly created Persister.
Init ==
    /\ proc = [s \in Server |-> "up"]
    /\ m_currentTerm = [s \in Server |-> 0]
    /\ m_votedFor = [s \in Server |-> Nil]
    /\ m_status = [s \in Server |-> Follower]
    /\ m_logs = [s \in Server |-> <<>>]
    /\ m_lastSnapshotIncludeIndex = [s \in Server |-> 0]
    /\ m_lastSnapshotIncludeTerm = [s \in Server |-> 0]
    /\ m_commitIndex = [s \in Server |-> 0]
    /\ m_lastApplied = [s \in Server |-> 0]
    /\ m_nextIndex = [s \in Server |-> [p \in Server |-> 0]]
    /\ m_matchIndex = [s \in Server |-> [p \in Server |-> 0]]
    /\ votedNum = [s \in Server |-> 0]
    /\ appendNums = [s \in Server |-> [r \in Rounds |-> 0]]
    /\ disk = [s \in Server |-> EmptyFile]
    /\ rvCalls = {} /\ aeCalls = {} /\ isCalls = {} /\ snapThreads = {}
    /\ crashes = 0 /\ restarts = 0 /\ losses = 0
    /\ ballots = {} /\ leaders = {} /\ applied = {}

\* The steps of the RPC threads and handlers: these must not starve.
VoteStep(c) ==
    \/ RequestVote(c) \/ sendRequestVoteNewerTerm(c) \/ sendRequestVoteIgnored(c)
    \/ sendRequestVoteCounted(c) \/ sendRequestVoteElected(c)

AppendStep(c) ==
    \/ AppendEntries1Stale(c) \/ AppendEntries1Mismatch(c)
    \/ AppendEntries1BehindSnapshot(c) \/ AppendEntries1Conflict(c)
    \/ AppendEntries1Accept(c)
    \/ sendAppendEntriesNewerTerm(c) \/ sendAppendEntriesIgnored(c)
    \/ sendAppendEntriesRefused(c) \/ sendAppendEntriesAccepted(c)

SnapshotStep(c) ==
    \/ InstallSnapshotStale(c) \/ InstallSnapshotOutdated(c) \/ InstallSnapshot(c)
    \/ leaderSendSnapShotIgnored(c) \/ leaderSendSnapShotNewerTerm(c)
    \/ leaderSendSnapShotDone(c)

Next ==
    \/ \E s \in Server :
          \/ doElection(s) \/ doHeartBeat(s) \/ applierTicker(s)
          \/ Crash(s) \/ Restart(s)
          \/ \E command \in Command : Start(s, command)
          \/ \E index \in 1..m_lastApplied[s] : Snapshot(s, index)
    \/ \E c \in rvCalls : VoteStep(c)
    \/ \E c \in aeCalls : AppendStep(c)
    \/ \E t \in snapThreads : leaderSendSnapShot(t)
    \/ \E c \in isCalls : SnapshotStep(c)
    \/ CallFails

Spec == Init /\ [][Next]_vars

\* What the scheduling guarantees: the tickers of a live process run again and
\* again, every RPC thread and handler gets its turn at m_mtx, and a call to a
\* dead process ends.  Elections, commands, crashes and losses may never happen.
Fairness ==
    /\ \A s \in Server :
          /\ WF_vars(doHeartBeat(s))
          /\ WF_vars(applierTicker(s))
          /\ WF_vars(\E t \in snapThreads : t.from = s /\ leaderSendSnapShot(t))
    /\ \A s, p \in Server :
          /\ WF_vars(\E c \in rvCalls : c.from = s /\ c.to = p /\ VoteStep(c))
          /\ WF_vars(\E c \in aeCalls : c.from = s /\ c.to = p /\ AppendStep(c))
          /\ WF_vars(\E c \in isCalls : c.from = s /\ c.to = p /\ SnapshotStep(c))
    /\ WF_vars(CallFails /\ UNCHANGED losses)

FairSpec == Spec /\ Fairness

-----------------------------------------------------------------------------
(* Types *)

RequestVoteCall ==
    [from : Server, to : Server, st : {"req", "orphan", "rep"}, term : Nat,
     lastLogIndex : Nat, lastLogTerm : Nat, replyTerm : Nat, voteGranted : BOOLEAN]

AppendEntriesCall ==
    [from : Server, to : Server, st : {"req", "orphan", "rep"}, round : Rounds,
     term : Nat, prevLogIndex : Nat, prevLogTerm : Nat, entries : Seq(Entry),
     leaderCommit : Nat, replyTerm : Nat, success : BOOLEAN,
     updateNextIndex : Nat \cup {-100}]

InstallSnapshotCall ==
    [from : Server, to : Server, st : {"req", "orphan", "rep"}, round : Rounds,
     term : Nat, index : Nat, snapTerm : Nat, replyTerm : Nat]

ProcStates == {"up", "killed", "electedTwice", "matchLog", "conflictingCommand"}

ServerTypeOK ==
    /\ proc \in [Server -> ProcStates]
    /\ m_currentTerm \in [Server -> Nat]
    /\ m_votedFor \in [Server -> Server \cup {Nil}]
    /\ m_status \in [Server -> {Follower, Candidate, Leader}]
    /\ m_logs \in [Server -> Seq(Entry)]
    /\ m_lastSnapshotIncludeIndex \in [Server -> Nat]
    /\ m_lastSnapshotIncludeTerm \in [Server -> Nat]
    /\ m_commitIndex \in [Server -> Nat]
    /\ m_lastApplied \in [Server -> Nat]
    /\ m_nextIndex \in [Server -> [Server -> Nat]]
    /\ m_matchIndex \in [Server -> [Server -> Nat]]
    /\ votedNum \in [Server -> Nat]
    /\ appendNums \in [Server -> [Rounds -> Nat]]

CallTypeOK ==
    /\ rvCalls \subseteq RequestVoteCall
    /\ aeCalls \subseteq AppendEntriesCall
    /\ isCalls \subseteq InstallSnapshotCall
    /\ snapThreads \subseteq [from : Server, to : Server, round : Rounds]

HistoryTypeOK ==
    /\ crashes \in Nat /\ restarts \in Nat /\ losses \in Nat
    /\ ballots \subseteq Server \X Nat \X Server
    /\ leaders \subseteq Server \X Nat
    /\ applied \subseteq Nat \X Entry

\* The shape of every variable.  It is not free: that a leader finds a term at
\* prevLogIndex, or the applier an entry at every index up to m_commitIndex,
\* rests on the bounds of IndexOrder.
TypeOK ==
    /\ ServerTypeOK
    /\ disk \in [Server -> PersistData]
    /\ CallTypeOK
    /\ HistoryTypeOK

-----------------------------------------------------------------------------
(* Properties *)

\* Votes: no server ever gives its vote in one term to two candidates, over
\* all of RequestVote and doElection.
VoteOnce ==
    \A a, b \in ballots : a[1] = b[1] /\ a[2] = b[2] => a[3] = b[3]

\* Elections: in the whole history at most one server wins each term, although
\* sendRequestVote counts anonymously in a shared integer, resets it, and does
\* not check that the winner is still a candidate.
ElectionSafety ==
    \A a, b \in leaders : a[2] = b[2] => a[1] = b[1]

\* The myAssert of sendRequestVote: no process is elected twice in a term,
\* although replies beyond the majority keep counting from the reset counter.
ElectedOnce ==
    \A s \in Server : proc[s] # "electedTwice"

\* persist(): the vote and the log a live server answers with were handed to
\* Persister before the answer left.
\* (The term alone may lag: sendAppendEntries steps down without persist, but
\* then no vote has been given in the new term.)
Durable ==
    \A s \in Server : proc[s] = "up" =>
        /\ disk[s].logs = m_logs[s]
        /\ disk[s].snapIndex = m_lastSnapshotIncludeIndex[s]
        /\ m_votedFor[s] # Nil => /\ disk[s].votedFor = m_votedFor[s]
                                  /\ disk[s].term = m_currentTerm[s]

\* Log matching: where two logs agree on index and term they agree on every
\* earlier entry both still hold.
LogMatching ==
    \A s, p \in Server : s # p =>
        LET Both == {i \in 1..getLastLogIndex(s) :
                        /\ i > m_lastSnapshotIncludeIndex[s] /\ i > m_lastSnapshotIncludeIndex[p]
                        /\ i <= getLastLogIndex(p)}
            Held(r, i) == m_logs[r][i - m_lastSnapshotIncludeIndex[r]]
        IN  \A i \in Both : Held(s, i).term = Held(p, i).term =>
                \A j \in Both : j <= i => Held(s, j) = Held(p, j)

\* One command per index and term: two logs, or two state machines, that have an
\* entry of the same index and term have the same command there, and so the
\* myAssert in the loop of AppendEntries1 (raft.cpp:82-90) ends no process,
\* although entries are overwritten one by one and stale ones stay behind them.
OneCommand ==
    LET Stored == UNION {{<<m_lastSnapshotIncludeIndex[s] + k, m_logs[s][k]>> : k \in 1..Len(m_logs[s])} :
                            s \in Server}
    IN  /\ \A s \in Server : proc[s] # "conflictingCommand"
        /\ \A a, b \in Stored \cup applied : a[1] = b[1] /\ a[2].term = b[2].term => a[2] = b[2]

\* State machine safety: applierTicker never hands two state machines
\* different entries for the same index.
StateMachineSafety ==
    \A a, b \in applied : a[1] = b[1] => a[2] = b[2]

\* Leader completeness: a live leader of the newest term has every entry any
\* state machine has applied, in its log or behind its snapshot boundary.
LeaderCompleteness ==
    \A s \in Server :
        /\ proc[s] = "up"
        /\ m_status[s] = Leader
        /\ \A p \in Server : m_currentTerm[p] <= m_currentTerm[s]
        => \A a \in applied :
              \/ a[1] <= m_lastSnapshotIncludeIndex[s]
              \/ /\ a[1] <= getLastLogIndex(s)
                 /\ m_logs[s][a[1] - m_lastSnapshotIncludeIndex[s]] = a[2]

\* The index arithmetic the myAsserts of doHeartBeat, getApplyLogs,
\* AppendEntries1 and sendAppendEntries rely on, across interleaved replies, and
\* the types that rest on it.
IndexOrder ==
    /\ TypeOK
    /\ \A s \in Server : proc[s] = "up" =>
          /\ m_lastSnapshotIncludeIndex[s] <= m_lastApplied[s]
          /\ m_lastApplied[s] <= m_commitIndex[s]
          /\ m_commitIndex[s] <= getLastLogIndex(s)
          /\ m_status[s] = Leader =>
                \A p \in Server \ {s} :
                   /\ m_nextIndex[s][p] \in 1..(getLastLogIndex(s) + 1)
                   /\ m_matchIndex[s][p] <= getLastLogIndex(s)

\* What a leader believes of a follower is true: a live follower of its term
\* that it counts as matching holds the leader's entries up to matchIndex, although
\* the calls of a leader overtake each other and their replies come late or not at
\* all.  A process that is started again has lost what its predecessor held.
MatchIndexSound ==
    restarts = 0 => \A s, p \in Server :
        /\ s # p
        /\ proc[s] = "up" /\ proc[p] = "up"
        /\ m_status[s] = Leader
        /\ m_currentTerm[p] = m_currentTerm[s]
        => \A i \in 1..m_matchIndex[s][p] :
              /\ i <= getLastLogIndex(p)
              /\ i > m_lastSnapshotIncludeIndex[s] /\ i > m_lastSnapshotIncludeIndex[p]
                 => m_logs[s][i - m_lastSnapshotIncludeIndex[s]]
                       = m_logs[p][i - m_lastSnapshotIncludeIndex[p]]

\* Commit rule: once a leader counts an entry of its term as stored on a
\* majority, sendAppendEntries has advanced m_commitIndex to it.
MajorityCommits ==
    \A s \in Server : proc[s] = "up" /\ m_status[s] = Leader =>
        \A i \in (m_lastSnapshotIncludeIndex[s] + 1)..getLastLogIndex(s) :
            /\ getLogTermFromLogIndex(s, i) = m_currentTerm[s]
            /\ Cardinality({p \in Server : p = s \/ m_matchIndex[s][p] >= i}) >= Majority
            => m_commitIndex[s] >= i

\* A step of a running process never lowers its term, changes a vote already
\* given in its term, or takes back a commit, an application or a snapshot.
NeverTakesBack ==
    [][\A s \in Server : proc[s] = "up" =>
          /\ m_currentTerm'[s] >= m_currentTerm[s]
          /\ (m_currentTerm'[s] = m_currentTerm[s] /\ m_votedFor[s] # Nil)
                => m_votedFor'[s] = m_votedFor[s]
          /\ m_commitIndex'[s] >= m_commitIndex[s]
          /\ m_lastApplied'[s] >= m_lastApplied[s]
          /\ m_lastSnapshotIncludeIndex'[s] >= m_lastSnapshotIncludeIndex[s]]_vars

\* Progress: an entry of its own term in a leader's log is eventually applied
\* by every live server, unless the leader dies or is deposed first, although
\* sendAppendEntries commits only at the reply that completes a round's count.
Progress ==
    \A s \in Server : \A i \in 1..MaxLog :
        LET leads == proc[s] = "up" /\ m_status[s] = Leader
        IN  /\ leads
            /\ i \in (m_lastSnapshotIncludeIndex[s] + 1)..getLastLogIndex(s)
            /\ getLogTermFromLogIndex(s, i) = m_currentTerm[s]
            ~> \/ ~leads
               \/ \A p \in Server : proc[p] = "up" => m_lastApplied[p] >= i

\* A leader gives up only for a larger term, whatever requests and replies of
\* its own term are still on the wire (RequestVote, sendRequestVote).
LeaderUntilNewerTerm ==
    [][\A s \in Server :
          proc[s] = "up" /\ m_status[s] = Leader /\ m_status'[s] # Leader
             => m_currentTerm'[s] > m_currentTerm[s]]_vars

-----------------------------------------------------------------------------
(* The refinement: the agreed log is what some server has applied. *)

AppliedLog ==
    LET Reached == {0} \cup {a[1] : a \in applied}
        Last == CHOOSE i \in Reached : \A j \in Reached : j <= i
    IN  [i \in 1..Last |-> (CHOOSE a \in applied : a[1] = i)[2]]

Agreed == INSTANCE AgreedLog WITH log <- AppliedLog, done <- m_lastApplied

\* Raft implements the agreed log: whatever is lost, delayed, overtaken, snapshotted
\* or killed, every server executes the next entries of one growing log, without a
\* gap, a repetition or a change of what another server has executed
\* (getApplyLogs raft.cpp:361-382, InstallSnapshot raft.cpp:420-476).
ImplementsAgreedLog == Agreed!Spec
=============================================================================
