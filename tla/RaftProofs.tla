----------------------------- MODULE RaftProofs -----------------------------
(* Types and index arithmetic of Raft, for every cluster, every number of   *)
(* terms, rounds, losses and crashes, with restarts and snapshots.          *)
EXTENDS Raft, TLAPS

\* Snapshot boundary, applied, committed and last index are in order.
LogBounds ==
    \A s \in Server :
        /\ m_lastSnapshotIncludeIndex[s] <= m_lastApplied[s]
        /\ m_lastApplied[s] <= m_commitIndex[s]
        /\ m_commitIndex[s] <= getLastLogIndex(s)
        /\ m_lastSnapshotIncludeIndex[s] = 0 => m_lastSnapshotIncludeTerm[s] = 0

\* What a server keeps about its peers stays inside its own log.
PeerBounds ==
    \A s, p \in Server :
        /\ m_nextIndex[s][p] <= getLastLogIndex(s) + 1
        /\ m_matchIndex[s][p] <= getLastLogIndex(s)
        /\ m_status[s] = Leader => m_nextIndex[s][p] >= 1

\* An AppendEntries on the wire ends inside its sender's log, and a refusal
\* sends it back to an index from 1 to one past that log.
AppendBounds ==
    \A c \in aeCalls :
        /\ c.prevLogIndex = 0 => c.prevLogTerm = 0
        /\ c.st # "orphan" => c.prevLogIndex + Len(c.entries) <= getLastLogIndex(c.from)
        /\ c.st = "rep" /\ ~c.success =>
              \/ c.updateNextIndex = -100
              \/ c.updateNextIndex \in 1..(getLastLogIndex(c.from) + 1)

\* An InstallSnapshot on the wire ends inside its sender's log.
SnapshotBounds ==
    \A c \in isCalls : c.st # "orphan" => c.index <= getLastLogIndex(c.from)

\* The inductive invariant behind TypeOK and IndexOrder.
IndexInv == TypeOK /\ LogBounds /\ PeerBounds /\ AppendBounds /\ SnapshotBounds

\* persist() writes well-formed data.
LEMMA PersistType ==
    ASSUME NEW s \in Server, TypeOK, persist(s),
           m_currentTerm' \in [Server -> Nat],
           m_votedFor' \in [Server -> Server \cup {Nil}],
           m_logs' \in [Server -> Seq(Entry)],
           m_lastSnapshotIncludeIndex' \in [Server -> Nat],
           m_lastSnapshotIncludeTerm' \in [Server -> Nat]
    PROVE  disk' \in [Server -> PersistData]
BY DEF TypeOK, ServerTypeOK, persist, PersistData

\* getLastLogIndex, getLastLogTerm and, inside the log, getLogTermFromLogIndex
\* return natural numbers.
LEMMA LogTypes ==
    ASSUME TypeOK, NEW s \in Server
    PROVE  /\ getLastLogIndex(s) \in Nat
           /\ getLastLogTerm(s) \in Nat
           /\ \A i \in m_lastSnapshotIncludeIndex[s]..getLastLogIndex(s) :
                 getLogTermFromLogIndex(s, i) \in Nat
<1>1. /\ m_logs[s] \in Seq(Entry)
      /\ m_lastSnapshotIncludeIndex[s] \in Nat
      /\ m_lastSnapshotIncludeTerm[s] \in Nat
  BY DEF TypeOK, ServerTypeOK
<1>2. getLastLogIndex(s) \in Nat
  BY <1>1 DEF getLastLogIndex
<1>3. ASSUME NEW i \in 1..Len(m_logs[s]) PROVE m_logs[s][i].term \in Nat
  <2>1. m_logs[s][i] \in Entry
    BY <1>1
  <2> QED BY <2>1 DEF Entry
<1>4. getLastLogTerm(s) \in Nat
  <2>1. m_logs[s] # <<>> => Len(m_logs[s]) \in 1..Len(m_logs[s])
    BY <1>1
  <2> QED BY <1>1, <1>3, <2>1 DEF getLastLogTerm
<1>5. ASSUME NEW i \in m_lastSnapshotIncludeIndex[s]..getLastLogIndex(s)
      PROVE  getLogTermFromLogIndex(s, i) \in Nat
  <2>1. i # m_lastSnapshotIncludeIndex[s] =>
            i - m_lastSnapshotIncludeIndex[s] \in 1..Len(m_logs[s])
    BY <1>1 DEF getLastLogIndex
  <2> QED BY <1>1, <1>3, <2>1 DEF getLogTermFromLogIndex
<1> QED BY <1>2, <1>4, <1>5

\* An answered call replaces the request it answers.
LEMMA ReplyType ==
    ASSUME NEW T, NEW calls \in SUBSET T, NEW c, NEW answer \in T
    PROVE  Reply(calls, c, answer) \subseteq T
BY DEF Reply

\* The loop of AppendEntries1 yields a log that is no shorter than the old one
\* and reaches to the last entry sent.
LEMMA MergedLogType ==
    ASSUME TypeOK, NEW s \in Server, NEW prev \in Nat, NEW entries \in Seq(Entry),
           prev \in m_lastSnapshotIncludeIndex[s]..getLastLogIndex(s)
    PROVE  /\ MergedLog(s, prev, entries) \in Seq(Entry)
           /\ Len(MergedLog(s, prev, entries)) >= Len(m_logs[s])
           /\ Len(MergedLog(s, prev, entries)) \in Nat
           /\ m_lastSnapshotIncludeIndex[s] + Len(MergedLog(s, prev, entries))
                 >= prev + Len(entries)
<1> DEFINE off == prev - m_lastSnapshotIncludeIndex[s]
           log == m_logs[s]
           n == Max2(Len(log), off + Len(entries))
<1>1. off \in Nat /\ log \in Seq(Entry) /\ off <= Len(log) /\ m_lastSnapshotIncludeIndex[s] \in Nat
  BY DEF TypeOK, ServerTypeOK, getLastLogIndex
<1>2. n \in Nat /\ n >= Len(log) /\ n >= off + Len(entries)
  BY <1>1 DEF Max2
<1>3. \A i \in 1..n : (IF i \in (off + 1)..(off + Len(entries))
                  /\ (i > Len(log) \/ log[i].term # entries[i - off].term)
            THEN entries[i - off]
            ELSE log[i]) \in Entry
  <2> SUFFICES ASSUME NEW i \in 1..n PROVE (IF i \in (off + 1)..(off + Len(entries))
                  /\ (i > Len(log) \/ log[i].term # entries[i - off].term)
            THEN entries[i - off]
            ELSE log[i]) \in Entry
    OBVIOUS
  <2> HIDE DEF log, off
  <2>1. CASE i \in (off + 1)..(off + Len(entries))
    BY <1>1, <2>1
  <2>2. CASE ~(i \in (off + 1)..(off + Len(entries)))
    BY <1>1, <2>2 DEF Max2
  <2> QED BY <2>1, <2>2
<1>4. MergedLog(s, prev, entries) \in [1..n -> Entry]
  BY <1>3 DEF MergedLog
<1> HIDE DEF n
<1>5. MergedLog(s, prev, entries) \in Seq(Entry) /\ Len(MergedLog(s, prev, entries)) = n
  BY <1>2, <1>4
<1> QED BY <1>1, <1>2, <1>5

\* Updating one place of a function.
LEMMA UpdateType ==
    ASSUME NEW D, NEW R, NEW f \in [D -> R], NEW a \in D, NEW v \in R
    PROVE  [f EXCEPT ![a] = v] \in [D -> R]
OBVIOUS

\* Updating one place of a function of functions.
LEMMA UpdateType2 ==
    ASSUME NEW D, NEW E, NEW R, NEW f \in [D -> [E -> R]], NEW a \in D, NEW b \in E,
           NEW v \in R
    PROVE  [f EXCEPT ![a][b] = v] \in [D -> [E -> R]]
OBVIOUS

\* The places of a function of functions an update does not name.
LEMMA UpdateOther2 ==
    ASSUME NEW D, NEW E, NEW R, NEW f \in [D -> [E -> R]], NEW a \in D, NEW b \in E,
           NEW v, NEW i \in D, NEW j \in E, ~(i = a /\ j = b)
    PROVE  [f EXCEPT ![a][b] = v][i][j] = f[i][j]
OBVIOUS

\* The fields of a RequestVote call.
LEMMA VoteCallTypes ==
    ASSUME TypeOK, NEW c \in rvCalls
    PROVE  /\ c \in RequestVoteCall
           /\ c.from \in Server /\ c.to \in Server
           /\ c.term \in Nat /\ c.replyTerm \in Nat
           /\ c.voteGranted \in BOOLEAN
BY DEF TypeOK, CallTypeOK, RequestVoteCall

\* The fields of an AppendEntries call.
LEMMA AppendCallTypes ==
    ASSUME TypeOK, NEW c \in aeCalls
    PROVE  /\ c \in AppendEntriesCall
           /\ c.from \in Server /\ c.to \in Server /\ c.round \in Rounds
           /\ c.term \in Nat /\ c.replyTerm \in Nat
           /\ c.prevLogIndex \in Nat /\ c.prevLogTerm \in Nat
           /\ c.entries \in Seq(Entry) /\ c.leaderCommit \in Nat
           /\ c.success \in BOOLEAN /\ c.updateNextIndex \in Nat \cup {-100}
BY DEF TypeOK, CallTypeOK, AppendEntriesCall

\* The fields of an InstallSnapshot call.
LEMMA SnapshotCallTypes ==
    ASSUME TypeOK, NEW c \in isCalls
    PROVE  /\ c \in InstallSnapshotCall
           /\ c.from \in Server /\ c.to \in Server
           /\ c.term \in Nat /\ c.replyTerm \in Nat
           /\ c.index \in Nat /\ c.snapTerm \in Nat
BY DEF TypeOK, CallTypeOK, InstallSnapshotCall

\* What doHeartBeat sends: prevLogIndex lies between the snapshot boundary and
\* the end of the log, so it has a term, and the entries end with the log.
LEMMA HeartBeatArgs ==
    ASSUME IndexInv, NEW s \in Server, m_status[s] = Leader, NEW r \in Rounds,
           NEW p \in (Server \ {s}) \ NeedsSnapshot(s)
    PROVE  LET c == AppendEntriesArgs(s, p, r)
           IN  /\ c \in AppendEntriesCall
               /\ c.prevLogIndex = 0 => c.prevLogTerm = 0
               /\ c.prevLogIndex + Len(c.entries) = getLastLogIndex(s)
               /\ c.st = "req" /\ c.from = s
<1> DEFINE prev == m_nextIndex[s][p] - 1
           log == m_logs[s]
           snap == m_lastSnapshotIncludeIndex[s]
           rest == SubSeq(log, prev - snap + 1, Len(log))
<1>1. /\ log \in Seq(Entry) /\ snap \in Nat /\ m_nextIndex[s][p] \in Nat
      /\ m_currentTerm[s] \in Nat /\ m_commitIndex[s] \in Nat
      /\ m_lastSnapshotIncludeTerm[s] \in Nat
  BY DEF IndexInv, TypeOK, ServerTypeOK
<1>2. getLastLogIndex(s) = snap + Len(log)
  BY DEF getLastLogIndex
<1>3. m_nextIndex[s][p] > snap
  BY <1>1 DEF NeedsSnapshot
<1>4. m_nextIndex[s][p] <= snap + Len(log) + 1
  BY <1>2 DEF IndexInv, PeerBounds
<1>5. prev \in Nat /\ prev >= snap /\ prev <= snap + Len(log)
  BY <1>1, <1>3, <1>4
<1>6. getLogTermFromLogIndex(s, prev) \in Nat
  <2>1. prev \in snap..getLastLogIndex(s)
    BY <1>1, <1>2, <1>5
  <2>2. \A i \in snap..getLastLogIndex(s) : getLogTermFromLogIndex(s, i) \in Nat
    BY LogTypes DEF IndexInv
  <2> HIDE DEF prev, snap
  <2> QED BY <2>1, <2>2
<1>7. prev = 0 => getLogTermFromLogIndex(s, prev) = 0
  BY <1>1, <1>5 DEF IndexInv, LogBounds, getLogTermFromLogIndex
<1>8. rest \in Seq(Entry) /\ Len(rest) = snap + Len(log) - prev
  <2> HIDE DEF log, prev, snap
  <2> QED BY <1>1, <1>5
<1> HIDE DEF rest
<1>9. AppendEntriesArgs(s, p, r) =
        [from |-> s, to |-> p, st |-> "req", round |-> r, term |-> m_currentTerm[s],
         prevLogIndex |-> prev, prevLogTerm |-> getLogTermFromLogIndex(s, prev),
         entries |-> rest, leaderCommit |-> m_commitIndex[s],
         replyTerm |-> 0, success |-> FALSE, updateNextIndex |-> 0]
  BY DEF AppendEntriesArgs, rest
<1> HIDE DEF prev, log, snap
<1> QED BY <1>1, <1>2, <1>5, <1>6, <1>7, <1>8, <1>9 DEF AppendEntriesCall

(* Each action keeps the types. *)

\* doElection keeps the types.
LEMMA ElectionTypes ==
    ASSUME IndexInv, NEW s \in Server, doElection(s)
    PROVE  TypeOK'
<1> USE DEF IndexInv, serverVars, logVars, applyVars, leaderVars, netVars, faultVars, voteVars
<1>1. ServerTypeOK'
  BY DEF doElection, TypeOK, ServerTypeOK
<1>2. (disk \in [Server -> PersistData])'
  BY <1>1, PersistType DEF doElection, ServerTypeOK
<1>3. CallTypeOK'
  <2>1. /\ getLastLogIndex(s) \in Nat /\ getLastLogTerm(s) \in Nat
        /\ m_currentTerm[s] + 1 \in Nat
    <3>1. m_currentTerm[s] \in Nat
      BY DEF TypeOK, ServerTypeOK
    <3>2. getLastLogIndex(s) \in Nat /\ getLastLogTerm(s) \in Nat
      BY LogTypes
    <3> QED BY <3>1, <3>2
  <2>2. \A p \in Server : RequestVoteArgs(s, p) \in RequestVoteCall
    BY <2>1 DEF RequestVoteArgs, RequestVoteCall
  <2> QED BY <2>2 DEF doElection, TypeOK, CallTypeOK
<1>4. HistoryTypeOK'
  <2>1. <<s, m_currentTerm[s] + 1, s>> \in Server \X Nat \X Server
    BY DEF TypeOK, ServerTypeOK
  <2> QED BY <2>1 DEF doElection, TypeOK, HistoryTypeOK
<1> QED BY <1>1, <1>2, <1>3, <1>4 DEF TypeOK

\* RequestVote and both ends of sendRequestVote keep the types.
LEMMA VoteTypes ==
    ASSUME IndexInv, NEW c \in rvCalls, VoteStep(c)
    PROVE  TypeOK'
<1> USE DEF IndexInv, serverVars, logVars, applyVars, leaderVars, netVars, faultVars, voteVars
<1>1. /\ c.from \in Server /\ c.to \in Server
      /\ c.term \in Nat /\ c.replyTerm \in Nat /\ c \in RequestVoteCall
  BY VoteCallTypes
<1>2. CASE RequestVote(c)
  <2>1. ServerTypeOK'
    BY <1>1, <1>2 DEF RequestVote, NewerTerm, TypeOK, ServerTypeOK, Max2
  <2>2. (disk \in [Server -> PersistData])'
    BY <1>1, <1>2, <2>1, PersistType DEF RequestVote, NewerTerm, ServerTypeOK
  <2>3. CallTypeOK'
    <3>1. GrantsVote(c) \in BOOLEAN
      BY DEF GrantsVote
    <3>2. Max2(m_currentTerm[c.to], c.term) \in Nat
      BY <1>1 DEF TypeOK, ServerTypeOK, Max2
    <3>3. [c EXCEPT !.st = "rep", !.replyTerm = Max2(m_currentTerm[c.to], c.term),
                    !.voteGranted = GrantsVote(c)] \in RequestVoteCall
      BY <1>1, <3>1, <3>2 DEF RequestVoteCall
    <3>4. rvCalls \in SUBSET RequestVoteCall
      BY DEF TypeOK, CallTypeOK
    <3> QED BY <1>2, <3>3, <3>4, ReplyType DEF RequestVote, NewerTerm, CallTypeOK, TypeOK
  <2>4. HistoryTypeOK'
    BY <1>1, <1>2 DEF RequestVote, NewerTerm, TypeOK, HistoryTypeOK
  <2> QED BY <2>1, <2>2, <2>3, <2>4 DEF TypeOK
<1>3. CASE sendRequestVoteNewerTerm(c)
  <2>1. ServerTypeOK'
    BY <1>1, <1>3 DEF sendRequestVoteNewerTerm, StepDown, TypeOK, ServerTypeOK
  <2>2. (disk \in [Server -> PersistData])'
    BY <1>1, <1>3, <2>1, PersistType DEF sendRequestVoteNewerTerm, ServerTypeOK
  <2> QED
    BY <1>3, <2>1, <2>2 DEF sendRequestVoteNewerTerm, TypeOK, CallTypeOK, HistoryTypeOK
<1>4. CASE sendRequestVoteIgnored(c)
  BY <1>4 DEF sendRequestVoteIgnored, TypeOK, ServerTypeOK, CallTypeOK, HistoryTypeOK
<1>5. CASE sendRequestVoteCounted(c)
  <2>1. votedNum' \in [Server -> Nat]
    <3>0. votedNum \in [Server -> Nat]
      BY DEF TypeOK, ServerTypeOK
    <3>1. votedNum[c.from] + 1 \in Nat
      BY <1>1, <3>0
    <3>2. votedNum' = [votedNum EXCEPT ![c.from] = votedNum[c.from] + 1]
      BY <1>5 DEF sendRequestVoteCounted
    <3> QED BY <1>1, <3>0, <3>1, <3>2, UpdateType
  <2>2. ServerTypeOK'
    BY <1>5, <2>1 DEF sendRequestVoteCounted, TypeOK, ServerTypeOK
  <2> QED BY <1>5, <2>2 DEF sendRequestVoteCounted, TypeOK, CallTypeOK, HistoryTypeOK
<1>6. CASE sendRequestVoteElected(c)
  <2>1. getLastLogIndex(c.from) \in Nat
    BY <1>1, LogTypes
  <2>2. ServerTypeOK'
    <3>1. [p \in Server |-> getLastLogIndex(c.from) + 1] \in [Server -> Nat]
      BY <2>1
    <3>2. [p \in Server |-> 0] \in [Server -> Nat]
      OBVIOUS
    <3>3. /\ m_nextIndex' \in [Server -> [Server -> Nat]]
          /\ m_matchIndex' \in [Server -> [Server -> Nat]]
      BY <1>1, <1>6, <3>1, <3>2 DEF sendRequestVoteElected, TypeOK, ServerTypeOK
    <3> QED
      BY <1>1, <1>6, <3>3 DEF sendRequestVoteElected, TypeOK, ServerTypeOK, ProcStates
  <2>3. (disk \in [Server -> PersistData])'
    BY <1>1, <1>6, <2>2, PersistType DEF sendRequestVoteElected, ServerTypeOK
  <2>4. CallTypeOK'
    BY <1>6 DEF sendRequestVoteElected, TypeOK, CallTypeOK
  <2>5. HistoryTypeOK'
    <3>1. <<c.from, m_currentTerm[c.from]>> \in Server \X Nat
      BY <1>1 DEF TypeOK, ServerTypeOK
    <3> QED BY <1>6, <3>1 DEF sendRequestVoteElected, TypeOK, HistoryTypeOK
  <2> QED BY <2>2, <2>3, <2>4, <2>5 DEF TypeOK
<1> QED BY <1>2, <1>3, <1>4, <1>5, <1>6 DEF VoteStep

\* Start, doHeartBeat and the applier keep the types.
LEMMA ReplicationTypes ==
    ASSUME IndexInv, NEW s \in Server,
           \/ \E command \in Command : Start(s, command)
           \/ doHeartBeat(s)
           \/ applierTicker(s)
    PROVE  TypeOK'
<1> USE DEF IndexInv, serverVars, logVars, applyVars, leaderVars, netVars, faultVars, voteVars
<1>1. ASSUME NEW command \in Command, Start(s, command)
      PROVE  TypeOK'
  <2>1. [term |-> m_currentTerm[s], command |-> command] \in Entry
    BY DEF Entry, TypeOK, ServerTypeOK
  <2>2. ServerTypeOK'
    BY <1>1, <2>1 DEF Start, TypeOK, ServerTypeOK
  <2>3. (disk \in [Server -> PersistData])'
    BY <1>1, <2>2, PersistType DEF Start, ServerTypeOK
  <2> QED BY <1>1, <2>2, <2>3 DEF Start, TypeOK, CallTypeOK, HistoryTypeOK
<1>2. CASE doHeartBeat(s)
  <2>1. PICK r \in Rounds :
          /\ appendNums' = [appendNums EXCEPT ![s][r] = 1]
          /\ snapThreads' = snapThreads \cup
                {[from |-> s, to |-> p, round |-> r] : p \in NeedsSnapshot(s)}
          /\ aeCalls' = aeCalls \cup
                {AppendEntriesArgs(s, p, r) : p \in (Server \ {s}) \ NeedsSnapshot(s)}
    BY <1>2 DEF doHeartBeat
  <2>2. m_status[s] = Leader
    BY <1>2 DEF doHeartBeat
  <2>3. ASSUME NEW p \in (Server \ {s}) \ NeedsSnapshot(s)
        PROVE  AppendEntriesArgs(s, p, r) \in AppendEntriesCall
    BY <2>2, <2>3, HeartBeatArgs
  <2>4. ServerTypeOK'
    BY <1>2, <2>1 DEF doHeartBeat, TypeOK, ServerTypeOK
  <2>5. CallTypeOK'
    BY <1>2, <2>1, <2>3 DEF doHeartBeat, NeedsSnapshot, TypeOK, CallTypeOK
  <2> QED BY <1>2, <2>4, <2>5 DEF doHeartBeat, TypeOK, HistoryTypeOK
<1>3. CASE applierTicker(s)
  <2>1. ServerTypeOK'
    BY <1>3 DEF applierTicker, TypeOK, ServerTypeOK
  <2>2. \A i \in (m_lastApplied[s] + 1)..m_commitIndex[s] :
            /\ i \in Nat
            /\ m_logs[s][i - m_lastSnapshotIncludeIndex[s]] \in Entry
    <3>1. /\ m_logs[s] \in Seq(Entry)
          /\ m_lastSnapshotIncludeIndex[s] \in Nat
          /\ m_lastApplied[s] \in Nat /\ m_commitIndex[s] \in Nat
      BY DEF TypeOK, ServerTypeOK
    <3>2. /\ m_lastSnapshotIncludeIndex[s] <= m_lastApplied[s]
          /\ m_commitIndex[s] <= m_lastSnapshotIncludeIndex[s] + Len(m_logs[s])
      BY DEF LogBounds, getLastLogIndex
    <3> QED BY <3>1, <3>2
  <2>3. HistoryTypeOK'
    BY <1>3, <2>2 DEF applierTicker, TypeOK, HistoryTypeOK
  <2> QED BY <1>3, <2>1, <2>3 DEF applierTicker, TypeOK, CallTypeOK
<1> QED BY <1>1, <1>2, <1>3

\* AppendEntries1 and sendAppendEntries keep the types.
LEMMA AppendTypes ==
    ASSUME IndexInv, NEW c \in aeCalls, AppendStep(c)
    PROVE  TypeOK'
<1> USE DEF IndexInv, serverVars, logVars, applyVars, leaderVars, netVars, faultVars, voteVars
<1>1. /\ c.from \in Server /\ c.to \in Server /\ c.round \in Rounds
      /\ c.term \in Nat /\ c.replyTerm \in Nat
      /\ c.prevLogIndex \in Nat /\ c.prevLogTerm \in Nat
      /\ c.entries \in Seq(Entry) /\ c.leaderCommit \in Nat
      /\ c.updateNextIndex \in Nat \cup {-100}
      /\ c \in AppendEntriesCall
  BY AppendCallTypes
<1>2. aeCalls \in SUBSET AppendEntriesCall
  BY DEF TypeOK, CallTypeOK
<1>3. CASE AppendEntries1Stale(c)
  <2>1. m_currentTerm[c.to] \in Nat
    BY <1>1 DEF TypeOK, ServerTypeOK
  <2>2. [c EXCEPT !.st = "rep", !.replyTerm = m_currentTerm[c.to],
                  !.updateNextIndex = -100] \in AppendEntriesCall
    BY <1>1, <2>1 DEF AppendEntriesCall
  <2>3. CallTypeOK'
    BY <1>2, <1>3, <2>2, ReplyType DEF AppendEntries1Stale, TypeOK, CallTypeOK
  <2> QED BY <1>3, <2>3 DEF AppendEntries1Stale, TypeOK, ServerTypeOK, HistoryTypeOK
<1>4. CASE AppendEntries1Mismatch(c)
  <2>1. PICK u \in 0..(getLastLogIndex(c.to) + 1) :
           aeCalls' = Reply(aeCalls, c,
                [c EXCEPT !.st = "rep", !.replyTerm = c.term, !.updateNextIndex = u])
    BY <1>4 DEF AppendEntries1Mismatch
  <2>2. u \in Nat
    BY <1>1, LogTypes
  <2>3. [c EXCEPT !.st = "rep", !.replyTerm = c.term, !.updateNextIndex = u]
            \in AppendEntriesCall
    BY <1>1, <2>2 DEF AppendEntriesCall
  <2>4. CallTypeOK'
    BY <1>2, <1>4, <2>1, <2>3, ReplyType DEF AppendEntries1Mismatch, TypeOK, CallTypeOK
  <2>5. ServerTypeOK'
    BY <1>1, <1>4 DEF AppendEntries1Mismatch, FollowLeader, TypeOK, ServerTypeOK
  <2>6. (disk \in [Server -> PersistData])'
    BY <1>1, <1>4, <2>5, PersistType DEF AppendEntries1Mismatch, ServerTypeOK
  <2> QED BY <1>4, <2>4, <2>5, <2>6 DEF AppendEntries1Mismatch, TypeOK, HistoryTypeOK
<1>5. CASE AppendEntries1BehindSnapshot(c)
  <2>1. ServerTypeOK'
    BY <1>1, <1>5 DEF AppendEntries1BehindSnapshot, Abort, TypeOK, ServerTypeOK, ProcStates
  <2> QED
    BY <1>5, <2>1 DEF AppendEntries1BehindSnapshot, TypeOK, CallTypeOK, HistoryTypeOK
<1>6. CASE AppendEntries1Conflict(c)
  <2>1. ServerTypeOK'
    BY <1>1, <1>6 DEF AppendEntries1Conflict, Abort, TypeOK, ServerTypeOK, ProcStates
  <2> QED
    BY <1>6, <2>1 DEF AppendEntries1Conflict, TypeOK, CallTypeOK, HistoryTypeOK
<1>7. CASE AppendEntries1Accept(c)
  <2> DEFINE log == MergedLog(c.to, c.prevLogIndex, c.entries)
             last == m_lastSnapshotIncludeIndex[c.to] + Len(log)
  <2>1. log \in Seq(Entry) /\ last \in Nat
    <3>1. c.prevLogIndex \in m_lastSnapshotIncludeIndex[c.to]..getLastLogIndex(c.to)
      BY <1>7 DEF AppendEntries1Accept, matchLog
    <3>2. m_lastSnapshotIncludeIndex[c.to] \in Nat
      BY <1>1 DEF TypeOK, ServerTypeOK
    <3> QED BY <1>1, <3>1, <3>2, MergedLogType
  <2>2. /\ m_logs' = [m_logs EXCEPT ![c.to] = log]
        /\ m_commitIndex' = [m_commitIndex EXCEPT ![c.to] =
                IF c.leaderCommit > @ THEN Min2(c.leaderCommit, last) ELSE @]
    BY <1>7 DEF AppendEntries1Accept, FollowerCommit
  <2> HIDE DEF log, last
  <2>3. ServerTypeOK'
    <3>1. /\ m_logs' \in [Server -> Seq(Entry)]
          /\ m_commitIndex' \in [Server -> Nat]
      BY <1>1, <2>1, <2>2 DEF TypeOK, ServerTypeOK, Min2
    <3> QED
      BY <1>1, <1>7, <3>1 DEF AppendEntries1Accept, FollowerCommit, FollowLeader, TypeOK, ServerTypeOK
  <2>4. (disk \in [Server -> PersistData])'
    BY <1>1, <1>7, <2>3, PersistType DEF AppendEntries1Accept, ServerTypeOK
  <2>5. [c EXCEPT !.st = "rep", !.replyTerm = c.term, !.success = TRUE]
            \in AppendEntriesCall
    BY <1>1 DEF AppendEntriesCall
  <2>6. CallTypeOK'
    BY <1>2, <1>7, <2>5, ReplyType DEF AppendEntries1Accept, TypeOK, CallTypeOK
  <2> QED BY <1>7, <2>3, <2>4, <2>6 DEF AppendEntries1Accept, TypeOK, HistoryTypeOK
<1>8. CASE sendAppendEntriesNewerTerm(c)
  <2>1. ServerTypeOK'
    BY <1>1, <1>8 DEF sendAppendEntriesNewerTerm, StepDown, TypeOK, ServerTypeOK
  <2> QED
    BY <1>8, <2>1 DEF sendAppendEntriesNewerTerm, TypeOK, CallTypeOK, HistoryTypeOK
<1>9. CASE sendAppendEntriesIgnored(c)
  BY <1>9 DEF sendAppendEntriesIgnored, TypeOK, ServerTypeOK, CallTypeOK, HistoryTypeOK
<1>10. CASE sendAppendEntriesRefused(c)
  <2>1. c.updateNextIndex \in Nat
    BY <1>1, <1>10 DEF sendAppendEntriesRefused
  <2>2. ServerTypeOK'
    BY <1>1, <1>10, <2>1 DEF sendAppendEntriesRefused, TypeOK, ServerTypeOK
  <2> QED
    BY <1>10, <2>2 DEF sendAppendEntriesRefused, TypeOK, CallTypeOK, HistoryTypeOK
<1>11. CASE sendAppendEntriesAccepted(c)
  <2> DEFINE upTo == c.prevLogIndex + Len(c.entries)
             match == Max2(m_matchIndex[c.from][c.to], upTo)
             acks == appendNums[c.from][c.round] + 1
  <2>2. upTo \in Nat /\ match \in Nat /\ match + 1 \in Nat /\ acks \in Nat
    <3>1. /\ m_matchIndex[c.from][c.to] \in Nat
          /\ appendNums[c.from][c.round] \in Nat
      <4>1. m_matchIndex \in [Server -> [Server -> Nat]]
        BY DEF TypeOK, ServerTypeOK
      <4>2. appendNums \in [Server -> [Rounds -> Nat]]
        BY DEF TypeOK, ServerTypeOK
      <4> QED BY <1>1, <4>1, <4>2
    <3>2. upTo \in Nat
      BY <1>1
    <3> HIDE DEF upTo
    <3> QED BY <3>1, <3>2 DEF Max2
  <2>3. /\ m_matchIndex' = [m_matchIndex EXCEPT ![c.from][c.to] = match]
        /\ m_nextIndex' = [m_nextIndex EXCEPT ![c.from][c.to] = match + 1]
        /\ \/ appendNums' = [appendNums EXCEPT ![c.from][c.round] = 0]
           \/ appendNums' = [appendNums EXCEPT ![c.from][c.round] = acks]
        /\ \/ m_commitIndex' = [m_commitIndex EXCEPT ![c.from] = Max2(@, upTo)]
           \/ m_commitIndex' = [m_commitIndex EXCEPT ![c.from] = @]
    BY <1>11 DEF sendAppendEntriesAccepted, AcceptedUpTo, Acks
  <2> HIDE DEF upTo, match, acks
  <2>7. /\ m_matchIndex \in [Server -> [Server -> Nat]]
        /\ m_nextIndex \in [Server -> [Server -> Nat]]
        /\ appendNums \in [Server -> [Rounds -> Nat]]
    BY DEF TypeOK, ServerTypeOK
  <2>4. /\ m_matchIndex' \in [Server -> [Server -> Nat]]
        /\ m_nextIndex' \in [Server -> [Server -> Nat]]
    BY <1>1, <2>2, <2>3, <2>7, UpdateType2
  <2>5. appendNums' \in [Server -> [Rounds -> Nat]]
    <3>1. CASE appendNums' = [appendNums EXCEPT ![c.from][c.round] = 0]
      BY ZenonT(60), <1>1, <2>7, <3>1, 0 \in Nat, UpdateType2
    <3>2. CASE appendNums' = [appendNums EXCEPT ![c.from][c.round] = acks]
      BY <1>1, <2>2, <2>7, <3>2, UpdateType2
    <3> QED BY <2>3, <3>1, <3>2
  <2>6. m_commitIndex' \in [Server -> Nat]
    <3>1. m_commitIndex \in [Server -> Nat] /\ m_commitIndex[c.from] \in Nat
      BY <1>1 DEF TypeOK, ServerTypeOK
    <3>2. Max2(m_commitIndex[c.from], upTo) \in Nat
      BY <2>2, <3>1 DEF Max2
    <3> QED BY <1>1, <2>3, <3>1, <3>2
  <2>1. ServerTypeOK'
    BY <1>11, <2>4, <2>5, <2>6 DEF sendAppendEntriesAccepted, TypeOK, ServerTypeOK
  <2> QED
    BY <1>11, <2>1 DEF sendAppendEntriesAccepted, TypeOK, CallTypeOK, HistoryTypeOK
<1> QED
  BY <1>3, <1>4, <1>5, <1>6, <1>7, <1>8, <1>9, <1>10, <1>11 DEF AppendStep

\* InstallSnapshot and leaderSendSnapShot keep the types.
LEMMA SnapshotTypes ==
    ASSUME IndexInv, NEW c \in isCalls, SnapshotStep(c)
    PROVE  TypeOK'
<1> USE DEF IndexInv, serverVars, logVars, applyVars, leaderVars, netVars, faultVars, voteVars
<1>1. /\ c.from \in Server /\ c.to \in Server
      /\ c.term \in Nat /\ c.replyTerm \in Nat
      /\ c.index \in Nat /\ c.snapTerm \in Nat
      /\ c \in InstallSnapshotCall
  BY SnapshotCallTypes
<1>2. isCalls \in SUBSET InstallSnapshotCall
  BY DEF TypeOK, CallTypeOK
<1>3. CASE InstallSnapshotStale(c)
  <2>1. m_currentTerm[c.to] \in Nat
    BY <1>1 DEF TypeOK, ServerTypeOK
  <2>2. [c EXCEPT !.st = "rep", !.replyTerm = m_currentTerm[c.to]] \in InstallSnapshotCall
    BY <1>1, <2>1 DEF InstallSnapshotCall
  <2>3. CallTypeOK'
    BY <1>2, <1>3, <2>2, ReplyType DEF InstallSnapshotStale, TypeOK, CallTypeOK
  <2> QED BY <1>3, <2>3 DEF InstallSnapshotStale, TypeOK, ServerTypeOK, HistoryTypeOK
<1>4. CASE InstallSnapshotOutdated(c)
  <2>1. ServerTypeOK'
    BY <1>1, <1>4 DEF InstallSnapshotOutdated, FollowLeader, TypeOK, ServerTypeOK
  <2>2. (disk \in [Server -> PersistData])'
    BY <1>1, <1>4, <2>1, PersistType DEF InstallSnapshotOutdated, ServerTypeOK, TypeOK
  <2>3. [c EXCEPT !.st = "rep"] \in InstallSnapshotCall
    BY <1>1 DEF InstallSnapshotCall
  <2>4. CallTypeOK'
    BY <1>2, <1>4, <2>3, ReplyType DEF InstallSnapshotOutdated, TypeOK, CallTypeOK
  <2> QED BY <1>4, <2>1, <2>2, <2>4 DEF InstallSnapshotOutdated, TypeOK, HistoryTypeOK
<1>5. CASE InstallSnapshot(c)
  <2>1. m_logs' \in [Server -> Seq(Entry)]
    <3>1. /\ m_logs[c.to] \in Seq(Entry) /\ m_lastSnapshotIncludeIndex[c.to] \in Nat
          /\ c.index > m_lastSnapshotIncludeIndex[c.to]
      BY <1>1, <1>5 DEF InstallSnapshot, TypeOK, ServerTypeOK
    <3>2. SubSeq(m_logs[c.to], c.index - m_lastSnapshotIncludeIndex[c.to] + 1,
                 Len(m_logs[c.to])) \in Seq(Entry)
      BY <1>1, <3>1
    <3>3. \/ m_logs' = [m_logs EXCEPT ![c.to] =
                SubSeq(m_logs[c.to], c.index - m_lastSnapshotIncludeIndex[c.to] + 1,
                       Len(m_logs[c.to]))]
          \/ m_logs' = [m_logs EXCEPT ![c.to] = <<>>]
      BY <1>5 DEF InstallSnapshot
    <3>4. m_logs \in [Server -> Seq(Entry)] /\ <<>> \in Seq(Entry)
      BY DEF TypeOK, ServerTypeOK
    <3> QED BY <1>1, <3>2, <3>3, <3>4, UpdateType
  <2>2. ServerTypeOK'
    BY <1>1, <1>5, <2>1 DEF InstallSnapshot, FollowLeader, TypeOK, ServerTypeOK, Max2
  <2>3. (disk \in [Server -> PersistData])'
    BY <1>1, <1>5, <2>2, PersistType DEF InstallSnapshot, ServerTypeOK
  <2>4. [c EXCEPT !.st = "rep", !.replyTerm = c.term] \in InstallSnapshotCall
    BY <1>1 DEF InstallSnapshotCall
  <2>5. CallTypeOK'
    BY <1>2, <1>5, <2>4, ReplyType DEF InstallSnapshot, TypeOK, CallTypeOK
  <2> QED BY <1>5, <2>2, <2>3, <2>5 DEF InstallSnapshot, TypeOK, HistoryTypeOK
<1>6. CASE leaderSendSnapShotIgnored(c)
  BY <1>6 DEF leaderSendSnapShotIgnored, TypeOK, ServerTypeOK, CallTypeOK, HistoryTypeOK
<1>7. CASE leaderSendSnapShotNewerTerm(c)
  <2>1. ServerTypeOK'
    BY <1>1, <1>7 DEF leaderSendSnapShotNewerTerm, StepDown, TypeOK, ServerTypeOK
  <2>2. (disk \in [Server -> PersistData])'
    BY <1>1, <1>7, <2>1, PersistType DEF leaderSendSnapShotNewerTerm, ServerTypeOK
  <2> QED
    BY <1>7, <2>1, <2>2 DEF leaderSendSnapShotNewerTerm, TypeOK, CallTypeOK, HistoryTypeOK
<1>8. CASE leaderSendSnapShotDone(c)
  <2>2. /\ m_matchIndex' \in [Server -> [Server -> Nat]]
        /\ m_nextIndex' \in [Server -> [Server -> Nat]]
    <3>1. /\ m_matchIndex \in [Server -> [Server -> Nat]]
          /\ m_nextIndex \in [Server -> [Server -> Nat]]
      BY DEF TypeOK, ServerTypeOK
    <3>2. c.index + 1 \in Nat
      BY <1>1
    <3> QED BY <1>1, <1>8, <3>1, <3>2, UpdateType2 DEF leaderSendSnapShotDone
  <2>1. ServerTypeOK'
    BY <1>8, <2>2 DEF leaderSendSnapShotDone, TypeOK, ServerTypeOK
  <2> QED
    BY <1>8, <2>1 DEF leaderSendSnapShotDone, TypeOK, CallTypeOK, HistoryTypeOK
<1> QED BY <1>3, <1>4, <1>5, <1>6, <1>7, <1>8 DEF SnapshotStep

\* Snapshot, failures and restarts keep the types.
LEMMA OtherTypes ==
    ASSUME IndexInv,
           \/ \E t \in snapThreads : leaderSendSnapShot(t)
           \/ \E s \in Server : \E index \in 1..m_lastApplied[s] : Snapshot(s, index)
           \/ \E s \in Server : Crash(s) \/ Restart(s)
           \/ CallFails
           \/ UNCHANGED vars
    PROVE  TypeOK'
<1> USE DEF IndexInv, serverVars, logVars, applyVars, leaderVars, netVars, faultVars, voteVars
<1>1. ASSUME NEW t \in snapThreads, leaderSendSnapShot(t)
      PROVE  TypeOK'
  <2>1. t.from \in Server /\ t.to \in Server /\ t.round \in Rounds
    BY DEF TypeOK, CallTypeOK
  <2>2. /\ m_currentTerm[t.from] \in Nat
        /\ m_lastSnapshotIncludeIndex[t.from] \in Nat
        /\ m_lastSnapshotIncludeTerm[t.from] \in Nat
    BY <2>1 DEF TypeOK, ServerTypeOK
  <2>3. CallTypeOK'
    BY <1>1, <2>1, <2>2 DEF leaderSendSnapShot, TypeOK, CallTypeOK, InstallSnapshotCall
  <2> QED BY <1>1, <2>3 DEF leaderSendSnapShot, TypeOK, ServerTypeOK, HistoryTypeOK
<1>2. ASSUME NEW s \in Server, NEW index \in 1..m_lastApplied[s], Snapshot(s, index)
      PROVE  TypeOK'
  <2> DEFINE keep == index - m_lastSnapshotIncludeIndex[s]
  <2>1. /\ index \in Nat /\ m_logs[s] \in Seq(Entry)
        /\ keep \in 1..Len(m_logs[s])
    <3>1. /\ m_logs[s] \in Seq(Entry) /\ m_lastApplied[s] \in Nat
          /\ m_commitIndex[s] \in Nat /\ m_lastSnapshotIncludeIndex[s] \in Nat
      BY DEF TypeOK, ServerTypeOK
    <3>2. /\ index > m_lastSnapshotIncludeIndex[s] /\ index <= m_commitIndex[s]
          /\ m_commitIndex[s] <= m_lastSnapshotIncludeIndex[s] + Len(m_logs[s])
      BY <1>2 DEF Snapshot, LogBounds, getLastLogIndex
    <3> QED BY <3>1, <3>2
  <2>2. m_logs[s][keep].term \in Nat
    <3>1. m_logs[s][keep] \in Entry
      BY <2>1
    <3> QED BY <3>1 DEF Entry
  <2>3. SubSeq(m_logs[s], keep + 1, Len(m_logs[s])) \in Seq(Entry)
    <3> HIDE DEF keep
    <3> QED BY <2>1
  <2>4. ServerTypeOK'
    <3>1. /\ m_logs' \in [Server -> Seq(Entry)]
          /\ m_lastSnapshotIncludeTerm' \in [Server -> Nat]
      BY <1>2, <2>2, <2>3 DEF Snapshot, TypeOK, ServerTypeOK
    <3> QED BY <1>2, <2>1, <3>1 DEF Snapshot, TypeOK, ServerTypeOK, Max2
  <2>5. (disk \in [Server -> PersistData])'
    BY <1>2, <2>4, PersistType DEF Snapshot, ServerTypeOK
  <2> QED BY <1>2, <2>4, <2>5 DEF Snapshot, TypeOK, CallTypeOK, HistoryTypeOK
<1>3. ASSUME NEW s \in Server, Crash(s)
      PROVE  TypeOK'
  <2>1. ServerTypeOK'
    BY <1>3 DEF Crash, Abort, TypeOK, ServerTypeOK, ProcStates
  <2> QED BY <1>3, <2>1 DEF Crash, TypeOK, CallTypeOK, HistoryTypeOK
<1>4. ASSUME NEW s \in Server, Restart(s)
      PROVE  TypeOK'
  <2>1. ServerTypeOK'
    <3>1. /\ [p \in Server |-> 0] \in [Server -> Nat]
          /\ [r \in Rounds |-> 0] \in [Rounds -> Nat]
          /\ <<>> \in Seq(Entry)
      OBVIOUS
    <3>2. /\ m_nextIndex' \in [Server -> [Server -> Nat]]
          /\ m_matchIndex' \in [Server -> [Server -> Nat]]
          /\ appendNums' \in [Server -> [Rounds -> Nat]]
          /\ m_logs' \in [Server -> Seq(Entry)]
      BY <1>4, <3>1 DEF Restart, TypeOK, ServerTypeOK
    <3> QED BY <1>4, <3>2 DEF Restart, TypeOK, ServerTypeOK, ProcStates
  <2>2. (disk \in [Server -> PersistData])'
    <3>1. EmptyFile \in PersistData
      BY DEF EmptyFile, PersistData
    <3> QED BY <1>4, <3>1 DEF Restart, TypeOK
  <2>3. CallTypeOK'
    <3>1. AfterRestart(rvCalls, s) \subseteq RequestVoteCall
      BY DEF AfterRestart, TypeOK, CallTypeOK, RequestVoteCall
    <3>2. AfterRestart(aeCalls, s) \subseteq AppendEntriesCall
      BY DEF AfterRestart, TypeOK, CallTypeOK, AppendEntriesCall
    <3>3. AfterRestart(isCalls, s) \subseteq InstallSnapshotCall
      BY DEF AfterRestart, TypeOK, CallTypeOK, InstallSnapshotCall
    <3> QED BY <1>4, <3>1, <3>2, <3>3 DEF Restart, TypeOK, CallTypeOK
  <2>4. HistoryTypeOK'
    BY <1>4 DEF Restart, TypeOK, HistoryTypeOK
  <2> QED BY <2>1, <2>2, <2>3, <2>4 DEF TypeOK
<1>5. CASE CallFails
  <2>1. CallTypeOK'
    BY <1>5 DEF CallFails, TypeOK, CallTypeOK
  <2>2. HistoryTypeOK'
    BY <1>5 DEF CallFails, Breaks, TypeOK, HistoryTypeOK
  <2> QED BY <1>5, <2>1, <2>2 DEF CallFails, TypeOK, ServerTypeOK
<1>6. CASE UNCHANGED vars
  BY <1>6 DEF vars, TypeOK, ServerTypeOK, CallTypeOK, HistoryTypeOK
<1> QED BY <1>1, <1>2, <1>3, <1>4, <1>5, <1>6

\* Every step keeps the types, given the bounds of IndexInv.
LEMMA TypeStep == IndexInv /\ [Next]_vars => TypeOK'
BY ElectionTypes, VoteTypes, ReplicationTypes, AppendTypes, SnapshotTypes, OtherTypes
   DEF Next

(* The bounds: which steps touch the log, and that only a restart shortens it. *)

\* The steps that change the log or what is committed and applied of it.
LogStep ==
    \/ \E s \in Server : \E command \in Command : Start(s, command)
    \/ \E s \in Server : applierTicker(s)
    \/ \E s \in Server : \E index \in 1..m_lastApplied[s] : Snapshot(s, index)
    \/ \E c \in aeCalls : AppendEntries1Accept(c) \/ sendAppendEntriesAccepted(c)
    \/ \E c \in isCalls : InstallSnapshot(c)
    \/ \E s \in Server : Restart(s)

\* No other step does.
LEMMA LogFrame ==
    ASSUME [Next]_vars
    PROVE  LogStep \/ UNCHANGED <<logVars, applyVars>>
<1> USE DEF LogStep
<1>1. ASSUME NEW s \in Server, doElection(s) \/ doHeartBeat(s) \/ Crash(s)
      PROVE  UNCHANGED <<logVars, applyVars>>
  BY <1>1 DEF doElection, doHeartBeat, Crash
<1>2. ASSUME NEW c \in rvCalls, VoteStep(c)
      PROVE  UNCHANGED <<logVars, applyVars>>
  BY <1>2 DEF VoteStep, RequestVote, sendRequestVoteNewerTerm, sendRequestVoteIgnored,
              sendRequestVoteCounted, sendRequestVoteElected
<1>3. ASSUME NEW c \in aeCalls, AppendStep(c),
             ~AppendEntries1Accept(c), ~sendAppendEntriesAccepted(c)
      PROVE  UNCHANGED <<logVars, applyVars>>
  BY <1>3 DEF AppendStep, AppendEntries1Stale, AppendEntries1Mismatch,
              AppendEntries1BehindSnapshot, AppendEntries1Conflict,
              sendAppendEntriesNewerTerm, sendAppendEntriesIgnored, sendAppendEntriesRefused
<1>4. ASSUME NEW c \in isCalls, SnapshotStep(c), ~InstallSnapshot(c)
      PROVE  UNCHANGED <<logVars, applyVars>>
  BY <1>4 DEF SnapshotStep, InstallSnapshotStale, InstallSnapshotOutdated,
              leaderSendSnapShotIgnored, leaderSendSnapShotNewerTerm, leaderSendSnapShotDone
<1>5. ASSUME \/ \E t \in snapThreads : leaderSendSnapShot(t)
             \/ CallFails
             \/ UNCHANGED vars
      PROVE  UNCHANGED <<logVars, applyVars>>
  BY <1>5 DEF leaderSendSnapShot, CallFails, vars
<1> QED BY <1>1, <1>2, <1>3, <1>4, <1>5 DEF Next

\* The heart of the argument: AppendEntries1 overwrites and appends but never
\* truncates, a snapshot keeps the last index, and so the log only grows.
LEMMA LogBoundsStep ==
    ASSUME IndexInv, [Next]_vars, TypeOK'
    PROVE  /\ LogBounds'
           /\ \A s \in Server : Restart(s) \/ getLastLogIndex(s) <= getLastLogIndex(s)'
<1> DEFINE Goal(s) ==
              /\ (m_lastSnapshotIncludeIndex[s] <= m_lastApplied[s])'
              /\ (m_lastApplied[s] <= m_commitIndex[s])'
              /\ (m_commitIndex[s] <= getLastLogIndex(s))'
              /\ (m_lastSnapshotIncludeIndex[s] = 0 => m_lastSnapshotIncludeTerm[s] = 0)'
              /\ Restart(s) \/ getLastLogIndex(s) <= getLastLogIndex(s)'
<1> SUFFICES ASSUME NEW s \in Server
             PROVE  Goal(s)
  BY DEF LogBounds
<1>1. /\ m_logs \in [Server -> Seq(Entry)]
      /\ m_lastSnapshotIncludeIndex \in [Server -> Nat]
      /\ m_lastSnapshotIncludeTerm \in [Server -> Nat]
      /\ m_commitIndex \in [Server -> Nat]
      /\ m_lastApplied \in [Server -> Nat]
  BY DEF IndexInv, TypeOK, ServerTypeOK
<1>2. /\ m_lastSnapshotIncludeIndex[s] <= m_lastApplied[s]
      /\ m_lastApplied[s] <= m_commitIndex[s]
      /\ m_commitIndex[s] <= m_lastSnapshotIncludeIndex[s] + Len(m_logs[s])
      /\ m_lastSnapshotIncludeIndex[s] = 0 => m_lastSnapshotIncludeTerm[s] = 0
  BY DEF IndexInv, LogBounds, getLastLogIndex
<1>3. /\ Len(m_logs[s]) \in Nat /\ m_lastSnapshotIncludeIndex[s] \in Nat
      /\ m_lastSnapshotIncludeTerm[s] \in Nat
      /\ m_commitIndex[s] \in Nat /\ m_lastApplied[s] \in Nat
  BY <1>1
<1>4. CASE UNCHANGED <<logVars, applyVars>>
  BY <1>1, <1>2, <1>3, <1>4 DEF logVars, applyVars, getLastLogIndex
<1>5. ASSUME NEW p \in Server, NEW command \in Command, Start(p, command)
      PROVE  Goal(s)
  <2>1. /\ UNCHANGED <<applyVars, m_lastSnapshotIncludeIndex, m_lastSnapshotIncludeTerm>>
        /\ m_logs' = [m_logs EXCEPT ![p] =
                Append(@, [term |-> m_currentTerm[p], command |-> command])]
    BY <1>5 DEF Start
  <2>2. Len(m_logs'[s]) \in Nat /\ Len(m_logs'[s]) >= Len(m_logs[s])
    BY <1>1, <2>1
  <2> QED BY <1>1, <1>2, <1>3, <2>1, <2>2 DEF applyVars, getLastLogIndex
<1>6. ASSUME NEW p \in Server, applierTicker(p)
      PROVE  Goal(s)
  BY <1>1, <1>2, <1>3, <1>6 DEF applierTicker, logVars, getLastLogIndex
<1>7. ASSUME NEW p \in Server, NEW index \in 1..m_lastApplied[p], Snapshot(p, index)
      PROVE  Goal(s)
  <2>1. CASE s # p
    BY <1>1, <1>2, <1>3, <1>7, <2>1 DEF Snapshot, getLastLogIndex
  <2>2. CASE s = p
    <3> DEFINE keep == index - m_lastSnapshotIncludeIndex[s]
    <3>1. /\ index \in Nat \ {0}
          /\ index > m_lastSnapshotIncludeIndex[s]
          /\ index <= m_commitIndex[s]
      BY <1>1, <1>7, <2>2 DEF Snapshot
    <3>2. /\ m_logs'[s] = SubSeq(m_logs[s], keep + 1, Len(m_logs[s]))
          /\ m_lastSnapshotIncludeIndex'[s] = index
          /\ m_lastApplied'[s] = Max2(m_lastApplied[s], index)
          /\ m_commitIndex'[s] = m_commitIndex[s]
      BY <1>1, <1>7, <2>2 DEF Snapshot
    <3>3. keep \in 1..Len(m_logs[s])
      BY <1>1, <1>2, <1>3, <3>1
    <3>4. Len(m_logs'[s]) = Len(m_logs[s]) - keep
      <4> HIDE DEF keep
      <4> QED BY <1>1, <3>2, <3>3
    <3>5. getLastLogIndex(s)' = getLastLogIndex(s)
      <4>1. getLastLogIndex(s)' = index + Len(m_logs'[s])
        BY <3>2 DEF getLastLogIndex
      <4>2. getLastLogIndex(s) = m_lastSnapshotIncludeIndex[s] + Len(m_logs[s])
        BY DEF getLastLogIndex
      <4>3. Len(m_logs[s]) \in Nat /\ m_lastSnapshotIncludeIndex[s] \in Nat
        BY <1>3
      <4> QED BY <3>1, <3>4, <4>1, <4>2, <4>3
    <3>6. getLastLogIndex(s) \in Nat /\ m_commitIndex[s] <= getLastLogIndex(s)
      BY <1>2, <1>3 DEF getLastLogIndex
    <3> HIDE DEF keep
    <3> QED BY <1>2, <1>3, <3>1, <3>2, <3>5, <3>6 DEF Max2
  <2> QED BY <2>1, <2>2
<1>8. ASSUME NEW c \in aeCalls, AppendEntries1Accept(c)
      PROVE  Goal(s)
  <2>1. /\ c.to \in Server /\ c.prevLogIndex \in Nat /\ c.entries \in Seq(Entry)
        /\ c.leaderCommit \in Nat
    BY AppendCallTypes DEF IndexInv
  <2> DEFINE log == MergedLog(c.to, c.prevLogIndex, c.entries)
             last == m_lastSnapshotIncludeIndex[c.to] + Len(log)
  <2>2. /\ m_logs' = [m_logs EXCEPT ![c.to] = log]
        /\ m_commitIndex' = [m_commitIndex EXCEPT ![c.to] =
                IF c.leaderCommit > @ THEN Min2(c.leaderCommit, last) ELSE @]
        /\ UNCHANGED <<m_lastSnapshotIncludeIndex, m_lastSnapshotIncludeTerm, m_lastApplied>>
    BY <1>8 DEF AppendEntries1Accept, FollowerCommit
  <2>3. Len(log) \in Nat /\ Len(log) >= Len(m_logs[c.to])
    <3>1. c.prevLogIndex \in m_lastSnapshotIncludeIndex[c.to]..getLastLogIndex(c.to)
      BY <1>8 DEF AppendEntries1Accept, matchLog
    <3> QED BY <2>1, <3>1, MergedLogType DEF IndexInv
  <2> HIDE DEF log
  <2>4. CASE s # c.to
    BY <1>1, <1>2, <1>3, <2>1, <2>2, <2>4 DEF getLastLogIndex
  <2>5. CASE s = c.to
    <3>1. /\ m_logs'[s] = log
          /\ m_commitIndex'[s] = IF c.leaderCommit > m_commitIndex[s]
                                 THEN Min2(c.leaderCommit, last) ELSE m_commitIndex[s]
      BY <1>1, <2>1, <2>2, <2>5
    <3> QED BY <1>1, <1>2, <1>3, <2>1, <2>2, <2>3, <2>5, <3>1 DEF getLastLogIndex, Min2
  <2> QED BY <2>4, <2>5
<1>9. ASSUME NEW c \in aeCalls, sendAppendEntriesAccepted(c)
      PROVE  Goal(s)
  <2>1. /\ c.from \in Server /\ c.prevLogIndex \in Nat /\ c.entries \in Seq(Entry)
    BY AppendCallTypes DEF IndexInv
  <2>2. c.prevLogIndex + Len(c.entries) <= m_lastSnapshotIncludeIndex[c.from] + Len(m_logs[c.from])
    BY <1>9 DEF IndexInv, AppendBounds, sendAppendEntriesAccepted, ReplyToLeader, Answered,
                getLastLogIndex
  <2>3. /\ UNCHANGED <<logVars, m_lastApplied>>
        /\ \/ m_commitIndex' = m_commitIndex
           \/ m_commitIndex' = [m_commitIndex EXCEPT ![c.from] =
                  Max2(@, c.prevLogIndex + Len(c.entries))]
    BY <1>1, <1>9, <2>1 DEF sendAppendEntriesAccepted, AcceptedUpTo, Acks
  <2>4. Len(c.entries) \in Nat
    BY <2>1
  <2>5. CASE m_commitIndex'[s] = m_commitIndex[s]
    BY <1>2, <1>3, <2>3, <2>5 DEF logVars, getLastLogIndex
  <2>6. CASE s = c.from /\ m_commitIndex'[s] = Max2(m_commitIndex[s],
                                                  c.prevLogIndex + Len(c.entries))
    BY <1>2, <1>3, <2>1, <2>2, <2>3, <2>4, <2>6 DEF logVars, getLastLogIndex, Max2
  <2> QED BY <1>1, <2>1, <2>3, <2>5, <2>6
<1>10. ASSUME NEW c \in isCalls, InstallSnapshot(c)
       PROVE  Goal(s)
  <2>1. c.to \in Server /\ c.index \in Nat
    BY SnapshotCallTypes DEF IndexInv
  <2>2. CASE s # c.to
    BY <1>1, <1>2, <1>3, <1>10, <2>1, <2>2 DEF InstallSnapshot, getLastLogIndex
  <2>3. CASE s = c.to
    <3> DEFINE keep == c.index - m_lastSnapshotIncludeIndex[s]
    <3>1. c.index > m_lastSnapshotIncludeIndex[s]
      BY <1>10, <2>3 DEF InstallSnapshot
    <3>2. /\ m_logs'[s] = IF m_lastSnapshotIncludeIndex[s] + Len(m_logs[s]) > c.index
                          THEN SubSeq(m_logs[s], keep + 1, Len(m_logs[s]))
                          ELSE <<>>
          /\ m_lastSnapshotIncludeIndex'[s] = c.index
          /\ m_lastApplied'[s] = Max2(m_lastApplied[s], c.index)
          /\ m_commitIndex'[s] = Max2(m_commitIndex[s], c.index)
      BY <1>1, <1>10, <2>1, <2>3 DEF InstallSnapshot, getLastLogIndex
    <3>3. keep \in Nat
      BY <1>1, <2>1, <3>1
    <3>4. m_lastSnapshotIncludeIndex[s] + Len(m_logs[s]) > c.index =>
            Len(m_logs'[s]) = Len(m_logs[s]) - keep
      <4>1. m_lastSnapshotIncludeIndex[s] + Len(m_logs[s]) > c.index => keep <= Len(m_logs[s])
        BY <1>1, <1>3, <2>1
      <4> HIDE DEF keep
      <4> QED BY <1>1, <3>2, <3>3, <4>1
    <3>5. ~(m_lastSnapshotIncludeIndex[s] + Len(m_logs[s]) > c.index) =>
            Len(m_logs'[s]) = 0
      BY <3>2
    <3>6. /\ getLastLogIndex(s)' = Max2(getLastLogIndex(s), c.index)
          /\ getLastLogIndex(s) \in Nat /\ m_commitIndex[s] <= getLastLogIndex(s)
      <4>1. m_lastSnapshotIncludeIndex'[s] = c.index
        BY <3>2
      <4>2. getLastLogIndex(s)' = c.index + Len(m_logs'[s])
        BY <4>1 DEF getLastLogIndex
      <4>3. CASE m_lastSnapshotIncludeIndex[s] + Len(m_logs[s]) > c.index
        <5>1. Len(m_logs'[s]) = Len(m_logs[s]) - (c.index - m_lastSnapshotIncludeIndex[s])
          BY <3>4, <4>3
        <5> QED BY <1>2, <1>3, <2>1, <4>2, <4>3, <5>1 DEF getLastLogIndex, Max2
      <4>4. CASE ~(m_lastSnapshotIncludeIndex[s] + Len(m_logs[s]) > c.index)
        <5>1. Len(m_logs'[s]) = 0
          BY <3>5, <4>4
        <5> QED BY <1>2, <1>3, <2>1, <4>2, <4>4, <5>1 DEF getLastLogIndex, Max2
      <4> QED BY <4>3, <4>4
    <3> HIDE DEF keep
    <3> QED BY <1>2, <1>3, <2>1, <3>1, <3>2, <3>6 DEF Max2
  <2> QED BY <2>2, <2>3
<1>11. ASSUME NEW p \in Server, Restart(p)
       PROVE  Goal(s)
  <2>1. CASE s # p
    BY <1>1, <1>2, <1>3, <1>11, <2>1 DEF Restart, getLastLogIndex
  <2>2. CASE s = p
    BY <1>1, <1>11, <2>2 DEF Restart, getLastLogIndex
  <2> QED BY <2>1, <2>2
<1> QED
  BY <1>4, <1>5, <1>6, <1>7, <1>8, <1>9, <1>10, <1>11, LogFrame DEF LogStep

\* The steps that change what a server knows of its peers, or make it a leader.
PeerStep ==
    \/ \E c \in rvCalls : sendRequestVoteElected(c)
    \/ \E c \in aeCalls : sendAppendEntriesRefused(c) \/ sendAppendEntriesAccepted(c)
    \/ \E c \in isCalls : leaderSendSnapShotDone(c)
    \/ \E s \in Server : Restart(s)

\* No other step does.
LEMMA PeerFrame ==
    ASSUME TypeOK, [Next]_vars
    PROVE  \/ PeerStep
           \/ /\ UNCHANGED <<m_nextIndex, m_matchIndex>>
              /\ \A s \in Server : m_status'[s] = Leader => m_status[s] = Leader
<1> DEFINE Frame == /\ UNCHANGED <<m_nextIndex, m_matchIndex>>
                    /\ \A s \in Server : m_status'[s] = Leader => m_status[s] = Leader
<1> USE DEF PeerStep, serverVars, leaderVars
<1>1. m_status \in [Server -> {Follower, Candidate, Leader}]
  BY DEF TypeOK, ServerTypeOK
<1>2. Follower # Leader /\ Candidate # Leader
  BY DEF Follower, Candidate, Leader
<1>3. ASSUME NEW s \in Server,
             \/ doElection(s) \/ doHeartBeat(s) \/ applierTicker(s) \/ Crash(s)
             \/ \E command \in Command : Start(s, command)
             \/ \E index \in 1..m_lastApplied[s] : Snapshot(s, index)
      PROVE  Frame
  BY <1>1, <1>2, <1>3 DEF doElection, doHeartBeat, applierTicker, Crash, Start, Snapshot
<1>4. ASSUME NEW c \in rvCalls, VoteStep(c), ~sendRequestVoteElected(c)
      PROVE  Frame
  BY <1>1, <1>2, <1>4, VoteCallTypes
     DEF VoteStep, RequestVote, sendRequestVoteNewerTerm, sendRequestVoteIgnored,
         sendRequestVoteCounted, StepDown
<1>5. ASSUME NEW c \in aeCalls, AppendStep(c),
             ~sendAppendEntriesRefused(c), ~sendAppendEntriesAccepted(c)
      PROVE  Frame
  BY <1>1, <1>2, <1>5, AppendCallTypes
     DEF AppendStep, AppendEntries1Stale, AppendEntries1Mismatch,
         AppendEntries1BehindSnapshot, AppendEntries1Conflict, AppendEntries1Accept,
         sendAppendEntriesNewerTerm, sendAppendEntriesIgnored, FollowLeader, StepDown
<1>6. ASSUME NEW c \in isCalls, SnapshotStep(c), ~leaderSendSnapShotDone(c)
      PROVE  Frame
  BY <1>1, <1>2, <1>6, SnapshotCallTypes
     DEF SnapshotStep, InstallSnapshotStale, InstallSnapshotOutdated, InstallSnapshot,
         leaderSendSnapShotIgnored, leaderSendSnapShotNewerTerm, FollowLeader, StepDown
<1>7. ASSUME \/ \E t \in snapThreads : leaderSendSnapShot(t)
             \/ CallFails
             \/ UNCHANGED vars
      PROVE  Frame
  BY <1>7 DEF leaderSendSnapShot, CallFails, vars
<1> QED BY <1>3, <1>4, <1>5, <1>6, <1>7 DEF Next

\* nextIndex and matchIndex stay inside the log: replies carry indexes from the
\* log as it was, and the log has only grown since.
LEMMA PeerBoundsStep ==
    ASSUME IndexInv, [Next]_vars, TypeOK'
    PROVE  PeerBounds'
<1> SUFFICES ASSUME NEW s \in Server, NEW p \in Server
             PROVE  /\ m_nextIndex'[s][p] <= getLastLogIndex(s)' + 1
                    /\ m_matchIndex'[s][p] <= getLastLogIndex(s)'
                    /\ m_status'[s] = Leader => m_nextIndex'[s][p] >= 1
  BY DEF PeerBounds
<1> DEFINE last == getLastLogIndex(s)
           next == m_nextIndex[s][p]
           match == m_matchIndex[s][p]
<1>0. /\ m_nextIndex \in [Server -> [Server -> Nat]]
      /\ m_matchIndex \in [Server -> [Server -> Nat]]
  BY DEF IndexInv, TypeOK, ServerTypeOK
<1>1. /\ last \in Nat /\ next \in Nat /\ match \in Nat
      /\ last' \in Nat /\ next' \in Nat /\ match' \in Nat
  <2>1. last \in Nat /\ last' \in Nat
    <3>1. /\ m_logs[s] \in Seq(Entry) /\ m_lastSnapshotIncludeIndex[s] \in Nat
          /\ m_logs'[s] \in Seq(Entry) /\ m_lastSnapshotIncludeIndex'[s] \in Nat
      BY DEF IndexInv, TypeOK, ServerTypeOK
    <3> QED BY <3>1 DEF getLastLogIndex
  <2> QED BY <2>1 DEF IndexInv, TypeOK, ServerTypeOK
<1>2. /\ next <= last + 1 /\ match <= last
      /\ m_status[s] = Leader => next >= 1
  BY DEF IndexInv, PeerBounds
<1>3. Restart(s) \/ last <= last'
  BY LogBoundsStep
<1> HIDE DEF last, next, match
<1> SUFFICES /\ next' <= last' + 1
             /\ match' <= last'
             /\ m_status'[s] = Leader => next' >= 1
  BY DEF last, next, match
<1>4. ASSUME NEW r \in Server, Restart(r)
      PROVE  /\ next' <= last' + 1 /\ match' <= last'
             /\ m_status'[s] = Leader => next' >= 1
  <2>1. CASE s = r
    <3>1. next' = 0 /\ match' = 0 /\ m_status'[s] = Follower
      BY <1>4, <2>1 DEF Restart, next, match, IndexInv, TypeOK, ServerTypeOK
    <3>2. Follower # Leader
      BY DEF Follower, Leader
    <3>3. m_status'[s] # Leader
      BY <3>1, <3>2
    <3>4. next' <= last' + 1 /\ match' <= last'
      BY <1>1, <3>1 DEF last, next, match
    <3> QED BY <3>3, <3>4
  <2>2. CASE s # r
    BY <1>1, <1>2, <1>4, <2>2
       DEF Restart, next, match, last, getLastLogIndex, IndexInv, TypeOK, ServerTypeOK
  <2> QED BY <2>1, <2>2
<1>5. CASE /\ last <= last'
           /\ UNCHANGED <<m_nextIndex, m_matchIndex>>
           /\ m_status'[s] = Leader => m_status[s] = Leader
  BY <1>1, <1>2, <1>5 DEF next, match
<1>6. ASSUME NEW c \in rvCalls, sendRequestVoteElected(c)
      PROVE  /\ next' <= last' + 1 /\ match' <= last'
             /\ m_status'[s] = Leader => next' >= 1
  <2>1. last' = last
    BY <1>6 DEF sendRequestVoteElected, logVars, last, getLastLogIndex
  <2>2. CASE s = c.from
    <3>1. next' = last + 1 /\ match' = 0
      BY <1>6, <2>2 DEF sendRequestVoteElected, next, match, last, IndexInv, TypeOK, ServerTypeOK
    <3> QED BY <1>1, <2>1, <3>1
  <2>3. CASE s # c.from
    <3>1. next' = next /\ match' = match /\ m_status'[s] = m_status[s]
      BY <1>6, <2>3 DEF sendRequestVoteElected, next, match, IndexInv, TypeOK, ServerTypeOK
    <3> QED BY <1>1, <1>2, <2>1, <3>1
  <2> QED BY <2>2, <2>3
<1>7. ASSUME NEW c \in aeCalls, sendAppendEntriesRefused(c)
      PROVE  /\ next' <= last' + 1 /\ match' <= last'
             /\ m_status'[s] = Leader => next' >= 1
  <2>1. /\ last' = last /\ match' = match /\ m_status'[s] = m_status[s]
    BY <1>7 DEF sendAppendEntriesRefused, serverVars, logVars, last, match, getLastLogIndex
  <2>2. CASE s = c.from /\ p = c.to
    <3>1. next' = c.updateNextIndex
      BY <1>7, <2>2 DEF sendAppendEntriesRefused, next, IndexInv, TypeOK, ServerTypeOK
    <3>2. c.updateNextIndex \in 1..(last + 1)
      BY <1>7, <2>2 DEF sendAppendEntriesRefused, ReplyToLeader, Answered, IndexInv,
                        AppendBounds, last
    <3> QED BY <1>1, <1>2, <2>1, <3>1, <3>2
  <2>3. CASE ~(s = c.from /\ p = c.to)
    <3>1. next' = next
      <4>1. c.from \in Server /\ c.to \in Server
        BY AppendCallTypes DEF IndexInv
      <4> QED BY <1>0, <1>7, <2>3, <4>1, UpdateOther2 DEF sendAppendEntriesRefused, next
    <3> QED BY <1>1, <1>2, <2>1, <3>1
  <2> QED BY <2>2, <2>3
<1>8. ASSUME NEW c \in aeCalls, sendAppendEntriesAccepted(c)
      PROVE  /\ next' <= last' + 1 /\ match' <= last'
             /\ m_status'[s] = Leader => next' >= 1
  <2>1. /\ last' = last /\ m_status'[s] = m_status[s]
    BY <1>8 DEF sendAppendEntriesAccepted, serverVars, logVars, last, getLastLogIndex
  <2>2. CASE s = c.from /\ p = c.to
    <3>1. /\ match' = Max2(match, c.prevLogIndex + Len(c.entries))
          /\ next' = Max2(match, c.prevLogIndex + Len(c.entries)) + 1
      BY <1>8, <2>2 DEF sendAppendEntriesAccepted, AcceptedUpTo, Acks, next, match, IndexInv, TypeOK, ServerTypeOK
    <3>2. c.prevLogIndex + Len(c.entries) <= last
      BY <1>8, <2>2 DEF sendAppendEntriesAccepted, ReplyToLeader, Answered, IndexInv,
                        AppendBounds, last
    <3>3. c.prevLogIndex + Len(c.entries) \in Nat
      <4>1. c.prevLogIndex \in Nat /\ c.entries \in Seq(Entry)
        BY AppendCallTypes DEF IndexInv
      <4> QED BY <4>1
    <3> QED BY <1>1, <1>2, <2>1, <3>1, <3>2, <3>3 DEF Max2
  <2>3. CASE ~(s = c.from /\ p = c.to)
    <3>1. next' = next /\ match' = match
      <4>1. c.from \in Server /\ c.to \in Server
        BY AppendCallTypes DEF IndexInv
      <4>2. PICK v, w : /\ m_matchIndex' = [m_matchIndex EXCEPT ![c.from][c.to] = v]
                        /\ m_nextIndex' = [m_nextIndex EXCEPT ![c.from][c.to] = w]
        BY <1>8 DEF sendAppendEntriesAccepted, AcceptedUpTo, Acks
      <4> QED BY <1>0, <2>3, <4>1, <4>2, UpdateOther2 DEF next, match
    <3> QED BY <1>1, <1>2, <2>1, <3>1
  <2> QED BY <2>2, <2>3
<1>9. ASSUME NEW c \in isCalls, leaderSendSnapShotDone(c)
      PROVE  /\ next' <= last' + 1 /\ match' <= last'
             /\ m_status'[s] = Leader => next' >= 1
  <2>1. /\ last' = last /\ m_status'[s] = m_status[s]
    BY <1>9 DEF leaderSendSnapShotDone, serverVars, logVars, last, getLastLogIndex
  <2>2. CASE s = c.from /\ p = c.to
    <3>1. match' = c.index /\ next' = c.index + 1
      BY <1>9, <2>2 DEF leaderSendSnapShotDone, next, match, IndexInv, TypeOK, ServerTypeOK
    <3>2. c.index <= last
      BY <1>9, <2>2 DEF leaderSendSnapShotDone, SnapshotReturns, Answered, IndexInv,
                        SnapshotBounds, last
    <3>3. c.index \in Nat
      BY SnapshotCallTypes DEF IndexInv
    <3> QED BY <1>1, <2>1, <3>1, <3>2, <3>3
  <2>3. CASE ~(s = c.from /\ p = c.to)
    <3>1. next' = next /\ match' = match
      <4>1. c.from \in Server /\ c.to \in Server
        BY SnapshotCallTypes DEF IndexInv
      <4> QED BY <1>0, <1>9, <2>3, <4>1, UpdateOther2 DEF leaderSendSnapShotDone, next, match
    <3> QED BY <1>1, <1>2, <2>1, <3>1
  <2> QED BY <2>2, <2>3
<1> QED
  BY <1>3, <1>4, <1>5, <1>6, <1>7, <1>8, <1>9, PeerFrame DEF PeerStep, IndexInv

\* AppendBounds of one call.
AppendBoundsOf(c) ==
    /\ c.prevLogIndex = 0 => c.prevLogTerm = 0
    /\ c.st # "orphan" => c.prevLogIndex + Len(c.entries) <= getLastLogIndex(c.from)
    /\ c.st = "rep" /\ ~c.success =>
          \/ c.updateNextIndex = -100
          \/ c.updateNextIndex \in 1..(getLastLogIndex(c.from) + 1)

\* Which steps put new calls into aeCalls.
LEMMA AppendFrame ==
    ASSUME [Next]_vars
    PROVE  \/ aeCalls' \subseteq aeCalls
           \/ \E s \in Server : doHeartBeat(s) \/ Restart(s)
           \/ \E c \in aeCalls : AppendEntries1Stale(c) \/ AppendEntries1Mismatch(c)
                                    \/ AppendEntries1Accept(c)
<1>1. ASSUME NEW s \in Server,
             \/ doElection(s) \/ applierTicker(s) \/ Crash(s)
             \/ \E command \in Command : Start(s, command)
             \/ \E index \in 1..m_lastApplied[s] : Snapshot(s, index)
      PROVE  aeCalls' \subseteq aeCalls
  BY <1>1 DEF doElection, applierTicker, Crash, Start, Snapshot, netVars
<1>2. ASSUME NEW c \in rvCalls, VoteStep(c)
      PROVE  aeCalls' \subseteq aeCalls
  BY <1>2 DEF VoteStep, RequestVote, sendRequestVoteNewerTerm, sendRequestVoteIgnored,
              sendRequestVoteCounted, sendRequestVoteElected
<1>3. ASSUME NEW c \in aeCalls, AppendStep(c), ~AppendEntries1Stale(c),
             ~AppendEntries1Mismatch(c), ~AppendEntries1Accept(c)
      PROVE  aeCalls' \subseteq aeCalls
  BY <1>3 DEF AppendStep, AppendEntries1BehindSnapshot, AppendEntries1Conflict,
              sendAppendEntriesNewerTerm, sendAppendEntriesIgnored,
              sendAppendEntriesRefused, sendAppendEntriesAccepted, netVars
<1>4. ASSUME NEW c \in isCalls, SnapshotStep(c)
      PROVE  aeCalls' \subseteq aeCalls
  BY <1>4 DEF SnapshotStep, InstallSnapshotStale, InstallSnapshotOutdated, InstallSnapshot,
              leaderSendSnapShotIgnored, leaderSendSnapShotNewerTerm, leaderSendSnapShotDone
<1>5. ASSUME \/ \E t \in snapThreads : leaderSendSnapShot(t)
             \/ CallFails
             \/ UNCHANGED vars
      PROVE  aeCalls' \subseteq aeCalls
  BY <1>5 DEF leaderSendSnapShot, CallFails, vars, netVars
<1> QED BY <1>1, <1>2, <1>3, <1>4, <1>5 DEF Next

\* A refusal never sends the leader back to index 0: both logs start at an
\* index 0 of term 0, so that one always matches.
LEMMA GoBackToBounds ==
    ASSUME IndexInv, NEW c \in aeCalls, AppendEntries1Mismatch(c), NEW u \in Nat,
           GoBackTo(c.to, c.prevLogIndex, u)
    PROVE  u \in 1..(c.prevLogIndex + 1)
<1> DEFINE snap == m_lastSnapshotIncludeIndex[c.to]
           last == getLastLogIndex(c.to)
<1>1. c.to \in Server /\ c.prevLogIndex \in Nat
  BY AppendCallTypes DEF IndexInv
<1>2. snap \in Nat /\ last \in Nat /\ snap <= last
  <2>1. /\ m_logs[c.to] \in Seq(Entry) /\ m_lastSnapshotIncludeIndex[c.to] \in Nat
    BY <1>1 DEF IndexInv, TypeOK, ServerTypeOK
  <2> QED BY <2>1 DEF getLastLogIndex
<1>3. c.prevLogIndex >= snap /\ ~matchLog(c.to, c.prevLogIndex, c.prevLogTerm)
  BY <1>1 DEF AppendEntries1Mismatch
<1>4. c.prevLogIndex # 0
  <2> SUFFICES ASSUME c.prevLogIndex = 0
               PROVE  FALSE
    OBVIOUS
  <2>1. snap = 0 /\ c.prevLogIndex \in snap..last
    BY <1>1, <1>2, <1>3
  <2>2. getLogTermFromLogIndex(c.to, c.prevLogIndex) = 0
    BY <1>1, <2>1 DEF getLogTermFromLogIndex, IndexInv, LogBounds
  <2>3. c.prevLogTerm = 0
    BY DEF IndexInv, AppendBounds
  <2> QED BY <1>3, <2>1, <2>2, <2>3 DEF matchLog
<1>5. \/ c.prevLogIndex > last /\ u = last + 1
      \/ u = c.prevLogIndex
      \/ u \in (snap + 1)..c.prevLogIndex
  BY DEF GoBackTo
<1> HIDE DEF snap, last
<1> QED BY <1>1, <1>2, <1>4, <1>5

\* Calls are built inside the log; replies move back, never past its end.
LEMMA AppendBoundsStep ==
    ASSUME IndexInv, [Next]_vars, TypeOK'
    PROVE  AppendBounds'
<1> SUFFICES ASSUME NEW d \in aeCalls'
             PROVE  AppendBoundsOf(d)'
  BY DEF AppendBounds, AppendBoundsOf
<1>1. \A c \in aeCalls : AppendBoundsOf(c)
  BY DEF IndexInv, AppendBounds, AppendBoundsOf
<1>2. \A s \in Server : getLastLogIndex(s) \in Nat /\ getLastLogIndex(s)' \in Nat
  <2> SUFFICES ASSUME NEW s \in Server
               PROVE  getLastLogIndex(s) \in Nat /\ getLastLogIndex(s)' \in Nat
    OBVIOUS
  <2>1. /\ m_logs[s] \in Seq(Entry) /\ m_lastSnapshotIncludeIndex[s] \in Nat
        /\ m_logs'[s] \in Seq(Entry) /\ m_lastSnapshotIncludeIndex'[s] \in Nat
    BY DEF IndexInv, TypeOK, ServerTypeOK
  <2> QED BY <2>1 DEF getLastLogIndex
\* The bounds of an old call survive as long as its caller's log has not shrunk.
<1>3. ASSUME NEW c \in aeCalls, getLastLogIndex(c.from) <= getLastLogIndex(c.from)'
      PROVE  AppendBoundsOf(c)'
  <2>1. /\ c.from \in Server /\ c.prevLogIndex \in Nat /\ c.entries \in Seq(Entry)
    BY AppendCallTypes DEF IndexInv
  <2>2. Len(c.entries) \in Nat
    BY <2>1
  <2>3. AppendBoundsOf(c)
    BY <1>1
  <2>4. /\ getLastLogIndex(c.from) \in Nat /\ getLastLogIndex(c.from)' \in Nat
    BY <1>2, <2>1
  <2>5. (c.st # "orphan" => c.prevLogIndex + Len(c.entries) <= getLastLogIndex(c.from))'
    BY <1>3, <2>1, <2>2, <2>3, <2>4 DEF AppendBoundsOf
  <2>6. ASSUME c.updateNextIndex \in 1..(getLastLogIndex(c.from) + 1)
        PROVE  c.updateNextIndex \in 1..(getLastLogIndex(c.from)' + 1)
    BY <1>3, <2>4, <2>6
  <2> QED BY <2>3, <2>5, <2>6 DEF AppendBoundsOf
<1>4. CASE \E s \in Server : Restart(s)
  <2>1. PICK s \in Server : Restart(s)
    BY <1>4
  <2>2. PICK c \in aeCalls : /\ c.to # s
                             /\ c.from = s => c.st # "rep"
                             /\ d = IF c.from = s THEN [c EXCEPT !.st = "orphan"] ELSE c
    BY <2>1 DEF Restart, AfterRestart
  <2>3. CASE c.from = s
    <3>1. /\ d.st = "orphan" /\ d.prevLogIndex = c.prevLogIndex
          /\ d.prevLogTerm = c.prevLogTerm
      BY <2>2, <2>3, AppendCallTypes DEF IndexInv, AppendEntriesCall
    <3> QED BY <1>1, <3>1 DEF AppendBoundsOf
  <2>4. CASE c.from # s
    <3>1. getLastLogIndex(c.from)' = getLastLogIndex(c.from)
      BY <2>1, <2>4, AppendCallTypes
         DEF Restart, getLastLogIndex, IndexInv, TypeOK, ServerTypeOK
    <3>2. getLastLogIndex(c.from) \in Nat
      BY <1>2, AppendCallTypes DEF IndexInv
    <3>3. d = c
      BY <2>2, <2>4
    <3> QED BY <1>3, <3>1, <3>2, <3>3
  <2> QED BY <2>3, <2>4
<1>5. CASE ~\E s \in Server : Restart(s)
  <2>1. \A s \in Server : getLastLogIndex(s) <= getLastLogIndex(s)'
    BY <1>5, LogBoundsStep
  <2>2. CASE d \in aeCalls
    <3>1. d.from \in Server
      BY <2>2, AppendCallTypes DEF IndexInv
    <3> QED BY <1>3, <2>1, <2>2, <3>1
  <2>3. ASSUME NEW s \in Server, doHeartBeat(s), d \notin aeCalls
        PROVE  AppendBoundsOf(d)'
    <3>1. PICK r \in Rounds, p \in (Server \ {s}) \ NeedsSnapshot(s) :
              d = AppendEntriesArgs(s, p, r)
      BY <2>3 DEF doHeartBeat
    <3>2. m_status[s] = Leader
      BY <2>3 DEF doHeartBeat
    <3>3. /\ d.prevLogIndex = 0 => d.prevLogTerm = 0
          /\ d.prevLogIndex + Len(d.entries) = getLastLogIndex(s)
          /\ d.st = "req" /\ d.from = s
      BY <3>1, <3>2, HeartBeatArgs
    <3>4. getLastLogIndex(s)' = getLastLogIndex(s)
      BY <2>3 DEF doHeartBeat, logVars, getLastLogIndex
    <3> QED BY <1>2, <3>3, <3>4 DEF AppendBoundsOf
  <2>4. ASSUME NEW c \in aeCalls, d \notin aeCalls,
               d.prevLogIndex = c.prevLogIndex, d.prevLogTerm = c.prevLogTerm,
               d.entries = c.entries, d.from = c.from, c.st = "req",
               \/ d.success \/ d.updateNextIndex = -100
               \/ d.updateNextIndex \in 1..(c.prevLogIndex + 1)
        PROVE  AppendBoundsOf(d)'
    <3>1. /\ c.from \in Server /\ c.prevLogIndex \in Nat /\ c.entries \in Seq(Entry)
      BY AppendCallTypes DEF IndexInv
    <3>2. Len(c.entries) \in Nat
      BY <3>1
    <3>3. /\ getLastLogIndex(c.from) \in Nat /\ getLastLogIndex(c.from)' \in Nat
          /\ getLastLogIndex(c.from) <= getLastLogIndex(c.from)'
      BY <1>2, <2>1, <3>1
    <3>4. /\ c.prevLogIndex = 0 => c.prevLogTerm = 0
          /\ c.prevLogIndex + Len(c.entries) <= getLastLogIndex(c.from)
      BY <1>1, <2>4 DEF AppendBoundsOf
    <3>5. ASSUME d.updateNextIndex \in 1..(c.prevLogIndex + 1)
          PROVE  d.updateNextIndex \in 1..(getLastLogIndex(c.from)' + 1)
      BY <3>1, <3>2, <3>3, <3>4, <3>5
    <3>6. d.prevLogIndex + Len(d.entries) <= getLastLogIndex(c.from)'
      BY <2>4, <3>1, <3>2, <3>3, <3>4
    <3> QED BY <2>4, <3>4, <3>5, <3>6 DEF AppendBoundsOf
  <2>5. ASSUME NEW c \in aeCalls, d \notin aeCalls, AppendEntries1Stale(c)
        PROVE  AppendBoundsOf(d)'
    <3>1. c.st = "req" /\ d = [c EXCEPT !.st = "rep", !.replyTerm = m_currentTerm[c.to],
                                        !.updateNextIndex = -100]
      BY <2>5 DEF AppendEntries1Stale, Reply
    <3>2. c \in AppendEntriesCall
      BY AppendCallTypes DEF IndexInv
    <3> QED BY <2>4, <2>5, <3>1, <3>2 DEF AppendEntriesCall
  <2>6. ASSUME NEW c \in aeCalls, d \notin aeCalls, AppendEntries1Mismatch(c)
        PROVE  AppendBoundsOf(d)'
    <3>1. PICK u \in 0..(getLastLogIndex(c.to) + 1) :
              /\ GoBackTo(c.to, c.prevLogIndex, u)
              /\ aeCalls' = Reply(aeCalls, c,
                    [c EXCEPT !.st = "rep", !.replyTerm = c.term, !.updateNextIndex = u])
      BY <2>6 DEF AppendEntries1Mismatch
    <3>2. c \in AppendEntriesCall /\ getLastLogIndex(c.to) \in Nat
      BY <1>2, AppendCallTypes DEF IndexInv
    <3>3. u \in 1..(c.prevLogIndex + 1)
      BY <2>6, <3>1, <3>2, GoBackToBounds
    <3>4. c.st = "req" /\ d = [c EXCEPT !.st = "rep", !.replyTerm = c.term,
                                        !.updateNextIndex = u]
      BY <2>6, <3>1 DEF Reply
    <3> QED BY <2>4, <2>6, <3>2, <3>3, <3>4 DEF AppendEntriesCall
  <2>7. ASSUME NEW c \in aeCalls, d \notin aeCalls, AppendEntries1Accept(c)
        PROVE  AppendBoundsOf(d)'
    <3>1. c.st = "req" /\ d = [c EXCEPT !.st = "rep", !.replyTerm = c.term, !.success = TRUE]
      BY <2>7 DEF AppendEntries1Accept, Reply
    <3>2. c \in AppendEntriesCall
      BY AppendCallTypes DEF IndexInv
    <3> QED BY <2>4, <2>7, <3>1, <3>2 DEF AppendEntriesCall
  <2> QED BY <1>5, <2>2, <2>3, <2>5, <2>6, <2>7, AppendFrame
<1> QED BY <1>4, <1>5

\* Which steps put new calls into isCalls.
LEMMA SnapshotFrame ==
    ASSUME [Next]_vars
    PROVE  \/ isCalls' \subseteq isCalls
           \/ \E s \in Server : Restart(s)
           \/ \E t \in snapThreads : leaderSendSnapShot(t)
           \/ \E c \in isCalls : InstallSnapshotStale(c) \/ InstallSnapshotOutdated(c)
                                    \/ InstallSnapshot(c)
<1>1. ASSUME NEW s \in Server,
             \/ doElection(s) \/ doHeartBeat(s) \/ applierTicker(s) \/ Crash(s)
             \/ \E command \in Command : Start(s, command)
             \/ \E index \in 1..m_lastApplied[s] : Snapshot(s, index)
      PROVE  isCalls' \subseteq isCalls
  BY <1>1 DEF doElection, doHeartBeat, applierTicker, Crash, Start, Snapshot, netVars
<1>2. ASSUME NEW c \in rvCalls, VoteStep(c)
      PROVE  isCalls' \subseteq isCalls
  BY <1>2 DEF VoteStep, RequestVote, sendRequestVoteNewerTerm, sendRequestVoteIgnored,
              sendRequestVoteCounted, sendRequestVoteElected
<1>3. ASSUME NEW c \in aeCalls, AppendStep(c)
      PROVE  isCalls' \subseteq isCalls
  BY <1>3 DEF AppendStep, AppendEntries1Stale, AppendEntries1Mismatch,
              AppendEntries1BehindSnapshot, AppendEntries1Conflict, AppendEntries1Accept,
              sendAppendEntriesNewerTerm, sendAppendEntriesIgnored,
              sendAppendEntriesRefused, sendAppendEntriesAccepted, netVars
<1>4. ASSUME NEW c \in isCalls, SnapshotStep(c), ~InstallSnapshotStale(c),
             ~InstallSnapshotOutdated(c), ~InstallSnapshot(c)
      PROVE  isCalls' \subseteq isCalls
  BY <1>4 DEF SnapshotStep, leaderSendSnapShotIgnored, leaderSendSnapShotNewerTerm,
              leaderSendSnapShotDone
<1>5. ASSUME CallFails \/ UNCHANGED vars
      PROVE  isCalls' \subseteq isCalls
  BY <1>5 DEF CallFails, vars, netVars
<1> QED BY <1>1, <1>2, <1>3, <1>4, <1>5 DEF Next

\* A snapshot call carries the boundary of its sender's log, which only a
\* restart can move back, and a restart leaves no call but orphans.
LEMMA SnapshotBoundsStep ==
    ASSUME IndexInv, [Next]_vars, TypeOK'
    PROVE  SnapshotBounds'
<1> DEFINE Bound(c) == c.st # "orphan" => c.index <= getLastLogIndex(c.from)
<1> SUFFICES ASSUME NEW d \in isCalls'
             PROVE  Bound(d)'
  BY DEF SnapshotBounds
<1>1. \A c \in isCalls : Bound(c)
  BY DEF IndexInv, SnapshotBounds
<1>2. \A s \in Server : getLastLogIndex(s) \in Nat /\ getLastLogIndex(s)' \in Nat
  <2> SUFFICES ASSUME NEW s \in Server
               PROVE  getLastLogIndex(s) \in Nat /\ getLastLogIndex(s)' \in Nat
    OBVIOUS
  <2>1. /\ m_logs[s] \in Seq(Entry) /\ m_lastSnapshotIncludeIndex[s] \in Nat
        /\ m_logs'[s] \in Seq(Entry) /\ m_lastSnapshotIncludeIndex'[s] \in Nat
    BY DEF IndexInv, TypeOK, ServerTypeOK
  <2> QED BY <2>1 DEF getLastLogIndex
<1>3. ASSUME NEW c \in isCalls, getLastLogIndex(c.from) <= getLastLogIndex(c.from)',
             d.index = c.index, d.from = c.from, c.st # "orphan"
      PROVE  Bound(d)'
  <2>1. c.from \in Server /\ c.index \in Nat
    BY SnapshotCallTypes DEF IndexInv
  <2>2. getLastLogIndex(c.from) \in Nat /\ getLastLogIndex(c.from)' \in Nat
    BY <1>2, <2>1
  <2>3. c.index <= getLastLogIndex(c.from)
    BY <1>1, <1>3
  <2> QED BY <1>3, <2>1, <2>2, <2>3
<1>4. CASE \E s \in Server : Restart(s)
  <2>1. PICK s \in Server : Restart(s)
    BY <1>4
  <2>2. PICK c \in isCalls : /\ c.to # s
                             /\ c.from = s => c.st # "rep"
                             /\ d = IF c.from = s THEN [c EXCEPT !.st = "orphan"] ELSE c
    BY <2>1 DEF Restart, AfterRestart
  <2>3. CASE c.from = s
    <3>1. d.st = "orphan"
      BY <2>2, <2>3, SnapshotCallTypes DEF IndexInv, InstallSnapshotCall
    <3> QED BY <3>1
  <2>4. CASE c.from # s
    <3>1. getLastLogIndex(c.from)' = getLastLogIndex(c.from)
      BY <2>1, <2>4, SnapshotCallTypes
         DEF Restart, getLastLogIndex, IndexInv, TypeOK, ServerTypeOK
    <3>2. d = c
      BY <2>2, <2>4
    <3> QED BY <1>1, <3>1, <3>2
  <2> QED BY <2>3, <2>4
<1>5. CASE ~\E s \in Server : Restart(s)
  <2>1. \A s \in Server : getLastLogIndex(s) <= getLastLogIndex(s)'
    BY <1>5, LogBoundsStep
  <2>2. CASE d \in isCalls
    <3>1. d.from \in Server
      BY <2>2, SnapshotCallTypes DEF IndexInv
    <3> QED BY <1>3, <2>1, <2>2, <3>1
  <2>3. ASSUME NEW t \in snapThreads, leaderSendSnapShot(t), d \notin isCalls
        PROVE  Bound(d)'
    <3>1. t.from \in Server
      BY DEF IndexInv, TypeOK, CallTypeOK
    <3>2. d.index = m_lastSnapshotIncludeIndex[t.from] /\ d.from = t.from
      BY <2>3 DEF leaderSendSnapShot
    <3>3. getLastLogIndex(t.from)' = getLastLogIndex(t.from)
      BY <2>3 DEF leaderSendSnapShot, logVars, getLastLogIndex
    <3>4. /\ m_logs[t.from] \in Seq(Entry) /\ m_lastSnapshotIncludeIndex[t.from] \in Nat
      BY <3>1 DEF IndexInv, TypeOK, ServerTypeOK
    <3>5. m_lastSnapshotIncludeIndex[t.from] <= getLastLogIndex(t.from)
      BY <3>4 DEF getLastLogIndex
    <3> QED BY <3>2, <3>3, <3>5
  <2>4. ASSUME NEW c \in isCalls, d \notin isCalls,
               \/ InstallSnapshotStale(c) \/ InstallSnapshotOutdated(c) \/ InstallSnapshot(c)
        PROVE  Bound(d)'
    <3>1. c \in InstallSnapshotCall /\ c.from \in Server
      BY SnapshotCallTypes DEF IndexInv
    <3>2. PICK u : /\ isCalls' = Reply(isCalls, c, u)
                   /\ u.index = c.index /\ u.from = c.from
      <4>1. CASE InstallSnapshotStale(c)
        <5> DEFINE a == [c EXCEPT !.st = "rep", !.replyTerm = m_currentTerm[c.to]]
        <5>1. a.index = c.index /\ a.from = c.from
          BY <3>1 DEF InstallSnapshotCall
        <5>2. isCalls' = Reply(isCalls, c, a)
          BY <4>1 DEF InstallSnapshotStale
        <5> HIDE DEF a
        <5> QED BY <5>1, <5>2
      <4>2. CASE InstallSnapshotOutdated(c)
        BY <3>1, <4>2 DEF InstallSnapshotOutdated, InstallSnapshotCall
      <4>3. CASE InstallSnapshot(c)
        <5> DEFINE a == [c EXCEPT !.st = "rep", !.replyTerm = c.term]
        <5>1. a.index = c.index /\ a.from = c.from
          BY <3>1 DEF InstallSnapshotCall
        <5>2. isCalls' = Reply(isCalls, c, a)
          BY <4>3 DEF InstallSnapshot
        <5> HIDE DEF a
        <5> QED BY <5>1, <5>2
      <4> QED BY <2>4, <4>1, <4>2, <4>3
    <3>3. c.st = "req" /\ d = u
      BY <2>4, <3>2 DEF Reply
    <3> QED BY <1>3, <2>1, <3>1, <3>2, <3>3
  <2> QED BY <1>5, <2>2, <2>3, <2>4, SnapshotFrame
<1> QED BY <1>4, <1>5

\* The index invariant holds when the servers start.
LEMMA IndexInvInit == Init => IndexInv
<1> SUFFICES ASSUME Init
             PROVE  IndexInv
  OBVIOUS
<1>1. \A s \in Server : getLastLogIndex(s) = 0
  BY DEF Init, getLastLogIndex
<1>2. LogBounds /\ PeerBounds /\ AppendBounds /\ SnapshotBounds
  BY <1>1 DEF Init, LogBounds, PeerBounds, AppendBounds, SnapshotBounds, Leader, Follower
<1>3. TypeOK
  <2>1. EmptyFile \in PersistData
    BY DEF EmptyFile, PersistData
  <2>2. ServerTypeOK
    BY DEF Init, ServerTypeOK, ProcStates
  <2> QED BY <2>1, <2>2 DEF Init, TypeOK, CallTypeOK, HistoryTypeOK
<1> QED BY <1>2, <1>3 DEF IndexInv

\* The index invariant is inductive.
LEMMA IndexInvStep == IndexInv /\ [Next]_vars => IndexInv'
BY TypeStep, LogBoundsStep, PeerBoundsStep, AppendBoundsStep, SnapshotBoundsStep DEF IndexInv

\* The bounds of IndexInv are those of IndexOrder, stated for every process.
LEMMA IndexInvOrder == IndexInv => IndexOrder
<1> SUFFICES ASSUME IndexInv, NEW s \in Server
             PROVE  /\ m_lastSnapshotIncludeIndex[s] <= m_lastApplied[s]
                    /\ m_lastApplied[s] <= m_commitIndex[s]
                    /\ m_commitIndex[s] <= getLastLogIndex(s)
                    /\ m_status[s] = Leader =>
                          \A p \in Server \ {s} :
                             /\ m_nextIndex[s][p] \in 1..(getLastLogIndex(s) + 1)
                             /\ m_matchIndex[s][p] <= getLastLogIndex(s)
  BY DEF IndexOrder, IndexInv
<1>1. ASSUME m_status[s] = Leader, NEW p \in Server \ {s}
      PROVE  /\ m_nextIndex[s][p] \in 1..(getLastLogIndex(s) + 1)
             /\ m_matchIndex[s][p] <= getLastLogIndex(s)
  <2>1. m_nextIndex[s][p] \in Nat /\ getLastLogIndex(s) \in Nat
    BY LogTypes DEF IndexInv, TypeOK, ServerTypeOK
  <2>2. /\ m_nextIndex[s][p] <= getLastLogIndex(s) + 1 /\ m_nextIndex[s][p] >= 1
        /\ m_matchIndex[s][p] <= getLastLogIndex(s)
    BY <1>1 DEF IndexInv, PeerBounds
  <2> QED BY <2>1, <2>2
<1> QED BY <1>1 DEF IndexInv, LogBounds

\* Whatever interleaving of handlers, replies, losses, crashes and restarts:
\* every variable keeps its type, so every log access of the code is in range.
THEOREM TypeCorrect == Spec => []TypeOK
<1>1. IndexInv => TypeOK
  BY DEF IndexInv
<1> QED BY <1>1, IndexInvInit, IndexInvStep, PTL DEF Spec

\* Snapshot boundary, applied, committed and last index of every live server
\* stay in this order, and a leader's nextIndex and matchIndex inside its log.
THEOREM IndexOrderCorrect == Spec => []IndexOrder
BY IndexInvInit, IndexInvStep, IndexInvOrder, PTL DEF Spec

(* What a step hands to persist(), and what it never takes back. *)

\* A step leaves what server p persists alone and does not start its process.
DiskKept(p) ==
    /\ m_currentTerm'[p] = m_currentTerm[p] /\ m_votedFor'[p] = m_votedFor[p]
    /\ m_logs'[p] = m_logs[p]
    /\ m_lastSnapshotIncludeIndex'[p] = m_lastSnapshotIncludeIndex[p]
    /\ disk'[p] = disk[p]
    /\ proc'[p] = "up" => proc[p] = "up"

\* A step writes p's state, in a larger term or with the vote it already gave.
DiskWritten(p) ==
    /\ disk'[p].term = m_currentTerm'[p] /\ disk'[p].votedFor = m_votedFor'[p]
    /\ disk'[p].logs = m_logs'[p]
    /\ disk'[p].snapIndex = m_lastSnapshotIncludeIndex'[p]
    /\ \/ m_currentTerm'[p] > m_currentTerm[p]
       \/ /\ m_currentTerm'[p] = m_currentTerm[p]
          /\ m_votedFor[p] # Nil => m_votedFor'[p] = m_votedFor[p]

\* A step raises p's term without writing it, as sendAppendEntries does.
TermOnly(p) ==
    /\ m_currentTerm'[p] > m_currentTerm[p] /\ m_votedFor'[p] = Nil
    /\ m_logs'[p] = m_logs[p]
    /\ m_lastSnapshotIncludeIndex'[p] = m_lastSnapshotIncludeIndex[p]
    /\ disk'[p] = disk[p]
    /\ proc'[p] = "up" => proc[p] = "up"

\* What any step does to a server and its file.
DiskGoal(p) == DiskKept(p) \/ DiskWritten(p) \/ TermOnly(p) \/ Restart(p)

\* persist() leaves the new state of its server on disk.
LEMMA PersistWrites ==
    ASSUME TypeOK, NEW s \in Server, persist(s)
    PROVE  /\ disk'[s].term = m_currentTerm'[s] /\ disk'[s].votedFor = m_votedFor'[s]
           /\ disk'[s].logs = m_logs'[s]
           /\ disk'[s].snapIndex = m_lastSnapshotIncludeIndex'[s]
           /\ \A p \in Server \ {s} : disk'[p] = disk[p]
BY DEF TypeOK, persist

\* The handlers of elections.
LEMMA DiskVoteSteps ==
    ASSUME IndexInv, NEW p \in Server, NEW c \in rvCalls, VoteStep(c)
    PROVE  DiskGoal(p)
<1>1. c.from \in Server /\ c.to \in Server /\ c.term \in Nat /\ c.replyTerm \in Nat
  BY VoteCallTypes DEF IndexInv
<1>2. /\ m_currentTerm \in [Server -> Nat] /\ m_votedFor \in [Server -> Server \cup {Nil}]
      /\ m_logs \in [Server -> Seq(Entry)] /\ disk \in [Server -> PersistData]
      /\ m_lastSnapshotIncludeIndex \in [Server -> Nat]
      /\ proc \in [Server -> ProcStates] /\ TypeOK
  BY DEF IndexInv, TypeOK, ServerTypeOK
<1> USE DEF DiskGoal, DiskKept, DiskWritten, TermOnly
<1>3. CASE RequestVote(c)
  <2>1. /\ persist(c.to) /\ UNCHANGED <<proc, m_logs, m_lastSnapshotIncludeIndex>>
        /\ m_currentTerm' = [m_currentTerm EXCEPT ![c.to] = Max2(@, c.term)]
        /\ m_votedFor' = [m_votedFor EXCEPT ![c.to] =
                IF GrantsVote(c) THEN c.from ELSE IF NewerTerm(c) THEN Nil ELSE @]
    BY <1>3 DEF RequestVote, logVars
  <2>2. CASE p # c.to
    BY <1>1, <1>2, <2>1, <2>2, PersistWrites
  <2>3. CASE p = c.to
    <3>1. m_currentTerm'[p] = Max2(m_currentTerm[p], c.term)
      BY <1>1, <1>2, <2>1, <2>3
    <3>2. m_votedFor'[p] = IF GrantsVote(c) THEN c.from ELSE IF NewerTerm(c) THEN Nil ELSE m_votedFor[p]
      BY <1>1, <1>2, <2>1, <2>3
    <3>3. \/ m_currentTerm'[p] > m_currentTerm[p]
          \/ /\ m_currentTerm'[p] = m_currentTerm[p]
             /\ m_votedFor[p] # Nil => m_votedFor'[p] = m_votedFor[p]
      BY <1>1, <1>2, <2>3, <3>1, <3>2 DEF GrantsVote, NewerTerm, Max2
    <3> QED BY <1>2, <2>1, <2>3, <3>3, PersistWrites
  <2> QED BY <2>2, <2>3
<1>4. CASE sendRequestVoteNewerTerm(c)
  <2>1. /\ persist(c.from) /\ UNCHANGED <<proc, m_logs, m_lastSnapshotIncludeIndex>>
        /\ StepDown(c.from, c.replyTerm) /\ c.replyTerm > m_currentTerm[c.from]
    BY <1>4 DEF sendRequestVoteNewerTerm, logVars
  <2>2. CASE p # c.from
    BY <1>1, <1>2, <2>1, <2>2, PersistWrites DEF StepDown
  <2>3. CASE p = c.from
    BY <1>1, <1>2, <2>1, <2>3, PersistWrites DEF StepDown
  <2> QED BY <2>2, <2>3
<1>5. CASE sendRequestVoteIgnored(c) \/ sendRequestVoteCounted(c)
  BY <1>5 DEF sendRequestVoteIgnored, sendRequestVoteCounted, serverVars, logVars
<1>6. CASE sendRequestVoteElected(c)
  <2>1. /\ persist(c.from)
        /\ UNCHANGED <<m_currentTerm, m_votedFor, m_logs, m_lastSnapshotIncludeIndex>>
    BY <1>6 DEF sendRequestVoteElected, logVars
  <2>2. proc'[p] = "up" => proc[p] = "up"
    BY <1>1, <1>2, <1>6 DEF sendRequestVoteElected
  <2>3. CASE p # c.from
    BY <1>1, <1>2, <2>1, <2>2, <2>3, PersistWrites
  <2>4. CASE p = c.from
    BY <1>1, <1>2, <2>1, <2>2, <2>4, PersistWrites
  <2> QED BY <2>3, <2>4
<1> QED BY <1>3, <1>4, <1>5, <1>6 DEF VoteStep

\* Following a leader keeps the vote of the own term.
LEMMA FollowKeepsVote ==
    ASSUME TypeOK, NEW s \in Server, NEW term \in Nat, FollowLeader(s, term)
    PROVE  /\ \/ m_currentTerm'[s] > m_currentTerm[s]
              \/ /\ m_currentTerm'[s] = m_currentTerm[s]
                 /\ m_votedFor'[s] = m_votedFor[s]
           /\ \A p \in Server \ {s} : /\ m_currentTerm'[p] = m_currentTerm[p]
                                      /\ m_votedFor'[p] = m_votedFor[p]
           /\ term = m_currentTerm[s] => m_currentTerm'[s] = m_currentTerm[s]
<1>1. m_currentTerm \in [Server -> Nat] /\ m_votedFor \in [Server -> Server \cup {Nil}]
  BY DEF TypeOK, ServerTypeOK
<1> QED BY <1>1 DEF FollowLeader

\* The handlers of AppendEntries and what follows their replies.
LEMMA DiskAppendSteps ==
    ASSUME IndexInv, NEW p \in Server, NEW c \in aeCalls, AppendStep(c)
    PROVE  DiskGoal(p)
<1>1. c.from \in Server /\ c.to \in Server /\ c.term \in Nat /\ c.replyTerm \in Nat
  BY AppendCallTypes DEF IndexInv
<1>2. /\ m_currentTerm \in [Server -> Nat] /\ m_votedFor \in [Server -> Server \cup {Nil}]
      /\ m_logs \in [Server -> Seq(Entry)] /\ disk \in [Server -> PersistData]
      /\ m_lastSnapshotIncludeIndex \in [Server -> Nat]
      /\ proc \in [Server -> ProcStates] /\ TypeOK
  BY DEF IndexInv, TypeOK, ServerTypeOK
<1> USE DEF DiskGoal, DiskKept, DiskWritten, TermOnly
<1>3. CASE AppendEntries1Mismatch(c)
  <2>1. /\ persist(c.to) /\ UNCHANGED <<proc, m_logs, m_lastSnapshotIncludeIndex>>
        /\ FollowLeader(c.to, c.term)
    BY <1>3 DEF AppendEntries1Mismatch, logVars
  <2>2. CASE p # c.to
    BY <1>1, <1>2, <2>1, <2>2, PersistWrites, FollowKeepsVote
  <2>3. CASE p = c.to
    BY <1>1, <1>2, <2>1, <2>3, PersistWrites, FollowKeepsVote
  <2> QED BY <2>2, <2>3
<1>4. CASE AppendEntries1Accept(c)
  <2>1. /\ persist(c.to) /\ UNCHANGED <<proc, m_lastSnapshotIncludeIndex>>
        /\ FollowLeader(c.to, c.term)
        /\ m_logs' = [m_logs EXCEPT ![c.to] = MergedLog(c.to, c.prevLogIndex, c.entries)]
    BY <1>4 DEF AppendEntries1Accept
  <2>2. CASE p # c.to
    BY <1>1, <1>2, <2>1, <2>2, PersistWrites, FollowKeepsVote
  <2>3. CASE p = c.to
    BY <1>1, <1>2, <2>1, <2>3, PersistWrites, FollowKeepsVote
  <2> QED BY <2>2, <2>3
<1>5. CASE sendAppendEntriesNewerTerm(c)
  <2>1. /\ UNCHANGED <<proc, disk, m_logs, m_lastSnapshotIncludeIndex>>
        /\ StepDown(c.from, c.replyTerm) /\ c.replyTerm > m_currentTerm[c.from]
    BY <1>5 DEF sendAppendEntriesNewerTerm, logVars
  <2>2. CASE p # c.from
    BY <1>1, <1>2, <2>1, <2>2 DEF StepDown
  <2>3. CASE p = c.from
    BY <1>1, <1>2, <2>1, <2>3 DEF StepDown
  <2> QED BY <2>2, <2>3
<1>6. CASE AppendEntries1BehindSnapshot(c) \/ AppendEntries1Conflict(c)
  BY <1>1, <1>2, <1>6 DEF AppendEntries1BehindSnapshot, AppendEntries1Conflict, Abort, logVars
<1>7. CASE \/ AppendEntries1Stale(c) \/ sendAppendEntriesIgnored(c)
           \/ sendAppendEntriesRefused(c) \/ sendAppendEntriesAccepted(c)
  BY <1>7 DEF AppendEntries1Stale, sendAppendEntriesIgnored, sendAppendEntriesRefused,
              sendAppendEntriesAccepted, serverVars, logVars
<1> QED BY <1>3, <1>4, <1>5, <1>6, <1>7 DEF AppendStep

\* The handlers of InstallSnapshot and what follows their replies.
LEMMA DiskSnapshotSteps ==
    ASSUME IndexInv, NEW p \in Server, NEW c \in isCalls, SnapshotStep(c)
    PROVE  DiskGoal(p)
<1>1. c.from \in Server /\ c.to \in Server /\ c.term \in Nat /\ c.replyTerm \in Nat
  BY SnapshotCallTypes DEF IndexInv
<1>2. /\ m_currentTerm \in [Server -> Nat] /\ m_votedFor \in [Server -> Server \cup {Nil}]
      /\ m_logs \in [Server -> Seq(Entry)] /\ disk \in [Server -> PersistData]
      /\ m_lastSnapshotIncludeIndex \in [Server -> Nat]
      /\ proc \in [Server -> ProcStates] /\ TypeOK
  BY DEF IndexInv, TypeOK, ServerTypeOK
<1> USE DEF DiskGoal, DiskKept, DiskWritten, TermOnly
<1>3. CASE InstallSnapshotOutdated(c)
  <2>1. /\ UNCHANGED <<proc, m_logs, m_lastSnapshotIncludeIndex>>
        /\ FollowLeader(c.to, c.term)
        /\ IF c.term > m_currentTerm[c.to] THEN persist(c.to) ELSE UNCHANGED disk
    BY <1>3 DEF InstallSnapshotOutdated, logVars
  <2>2. c.term >= m_currentTerm[c.to]
    BY <2>1 DEF FollowLeader
  <2>3. CASE p # c.to
    BY <1>1, <1>2, <2>1, <2>3, PersistWrites, FollowKeepsVote
  <2>4. CASE p = c.to /\ c.term > m_currentTerm[c.to]
    BY <1>1, <1>2, <2>1, <2>4, PersistWrites, FollowKeepsVote
  <2>5. CASE p = c.to /\ c.term = m_currentTerm[c.to]
    BY <1>1, <1>2, <2>1, <2>5, FollowKeepsVote
  <2> QED BY <1>1, <1>2, <2>2, <2>3, <2>4, <2>5
<1>4. CASE InstallSnapshot(c)
  <2>1. /\ persist(c.to) /\ UNCHANGED <<proc>>
        /\ FollowLeader(c.to, c.term)
        /\ m_lastSnapshotIncludeIndex' = [m_lastSnapshotIncludeIndex EXCEPT ![c.to] = c.index]
        /\ \A q \in Server \ {c.to} : m_logs'[q] = m_logs[q]
    BY <1>2, <1>4 DEF InstallSnapshot
  <2>2. CASE p # c.to
    BY <1>1, <1>2, <2>1, <2>2, PersistWrites, FollowKeepsVote
  <2>3. CASE p = c.to
    BY <1>1, <1>2, <2>1, <2>3, PersistWrites, FollowKeepsVote
  <2> QED BY <2>2, <2>3
<1>5. CASE leaderSendSnapShotNewerTerm(c)
  <2>1. /\ persist(c.from) /\ UNCHANGED <<proc, m_logs, m_lastSnapshotIncludeIndex>>
        /\ StepDown(c.from, c.replyTerm) /\ c.replyTerm > m_currentTerm[c.from]
    BY <1>5 DEF leaderSendSnapShotNewerTerm, logVars
  <2>2. CASE p # c.from
    BY <1>1, <1>2, <2>1, <2>2, PersistWrites DEF StepDown
  <2>3. CASE p = c.from
    BY <1>1, <1>2, <2>1, <2>3, PersistWrites DEF StepDown
  <2> QED BY <2>2, <2>3
<1>6. CASE \/ InstallSnapshotStale(c) \/ leaderSendSnapShotIgnored(c)
           \/ leaderSendSnapShotDone(c)
  BY <1>6 DEF InstallSnapshotStale, leaderSendSnapShotIgnored, leaderSendSnapShotDone,
              serverVars, logVars
<1> QED BY <1>3, <1>4, <1>5, <1>6 DEF SnapshotStep

\* Every step leaves a server's disk alone, writes the new state, raises the
\* term without a vote, or starts a new process.
LEMMA DiskFrame ==
    ASSUME IndexInv, [Next]_vars, NEW p \in Server
    PROVE  DiskGoal(p)
<1>2. /\ m_currentTerm \in [Server -> Nat] /\ m_votedFor \in [Server -> Server \cup {Nil}]
      /\ m_logs \in [Server -> Seq(Entry)] /\ disk \in [Server -> PersistData]
      /\ m_lastSnapshotIncludeIndex \in [Server -> Nat]
      /\ proc \in [Server -> ProcStates] /\ TypeOK
  BY DEF IndexInv, TypeOK, ServerTypeOK
<1> USE DEF DiskGoal, DiskKept, DiskWritten, TermOnly
<1>3. ASSUME NEW s \in Server, doElection(s) PROVE DiskGoal(p)
  <2>1. /\ persist(s) /\ UNCHANGED <<proc, m_logs, m_lastSnapshotIncludeIndex>>
        /\ m_currentTerm' = [m_currentTerm EXCEPT ![s] = @ + 1]
        /\ m_votedFor' = [m_votedFor EXCEPT ![s] = s]
    BY <1>3 DEF doElection, logVars
  <2>2. CASE p # s
    BY <1>2, <2>1, <2>2, PersistWrites
  <2>3. CASE p = s
    BY <1>2, <2>1, <2>3, PersistWrites
  <2> QED BY <2>2, <2>3
<1>4. ASSUME NEW s \in Server, NEW command \in Command, Start(s, command) PROVE DiskGoal(p)
  <2>1. /\ persist(s) /\ UNCHANGED <<proc, m_currentTerm, m_votedFor, m_lastSnapshotIncludeIndex>>
        /\ \A q \in Server \ {s} : m_logs'[q] = m_logs[q]
    BY <1>2, <1>4 DEF Start, serverVars
  <2>2. CASE p # s
    BY <1>2, <2>1, <2>2, PersistWrites
  <2>3. CASE p = s
    BY <1>2, <2>1, <2>3, PersistWrites
  <2> QED BY <2>2, <2>3
<1>5. ASSUME NEW s \in Server, NEW index \in 1..m_lastApplied[s], Snapshot(s, index)
      PROVE  DiskGoal(p)
  <2>1. /\ persist(s) /\ UNCHANGED <<proc, m_currentTerm, m_votedFor>>
        /\ \A q \in Server \ {s} :
              /\ m_logs'[q] = m_logs[q]
              /\ m_lastSnapshotIncludeIndex'[q] = m_lastSnapshotIncludeIndex[q]
    BY <1>2, <1>5 DEF Snapshot, serverVars
  <2>2. CASE p # s
    BY <1>2, <2>1, <2>2, PersistWrites
  <2>3. CASE p = s
    BY <1>2, <2>1, <2>3, PersistWrites
  <2> QED BY <2>2, <2>3
<1>6. ASSUME NEW s \in Server, Restart(s) PROVE DiskGoal(p)
  <2>1. CASE p # s
    BY <1>2, <1>6, <2>1 DEF Restart
  <2> QED BY <1>6, <2>1
<1>7. ASSUME NEW s \in Server, doHeartBeat(s) \/ applierTicker(s) \/ Crash(s)
      PROVE  DiskGoal(p)
  BY <1>2, <1>7 DEF doHeartBeat, applierTicker, Crash, Abort, serverVars, logVars
<1>8. ASSUME \/ \E t \in snapThreads : leaderSendSnapShot(t)
             \/ CallFails
             \/ UNCHANGED vars
      PROVE  DiskGoal(p)
  BY <1>8 DEF leaderSendSnapShot, CallFails, vars, serverVars, logVars
<1> HIDE DEF DiskGoal
<1> QED BY <1>3, <1>4, <1>5, <1>6, <1>7, <1>8, DiskVoteSteps, DiskAppendSteps,
           DiskSnapshotSteps DEF Next

\* What is on disk stays what the server answers with.
LEMMA DurableStep ==
    ASSUME IndexInv, Durable, [Next]_vars
    PROVE  Durable'
<1> SUFFICES ASSUME NEW s \in Server, proc'[s] = "up"
             PROVE  /\ disk'[s].logs = m_logs'[s]
                    /\ disk'[s].snapIndex = m_lastSnapshotIncludeIndex'[s]
                    /\ m_votedFor'[s] # Nil => /\ disk'[s].votedFor = m_votedFor'[s]
                                               /\ disk'[s].term = m_currentTerm'[s]
  BY DEF Durable
<1>1. CASE Restart(s)
  <2>1. /\ m_logs \in [Server -> Seq(Entry)] /\ disk \in [Server -> PersistData]
        /\ m_lastSnapshotIncludeIndex \in [Server -> Nat]
        /\ m_votedFor \in [Server -> Server \cup {Nil}]
    BY DEF IndexInv, TypeOK, ServerTypeOK
  <2> QED BY <1>1, <2>1 DEF Restart, EmptyFile
<1>2. CASE DiskWritten(s)
  BY <1>2 DEF DiskWritten
<1>3. CASE DiskKept(s)
  BY <1>3 DEF DiskKept, Durable
<1>4. CASE TermOnly(s)
  BY <1>4 DEF TermOnly, Durable
<1> QED BY <1>1, <1>2, <1>3, <1>4, DiskFrame DEF DiskGoal

\* The vote and the log a live server answers with have been handed to
\* Persister, for every cluster and whatever fails.
THEOREM DurableCorrect == Spec => []Durable
<1>1. Init => Durable
  BY DEF Init, Durable, EmptyFile
<1> QED BY <1>1, IndexInvInit, IndexInvStep, DurableStep, PTL DEF Spec

\* Commit index, applied index and snapshot boundary of a running process only grow.
LEMMA NothingUndone ==
    ASSUME IndexInv, [Next]_vars, NEW s \in Server, proc[s] = "up"
    PROVE  /\ m_commitIndex'[s] >= m_commitIndex[s]
           /\ m_lastApplied'[s] >= m_lastApplied[s]
           /\ m_lastSnapshotIncludeIndex'[s] >= m_lastSnapshotIncludeIndex[s]
<1> DEFINE Goal == /\ m_commitIndex'[s] >= m_commitIndex[s]
                   /\ m_lastApplied'[s] >= m_lastApplied[s]
                   /\ m_lastSnapshotIncludeIndex'[s] >= m_lastSnapshotIncludeIndex[s]
<1>1. /\ m_commitIndex \in [Server -> Nat] /\ m_lastApplied \in [Server -> Nat]
      /\ m_lastSnapshotIncludeIndex \in [Server -> Nat] /\ m_logs \in [Server -> Seq(Entry)]
      /\ proc \in [Server -> ProcStates]
  BY DEF IndexInv, TypeOK, ServerTypeOK
<1>2. CASE UNCHANGED <<logVars, applyVars>>
  BY <1>1, <1>2 DEF logVars, applyVars
<1>3. ASSUME NEW p \in Server, NEW command \in Command, Start(p, command) PROVE Goal
  BY <1>1, <1>3 DEF Start, applyVars
<1>4. ASSUME NEW p \in Server, applierTicker(p) PROVE Goal
  BY <1>1, <1>4 DEF applierTicker, logVars
<1>5. ASSUME NEW p \in Server, NEW index \in 1..m_lastApplied[p], Snapshot(p, index)
      PROVE  Goal
  <2>1. CASE p = s
    BY <1>1, <1>5, <2>1 DEF Snapshot, Max2
  <2>2. CASE p # s
    BY <1>1, <1>5, <2>2 DEF Snapshot
  <2> QED BY <2>1, <2>2
<1>6. ASSUME NEW c \in aeCalls, AppendEntries1Accept(c) PROVE Goal
  <2>1. /\ c.to \in Server /\ c.prevLogIndex \in Nat /\ c.entries \in Seq(Entry)
        /\ c.leaderCommit \in Nat
    BY AppendCallTypes DEF IndexInv
  <2> DEFINE log == MergedLog(c.to, c.prevLogIndex, c.entries)
             last == m_lastSnapshotIncludeIndex[c.to] + Len(log)
  <2>2. /\ m_commitIndex' = [m_commitIndex EXCEPT ![c.to] =
                IF c.leaderCommit > @ THEN Min2(c.leaderCommit, last) ELSE @]
        /\ UNCHANGED <<m_lastSnapshotIncludeIndex, m_lastApplied>>
    BY <1>6 DEF AppendEntries1Accept, FollowerCommit
  <2>3. Len(log) \in Nat /\ Len(log) >= Len(m_logs[c.to])
    <3>1. c.prevLogIndex \in m_lastSnapshotIncludeIndex[c.to]..getLastLogIndex(c.to)
      BY <1>6 DEF AppendEntries1Accept, matchLog
    <3> QED BY <2>1, <3>1, MergedLogType DEF IndexInv
  <2> HIDE DEF log
  <2>4. CASE s # c.to
    BY <1>1, <2>1, <2>2, <2>4
  <2>5. CASE s = c.to
    <3>1. m_commitIndex[s] <= m_lastSnapshotIncludeIndex[s] + Len(m_logs[s])
      BY DEF IndexInv, LogBounds, getLastLogIndex
    <3>2. Len(m_logs[s]) \in Nat
      BY <1>1
    <3>3. m_commitIndex'[s] = IF c.leaderCommit > m_commitIndex[s]
                              THEN Min2(c.leaderCommit, last) ELSE m_commitIndex[s]
      BY <1>1, <2>1, <2>2, <2>5
    <3> QED BY <1>1, <2>1, <2>2, <2>3, <2>5, <3>1, <3>2, <3>3 DEF Min2
  <2> QED BY <2>4, <2>5
<1>7. ASSUME NEW c \in aeCalls, sendAppendEntriesAccepted(c) PROVE Goal
  <2>1. /\ c.from \in Server /\ c.prevLogIndex \in Nat /\ c.entries \in Seq(Entry)
    BY AppendCallTypes DEF IndexInv
  <2>2. Len(c.entries) \in Nat
    BY <2>1
  <2>3. /\ UNCHANGED <<logVars, m_lastApplied>>
        /\ \/ m_commitIndex' = m_commitIndex
           \/ m_commitIndex' = [m_commitIndex EXCEPT ![c.from] =
                  Max2(@, c.prevLogIndex + Len(c.entries))]
    BY <1>1, <1>7, <2>1 DEF sendAppendEntriesAccepted, AcceptedUpTo, Acks
  <2>4. /\ UNCHANGED <<m_lastSnapshotIncludeIndex, m_lastApplied>>
        /\ m_commitIndex[s] \in Nat
    BY <1>1, <2>3 DEF logVars
  <2>5. m_commitIndex'[s] \in {m_commitIndex[s],
                               Max2(m_commitIndex[s], c.prevLogIndex + Len(c.entries))}
    BY <1>1, <2>1, <2>3
  <2>6. m_commitIndex'[s] >= m_commitIndex[s]
    BY <2>1, <2>2, <2>4, <2>5 DEF Max2
  <2> QED BY <1>1, <2>4, <2>6
<1>8. ASSUME NEW c \in isCalls, InstallSnapshot(c) PROVE Goal
  <2>1. c.to \in Server /\ c.index \in Nat
    BY SnapshotCallTypes DEF IndexInv
  <2>2. CASE s = c.to
    BY <1>1, <1>8, <2>1, <2>2 DEF InstallSnapshot, Max2
  <2>3. CASE s # c.to
    BY <1>1, <1>8, <2>1, <2>3 DEF InstallSnapshot
  <2> QED BY <2>2, <2>3
<1>9. ASSUME NEW p \in Server, Restart(p) PROVE Goal
  BY <1>1, <1>9 DEF Restart
<1> QED BY <1>2, <1>3, <1>4, <1>5, <1>6, <1>7, <1>8, <1>9, LogFrame DEF LogStep

\* The term of a running process only grows, and a vote it gave in its term stays.
LEMMA VoteKept ==
    ASSUME IndexInv, [Next]_vars, NEW s \in Server, proc[s] = "up"
    PROVE  /\ m_currentTerm'[s] >= m_currentTerm[s]
           /\ (m_currentTerm'[s] = m_currentTerm[s] /\ m_votedFor[s] # Nil)
                 => m_votedFor'[s] = m_votedFor[s]
<1>1. ~Restart(s)
  BY DEF Restart
<1>2. m_currentTerm[s] \in Nat /\ m_currentTerm'[s] \in Nat
  BY IndexInvStep DEF IndexInv, TypeOK, ServerTypeOK
<1> QED BY <1>1, <1>2, DiskFrame DEF DiskGoal, DiskKept, DiskWritten, TermOnly

\* No step of a running process lowers its term, changes a vote given in it, or
\* takes back a commit, an application or a snapshot.
THEOREM NeverTakesBackCorrect == Spec => NeverTakesBack
<1>1. ASSUME IndexInv, [Next]_vars
      PROVE  \A s \in Server : proc[s] = "up" =>
                /\ m_currentTerm'[s] >= m_currentTerm[s]
                /\ (m_currentTerm'[s] = m_currentTerm[s] /\ m_votedFor[s] # Nil)
                      => m_votedFor'[s] = m_votedFor[s]
                /\ m_commitIndex'[s] >= m_commitIndex[s]
                /\ m_lastApplied'[s] >= m_lastApplied[s]
                /\ m_lastSnapshotIncludeIndex'[s] >= m_lastSnapshotIncludeIndex[s]
  BY <1>1, NothingUndone, VoteKept
<1> QED BY <1>1, IndexInvInit, IndexInvStep, PTL DEF Spec, NeverTakesBack
=============================================================================
