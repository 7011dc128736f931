------------------------------- MODULE MCRaft -------------------------------
(* Small instances of Raft for TLC. *)
EXTENDS Raft, TLC

Symmetry == Permutations(Server) \cup Permutations(Command)

\* The state of a fresh cluster after its first election: l asked all others,
\* was granted every vote and has handled every reply.  Starting here leaves
\* the bounds for what comes after.
LedBy(l) ==
    /\ proc = [s \in Server |-> "up"]
    /\ m_currentTerm = [s \in Server |-> 1]
    /\ m_votedFor = [s \in Server |-> l]
    /\ m_status = [s \in Server |-> IF s = l THEN Leader ELSE Follower]
    /\ m_logs = [s \in Server |-> <<>>]
    /\ m_lastSnapshotIncludeIndex = [s \in Server |-> 0]
    /\ m_lastSnapshotIncludeTerm = [s \in Server |-> 0]
    /\ m_commitIndex = [s \in Server |-> 0]
    /\ m_lastApplied = [s \in Server |-> 0]
    /\ m_nextIndex = [s \in Server |-> [p \in Server |-> IF s = l THEN 1 ELSE 0]]
    /\ m_matchIndex = [s \in Server |-> [p \in Server |-> 0]]
    /\ votedNum = [s \in Server |-> IF s = l THEN Cardinality(Server) - Majority ELSE 0]
    /\ appendNums = [s \in Server |-> [r \in Rounds |-> 0]]
    /\ disk = [s \in Server |-> [EmptyFile EXCEPT !.term = 1, !.votedFor = l]]
    /\ rvCalls = {} /\ aeCalls = {} /\ isCalls = {} /\ snapThreads = {}
    /\ crashes = 0 /\ restarts = 0 /\ losses = 0
    /\ ballots = {<<s, 1, l>> : s \in Server}
    /\ leaders = {<<l, 1>>}
    /\ applied = {}

\* Later in the life of such a cluster: the leader l of term 1 took three commands
\* and got none of them to another server.  Then n won term 2 with the vote of the
\* others; l, whose log is longer, refused it.
Deposed(l, n, e) ==
    LET first == [term |-> 1, command |-> e]
    IN  /\ proc = [s \in Server |-> "up"]
        /\ m_currentTerm = [s \in Server |-> 2]
        /\ m_votedFor = [s \in Server |-> IF s = l THEN Nil ELSE n]
        /\ m_status = [s \in Server |-> IF s = n THEN Leader ELSE Follower]
        /\ m_logs = [s \in Server |-> IF s = l THEN <<first, first, first>> ELSE <<>>]
        /\ m_lastSnapshotIncludeIndex = [s \in Server |-> 0]
        /\ m_lastSnapshotIncludeTerm = [s \in Server |-> 0]
        /\ m_commitIndex = [s \in Server |-> 0]
        /\ m_lastApplied = [s \in Server |-> 0]
        /\ m_nextIndex = [s \in Server |-> [p \in Server |-> IF s \in {l, n} THEN 1 ELSE 0]]
        /\ m_matchIndex = [s \in Server |-> [p \in Server |-> 0]]
        /\ votedNum = [s \in Server |-> IF s = l THEN Cardinality(Server) - Majority ELSE 0]
        /\ appendNums = [s \in Server |-> [r \in Rounds |-> 0]]
        /\ disk = [s \in Server |-> [EmptyFile EXCEPT !.term = 2,
                    !.votedFor = m_votedFor[s], !.logs = m_logs[s]]]
        /\ rvCalls = {} /\ aeCalls = {} /\ isCalls = {} /\ snapThreads = {}
        /\ crashes = 0 /\ restarts = 0 /\ losses = 0
        /\ ballots = {<<s, 1, l>> : s \in Server} \cup {<<s, 2, n>> : s \in Server \ {l}}
        /\ leaders = {<<l, 1>>, <<n, 2>>}
        /\ applied = {}

SpecDeposed ==
    /\ \E l, n \in Server, e \in Command : l # n /\ Deposed(l, n, e)
    /\ [][Next]_vars

\* RaftReplication.cfg looks at a second entry or at snapshots.
SecondEntryOrSnapshots ==
    (\E s \in Server : getLastLogIndex(s) > 1) =>
        \A s \in Server : m_lastSnapshotIncludeIndex[s] = 0

\* RaftRestart.cfg looks at a process that dies, or at a second round of the leader
\* in flight with a second entry or with snapshots.
RestartOrRounds ==
    /\ SecondEntryOrSnapshots
    /\ crashes + restarts > 0 =>
          /\ \A s \in Server : getLastLogIndex(s) <= 1
          /\ \A c \in aeCalls \cup isCalls \cup snapThreads : c.round = 1
          /\ \A s \in Server, r \in Rounds \ {1} : appendNums[s][r] = 0

\* RaftElection.cfg looks at three elections, or at two and what the leaders send.
ThirdElectionOrEntries ==
    aeCalls # {} \/ (\E s \in Server : m_logs[s] # <<>>) =>
        /\ Cardinality({b \in ballots : b[1] = b[3]}) <= 2
        /\ \A s \in Server : m_currentTerm[s] <= 2

SpecLed == (\E l \in Server : LedBy(l)) /\ [][Next]_vars

\* For liveness, checked without symmetry: which server leads does not matter.
First == CHOOSE l \in Server : TRUE
FairSpecLed == LedBy(First) /\ [][Next]_vars /\ Fairness
=============================================================================
