------------------------- MODULE RaftElectionProofs -------------------------
(* At most one leader in a term, elected once and deposed only by a larger    *)
(* term, and one command per index and term, for every cluster whose processes *)
(* are never started a second time (a restart forgets votes and entries, as    *)
(* the Persister constructor truncates its file).                             *)
EXTENDS RaftProofs, FiniteSetTheorems

\* Who voted for s in term t.
Voters(s, t) == {v \in Server : <<v, t, s>> \in ballots}

\* Whose answer, or its handling, is still to come in the term of s.
Pending(s) ==
    {p \in Server : \E c \in rvCalls :
        c.from = s /\ c.to = p /\ c.term = m_currentTerm[s]}

\* No ballot is of a later term than its voter or its candidate knows, and
\* m_votedFor remembers the ballot of the current term.
BallotInv ==
    \A b \in ballots :
        /\ b[2] <= m_currentTerm[b[1]]
        /\ b[2] = m_currentTerm[b[1]] => m_votedFor[b[1]] = b[3]
        /\ b[2] <= m_currentTerm[b[3]]

\* A request is of a term its sender stood in and not yet answered; a granted
\* reply stands for a ballot.
CallInv ==
    \A c \in rvCalls :
        /\ c.to # c.from
        /\ c.term <= m_currentTerm[c.from]
        /\ c.term = m_currentTerm[c.from] => m_votedFor[c.from] = c.from
        /\ c.st = "req" \/ c.st = "rep"
        /\ c.st = "req" => <<c.to, c.term, c.from>> \notin ballots
        /\ c.st = "rep" /\ c.voteGranted =>
              c.replyTerm = c.term /\ <<c.to, c.term, c.from>> \in ballots

\* A candidate asks each peer once in a term.
CallsUnique ==
    \A c, d \in rvCalls :
        c.from = d.from /\ c.to = d.to /\ c.term = d.term => c = d

\* The anonymous counter never exceeds the ballots whose replies were handled.
CountInv ==
    \A s \in Server : m_votedFor[s] = s =>
        votedNum[s] <= Cardinality(Voters(s, m_currentTerm[s]) \ Pending(s))

\* Every election ever won had a majority behind it.
LeaderInv ==
    \A a \in leaders : Cardinality(Voters(a[1], a[2])) >= Majority

\* The inductive invariant of elections.
ElectionInv ==
    /\ restarts = 0
    /\ BallotInv /\ CallInv /\ CallsUnique /\ VoteOnce /\ CountInv /\ LeaderInv

-----------------------------------------------------------------------------
(* Most steps leave the votes alone. *)

\* s stays in its term with its vote, or moves to a later one without a vote.
TermKept(s) == m_currentTerm'[s] = m_currentTerm[s] /\ m_votedFor'[s] = m_votedFor[s]
TermRaised(s) == m_currentTerm'[s] > m_currentTerm[s] /\ m_votedFor'[s] = Nil

\* No ballot is cast and no vote requested.
VotesKept ==
    /\ ballots' = ballots
    /\ rvCalls' \subseteq rvCalls
    /\ restarts' = restarts
    /\ \A s \in Server : TermKept(s) \/ TermRaised(s)

\* Nor is a vote counted or a leader elected.
Quiet == VotesKept /\ votedNum' = votedNum /\ leaders' = leaders

\* Stepping down for a larger term raises the term of one server.
LEMMA StepDownRaises ==
    ASSUME TypeOK, NEW p \in Server, NEW term \in Nat, term > m_currentTerm[p],
           StepDown(p, term)
    PROVE  \A s \in Server : TermKept(s) \/ TermRaised(s)
BY DEF TypeOK, ServerTypeOK, StepDown, TermKept, TermRaised

\* So does following a leader, unless it is of the same term.
LEMMA FollowRaises ==
    ASSUME TypeOK, NEW p \in Server, NEW term \in Nat, FollowLeader(p, term)
    PROVE  \A s \in Server : TermKept(s) \/ TermRaised(s)
<1> SUFFICES ASSUME NEW s \in Server
             PROVE  TermKept(s) \/ TermRaised(s)
  OBVIOUS
<1>1. m_currentTerm[p] \in Nat
  BY DEF TypeOK, ServerTypeOK
<1>2. CASE s # p
  BY <1>2 DEF TypeOK, ServerTypeOK, FollowLeader, TermKept
<1>3. CASE s = p /\ term > m_currentTerm[p]
  BY <1>3 DEF TypeOK, ServerTypeOK, FollowLeader, TermRaised
<1>4. CASE s = p /\ term = m_currentTerm[p]
  BY <1>4 DEF TypeOK, ServerTypeOK, FollowLeader, TermKept
<1> QED BY <1>1, <1>2, <1>3, <1>4 DEF FollowLeader

\* Every step other than the election itself is quiet.
LEMMA ElectionFrame ==
    ASSUME TypeOK, MaxRestarts = 0, restarts = 0, [Next]_vars
    PROVE  \/ Quiet
           \/ \E s \in Server : doElection(s)
           \/ \E c \in rvCalls : \/ RequestVote(c) \/ sendRequestVoteCounted(c)
                                 \/ sendRequestVoteElected(c)
<1> USE DEF serverVars, logVars, applyVars, leaderVars, netVars, faultVars, voteVars
<1>1. ASSUME UNCHANGED <<m_currentTerm, m_votedFor>>
      PROVE  \A s \in Server : TermKept(s) \/ TermRaised(s)
  BY <1>1 DEF TermKept
<1>2. ASSUME NEW s \in Server,
             \/ doHeartBeat(s) \/ applierTicker(s) \/ Crash(s)
             \/ \E command \in Command : Start(s, command)
             \/ \E index \in 1..m_lastApplied[s] : Snapshot(s, index)
      PROVE  Quiet
  <2>1. UNCHANGED <<m_currentTerm, m_votedFor, ballots, rvCalls, restarts, votedNum, leaders>>
    BY <1>2 DEF doHeartBeat, applierTicker, Crash, Start, Snapshot
  <2> QED BY <1>1, <2>1 DEF Quiet, VotesKept
<1>3. ASSUME NEW s \in Server, Restart(s)
      PROVE  FALSE
  BY <1>3 DEF Restart
<1>4. ASSUME NEW c \in rvCalls, sendRequestVoteNewerTerm(c)
      PROVE  Quiet
  <2>1. c.from \in Server /\ c.replyTerm \in Nat
    BY VoteCallTypes
  <2>2. \A s \in Server : TermKept(s) \/ TermRaised(s)
    BY <1>4, <2>1, StepDownRaises DEF sendRequestVoteNewerTerm
  <2> QED BY <1>4, <2>2 DEF sendRequestVoteNewerTerm, Quiet, VotesKept
<1>5. ASSUME NEW c \in rvCalls, sendRequestVoteIgnored(c)
      PROVE  Quiet
  BY <1>1, <1>5 DEF sendRequestVoteIgnored, Quiet, VotesKept
<1>6. ASSUME NEW c \in aeCalls, AppendStep(c)
      PROVE  Quiet
  <2>1. c.from \in Server /\ c.to \in Server /\ c.term \in Nat /\ c.replyTerm \in Nat
    BY AppendCallTypes
  <2>2. UNCHANGED <<ballots, rvCalls, restarts, votedNum, leaders>>
    BY <1>6 DEF AppendStep, AppendEntries1Stale, AppendEntries1Mismatch,
                AppendEntries1BehindSnapshot, AppendEntries1Conflict, AppendEntries1Accept,
                sendAppendEntriesNewerTerm, sendAppendEntriesIgnored,
                sendAppendEntriesRefused, sendAppendEntriesAccepted
  <2>3. \/ UNCHANGED <<m_currentTerm, m_votedFor>>
        \/ FollowLeader(c.to, c.term)
        \/ c.replyTerm > m_currentTerm[c.from] /\ StepDown(c.from, c.replyTerm)
    BY <1>6 DEF AppendStep, AppendEntries1Stale, AppendEntries1Mismatch,
                AppendEntries1BehindSnapshot, AppendEntries1Conflict, AppendEntries1Accept,
                sendAppendEntriesNewerTerm, sendAppendEntriesIgnored,
                sendAppendEntriesRefused, sendAppendEntriesAccepted
  <2>4. \A s \in Server : TermKept(s) \/ TermRaised(s)
    BY <1>1, <2>1, <2>3, StepDownRaises, FollowRaises
  <2> QED BY <2>2, <2>4 DEF Quiet, VotesKept
<1>7. ASSUME NEW c \in isCalls, SnapshotStep(c)
      PROVE  Quiet
  <2>1. c.from \in Server /\ c.to \in Server /\ c.term \in Nat /\ c.replyTerm \in Nat
    BY SnapshotCallTypes
  <2>2. UNCHANGED <<ballots, rvCalls, restarts, votedNum, leaders>>
    BY <1>7 DEF SnapshotStep, InstallSnapshotStale, InstallSnapshotOutdated, InstallSnapshot,
                leaderSendSnapShotIgnored, leaderSendSnapShotNewerTerm, leaderSendSnapShotDone
  <2>3. \/ UNCHANGED <<m_currentTerm, m_votedFor>>
        \/ FollowLeader(c.to, c.term)
        \/ c.replyTerm > m_currentTerm[c.from] /\ StepDown(c.from, c.replyTerm)
    BY <1>7 DEF SnapshotStep, InstallSnapshotStale, InstallSnapshotOutdated, InstallSnapshot,
                leaderSendSnapShotIgnored, leaderSendSnapShotNewerTerm, leaderSendSnapShotDone
  <2>4. \A s \in Server : TermKept(s) \/ TermRaised(s)
    BY <1>1, <2>1, <2>3, StepDownRaises, FollowRaises
  <2> QED BY <2>2, <2>4 DEF Quiet, VotesKept
<1>8. ASSUME \/ \E t \in snapThreads : leaderSendSnapShot(t)
             \/ CallFails
             \/ UNCHANGED vars
      PROVE  Quiet
  <2>1. UNCHANGED <<m_currentTerm, m_votedFor, ballots, restarts, votedNum, leaders>>
    BY <1>8 DEF leaderSendSnapShot, CallFails, vars
  <2>2. rvCalls' \subseteq rvCalls
    BY <1>8 DEF leaderSendSnapShot, CallFails, vars
  <2> QED BY <1>1, <2>1, <2>2 DEF Quiet, VotesKept
<1> QED BY <1>2, <1>3, <1>4, <1>5, <1>6, <1>7, <1>8 DEF Next, VoteStep

-----------------------------------------------------------------------------
(* The parts of ElectionInv, one step at a time. *)

\* Sets of servers can be counted.
LEMMA ServerSubsets ==
    ASSUME NEW S, S \subseteq Server
    PROVE  IsFiniteSet(S) /\ Cardinality(S) \in Nat
BY ServerAssumption, FS_Subset, FS_CardinalityType

\* When no vote is cast or asked for, what is known of the votes stays true.
LEMMA KeptVotes ==
    ASSUME TypeOK, TypeOK', ElectionInv, VotesKept
    PROVE  /\ restarts' = 0
           /\ BallotInv' /\ CallInv' /\ CallsUnique' /\ VoteOnce'
<1>1. /\ m_currentTerm \in [Server -> Nat]
      /\ \A b \in ballots : b[1] \in Server /\ b[2] \in Nat /\ b[3] \in Server
  BY DEF TypeOK, ServerTypeOK, HistoryTypeOK
<1>2. \A s \in Server : \/ TermKept(s) /\ m_currentTerm'[s] \in Nat
                        \/ TermRaised(s) /\ m_currentTerm[s] \in Nat
  BY <1>1 DEF VotesKept, TermKept, TermRaised
<1>3. restarts' = 0 /\ VoteOnce' /\ CallsUnique'
  BY DEF VotesKept, ElectionInv, VoteOnce, CallsUnique
<1>4. BallotInv'
  <2> SUFFICES ASSUME NEW b \in ballots
               PROVE  /\ b[2] <= m_currentTerm'[b[1]]
                      /\ b[2] = m_currentTerm'[b[1]] => m_votedFor'[b[1]] = b[3]
                      /\ b[2] <= m_currentTerm'[b[3]]
    BY DEF BallotInv, VotesKept
  <2>1. /\ b[1] \in Server /\ b[2] \in Nat /\ b[3] \in Server
        /\ b[2] <= m_currentTerm[b[1]]
        /\ b[2] = m_currentTerm[b[1]] => m_votedFor[b[1]] = b[3]
        /\ b[2] <= m_currentTerm[b[3]]
    BY <1>1 DEF ElectionInv, BallotInv
  <2>2. m_currentTerm[b[1]] \in Nat /\ m_currentTerm[b[3]] \in Nat
    BY <1>1, <2>1
  <2>3. \/ m_currentTerm'[b[1]] = m_currentTerm[b[1]] /\ m_votedFor'[b[1]] = m_votedFor[b[1]]
        \/ m_currentTerm'[b[1]] > m_currentTerm[b[1]]
    BY <1>2, <2>1 DEF TermKept, TermRaised
  <2>4. m_currentTerm'[b[3]] = m_currentTerm[b[3]] \/ m_currentTerm'[b[3]] > m_currentTerm[b[3]]
    BY <1>2, <2>1 DEF TermKept, TermRaised
  <2>5. m_currentTerm'[b[1]] \in Nat /\ m_currentTerm'[b[3]] \in Nat
    BY <2>1 DEF TypeOK, ServerTypeOK
  <2> QED BY <2>1, <2>2, <2>3, <2>4, <2>5
<1>5. CallInv'
  <2> SUFFICES ASSUME NEW c \in rvCalls
               PROVE  /\ c.term <= m_currentTerm'[c.from]
                      /\ c.term = m_currentTerm'[c.from] => m_votedFor'[c.from] = c.from
    BY DEF CallInv, VotesKept, ElectionInv
  <2>1. c.from \in Server /\ c.term \in Nat
    BY VoteCallTypes
  <2>2. /\ c.term <= m_currentTerm[c.from]
        /\ c.term = m_currentTerm[c.from] => m_votedFor[c.from] = c.from
    BY DEF ElectionInv, CallInv
  <2>3. m_currentTerm[c.from] \in Nat /\ m_currentTerm'[c.from] \in Nat
    BY <1>1, <2>1 DEF TypeOK, ServerTypeOK
  <2>4. \/ /\ m_currentTerm'[c.from] = m_currentTerm[c.from]
           /\ m_votedFor'[c.from] = m_votedFor[c.from]
        \/ m_currentTerm'[c.from] > m_currentTerm[c.from]
    BY <1>2, <2>1 DEF TermKept, TermRaised
  <2> QED BY <2>1, <2>2, <2>3, <2>4
<1> QED BY <1>3, <1>4, <1>5

\* The handled ballots of a candidate that stays in its term can only become
\* more: calls disappear, ballots do not.
LEMMA KeptCount ==
    ASSUME TypeOK, TypeOK', ElectionInv, VotesKept, NEW s \in Server, m_votedFor'[s] = s
    PROVE  /\ m_votedFor[s] = s
           /\ Cardinality(Voters(s, m_currentTerm[s]) \ Pending(s))
                 <= Cardinality(Voters(s, m_currentTerm[s]) \ Pending(s))'
<1>1. m_votedFor[s] = s /\ m_currentTerm'[s] = m_currentTerm[s]
  BY NilAssumption DEF VotesKept, TermKept, TermRaised
<1>2. Voters(s, m_currentTerm[s])' = Voters(s, m_currentTerm[s])
  BY <1>1 DEF Voters, VotesKept
<1>3. Pending(s)' \subseteq Pending(s)
  BY <1>1 DEF Pending, VotesKept
<1>4. Voters(s, m_currentTerm[s]) \ Pending(s) \subseteq (Voters(s, m_currentTerm[s]) \ Pending(s))'
  BY <1>2, <1>3
<1>5. IsFiniteSet((Voters(s, m_currentTerm[s]) \ Pending(s))')
  <2>1. (Voters(s, m_currentTerm[s]) \ Pending(s))' \subseteq Server
    BY DEF Voters
  <2> QED BY <2>1, ServerSubsets
<1>6. Cardinality(Voters(s, m_currentTerm[s]) \ Pending(s))
        <= Cardinality((Voters(s, m_currentTerm[s]) \ Pending(s))')
  BY <1>4, <1>5, FS_Subset
<1> QED BY <1>1, <1>6

\* A quiet step keeps the whole invariant.
LEMMA QuietStep ==
    ASSUME TypeOK, TypeOK', ElectionInv, Quiet
    PROVE  ElectionInv'
<1>1. VotesKept
  BY DEF Quiet
<1>2. /\ restarts' = 0
      /\ BallotInv' /\ CallInv' /\ CallsUnique' /\ VoteOnce'
  BY <1>1, KeptVotes
<1>3. CountInv'
  <2> SUFFICES ASSUME NEW s \in Server, m_votedFor'[s] = s
               PROVE  votedNum'[s] <= Cardinality(Voters(s, m_currentTerm[s]) \ Pending(s))'
    BY DEF CountInv
  <2>1. /\ m_votedFor[s] = s
        /\ Cardinality(Voters(s, m_currentTerm[s]) \ Pending(s))
              <= Cardinality(Voters(s, m_currentTerm[s]) \ Pending(s))'
    BY <1>1, KeptCount
  <2>2. votedNum'[s] = votedNum[s] /\ votedNum[s] \in Nat
    BY DEF Quiet, TypeOK, ServerTypeOK
  <2>3. votedNum[s] <= Cardinality(Voters(s, m_currentTerm[s]) \ Pending(s))
    BY <2>1 DEF ElectionInv, CountInv
  <2>4. /\ Cardinality(Voters(s, m_currentTerm[s]) \ Pending(s)) \in Nat
        /\ Cardinality(Voters(s, m_currentTerm[s]) \ Pending(s))' \in Nat
    <3>1. /\ Voters(s, m_currentTerm[s]) \ Pending(s) \subseteq Server
          /\ (Voters(s, m_currentTerm[s]) \ Pending(s))' \subseteq Server
      BY DEF Voters
    <3> QED BY <3>1, ServerSubsets
  <2> QED BY <2>1, <2>2, <2>3, <2>4
<1>4. LeaderInv'
  BY DEF Quiet, VotesKept, ElectionInv, LeaderInv, Voters, Majority
<1> QED BY <1>2, <1>3, <1>4 DEF ElectionInv

\* Handling a granted reply turns one pending ballot into a handled one, so
\* the counter may go up by one; and the ballot is in the current term.
LEMMA CountedBallot ==
    ASSUME TypeOK, ElectionInv, NEW c \in rvCalls, CountsVote(c), rvCalls' = rvCalls \ {c},
           UNCHANGED <<ballots, m_currentTerm, m_votedFor>>
    PROVE  /\ c.from \in Server /\ m_votedFor[c.from] = c.from
           /\ votedNum[c.from] + 1
                 <= Cardinality((Voters(c.from, m_currentTerm[c.from]) \ Pending(c.from))')
           /\ votedNum[c.from] + 1 <= Cardinality(Voters(c.from, m_currentTerm[c.from]))
<1> DEFINE s == c.from
           t == m_currentTerm[s]
           before == Voters(s, t) \ Pending(s)
           after == (Voters(s, t) \ Pending(s))'
<1>1. c.from \in Server /\ c.to \in Server
  BY VoteCallTypes
<1>2. /\ c.st = "rep" /\ c.voteGranted /\ c.replyTerm = t
  BY DEF CountsVote, Answered
<1>3. c.term = t /\ <<c.to, t, s>> \in ballots
  BY <1>2 DEF ElectionInv, CallInv
<1>4. m_votedFor[s] = s
  BY <1>3 DEF ElectionInv, CallInv
<1>5. c.to \in Pending(s) /\ c.to \in Voters(s, t)
  BY <1>1, <1>3 DEF Pending, Voters
<1>6. Pending(s)' = Pending(s) \ {c.to}
  <2>1. ASSUME NEW d \in rvCalls, d.from = s, d.to = c.to, d.term = t
        PROVE  d = c
    BY <1>3, <2>1 DEF ElectionInv, CallsUnique
  <2>2. ASSUME NEW p \in Pending(s), p # c.to
        PROVE  p \in Pending(s)'
    <3>1. PICK d \in rvCalls : d.from = s /\ d.to = p /\ d.term = t
      BY <2>2 DEF Pending
    <3>2. d \in rvCalls' /\ m_currentTerm'[s] = t
      BY <2>2, <3>1
    <3>3. p \in Server
      BY <2>2 DEF Pending
    <3> QED BY <3>1, <3>2, <3>3 DEF Pending
  <2>3. ASSUME NEW p \in Pending(s)'
        PROVE  p \in Pending(s) /\ p # c.to
    <3>1. PICK d \in rvCalls \ {c} : d.from = s /\ d.to = p /\ d.term = t
      BY <2>3 DEF Pending
    <3>2. p \in Server
      BY <2>3 DEF Pending
    <3> QED BY <2>1, <3>1, <3>2 DEF Pending
  <2> QED BY <2>2, <2>3
<1>7. Voters(s, t)' = Voters(s, t)
  BY DEF Voters
<1>8. after = before \cup {c.to} /\ c.to \notin before
  BY <1>5, <1>6, <1>7
<1>9. /\ before \subseteq Server /\ after \subseteq Server /\ Voters(s, t) \subseteq Server
      /\ after \subseteq Voters(s, t)
  BY <1>7 DEF Voters
<1>10. votedNum[s] \in Nat /\ votedNum[s] <= Cardinality(before)
  BY <1>1, <1>4 DEF TypeOK, ServerTypeOK, ElectionInv, CountInv
<1> HIDE DEF before, after, t
<1>11. /\ Cardinality(after) = Cardinality(before) + 1
       /\ Cardinality(before) \in Nat
  BY <1>8, <1>9, ServerSubsets, FS_AddElement
<1>12. Cardinality(after) <= Cardinality(Voters(s, t)) /\ Cardinality(Voters(s, t)) \in Nat
  BY <1>9, ServerSubsets, FS_Subset
<1>13. /\ votedNum[s] + 1 <= Cardinality(after)
       /\ votedNum[s] + 1 <= Cardinality(Voters(s, t))
  BY <1>10, <1>11, <1>12
<1> QED BY <1>1, <1>4, <1>13 DEF after, t

\* Counting a vote keeps the invariant.
LEMMA CountedStep ==
    ASSUME TypeOK, TypeOK', ElectionInv, NEW c \in rvCalls, sendRequestVoteCounted(c)
    PROVE  ElectionInv'
<1> USE DEF sendRequestVoteCounted, serverVars, faultVars
<1>1. VotesKept
  BY DEF VotesKept, TermKept
<1>2. /\ restarts' = 0
      /\ BallotInv' /\ CallInv' /\ CallsUnique' /\ VoteOnce'
  BY <1>1, KeptVotes
<1>3. CountInv'
  <2> SUFFICES ASSUME NEW s \in Server, m_votedFor'[s] = s
               PROVE  votedNum'[s] <= Cardinality((Voters(s, m_currentTerm[s]) \ Pending(s))')
    BY DEF CountInv
  <2>1. CASE s = c.from
    <3>1. votedNum'[s] = votedNum[s] + 1
      BY <2>1 DEF TypeOK, ServerTypeOK
    <3> QED BY <2>1, <3>1, CountedBallot
  <2>2. CASE s # c.from
    <3>1. /\ m_votedFor[s] = s
          /\ Cardinality(Voters(s, m_currentTerm[s]) \ Pending(s))
                <= Cardinality((Voters(s, m_currentTerm[s]) \ Pending(s))')
      BY <1>1, KeptCount
    <3>2. votedNum'[s] = votedNum[s] /\ votedNum[s] \in Nat
      BY <2>2 DEF TypeOK, ServerTypeOK
    <3>3. votedNum[s] <= Cardinality(Voters(s, m_currentTerm[s]) \ Pending(s))
      BY <3>1 DEF ElectionInv, CountInv
    <3>4. /\ Voters(s, m_currentTerm[s]) \ Pending(s) \subseteq Server
          /\ (Voters(s, m_currentTerm[s]) \ Pending(s))' \subseteq Server
      BY DEF Voters
    <3>5. /\ Cardinality(Voters(s, m_currentTerm[s]) \ Pending(s)) \in Nat
          /\ Cardinality((Voters(s, m_currentTerm[s]) \ Pending(s))') \in Nat
      BY <3>4, ServerSubsets
    <3> QED BY <3>1, <3>2, <3>3, <3>5
  <2> QED BY <2>1, <2>2
<1>4. LeaderInv'
  BY DEF ElectionInv, LeaderInv, Voters, Majority
<1> QED BY <1>2, <1>3, <1>4 DEF ElectionInv

\* Winning: the counter says majority, and that many ballots exist.
LEMMA ElectedStep ==
    ASSUME TypeOK, TypeOK', ElectionInv, NEW c \in rvCalls, sendRequestVoteElected(c)
    PROVE  ElectionInv'
<1> USE DEF sendRequestVoteElected, faultVars
<1>1. VotesKept
  BY DEF VotesKept, TermKept
<1>2. /\ restarts' = 0
      /\ BallotInv' /\ CallInv' /\ CallsUnique' /\ VoteOnce'
  BY <1>1, KeptVotes
<1>3. CountInv'
  <2> SUFFICES ASSUME NEW s \in Server, m_votedFor'[s] = s
               PROVE  votedNum'[s] <= Cardinality((Voters(s, m_currentTerm[s]) \ Pending(s))')
    BY DEF CountInv
  <2>1. /\ Voters(s, m_currentTerm[s]) \ Pending(s) \subseteq Server
        /\ (Voters(s, m_currentTerm[s]) \ Pending(s))' \subseteq Server
    BY DEF Voters
  <2>2. /\ Cardinality(Voters(s, m_currentTerm[s]) \ Pending(s)) \in Nat
        /\ Cardinality((Voters(s, m_currentTerm[s]) \ Pending(s))') \in Nat
    BY <2>1, ServerSubsets
  <2>3. CASE s = c.from
    <3>1. votedNum'[s] = 0
      BY <2>3 DEF TypeOK, ServerTypeOK
    <3> QED BY <2>2, <3>1
  <2>4. CASE s # c.from
    <3>1. /\ m_votedFor[s] = s
          /\ Cardinality(Voters(s, m_currentTerm[s]) \ Pending(s))
                <= Cardinality((Voters(s, m_currentTerm[s]) \ Pending(s))')
      BY <1>1, KeptCount
    <3>2. votedNum'[s] = votedNum[s] /\ votedNum[s] \in Nat
      BY <2>4 DEF TypeOK, ServerTypeOK
    <3>3. votedNum[s] <= Cardinality(Voters(s, m_currentTerm[s]) \ Pending(s))
      BY <3>1 DEF ElectionInv, CountInv
    <3> QED BY <2>2, <3>1, <3>2, <3>3
  <2> QED BY <2>3, <2>4
<1>4. LeaderInv'
  <2> SUFFICES ASSUME NEW a \in leaders'
               PROVE  Cardinality(Voters(a[1], a[2])) >= Majority
    BY DEF LeaderInv, Voters, Majority
  <2>1. CASE a \in leaders
    BY <2>1 DEF ElectionInv, LeaderInv
  <2>2. CASE a = <<c.from, m_currentTerm[c.from]>>
    <3>1. votedNum[c.from] + 1 <= Cardinality(Voters(c.from, m_currentTerm[c.from]))
      BY CountedBallot
    <3>2. c.from \in Server /\ votedNum[c.from] \in Nat
      BY VoteCallTypes DEF TypeOK, ServerTypeOK
    <3>3. Majority \in Nat
      BY ServerSubsets DEF Majority
    <3>4. Cardinality(Voters(c.from, m_currentTerm[c.from])) \in Nat
      BY ServerSubsets DEF Voters
    <3> QED BY <2>2, <3>1, <3>2, <3>3, <3>4
  <2> QED BY <2>1, <2>2
<1> QED BY <1>2, <1>3, <1>4 DEF ElectionInv

\* A set of servers has at least as many members as a part of it.
LEMMA LargerSet ==
    ASSUME NEW A, NEW B, A \subseteq B, B \subseteq Server
    PROVE  Cardinality(A) <= Cardinality(B) /\ Cardinality(A) \in Nat /\ Cardinality(B) \in Nat
<1>1. A \subseteq Server
  OBVIOUS
<1> QED BY <1>1, ServerSubsets, FS_Subset

\* Ballots are never taken back, so a majority stays a majority.
LEMMA LeadersKept ==
    ASSUME ElectionInv, ballots \subseteq ballots', leaders' = leaders
    PROVE  LeaderInv'
<1> SUFFICES ASSUME NEW a \in leaders
             PROVE  Cardinality(Voters(a[1], a[2])') >= Majority
  BY DEF LeaderInv, Majority
<1>1. Voters(a[1], a[2]) \subseteq Voters(a[1], a[2])' /\ Voters(a[1], a[2])' \subseteq Server
  BY DEF Voters
<1>2. /\ Cardinality(Voters(a[1], a[2])) <= Cardinality(Voters(a[1], a[2])')
      /\ Cardinality(Voters(a[1], a[2])) \in Nat /\ Cardinality(Voters(a[1], a[2])') \in Nat
  BY <1>1, LargerSet
<1>3. Majority \in Nat
  BY ServerSubsets DEF Majority
<1>4. Cardinality(Voters(a[1], a[2])) >= Majority
  BY DEF ElectionInv, LeaderInv
<1> QED BY <1>2, <1>3, <1>4

\* A candidate's count stays covered while it keeps its term, ballots are only
\* added and calls only answered or dropped.
LEMMA CountKept ==
    ASSUME TypeOK, ElectionInv, NEW s \in Server, m_votedFor[s] = s,
           m_currentTerm'[s] = m_currentTerm[s], votedNum'[s] = votedNum[s],
           ballots \subseteq ballots', Pending(s)' \subseteq Pending(s)
    PROVE  votedNum'[s] <= Cardinality((Voters(s, m_currentTerm[s]) \ Pending(s))')
<1>1. /\ Voters(s, m_currentTerm[s]) \ Pending(s)
            \subseteq (Voters(s, m_currentTerm[s]) \ Pending(s))'
      /\ (Voters(s, m_currentTerm[s]) \ Pending(s))' \subseteq Server
  BY DEF Voters
<1>2. /\ Cardinality(Voters(s, m_currentTerm[s]) \ Pending(s))
            <= Cardinality((Voters(s, m_currentTerm[s]) \ Pending(s))')
      /\ Cardinality(Voters(s, m_currentTerm[s]) \ Pending(s)) \in Nat
      /\ Cardinality((Voters(s, m_currentTerm[s]) \ Pending(s))') \in Nat
  BY <1>1, LargerSet
<1>3. votedNum[s] <= Cardinality(Voters(s, m_currentTerm[s]) \ Pending(s)) /\ votedNum[s] \in Nat
  BY DEF ElectionInv, CountInv, TypeOK, ServerTypeOK
<1> QED BY <1>2, <1>3

\* Standing for election: the term is new, so nobody has asked or voted in it.
LEMMA StandStep ==
    ASSUME TypeOK, ElectionInv, NEW s \in Server, doElection(s)
    PROVE  ElectionInv'
<1> DEFINE t == m_currentTerm[s] + 1
           mine == <<s, t, s>>
<1>1. /\ m_currentTerm[s] \in Nat /\ t \in Nat /\ t > m_currentTerm[s]
      /\ m_currentTerm' = [m_currentTerm EXCEPT ![s] = t] /\ m_currentTerm \in [Server -> Nat]
      /\ m_votedFor' = [m_votedFor EXCEPT ![s] = s] /\ m_votedFor \in [Server -> Server \cup {Nil}]
      /\ votedNum' = [votedNum EXCEPT ![s] = 1] /\ votedNum \in [Server -> Nat]
      /\ ballots' = ballots \cup {mine}
      /\ leaders' = leaders /\ restarts' = restarts
  BY DEF doElection, TypeOK, ServerTypeOK, faultVars
<1>2. /\ m_currentTerm'[s] = t /\ m_votedFor'[s] = s /\ votedNum'[s] = 1
      /\ \A p \in Server \ {s} : /\ m_currentTerm'[p] = m_currentTerm[p]
                                 /\ m_votedFor'[p] = m_votedFor[p]
                                 /\ votedNum'[p] = votedNum[p]
  BY <1>1
<1>3. ASSUME NEW c \in rvCalls'
      PROVE  \/ c \in rvCalls
             \/ /\ c.from = s /\ c.to \in Server \ {s} /\ c.term = t /\ c.st = "req"
                /\ c = RequestVoteArgs(s, c.to)
  BY DEF doElection, RequestVoteArgs
<1>4. \A b \in ballots : b[1] \in Server /\ b[2] \in Nat /\ b[3] \in Server
  BY DEF TypeOK, HistoryTypeOK
<1>5. \A b \in ballots : /\ b[1] = s => b[2] < t
                         /\ b[3] = s => b[2] < t
  <2> SUFFICES ASSUME NEW b \in ballots
               PROVE  /\ b[1] = s => b[2] < t
                      /\ b[3] = s => b[2] < t
    OBVIOUS
  <2>1. b[2] \in Nat /\ b[2] <= m_currentTerm[b[1]] /\ b[2] <= m_currentTerm[b[3]]
    BY <1>4 DEF ElectionInv, BallotInv
  <2> QED BY <1>1, <2>1
<1>6. \A c \in rvCalls : c.from = s => c.term < t
  <2> SUFFICES ASSUME NEW c \in rvCalls, c.from = s
               PROVE  c.term < t
    OBVIOUS
  <2>1. c.term \in Nat /\ c.term <= m_currentTerm[s]
    BY VoteCallTypes DEF ElectionInv, CallInv
  <2> QED BY <1>1, <2>1
<1> HIDE DEF t
<1>7. BallotInv'
  <2> SUFFICES ASSUME NEW b \in ballots'
               PROVE  /\ b[2] <= m_currentTerm'[b[1]]
                      /\ b[2] = m_currentTerm'[b[1]] => m_votedFor'[b[1]] = b[3]
                      /\ b[2] <= m_currentTerm'[b[3]]
    BY DEF BallotInv
  <2>1. CASE b = mine
    BY <1>1, <1>2, <2>1
  <2>2. CASE b \in ballots
    <3>1. /\ b[1] \in Server /\ b[2] \in Nat /\ b[3] \in Server
          /\ b[2] <= m_currentTerm[b[1]]
          /\ b[2] = m_currentTerm[b[1]] => m_votedFor[b[1]] = b[3]
          /\ b[2] <= m_currentTerm[b[3]]
      BY <1>4, <2>2 DEF ElectionInv, BallotInv
    <3>2. /\ b[1] = s => b[2] < t
          /\ b[3] = s => b[2] < t
      BY <1>5, <2>2
    <3>3. /\ b[2] <= m_currentTerm'[b[1]]
          /\ b[2] = m_currentTerm'[b[1]] => m_votedFor'[b[1]] = b[3]
      <4>1. CASE b[1] = s
        BY <1>1, <1>2, <3>1, <3>2, <4>1
      <4>2. CASE b[1] # s
        BY <1>2, <3>1, <4>2
      <4> QED BY <4>1, <4>2
    <3>4. b[2] <= m_currentTerm'[b[3]]
      <4>1. CASE b[3] = s
        BY <1>1, <1>2, <3>1, <3>2, <4>1
      <4>2. CASE b[3] # s
        BY <1>2, <3>1, <4>2
      <4> QED BY <4>1, <4>2
    <3> QED BY <3>3, <3>4
  <2> QED BY <1>1, <2>1, <2>2
<1>8. CallInv'
  <2> SUFFICES ASSUME NEW c \in rvCalls'
               PROVE  /\ c.to # c.from
                      /\ c.term <= m_currentTerm'[c.from]
                      /\ c.term = m_currentTerm'[c.from] => m_votedFor'[c.from] = c.from
                      /\ c.st = "req" \/ c.st = "rep"
                      /\ c.st = "req" => <<c.to, c.term, c.from>> \notin ballots'
                      /\ c.st = "rep" /\ c.voteGranted =>
                            c.replyTerm = c.term /\ <<c.to, c.term, c.from>> \in ballots'
    BY DEF CallInv
  <2>1. CASE c \in rvCalls
    <3>1. /\ c.from \in Server /\ c.term \in Nat
      BY <2>1, VoteCallTypes
    <3>2. /\ c.to # c.from
          /\ c.term <= m_currentTerm[c.from]
          /\ c.term = m_currentTerm[c.from] => m_votedFor[c.from] = c.from
          /\ c.st = "req" \/ c.st = "rep"
          /\ c.st = "req" => <<c.to, c.term, c.from>> \notin ballots
          /\ c.st = "rep" /\ c.voteGranted =>
                c.replyTerm = c.term /\ <<c.to, c.term, c.from>> \in ballots
      BY <2>1 DEF ElectionInv, CallInv
    <3>3. <<c.to, c.term, c.from>> # mine
      BY <3>2
    <3>4. /\ c.term <= m_currentTerm'[c.from]
          /\ c.term = m_currentTerm'[c.from] => m_votedFor'[c.from] = c.from
      <4>1. CASE c.from = s
        BY <1>1, <1>2, <3>1, <4>1, <1>6, <2>1
      <4>2. CASE c.from # s
        BY <1>2, <3>1, <3>2, <4>2
      <4> QED BY <4>1, <4>2
    <3> QED BY <1>1, <3>2, <3>3, <3>4
  <2>2. CASE /\ c.from = s /\ c.to \in Server \ {s} /\ c.term = t /\ c.st = "req"
    <3>1. <<c.to, c.term, c.from>> \notin ballots
      <4> SUFFICES ASSUME <<c.to, c.term, c.from>> \in ballots
                   PROVE  FALSE
        OBVIOUS
      <4>1. t < t
        BY <1>5, <2>2
      <4> QED BY <1>1, <4>1
    <3>2. <<c.to, c.term, c.from>> # mine
      BY <2>2
    <3> QED BY <1>1, <1>2, <2>2, <3>1, <3>2
  <2> QED BY <1>3, <2>1, <2>2
<1>9. CallsUnique'
  <2> SUFFICES ASSUME NEW c \in rvCalls', NEW d \in rvCalls',
                      c.from = d.from, c.to = d.to, c.term = d.term
               PROVE  c = d
    BY DEF CallsUnique
  <2>1. CASE c \in rvCalls /\ d \in rvCalls
    BY <2>1 DEF ElectionInv, CallsUnique
  <2>2. CASE c \notin rvCalls /\ d \notin rvCalls
    BY <1>3, <2>2
  <2>3. ASSUME NEW e \in rvCalls, NEW f \in rvCalls', f \notin rvCalls, e.from = f.from,
               e.term = f.term
        PROVE  FALSE
    <3>1. f.from = s /\ f.term = t
      BY <1>3, <2>3
    <3>2. t < t
      BY <1>6, <2>3, <3>1
    <3> QED BY <1>1, <3>2
  <2> QED BY <2>1, <2>2, <2>3
<1>10. VoteOnce'
  <2> SUFFICES ASSUME NEW a \in ballots', NEW b \in ballots', a[1] = b[1], a[2] = b[2]
               PROVE  a[3] = b[3]
    BY DEF VoteOnce
  <2>1. CASE a \in ballots /\ b \in ballots
    BY <2>1 DEF ElectionInv, VoteOnce
  <2>2. ASSUME NEW e \in ballots, e[1] = s, e[2] = t
        PROVE  FALSE
    <3>1. t < t
      BY <1>5, <2>2
    <3> QED BY <1>1, <3>1
  <2>3. mine[1] = s /\ mine[2] = t /\ mine[3] = s
    OBVIOUS
  <2> QED BY <1>1, <2>1, <2>2, <2>3
<1>11. CountInv'
  <2> SUFFICES ASSUME NEW p \in Server, m_votedFor'[p] = p
               PROVE  votedNum'[p] <= Cardinality((Voters(p, m_currentTerm[p]) \ Pending(p))')
    BY DEF CountInv
  <2>1. CASE p = s
    <3>1. s \in Voters(s, m_currentTerm[s])'
      BY <1>1, <1>2 DEF Voters
    <3>2. s \notin Pending(s)'
      <4>1. \A c \in rvCalls' : c.to # c.from
        BY <1>8 DEF CallInv
      <4> QED BY <4>1 DEF Pending
    <3>3. /\ {s} \subseteq (Voters(s, m_currentTerm[s]) \ Pending(s))'
          /\ (Voters(s, m_currentTerm[s]) \ Pending(s))' \subseteq Server
      BY <3>1, <3>2 DEF Voters
    <3>4. Cardinality({s}) <= Cardinality((Voters(s, m_currentTerm[s]) \ Pending(s))')
      BY <3>3, LargerSet
    <3> QED BY <1>2, <2>1, <3>4, FS_Singleton
  <2>2. CASE p # s
    <3>1. Pending(p)' \subseteq Pending(p)
      <4>1. \A c \in rvCalls' : c.from = p => c \in rvCalls
        BY <1>3, <2>2
      <4> QED BY <1>2, <2>2, <4>1 DEF Pending
    <3>2. /\ m_votedFor[p] = p /\ m_currentTerm'[p] = m_currentTerm[p]
          /\ votedNum'[p] = votedNum[p]
      BY <1>2, <2>2
    <3>3. ballots \subseteq ballots'
      BY <1>1
    <3> QED BY <3>1, <3>2, <3>3, CountKept
  <2> QED BY <2>1, <2>2
<1>12. LeaderInv'
  BY <1>1, LeadersKept
<1> QED BY <1>1, <1>7, <1>8, <1>9, <1>10, <1>11, <1>12 DEF ElectionInv

\* Voting: a new ballot is of the voter's new term, in which it either had no
\* vote or had voted for the same candidate; the request becomes its reply.
LEMMA VoteStepInv ==
    ASSUME TypeOK, ElectionInv, NEW c \in rvCalls, RequestVote(c)
    PROVE  ElectionInv'
<1> DEFINE v == c.to
           x == c.from
           grant == GrantsVote(c)
           mine == <<v, c.term, x>>
           d == [c EXCEPT !.st = "rep", !.replyTerm = Max2(m_currentTerm[v], c.term),
                          !.voteGranted = grant]
<1>1. /\ v \in Server /\ x \in Server /\ c.term \in Nat /\ c \in RequestVoteCall
  BY VoteCallTypes
<1>2. /\ v # x /\ c.term <= m_currentTerm[x]
      /\ c.term = m_currentTerm[x] => m_votedFor[x] = x
      /\ c.st = "req" \/ c.st = "rep"
  BY DEF ElectionInv, CallInv
<1>3. c.st = "req"
  BY <1>2 DEF RequestVote, Waiting
<1>4. /\ m_currentTerm \in [Server -> Nat] /\ m_votedFor \in [Server -> Server \cup {Nil}]
      /\ m_currentTerm[v] \in Nat /\ m_currentTerm[x] \in Nat
  BY <1>1 DEF TypeOK, ServerTypeOK
\* The voter's term and vote after the step.
<1>5. /\ m_currentTerm'[v] = Max2(m_currentTerm[v], c.term)
      /\ m_votedFor'[v] = IF grant THEN x
                          ELSE IF c.term > m_currentTerm[v] THEN Nil ELSE m_votedFor[v]
      /\ \A p \in Server \ {v} : /\ m_currentTerm'[p] = m_currentTerm[p]
                                 /\ m_votedFor'[p] = m_votedFor[p]
  BY <1>1, <1>4 DEF RequestVote, NewerTerm
<1>6. /\ m_currentTerm'[v] \in Nat /\ m_currentTerm'[v] >= m_currentTerm[v]
      /\ m_currentTerm'[v] > m_currentTerm[v]
            \/ (m_currentTerm'[v] = m_currentTerm[v] /\ ~(c.term > m_currentTerm[v]))
  BY <1>1, <1>4, <1>5 DEF Max2
<1>7. grant => /\ m_currentTerm'[v] = c.term /\ m_votedFor'[v] = x
               /\ m_currentTerm[v] < c.term
                     \/ (m_currentTerm[v] = c.term /\ m_votedFor[v] \in {Nil, x})
  BY <1>1, <1>4, <1>5 DEF GrantsVote, Max2
<1>8. /\ ballots' = IF grant THEN ballots \cup {mine} ELSE ballots
      /\ rvCalls' = (rvCalls \ {c}) \cup {d}
      /\ votedNum' = votedNum /\ leaders' = leaders /\ restarts' = restarts
  BY <1>3 DEF RequestVote, Reply, faultVars
<1>9. /\ d.from = x /\ d.to = v /\ d.term = c.term /\ d.st = "rep"
      /\ d.voteGranted = grant /\ d.replyTerm = m_currentTerm'[v]
  BY <1>1, <1>5 DEF RequestVoteCall
<1>10. mine[1] = v /\ mine[2] = c.term /\ mine[3] = x /\ ballots \subseteq ballots'
  BY <1>8
<1>11. \A b \in ballots : b[1] \in Server /\ b[2] \in Nat /\ b[3] \in Server
  BY DEF TypeOK, HistoryTypeOK
<1> HIDE DEF d, grant, mine
\* A vote that stands in the term after the step was there before it.
<1>12. ASSUME NEW y \in Server, NEW k \in Nat, k <= m_currentTerm[v],
              k = m_currentTerm[v] => m_votedFor[v] = y, k = m_currentTerm'[v]
       PROVE  m_votedFor'[v] = y
  <2>1. m_currentTerm[v] = k /\ m_votedFor[v] = y /\ ~(c.term > m_currentTerm[v])
    BY <1>4, <1>6, <1>12
  <2>2. CASE grant
    <3>1. m_votedFor[v] \in {Nil, x}
      BY <1>1, <1>4, <1>7, <2>1, <2>2
    <3> QED BY <1>7, <2>1, <2>2, <3>1, NilAssumption
  <2>3. CASE ~grant
    BY <1>5, <2>1, <2>3
  <2> QED BY <2>2, <2>3
<1>13. BallotInv'
  <2> SUFFICES ASSUME NEW b \in ballots'
               PROVE  /\ b[2] <= m_currentTerm'[b[1]]
                      /\ b[2] = m_currentTerm'[b[1]] => m_votedFor'[b[1]] = b[3]
                      /\ b[2] <= m_currentTerm'[b[3]]
    BY DEF BallotInv
  <2>1. CASE grant /\ b = mine
    <3>1. m_currentTerm'[x] = m_currentTerm[x]
      BY <1>1, <1>2, <1>5
    <3> QED BY <1>1, <1>2, <1>7, <1>10, <2>1, <3>1
  <2>2. CASE b \in ballots
    <3>1. /\ b[1] \in Server /\ b[2] \in Nat /\ b[3] \in Server
          /\ b[2] <= m_currentTerm[b[1]]
          /\ b[2] = m_currentTerm[b[1]] => m_votedFor[b[1]] = b[3]
          /\ b[2] <= m_currentTerm[b[3]]
      BY <1>11, <2>2 DEF ElectionInv, BallotInv
    <3>2. b[2] <= m_currentTerm'[b[1]]
      <4>1. CASE b[1] = v
        BY <1>4, <1>6, <3>1, <4>1
      <4>2. CASE b[1] # v
        BY <1>5, <3>1, <4>2
      <4> QED BY <4>1, <4>2
    <3>3. b[2] <= m_currentTerm'[b[3]]
      <4>1. CASE b[3] = v
        BY <1>4, <1>6, <3>1, <4>1
      <4>2. CASE b[3] # v
        BY <1>5, <3>1, <4>2
      <4> QED BY <4>1, <4>2
    <3>4. b[2] = m_currentTerm'[b[1]] => m_votedFor'[b[1]] = b[3]
      <4>1. CASE b[1] = v
        BY <1>12, <3>1, <4>1
      <4>2. CASE b[1] # v
        BY <1>5, <3>1, <4>2
      <4> QED BY <4>1, <4>2
    <3> QED BY <3>2, <3>3, <3>4
  <2> QED BY <1>8, <2>1, <2>2
<1>14. CallInv'
  <2> SUFFICES ASSUME NEW e \in rvCalls'
               PROVE  /\ e.to # e.from
                      /\ e.term <= m_currentTerm'[e.from]
                      /\ e.term = m_currentTerm'[e.from] => m_votedFor'[e.from] = e.from
                      /\ e.st = "req" \/ e.st = "rep"
                      /\ e.st = "req" => <<e.to, e.term, e.from>> \notin ballots'
                      /\ e.st = "rep" /\ e.voteGranted =>
                            e.replyTerm = e.term /\ <<e.to, e.term, e.from>> \in ballots'
    BY DEF CallInv
  <2>1. CASE e \in rvCalls /\ e # c
    <3>1. e.from \in Server /\ e.term \in Nat
      BY <2>1, VoteCallTypes
    <3>2. /\ e.to # e.from
          /\ e.term <= m_currentTerm[e.from]
          /\ e.term = m_currentTerm[e.from] => m_votedFor[e.from] = e.from
          /\ e.st = "req" \/ e.st = "rep"
          /\ e.st = "req" => <<e.to, e.term, e.from>> \notin ballots
          /\ e.st = "rep" /\ e.voteGranted =>
                e.replyTerm = e.term /\ <<e.to, e.term, e.from>> \in ballots
      BY <2>1 DEF ElectionInv, CallInv
    <3>3. <<e.to, e.term, e.from>> # mine
      BY <2>1 DEF ElectionInv, CallsUnique, mine
    <3>4. e.term <= m_currentTerm'[e.from]
      <4>1. CASE e.from = v
        BY <1>4, <1>6, <3>1, <3>2, <4>1
      <4>2. CASE e.from # v
        BY <1>5, <3>1, <3>2, <4>2
      <4> QED BY <4>1, <4>2
    <3>5. e.term = m_currentTerm'[e.from] => m_votedFor'[e.from] = e.from
      <4>1. CASE e.from = v
        BY <1>12, <3>1, <3>2, <4>1
      <4>2. CASE e.from # v
        BY <1>5, <3>1, <3>2, <4>2
      <4> QED BY <4>1, <4>2
    <3> QED BY <1>8, <3>2, <3>3, <3>4, <3>5
  <2>2. CASE e = d
    <3>1. /\ m_currentTerm'[x] = m_currentTerm[x] /\ m_votedFor'[x] = m_votedFor[x]
      BY <1>1, <1>2, <1>5
    <3>2. grant => mine \in ballots' /\ m_currentTerm'[v] = c.term
      BY <1>7, <1>8
    <3> QED BY <1>2, <1>9, <2>2, <3>1, <3>2 DEF mine
  <2> QED BY <1>8, <2>1, <2>2
<1>15. CallsUnique'
  <2> SUFFICES ASSUME NEW e \in rvCalls', NEW f \in rvCalls',
                      e.from = f.from, e.to = f.to, e.term = f.term
               PROVE  e = f
    BY DEF CallsUnique
  <2>1. CASE e \in rvCalls /\ f \in rvCalls
    BY <2>1 DEF ElectionInv, CallsUnique
  <2>2. ASSUME NEW g \in rvCalls \ {c}, g.from = d.from, g.to = d.to, g.term = d.term
        PROVE  FALSE
    BY <1>9, <2>2 DEF ElectionInv, CallsUnique
  <2> QED BY <1>8, <2>1, <2>2
<1>16. VoteOnce'
  <2> SUFFICES ASSUME NEW a \in ballots', NEW b \in ballots', a[1] = b[1], a[2] = b[2]
               PROVE  a[3] = b[3]
    BY DEF VoteOnce
  <2>1. CASE a \in ballots /\ b \in ballots
    BY <2>1 DEF ElectionInv, VoteOnce
  <2>2. ASSUME NEW e \in ballots, grant, e[1] = v, e[2] = c.term
        PROVE  e[3] = x
    <3>1. e \in ballots'
      BY <1>10
    <3>2. m_votedFor'[v] = e[3]
      BY <1>7, <1>13, <2>2, <3>1 DEF BallotInv
    <3> QED BY <1>7, <2>2, <3>2
  <2> QED BY <1>8, <1>10, <2>1, <2>2
<1>17. CountInv'
  <2> SUFFICES ASSUME NEW s \in Server, m_votedFor'[s] = s
               PROVE  votedNum'[s] <= Cardinality((Voters(s, m_currentTerm[s]) \ Pending(s))')
    BY DEF CountInv
  <2>1. m_votedFor[s] = s /\ m_currentTerm'[s] = m_currentTerm[s]
    <3>1. CASE s = v
      <4>1. ~grant
        BY <1>2, <1>7, <3>1
      <4>2. ~(c.term > m_currentTerm[v])
        BY <1>1, <1>5, <3>1, <4>1, NilAssumption
      <4>3. m_votedFor[v] = v
        BY <1>5, <3>1, <4>1, <4>2
      <4>4. m_currentTerm'[v] = m_currentTerm[v]
        BY <1>1, <1>4, <1>5, <4>2 DEF Max2
      <4> QED BY <3>1, <4>3, <4>4
    <3>2. CASE s # v
      BY <1>5, <3>2
    <3> QED BY <3>1, <3>2
  <2>2. Pending(s)' \subseteq Pending(s)
    <3>1. ASSUME NEW p \in Pending(s)'
          PROVE  p \in Pending(s)
      <4>1. PICK e \in rvCalls' : e.from = s /\ e.to = p /\ e.term = m_currentTerm[s]
        BY <2>1 DEF Pending
      <4>2. \E f \in rvCalls : f.from = s /\ f.to = p /\ f.term = m_currentTerm[s]
        BY <1>8, <1>9, <4>1
      <4>3. p \in Server
        BY DEF Pending
      <4> QED BY <4>2, <4>3 DEF Pending
    <3> QED BY <3>1
  <2> QED BY <1>8, <1>10, <2>1, <2>2, CountKept
<1>18. LeaderInv'
  BY <1>8, <1>10, LeadersKept
<1> QED BY <1>8, <1>13, <1>14, <1>15, <1>16, <1>17, <1>18 DEF ElectionInv

-----------------------------------------------------------------------------
\* Before the first election there is nothing to count.
LEMMA ElectionInvInit == Init => ElectionInv
<1> SUFFICES ASSUME Init
             PROVE  ElectionInv
  OBVIOUS
<1>1. \A s \in Server : m_votedFor[s] # s
  BY NilAssumption DEF Init
<1> QED BY <1>1 DEF Init, ElectionInv, BallotInv, CallInv, CallsUnique, VoteOnce, CountInv,
                    LeaderInv

\* The invariant is inductive as long as no process restarts.
LEMMA ElectionInvStep ==
    ASSUME MaxRestarts = 0, TypeOK, TypeOK', ElectionInv, [Next]_vars
    PROVE  ElectionInv'
<1>1. restarts = 0
  BY DEF ElectionInv
<1> QED BY <1>1, ElectionFrame, QuietStep, StandStep, VoteStepInv, CountedStep, ElectedStep

\* Two majorities of one term share a voter, and no voter votes twice.
LEMMA ElectionInvSafe == ElectionInv => ElectionSafety
<1> SUFFICES ASSUME ElectionInv, NEW a \in leaders, NEW b \in leaders, a[2] = b[2]
             PROVE  a[1] = b[1]
  BY DEF ElectionSafety
<1> DEFINE A == Voters(a[1], a[2])
           B == Voters(b[1], b[2])
           n == Cardinality(Server)
<1>1. A \subseteq Server /\ B \subseteq Server
  BY DEF Voters
<1>2. /\ Cardinality(A) \in Nat /\ Cardinality(B) \in Nat /\ n \in Nat
  BY <1>1, ServerSubsets
<1>3. Cardinality(A) >= Majority /\ Cardinality(B) >= Majority
  BY DEF ElectionInv, LeaderInv
<1>4. Cardinality(A) + Cardinality(B) > n
  <2> HIDE DEF A, B, n
  <2>1. Majority = (n \div 2) + 1
    BY DEF Majority, n
  <2>2. 2 * (n \div 2) + 2 > n /\ n \div 2 \in Nat
    BY <1>2
  <2> QED BY <1>2, <1>3, <2>1, <2>2
<1>5. A \cap B # {}
  BY <1>1, <1>4, ServerAssumption, FS_MajoritiesIntersect
<1>6. PICK v \in Server : <<v, a[2], a[1]>> \in ballots /\ <<v, b[2], b[1]>> \in ballots
  BY <1>5 DEF Voters
<1>7. /\ <<v, a[2], a[1]>>[1] = v /\ <<v, a[2], a[1]>>[2] = a[2] /\ <<v, a[2], a[1]>>[3] = a[1]
      /\ <<v, b[2], b[1]>>[1] = v /\ <<v, b[2], b[1]>>[2] = b[2] /\ <<v, b[2], b[1]>>[3] = b[1]
  OBVIOUS
<1> QED BY <1>6, <1>7 DEF ElectionInv, VoteOnce

\* No server votes for two candidates in a term, and no two servers ever win
\* the same term, in every cluster whose processes are not restarted: whatever
\* messages are lost, delayed or reordered, and whatever processes die.
THEOREM ElectionSafetyCorrect ==
    ASSUME MaxRestarts = 0
    PROVE  Spec => [](VoteOnce /\ ElectionSafety)
<1>1. IndexInv /\ ElectionInv /\ [Next]_vars => (IndexInv /\ ElectionInv)'
  BY IndexInvStep, ElectionInvStep DEF IndexInv
<1>2. Init => IndexInv /\ ElectionInv
  BY IndexInvInit, ElectionInvInit
<1>3. IndexInv /\ ElectionInv => VoteOnce /\ ElectionSafety
  BY ElectionInvSafe DEF ElectionInv
<1> QED BY <1>1, <1>2, <1>3, PTL DEF Spec
-----------------------------------------------------------------------------
(* A leader is elected once in a term and stays until a larger one. *)

\* What a step may do to the role of s: nothing; leave it in a larger term; be
\* elected; follow an AppendEntries or InstallSnapshot of its own term.
RoleKept(s) == m_status'[s] = m_status[s] /\ m_currentTerm'[s] = m_currentTerm[s]
RoleLeft(s) == m_status'[s] # Leader /\ (m_status[s] # Leader \/ m_currentTerm'[s] > m_currentTerm[s])
RoleWon(s) == \E c \in rvCalls : c.from = s /\ sendRequestVoteElected(c)
RoleTaken(s) ==
    /\ m_status'[s] = Follower
    /\ \E c \in aeCalls \cup isCalls : c.to = s /\ c.term = m_currentTerm[s]

\* What any step does to the role of a server.
RoleGoal(s) == RoleKept(s) \/ RoleLeft(s) \/ RoleWon(s) \/ RoleTaken(s)

\* Following a leader of a larger term, or of the same one.
LEMMA FollowRole ==
    ASSUME TypeOK, NEW s \in Server, NEW c \in aeCalls \cup isCalls, c.to \in Server,
           c.term \in Nat, FollowLeader(c.to, c.term)
    PROVE  RoleKept(s) \/ RoleLeft(s) \/ RoleTaken(s)
<1>1. /\ m_currentTerm \in [Server -> Nat]
      /\ m_status \in [Server -> {Follower, Candidate, Leader}]
  BY DEF TypeOK, ServerTypeOK
<1>2. CASE s # c.to
  BY <1>1, <1>2 DEF FollowLeader, RoleKept
<1>3. CASE s = c.to /\ c.term > m_currentTerm[s]
  BY <1>1, <1>3 DEF FollowLeader, RoleLeft, Follower, Leader
<1>4. CASE s = c.to /\ c.term = m_currentTerm[s]
  BY <1>1, <1>4 DEF FollowLeader, RoleTaken
<1> QED BY <1>1, <1>2, <1>3, <1>4 DEF FollowLeader

\* Stepping down is for a larger term.
LEMMA StepDownRole ==
    ASSUME TypeOK, NEW s \in Server, NEW p \in Server, NEW term \in Nat,
           term > m_currentTerm[p], StepDown(p, term)
    PROVE  RoleKept(s) \/ RoleLeft(s)
<1>1. /\ m_currentTerm \in [Server -> Nat]
      /\ m_status \in [Server -> {Follower, Candidate, Leader}]
  BY DEF TypeOK, ServerTypeOK
<1>2. CASE s # p
  BY <1>1, <1>2 DEF StepDown, RoleKept
<1>3. CASE s = p
  BY <1>1, <1>3 DEF StepDown, RoleLeft, Follower, Leader
<1> QED BY <1>2, <1>3

\* No other step changes a role.
LEMMA RoleFrame ==
    ASSUME TypeOK, MaxRestarts = 0, restarts = 0, [Next]_vars, NEW s \in Server
    PROVE  RoleGoal(s)
<1>0. /\ m_currentTerm \in [Server -> Nat]
      /\ m_status \in [Server -> {Follower, Candidate, Leader}]
  BY DEF TypeOK, ServerTypeOK
<1> USE DEF RoleGoal
<1>1. ASSUME UNCHANGED <<m_currentTerm, m_status>> PROVE RoleGoal(s)
  BY <1>1 DEF RoleKept
<1>2. ASSUME NEW p \in Server,
             \/ doHeartBeat(p) \/ applierTicker(p) \/ Crash(p)
             \/ \E command \in Command : Start(p, command)
             \/ \E index \in 1..m_lastApplied[p] : Snapshot(p, index)
      PROVE  RoleGoal(s)
  <2>1. UNCHANGED <<m_currentTerm, m_status>>
    BY <1>2 DEF doHeartBeat, applierTicker, Crash, Start, Snapshot, serverVars
  <2> QED BY <1>1, <2>1
<1>3. ASSUME NEW p \in Server, Restart(p) PROVE FALSE
  BY <1>3 DEF Restart
<1>4. ASSUME NEW p \in Server, doElection(p) PROVE RoleGoal(s)
  <2>1. CASE s # p
    BY <1>0, <1>4, <2>1 DEF doElection, RoleKept
  <2>2. CASE s = p
    BY <1>0, <1>4, <2>2 DEF doElection, RoleLeft, Candidate, Leader
  <2> QED BY <2>1, <2>2
<1>5. ASSUME NEW c \in rvCalls, VoteStep(c) PROVE RoleGoal(s)
  <2>1. c.from \in Server /\ c.to \in Server /\ c.term \in Nat /\ c.replyTerm \in Nat
    BY VoteCallTypes
  <2>2. CASE RequestVote(c)
    <3>1. /\ m_currentTerm' = [m_currentTerm EXCEPT ![c.to] = Max2(@, c.term)]
          /\ m_status' = [m_status EXCEPT ![c.to] = IF NewerTerm(c) THEN Follower ELSE @]
      BY <2>2 DEF RequestVote
    <3>2. CASE s # c.to
      BY <1>0, <3>1, <3>2 DEF RoleKept
    <3>3. CASE s = c.to /\ NewerTerm(c)
      BY <1>0, <2>1, <3>1, <3>3 DEF RoleLeft, NewerTerm, Max2, Follower, Leader
    <3>4. CASE s = c.to /\ ~NewerTerm(c)
      BY <1>0, <2>1, <3>1, <3>4 DEF RoleKept, NewerTerm, Max2
    <3> QED BY <3>2, <3>3, <3>4
  <2>3. CASE sendRequestVoteNewerTerm(c)
    BY <2>1, <2>3, StepDownRole DEF sendRequestVoteNewerTerm
  <2>4. CASE sendRequestVoteIgnored(c) \/ sendRequestVoteCounted(c)
    BY <1>1, <2>4 DEF sendRequestVoteIgnored, sendRequestVoteCounted, serverVars
  <2>5. CASE sendRequestVoteElected(c)
    <3>1. CASE s = c.from
      BY <2>5, <3>1 DEF RoleWon
    <3>2. CASE s # c.from
      BY <1>0, <2>5, <3>2 DEF sendRequestVoteElected, RoleKept
    <3> QED BY <3>1, <3>2
  <2> QED BY <1>5, <2>2, <2>3, <2>4, <2>5 DEF VoteStep
<1>6. ASSUME NEW c \in aeCalls, AppendStep(c) PROVE RoleGoal(s)
  <2>1. c.from \in Server /\ c.to \in Server /\ c.term \in Nat /\ c.replyTerm \in Nat
    BY AppendCallTypes
  <2>2. \/ UNCHANGED <<m_currentTerm, m_status>>
        \/ FollowLeader(c.to, c.term)
        \/ c.replyTerm > m_currentTerm[c.from] /\ StepDown(c.from, c.replyTerm)
    BY <1>6 DEF AppendStep, AppendEntries1Stale, AppendEntries1Mismatch,
                AppendEntries1BehindSnapshot, AppendEntries1Conflict, AppendEntries1Accept,
                sendAppendEntriesNewerTerm, sendAppendEntriesIgnored,
                sendAppendEntriesRefused, sendAppendEntriesAccepted, serverVars
  <2> QED BY <1>1, <2>1, <2>2, FollowRole, StepDownRole
<1>7. ASSUME NEW c \in isCalls, SnapshotStep(c) PROVE RoleGoal(s)
  <2>1. c.from \in Server /\ c.to \in Server /\ c.term \in Nat /\ c.replyTerm \in Nat
    BY SnapshotCallTypes
  <2>2. \/ UNCHANGED <<m_currentTerm, m_status>>
        \/ FollowLeader(c.to, c.term)
        \/ c.replyTerm > m_currentTerm[c.from] /\ StepDown(c.from, c.replyTerm)
    BY <1>7 DEF SnapshotStep, InstallSnapshotStale, InstallSnapshotOutdated, InstallSnapshot,
                leaderSendSnapShotIgnored, leaderSendSnapShotNewerTerm, leaderSendSnapShotDone,
                serverVars
  <2> QED BY <1>1, <2>1, <2>2, FollowRole, StepDownRole
<1>8. ASSUME \/ \E t \in snapThreads : leaderSendSnapShot(t)
             \/ CallFails
             \/ UNCHANGED vars
      PROVE  RoleGoal(s)
  BY <1>1, <1>8 DEF leaderSendSnapShot, CallFails, vars, serverVars
<1> HIDE DEF RoleGoal
<1> QED BY <1>2, <1>3, <1>4, <1>5, <1>6, <1>7, <1>8 DEF Next

\* The counter of a leader and the replies still to come cannot make a second
\* majority.
WonInv ==
    \A s \in Server : m_status[s] = Leader =>
        votedNum[s] + Cardinality(Pending(s)) < Majority

\* A leader that stays one has no new replies to come.
LEMMA PendingShrinks ==
    ASSUME TypeOK, MaxRestarts = 0, restarts = 0, [Next]_vars, NEW s \in Server,
           m_status[s] = Leader, m_currentTerm'[s] = m_currentTerm[s]
    PROVE  Pending(s)' \subseteq Pending(s)
<1>1. ASSUME NEW c \in rvCalls', c.from = s
      PROVE  \E d \in rvCalls : d.from = c.from /\ d.to = c.to /\ d.term = c.term
  <2>1. CASE rvCalls' \subseteq rvCalls
    BY <2>1
  <2>2. ASSUME NEW p \in Server, doElection(p)
        PROVE  \E d \in rvCalls : d.from = c.from /\ d.to = c.to /\ d.term = c.term
    <3>1. p # s
      BY <2>2 DEF doElection
    <3>2. c \in rvCalls
      BY <1>1, <2>2, <3>1 DEF doElection, RequestVoteArgs
    <3> QED BY <3>2
  <2>3. ASSUME NEW e \in rvCalls, RequestVote(e)
        PROVE  \E d \in rvCalls : d.from = c.from /\ d.to = c.to /\ d.term = c.term
    <3>1. c \in rvCalls \/ c = [e EXCEPT !.st = "rep",
                !.replyTerm = Max2(m_currentTerm[e.to], e.term), !.voteGranted = GrantsVote(e)]
      BY <2>3 DEF RequestVote, Reply
    <3>2. e \in RequestVoteCall
      BY DEF TypeOK, CallTypeOK
    <3> QED BY <3>1, <3>2 DEF RequestVoteCall
  <2>4. ASSUME NEW e \in rvCalls, sendRequestVoteCounted(e) \/ sendRequestVoteElected(e)
        PROVE  rvCalls' \subseteq rvCalls
    BY <2>4 DEF sendRequestVoteCounted, sendRequestVoteElected
  <2> QED BY <2>1, <2>2, <2>3, <2>4, ElectionFrame DEF Quiet, VotesKept
<1> QED BY <1>1 DEF Pending

\* The counter only changes where a vote is counted or an election begins.
LEMMA CounterFrame ==
    ASSUME TypeOK, MaxRestarts = 0, restarts = 0, [Next]_vars, NEW s \in Server,
           m_status[s] = Leader
    PROVE  \/ votedNum'[s] = votedNum[s]
           \/ \E c \in rvCalls : c.from = s /\ (sendRequestVoteCounted(c) \/ sendRequestVoteElected(c))
<1>1. votedNum \in [Server -> Nat]
  BY DEF TypeOK, ServerTypeOK
<1>2. ASSUME NEW p \in Server, doElection(p) PROVE votedNum'[s] = votedNum[s]
  BY <1>1, <1>2 DEF doElection
<1>3. ASSUME NEW c \in rvCalls, RequestVote(c) PROVE votedNum'[s] = votedNum[s]
  BY <1>3 DEF RequestVote
<1>4. ASSUME NEW c \in rvCalls, sendRequestVoteCounted(c) \/ sendRequestVoteElected(c), c.from # s
      PROVE  votedNum'[s] = votedNum[s]
  BY <1>1, <1>4 DEF sendRequestVoteCounted, sendRequestVoteElected
<1> QED BY <1>2, <1>3, <1>4, ElectionFrame DEF Quiet

\* A granted reply that is counted was pending, and is not afterwards.
LEMMA CountedPending ==
    ASSUME TypeOK, ElectionInv, NEW c \in rvCalls, CountsVote(c)
    PROVE  /\ c.from \in Server /\ c.to \in Pending(c.from) /\ IsFiniteSet(Pending(c.from))
           /\ Cardinality(Pending(c.from)) \in Nat /\ Cardinality(Pending(c.from)) >= 1
           /\ rvCalls' = rvCalls \ {c} /\ UNCHANGED m_currentTerm =>
                 /\ c.to \notin Pending(c.from)'
                 /\ Pending(c.from)' \subseteq Pending(c.from)
<1>1. c.from \in Server /\ c.to \in Server
  BY VoteCallTypes
<1>2. c.st = "rep" /\ c.voteGranted /\ c.replyTerm = m_currentTerm[c.from]
  BY DEF CountsVote, Answered
<1>3. c.term = m_currentTerm[c.from]
  BY <1>2 DEF ElectionInv, CallInv
<1>4. c.to \in Pending(c.from) /\ Pending(c.from) \subseteq Server
  BY <1>1, <1>3 DEF Pending
<1>5. IsFiniteSet(Pending(c.from)) /\ Cardinality(Pending(c.from)) \in Nat
  BY <1>4, ServerSubsets
<1>6. Cardinality(Pending(c.from)) >= 1
  <2>1. {c.to} \subseteq Pending(c.from)
    BY <1>4
  <2>2. Cardinality({c.to}) <= Cardinality(Pending(c.from)) /\ Cardinality({c.to}) = 1
    BY <1>4, <2>1, LargerSet, FS_Singleton
  <2> QED BY <1>5, <2>2
<1>7. ASSUME rvCalls' = rvCalls \ {c}, UNCHANGED m_currentTerm
      PROVE  c.to \notin Pending(c.from)' /\ Pending(c.from)' \subseteq Pending(c.from)
  <2>1. ASSUME NEW d \in rvCalls', d.from = c.from, d.to = c.to, d.term = m_currentTerm[c.from]
        PROVE  FALSE
    BY <1>3, <1>7, <2>1 DEF ElectionInv, CallsUnique
  <2> QED BY <1>7, <2>1 DEF Pending
<1> QED BY <1>1, <1>4, <1>5, <1>6, <1>7

\* The invariant of leaders is inductive, and no leader is elected.
LEMMA WonStep ==
    ASSUME MaxRestarts = 0, TypeOK, TypeOK', ElectionInv, WonInv, ElectedOnce, [Next]_vars
    PROVE  WonInv' /\ ElectedOnce'
<1>1. restarts = 0 /\ Majority \in Nat
  BY ServerSubsets DEF ElectionInv, Majority
<1>2. Majority' = Majority
  BY DEF Majority
<1>3. ASSUME NEW c \in rvCalls, sendRequestVoteElected(c) PROVE m_status[c.from] # Leader
  <2> SUFFICES ASSUME m_status[c.from] = Leader PROVE FALSE
    OBVIOUS
  <2>1. CountsVote(c) /\ votedNum[c.from] + 1 >= Majority
    BY <1>3 DEF sendRequestVoteElected
  <2>2. /\ c.from \in Server /\ Cardinality(Pending(c.from)) \in Nat
        /\ Cardinality(Pending(c.from)) >= 1
    BY <2>1, CountedPending
  <2>3. votedNum[c.from] \in Nat
    BY <2>2 DEF TypeOK, ServerTypeOK
  <2>4. votedNum[c.from] + Cardinality(Pending(c.from)) < Majority
    BY <2>2 DEF WonInv
  <2> QED BY <1>1, <2>1, <2>2, <2>3, <2>4
<1>4. WonInv'
  <2> SUFFICES ASSUME NEW s \in Server, m_status'[s] = Leader
               PROVE  votedNum'[s] + Cardinality(Pending(s)') < Majority
    BY <1>2 DEF WonInv
  <2>1. Pending(s) \subseteq Server /\ Pending(s)' \subseteq Server
    BY DEF Pending
  <2>2. /\ Cardinality(Pending(s)) \in Nat /\ Cardinality(Pending(s)') \in Nat
        /\ votedNum[s] \in Nat
    BY <2>1, ServerSubsets DEF TypeOK, ServerTypeOK
  <2>3. CASE RoleWon(s)
    <3>1. PICK c \in rvCalls : c.from = s /\ sendRequestVoteElected(c)
      BY <2>3 DEF RoleWon
    <3>2. /\ CountsVote(c) /\ votedNum[s] + 1 >= Majority /\ votedNum'[s] = 0
          /\ rvCalls' = rvCalls \ {c} /\ UNCHANGED <<ballots, m_currentTerm, m_votedFor>>
      BY <3>1 DEF sendRequestVoteElected, TypeOK, ServerTypeOK
    <3> DEFINE handled == (Voters(s, m_currentTerm[s]) \ Pending(s))'
               n == Cardinality(Server)
    <3>3. votedNum[s] + 1 <= Cardinality(handled)
      BY <3>1, <3>2, CountedBallot
    <3>4. handled \subseteq Server \ Pending(s)' /\ Server \ Pending(s)' \subseteq Server
      BY DEF Voters
    <3> HIDE DEF handled
    <3>5. /\ Cardinality(handled) <= Cardinality(Server \ Pending(s)')
          /\ Cardinality(handled) \in Nat /\ Cardinality(Server \ Pending(s)') \in Nat
      BY <3>4, LargerSet
    <3>6. Cardinality(Server \ Pending(s)') = Cardinality(Server) - Cardinality(Pending(s)')
      <4>1. Server \cap Pending(s)' = Pending(s)'
        BY <2>1
      <4> QED BY <4>1, ServerAssumption, FS_Difference
    <3>7. n \in Nat /\ Majority = (n \div 2) + 1
      BY ServerSubsets DEF Majority
    <3> HIDE DEF n
    <3>8. 2 * (n \div 2) + 2 > n /\ n \div 2 \in Nat
      BY <3>7
    <3>9. Cardinality(Pending(s)') <= n - Majority
      BY <2>2, <3>2, <3>3, <3>5, <3>6, <1>1, <3>7 DEF n
    <3> QED BY <2>2, <3>2, <3>7, <3>8, <3>9
  <2>4. CASE ~RoleWon(s)
    <3>1. m_status[s] = Leader /\ m_currentTerm'[s] = m_currentTerm[s]
      BY <1>1, <2>4, RoleFrame DEF RoleGoal, RoleKept, RoleLeft, RoleTaken, Follower, Leader
    <3>2. Pending(s)' \subseteq Pending(s)
      BY <1>1, <3>1, PendingShrinks
    <3>3. Cardinality(Pending(s)') <= Cardinality(Pending(s))
      BY <2>1, <3>2, LargerSet
    <3>4. votedNum[s] + Cardinality(Pending(s)) < Majority
      BY <3>1 DEF WonInv
    <3>5. CASE votedNum'[s] = votedNum[s]
      BY <1>1, <2>2, <3>3, <3>4, <3>5
    <3>6. ASSUME NEW c \in rvCalls, c.from = s, sendRequestVoteCounted(c)
          PROVE  votedNum'[s] + Cardinality(Pending(s)') < Majority
      <4>1. /\ CountsVote(c) /\ votedNum'[s] = votedNum[s] + 1
            /\ rvCalls' = rvCalls \ {c} /\ UNCHANGED m_currentTerm
        BY <3>6 DEF sendRequestVoteCounted, TypeOK, ServerTypeOK, serverVars
      <4>2. c.to \in Pending(s) /\ c.to \notin Pending(s)'
        BY <3>6, <4>1, CountedPending
      <4>3. Pending(s)' \subseteq Pending(s) \ {c.to} /\ Pending(s) \ {c.to} \subseteq Server
        BY <2>1, <3>2, <4>2
      <4>4. Cardinality(Pending(s)') <= Cardinality(Pending(s) \ {c.to})
        BY <4>3, LargerSet
      <4>5. Cardinality(Pending(s) \ {c.to}) = Cardinality(Pending(s)) - 1
        BY <2>1, <4>2, ServerSubsets, FS_RemoveElement
      <4> QED BY <1>1, <2>2, <3>4, <4>1, <4>4, <4>5
    <3> QED BY <1>1, <2>4, <3>1, <3>5, <3>6, CounterFrame DEF RoleWon
  <2> QED BY <2>3, <2>4
<1>5. ElectedOnce'
  <2> SUFFICES ASSUME NEW s \in Server PROVE proc'[s] # "electedTwice"
    BY DEF ElectedOnce
  <2>1. proc[s] # "electedTwice" /\ proc \in [Server -> ProcStates]
    BY DEF ElectedOnce, TypeOK, ServerTypeOK
  <2>2. ASSUME NEW p \in Server, \/ doElection(p) \/ doHeartBeat(p) \/ applierTicker(p)
                                 \/ \E command \in Command : Start(p, command)
                                 \/ \E index \in 1..m_lastApplied[p] : Snapshot(p, index)
        PROVE  proc' = proc
    BY <2>2 DEF doElection, doHeartBeat, applierTicker, Start, Snapshot, serverVars
  <2>3. ASSUME NEW p \in Server, Crash(p) \/ Restart(p) PROVE proc'[s] # "electedTwice"
    BY <2>1, <2>3 DEF Crash, Restart, Abort
  <2>4. ASSUME NEW c \in rvCalls, VoteStep(c) PROVE proc'[s] # "electedTwice"
    <3>1. CASE sendRequestVoteElected(c)
      BY <1>3, <2>1, <3>1 DEF sendRequestVoteElected
    <3>2. CASE ~sendRequestVoteElected(c)
      BY <2>1, <2>4, <3>2 DEF VoteStep, RequestVote, sendRequestVoteNewerTerm,
         sendRequestVoteIgnored, sendRequestVoteCounted, serverVars
    <3> QED BY <3>1, <3>2
  <2>5. ASSUME NEW c \in aeCalls, AppendStep(c) PROVE proc'[s] # "electedTwice"
    <3>1. CASE AppendEntries1BehindSnapshot(c) \/ AppendEntries1Conflict(c)
      BY <2>1, <3>1 DEF AppendEntries1BehindSnapshot, AppendEntries1Conflict, Abort
    <3>2. CASE ~(AppendEntries1BehindSnapshot(c) \/ AppendEntries1Conflict(c))
      BY <2>1, <2>5, <3>2 DEF AppendStep, AppendEntries1Stale, AppendEntries1Mismatch,
                AppendEntries1Accept, sendAppendEntriesNewerTerm, sendAppendEntriesIgnored,
                sendAppendEntriesRefused, sendAppendEntriesAccepted, serverVars
    <3> QED BY <3>1, <3>2
  <2>6. ASSUME NEW c \in isCalls, SnapshotStep(c) PROVE proc' = proc
    BY <2>6 DEF SnapshotStep, InstallSnapshotStale, InstallSnapshotOutdated, InstallSnapshot,
                leaderSendSnapShotIgnored, leaderSendSnapShotNewerTerm, leaderSendSnapShotDone,
                serverVars
  <2>7. ASSUME \/ \E t \in snapThreads : leaderSendSnapShot(t)
               \/ CallFails
               \/ UNCHANGED vars
        PROVE  proc' = proc
    BY <2>7 DEF leaderSendSnapShot, CallFails, vars, serverVars
  <2> QED BY <2>1, <2>2, <2>3, <2>4, <2>5, <2>6, <2>7 DEF Next
<1> QED BY <1>4, <1>5

\* The myAssert of sendRequestVote never fails in a cluster whose processes are
\* not restarted: no reply beyond the majority elects a leader again.
THEOREM ElectedOnceCorrect ==
    ASSUME MaxRestarts = 0
    PROVE  Spec => []ElectedOnce
<1> DEFINE Inv == IndexInv /\ ElectionInv /\ WonInv /\ ElectedOnce
<1>1. Init => Inv
  <2>1. Init => WonInv /\ ElectedOnce
    BY DEF Init, WonInv, ElectedOnce, Leader, Follower
  <2> QED BY <2>1, IndexInvInit, ElectionInvInit
<1>2. Inv /\ [Next]_vars => Inv'
  BY IndexInvStep, ElectionInvStep, WonStep DEF IndexInv
<1>3. Inv => ElectedOnce
  OBVIOUS
<1> HIDE DEF Inv
<1> QED BY <1>1, <1>2, <1>3, PTL DEF Spec

\* A leader has won its term, and every AppendEntries on the wire was sent by the
\* winner of the term it carries; without snapshots there is no InstallSnapshot.
SentByLeader ==
    /\ \A s \in Server : m_status[s] = Leader => <<s, m_currentTerm[s]>> \in leaders
    /\ \A c \in aeCalls : c.from # c.to /\ <<c.from, c.term>> \in leaders
    /\ \A s \in Server : m_lastSnapshotIncludeIndex[s] = 0
    /\ isCalls = {} /\ snapThreads = {}

\* A server that leads has not heard of another leader of its term.
LEMMA NotTaken ==
    ASSUME TypeOK, ElectionSafety, SentByLeader, NEW s \in Server, m_status[s] = Leader
    PROVE  ~RoleTaken(s)
<1> SUFFICES ASSUME NEW c \in aeCalls, c.to = s, c.term = m_currentTerm[s]
             PROVE  FALSE
  BY DEF RoleTaken, SentByLeader
<1>1. c.from # s /\ <<c.from, m_currentTerm[s]>> \in leaders /\ <<s, m_currentTerm[s]>> \in leaders
  BY DEF SentByLeader
<1>2. /\ <<c.from, m_currentTerm[s]>>[1] = c.from /\ <<c.from, m_currentTerm[s]>>[2] = m_currentTerm[s]
      /\ <<s, m_currentTerm[s]>>[1] = s /\ <<s, m_currentTerm[s]>>[2] = m_currentTerm[s]
  OBVIOUS
<1> QED BY <1>1, <1>2 DEF ElectionSafety

\* Without snapshots the boundary stays 0 and no peer needs one.
LEMMA NoSnapshotStep ==
    ASSUME IndexInv, Snapshots = FALSE, SentByLeader, [Next]_vars
    PROVE  /\ \A s \in Server : m_lastSnapshotIncludeIndex'[s] = 0
           /\ isCalls' = {} /\ snapThreads' = {}
<1>1. isCalls = {} /\ snapThreads = {} /\ \A s \in Server : m_lastSnapshotIncludeIndex[s] = 0
  BY DEF SentByLeader
<1>2. m_lastSnapshotIncludeIndex \in [Server -> Nat] /\ m_nextIndex \in [Server -> [Server -> Nat]]
  BY DEF IndexInv, TypeOK, ServerTypeOK
<1>3. \A s \in Server : m_lastSnapshotIncludeIndex'[s] = 0
  <2>1. CASE UNCHANGED <<logVars, applyVars>>
    BY <1>1, <2>1 DEF logVars
  <2>2. CASE LogStep
    BY <1>1, <1>2, <2>2 DEF LogStep, Start, applierTicker, Snapshot, AppendEntries1Accept,
       sendAppendEntriesAccepted, Restart, logVars
  <2> QED BY <2>1, <2>2, LogFrame
<1>4. isCalls' = {}
  <2>1. ASSUME NEW s \in Server, Restart(s) PROVE isCalls' = {}
    BY <1>1, <2>1 DEF Restart, AfterRestart
  <2> QED BY <1>1, <2>1, SnapshotFrame
<1>5. snapThreads' = {}
  <2>1. ASSUME NEW s \in Server, doHeartBeat(s) PROVE snapThreads' = {}
    <3>1. m_status[s] = Leader
      BY <2>1 DEF doHeartBeat
    <3>2. ASSUME NEW p \in Server PROVE m_nextIndex[s][p] \in Nat /\ m_nextIndex[s][p] >= 1
      BY <1>2, <3>1 DEF IndexInv, PeerBounds
    <3>3. NeedsSnapshot(s) = {}
      <4>1. ASSUME NEW p \in NeedsSnapshot(s) PROVE FALSE
        <5>1. p \in Server /\ m_nextIndex[s][p] <= 0
          BY <1>1 DEF NeedsSnapshot
        <5> QED BY <3>2, <5>1
      <4> QED BY <4>1
    <3> QED BY <1>1, <2>1, <3>3 DEF doHeartBeat
  <2>2. ASSUME NEW s \in Server,
               \/ doElection(s) \/ applierTicker(s) \/ Crash(s)
               \/ \E command \in Command : Start(s, command)
               \/ \E index \in 1..m_lastApplied[s] : Snapshot(s, index)
        PROVE  snapThreads' = {}
    BY <1>1, <2>2 DEF doElection, applierTicker, Crash, Start, Snapshot, netVars
  <2>3. ASSUME NEW s \in Server, Restart(s) PROVE snapThreads' = {}
    BY <1>1, <2>3 DEF Restart
  <2>4. ASSUME NEW c \in rvCalls, VoteStep(c) PROVE snapThreads' = {}
    BY <1>1, <2>4 DEF VoteStep, RequestVote, sendRequestVoteNewerTerm, sendRequestVoteIgnored,
              sendRequestVoteCounted, sendRequestVoteElected
  <2>5. ASSUME NEW c \in aeCalls, AppendStep(c) PROVE snapThreads' = {}
    BY <1>1, <2>5 DEF AppendStep, AppendEntries1Stale, AppendEntries1Mismatch,
              AppendEntries1BehindSnapshot, AppendEntries1Conflict, AppendEntries1Accept,
              sendAppendEntriesNewerTerm, sendAppendEntriesIgnored,
              sendAppendEntriesRefused, sendAppendEntriesAccepted, netVars
  <2>6. CASE CallFails \/ UNCHANGED vars
    BY <1>1, <2>6 DEF CallFails, vars, netVars
  <2>7. ~(\E t \in snapThreads : leaderSendSnapShot(t)) /\ ~(\E c \in isCalls : SnapshotStep(c))
    BY <1>1
  <2> QED BY <2>1, <2>2, <2>3, <2>4, <2>5, <2>6, <2>7 DEF Next
<1> QED BY <1>3, <1>4, <1>5

\* Elections won are remembered.
LEMMA LeadersGrow ==
    ASSUME TypeOK, MaxRestarts = 0, restarts = 0, [Next]_vars
    PROVE  leaders \subseteq leaders'
<1>1. ASSUME NEW s \in Server, doElection(s) PROVE leaders' = leaders
  BY <1>1 DEF doElection
<1>2. ASSUME NEW c \in rvCalls, \/ RequestVote(c) \/ sendRequestVoteCounted(c)
                                \/ sendRequestVoteElected(c)
      PROVE  leaders \subseteq leaders'
  BY <1>2 DEF RequestVote, sendRequestVoteCounted, sendRequestVoteElected
<1> QED BY <1>1, <1>2, ElectionFrame DEF Quiet

\* The invariant of leaders and their messages is inductive.
LEMMA SentByLeaderStep ==
    ASSUME MaxRestarts = 0, Snapshots = FALSE, IndexInv, ElectionInv, SentByLeader, [Next]_vars
    PROVE  SentByLeader'
<1>0. TypeOK /\ restarts = 0
  BY DEF IndexInv, ElectionInv
<1>1. leaders \subseteq leaders'
  BY <1>0, LeadersGrow
<1>2. ASSUME NEW s \in Server, m_status'[s] = Leader
      PROVE  <<s, m_currentTerm'[s]>> \in leaders'
  <2>1. CASE RoleWon(s)
    BY <2>1 DEF RoleWon, sendRequestVoteElected
  <2>2. CASE RoleKept(s)
    BY <1>1, <1>2, <2>2 DEF RoleKept, SentByLeader
  <2> QED BY <1>0, <1>2, <2>1, <2>2, RoleFrame DEF RoleGoal, RoleLeft, RoleTaken, Follower, Leader
<1>3. ASSUME NEW c \in aeCalls'
      PROVE  c.from # c.to /\ <<c.from, c.term>> \in leaders'
  <2>1. CASE c \in aeCalls
    BY <1>1, <2>1 DEF SentByLeader
  <2>2. ASSUME NEW s \in Server, doHeartBeat(s), c \notin aeCalls
        PROVE  c.from # c.to /\ <<c.from, c.term>> \in leaders
    <3>1. PICK r \in Rounds, p \in (Server \ {s}) \ NeedsSnapshot(s) : c = AppendEntriesArgs(s, p, r)
      BY <1>3, <2>2 DEF doHeartBeat
    <3>2. c.from = s /\ c.to = p /\ c.term = m_currentTerm[s]
      BY <3>1 DEF AppendEntriesArgs
    <3>3. m_status[s] = Leader
      BY <2>2 DEF doHeartBeat
    <3> QED BY <3>2, <3>3 DEF SentByLeader
  <2>3. ASSUME NEW d \in aeCalls, c \notin aeCalls,
               AppendEntries1Stale(d) \/ AppendEntries1Mismatch(d) \/ AppendEntries1Accept(d)
        PROVE  c.from # c.to /\ <<c.from, c.term>> \in leaders
    <3>1. d \in AppendEntriesCall
      BY <1>0 DEF TypeOK, CallTypeOK
    <3>2. c.from = d.from /\ c.to = d.to /\ c.term = d.term
      <4>1. CASE AppendEntries1Stale(d)
        BY ZenonT(60), <1>3, <2>3, <3>1, <4>1 DEF AppendEntries1Stale, Reply, AppendEntriesCall
      <4>2. CASE AppendEntries1Mismatch(d)
        <5>1. PICK u : aeCalls' = Reply(aeCalls, d,
                    [d EXCEPT !.st = "rep", !.replyTerm = d.term, !.updateNextIndex = u])
          BY <4>2 DEF AppendEntries1Mismatch
        <5> QED BY <1>3, <2>3, <3>1, <5>1 DEF Reply, AppendEntriesCall
      <4>3. CASE AppendEntries1Accept(d)
        BY <1>3, <2>3, <3>1, <4>3 DEF AppendEntries1Accept, Reply, AppendEntriesCall
      <4> QED BY <2>3, <4>1, <4>2, <4>3
    <3> QED BY <3>2 DEF SentByLeader
  <2>4. ASSUME NEW s \in Server, Restart(s) PROVE FALSE
    BY <1>0, <2>4 DEF Restart
  <2> QED BY <1>1, <1>3, <2>1, <2>2, <2>3, <2>4, AppendFrame
<1> QED BY <1>2, <1>3, NoSnapshotStep DEF SentByLeader

\* In a cluster without snapshots and restarts a leader gives up only for a larger
\* term: no AppendEntries or vote of its own term can depose it.  (With snapshots
\* it is not so: a leaderSendSnapShot thread that runs late sends a term its
\* server has not won.)
THEOREM LeaderUntilNewerTermCorrect ==
    ASSUME MaxRestarts = 0, Snapshots = FALSE
    PROVE  Spec => LeaderUntilNewerTerm
<1> DEFINE Inv == IndexInv /\ ElectionInv /\ SentByLeader
<1>1. Init => Inv
  <2>1. Init => SentByLeader
    BY DEF Init, SentByLeader, Leader, Follower
  <2> QED BY <2>1, IndexInvInit, ElectionInvInit
<1>2. Inv /\ [Next]_vars => Inv'
  BY IndexInvStep, ElectionInvStep, SentByLeaderStep DEF IndexInv
<1>3. ASSUME Inv, [Next]_vars
      PROVE  \A s \in Server :
                proc[s] = "up" /\ m_status[s] = Leader /\ m_status'[s] # Leader
                   => m_currentTerm'[s] > m_currentTerm[s]
  <2> SUFFICES ASSUME NEW s \in Server, m_status[s] = Leader, m_status'[s] # Leader
               PROVE  m_currentTerm'[s] > m_currentTerm[s]
    OBVIOUS
  <2>1. ~RoleTaken(s)
    BY <1>3, ElectionInvSafe, NotTaken DEF IndexInv
  <2>2. ~RoleWon(s)
    <3>1. ASSUME NEW c \in rvCalls, c.from = s, sendRequestVoteElected(c)
          PROVE  m_status'[s] = Leader
      BY <1>3, <3>1 DEF sendRequestVoteElected, IndexInv, TypeOK, ServerTypeOK
    <3> QED BY <3>1 DEF RoleWon
  <2>3. RoleGoal(s)
    BY <1>3, RoleFrame DEF IndexInv, ElectionInv
  <2> QED BY <2>1, <2>2, <2>3 DEF RoleGoal, RoleKept, RoleLeft
<1> HIDE DEF Inv
<1> QED BY <1>1, <1>2, <1>3, PTL DEF Spec, LeaderUntilNewerTerm
-----------------------------------------------------------------------------
(* One command per index and term. *)

\* Entry e has index i in some log, in some AppendEntries call, or as applied.
InLog(i, e) ==
    \E s \in Server : \E k \in 1..Len(m_logs[s]) : i = m_lastSnapshotIncludeIndex[s] + k /\ e = m_logs[s][k]
InCall(i, e) ==
    \E c \in aeCalls : \E k \in 1..Len(c.entries) : i = c.prevLogIndex + k /\ e = c.entries[k]
Item(i, e) == InLog(i, e) \/ InCall(i, e) \/ <<i, e>> \in applied

\* The entry that the leader of a step appends.
Taken(i, e) ==
    \E s \in Server : \E command \in Command :
        Start(s, command) /\ i = getLastLogIndex(s) + 1 /\ e = [term |-> m_currentTerm[s], command |-> command]

\* The state is without two commands for an index and term; an entry's term was
\* won; the winner of a term, while it is in that term, has the longest run of
\* indexes with it.
EntryInv ==
    /\ \A i, e, f : Item(i, e) /\ Item(i, f) /\ e.term = f.term => e = f
    /\ \A i, e : Item(i, e) => \E s \in Server : <<s, e.term>> \in leaders
    /\ \A s \in Server : \A t \in Nat : <<s, t>> \in leaders => t <= m_currentTerm[s]
    /\ \A s \in Server : <<s, m_currentTerm[s]>> \in leaders =>
          \A i, e : Item(i, e) /\ e.term = m_currentTerm[s] => i <= getLastLogIndex(s)
    /\ \A s \in Server : m_status[s] = Leader => <<s, m_currentTerm[s]>> \in leaders
    /\ \A s \in Server : proc[s] # "conflictingCommand"

\* The tail of a log has the entries at their indexes.
LEMMA TailItems ==
    ASSUME TypeOK, NEW s \in Server, NEW n \in 0..Len(m_logs[s]), NEW q,
           q = SubSeq(m_logs[s], n + 1, Len(m_logs[s])), NEW k \in 1..Len(q)
    PROVE  InLog(m_lastSnapshotIncludeIndex[s] + n + k, q[k])
<1> DEFINE log == m_logs[s]
<1>1. log \in Seq(Entry) /\ Len(log) \in Nat /\ m_lastSnapshotIncludeIndex[s] \in Nat
  BY DEF TypeOK, ServerTypeOK
<1> HIDE DEF log
<1>2. q = SubSeq(log, n + 1, Len(log)) /\ n \in 0..Len(log)
  BY DEF log
<1>3. Len(q) = Len(log) - n /\ n + k \in 1..Len(log) /\ q[k] = log[n + k]
  BY <1>1, <1>2
<1>4. m_lastSnapshotIncludeIndex[s] + n + k = m_lastSnapshotIncludeIndex[s] + (n + k)
  BY <1>1, <1>3
<1> QED BY <1>3, <1>4 DEF InLog, log

\* The loop of AppendEntries1 leaves entries of the old log and of the call only.
LEMMA MergedItems ==
    ASSUME IndexInv, NEW c \in aeCalls, AppendEntries1Accept(c),
           NEW k \in 1..Len(MergedLog(c.to, c.prevLogIndex, c.entries))
    PROVE  Item(m_lastSnapshotIncludeIndex[c.to] + k, MergedLog(c.to, c.prevLogIndex, c.entries)[k])
<1> DEFINE snap == m_lastSnapshotIncludeIndex[c.to]
           off == c.prevLogIndex - snap
           log == m_logs[c.to]
           n == Max2(Len(log), off + Len(c.entries))
           m == MergedLog(c.to, c.prevLogIndex, c.entries)
<1>1. /\ c.to \in Server /\ c.prevLogIndex \in Nat /\ c.entries \in Seq(Entry)
      /\ c.prevLogIndex \in snap..getLastLogIndex(c.to)
  BY AppendCallTypes DEF IndexInv, AppendEntries1Accept, matchLog
<1>2. log \in Seq(Entry) /\ snap \in Nat /\ Len(log) \in Nat /\ Len(c.entries) \in Nat
  BY <1>1 DEF IndexInv, TypeOK, ServerTypeOK
<1>3. off \in Nat /\ off <= Len(log)
  BY <1>1, <1>2 DEF getLastLogIndex
<1>4. m = [i \in 1..n |-> IF i \in (off + 1)..(off + Len(c.entries))
                              /\ (i > Len(log) \/ log[i].term # c.entries[i - off].term)
                           THEN c.entries[i - off] ELSE log[i]]
  BY DEF MergedLog
<1> HIDE DEF m, n, log
<1>5. n \in Nat /\ (n = Len(log) \/ n = off + Len(c.entries)) /\ n >= Len(log)
  BY <1>2, <1>3 DEF Max2, n
<1>6. Len(m) = n
  BY <1>4, <1>5
<1>7. k \in 1..n
  BY <1>6 DEF m
<1> HIDE DEF off
<1>8. CASE k \in (off + 1)..(off + Len(c.entries)) /\ m[k] = c.entries[k - off]
  <2>1. k \in Int /\ off \in Int /\ off = c.prevLogIndex - snap
    BY <1>3, <1>7 DEF off
  <2> HIDE DEF snap
  <2>2. k - off \in 1..Len(c.entries)
    BY SMTT(60), <1>2, <1>8, <2>1
  <2>3. snap + k = c.prevLogIndex + (k - off)
    BY <1>1, <1>2, <2>1
  <2> QED BY <2>2, <2>3, <1>8 DEF Item, InCall, m, snap
<1>9. CASE m[k] = log[k] /\ k \in 1..Len(log)
  BY <1>9, <1>1 DEF Item, InLog, m, log
<1>10. (m[k] = log[k] /\ k \in 1..Len(log)) \/ (k \in (off + 1)..(off + Len(c.entries)) /\ m[k] = c.entries[k - off])
  <2>1. k \in (off + 1)..(off + Len(c.entries)) \/ k \in 1..Len(log)
    <3>1. PICK a : a = Len(log)
      OBVIOUS
    <3>2. PICK b : b = Len(c.entries)
      OBVIOUS
    <3>3. a \in Nat /\ b \in Nat /\ off \in Nat /\ off <= a /\ n \in Nat /\ (n = a \/ n = off + b) /\ k \in 1..n
      BY <1>2, <1>3, <1>5, <1>7, <3>1, <3>2
    <3>4. k \in (off + 1)..(off + b) \/ k \in 1..a
      BY <3>3
    <3> QED BY <3>1, <3>2, <3>4
  <2>2. k \in 1..Len(log) <=> ~(k > Len(log))
    BY <1>2, <1>7, <1>5
  <2> QED BY <1>4, <1>7, <2>1, <2>2
<1> QED BY <1>8, <1>9, <1>10

\* Logs: every entry was there before, in the log or in a call, or was just taken.
LEMMA LogItems ==
    ASSUME IndexInv, TypeOK', MaxRestarts = 0, restarts = 0, [Next]_vars, NEW i, NEW e, InLog(i, e)'
    PROVE  Item(i, e) \/ Taken(i, e)
<1>0. /\ m_logs \in [Server -> Seq(Entry)] /\ m_lastSnapshotIncludeIndex \in [Server -> Nat]
      /\ m_currentTerm \in [Server -> Nat] /\ TypeOK
  BY DEF IndexInv, TypeOK, ServerTypeOK
<1>1. PICK s \in Server : \E k \in 1..Len(m_logs'[s]) : i = m_lastSnapshotIncludeIndex'[s] + k /\ e = m_logs'[s][k]
  BY DEF InLog
<1>2. PICK k \in 1..Len(m_logs'[s]) : i = m_lastSnapshotIncludeIndex'[s] + k /\ e = m_logs'[s][k]
  BY <1>1
<1>3. ASSUME m_logs'[s] = m_logs[s], m_lastSnapshotIncludeIndex'[s] = m_lastSnapshotIncludeIndex[s]
      PROVE  Item(i, e)
  BY <1>2, <1>3 DEF Item, InLog
<1>4. ASSUME NEW p \in Server, NEW command \in Command, Start(p, command)
      PROVE  Item(i, e) \/ Taken(i, e)
  <2>1. CASE s # p
    BY <1>0, <1>3, <1>4, <2>1 DEF Start
  <2>2. CASE s = p
    <3>1. PICK x : x = [term |-> m_currentTerm[s], command |-> command]
      OBVIOUS
    <3>2. /\ m_logs'[s] = Append(m_logs[s], x) /\ m_logs[s] \in Seq(Entry) /\ Len(m_logs[s]) \in Nat
          /\ m_lastSnapshotIncludeIndex'[s] = m_lastSnapshotIncludeIndex[s]
      BY <1>0, <1>4, <2>2, <3>1 DEF Start
    <3>3. CASE k = Len(m_logs[s]) + 1
      <4>1. e = x /\ i = getLastLogIndex(s) + 1
        BY <3>2, <3>3, <1>2, <1>0 DEF getLastLogIndex
      <4> QED BY <4>1, <3>1, <1>4, <2>2 DEF Taken
    <3>4. CASE k # Len(m_logs[s]) + 1
      <4>1. k \in 1..Len(m_logs[s]) /\ e = m_logs[s][k]
        BY <3>2, <3>4, <1>2
      <4> QED BY <4>1, <3>2, <1>2 DEF Item, InLog
    <3> QED BY <3>3, <3>4
  <2> QED BY <2>1, <2>2
<1>5. ASSUME NEW p \in Server, NEW index \in 1..m_lastApplied[p], Snapshot(p, index) PROVE Item(i, e)
  <2>1. CASE s # p
    BY <1>0, <1>3, <1>5, <2>1 DEF Snapshot
  <2>2. CASE s = p
    <3> DEFINE n == index - m_lastSnapshotIncludeIndex[s]
    <3>1. /\ index \in Nat /\ index > m_lastSnapshotIncludeIndex[s]
          /\ index <= m_lastSnapshotIncludeIndex[s] + Len(m_logs[s])
          /\ Len(m_logs[s]) \in Nat /\ m_lastSnapshotIncludeIndex[s] \in Nat
      <4>1. m_commitIndex[s] <= getLastLogIndex(s) /\ m_commitIndex[s] \in Nat /\ m_lastApplied[s] \in Nat
        BY DEF IndexInv, LogBounds, TypeOK, ServerTypeOK
      <4>2. index > m_lastSnapshotIncludeIndex[s] /\ index <= m_commitIndex[s]
        BY <1>5, <2>2 DEF Snapshot
      <4> QED BY <4>1, <4>2, <1>0, <2>2 DEF getLastLogIndex
    <3>2. n \in 0..Len(m_logs[s])
      BY <3>1
    <3>3. /\ m_logs'[s] = SubSeq(m_logs[s], n + 1, Len(m_logs[s]))
          /\ m_lastSnapshotIncludeIndex'[s] = m_lastSnapshotIncludeIndex[s] + n
      <4>1. /\ m_logs' = [m_logs EXCEPT ![s] = SubSeq(@, n + 1, Len(@))]
            /\ m_lastSnapshotIncludeIndex' = [m_lastSnapshotIncludeIndex EXCEPT ![s] = index]
        BY <1>5, <2>2 DEF Snapshot
      <4>2. index = m_lastSnapshotIncludeIndex[s] + n
        BY <3>1
      <4> HIDE DEF n
      <4> QED BY <1>0, <4>1, <4>2
    <3> HIDE DEF n
    <3>4. InLog(m_lastSnapshotIncludeIndex[s] + n + k, m_logs'[s][k])
      BY <3>2, <3>3, <1>0, TailItems
    <3> QED BY <3>3, <3>4, <1>2 DEF Item
  <2> QED BY <2>1, <2>2
<1>6. ASSUME NEW c \in aeCalls, AppendEntries1Accept(c) PROVE Item(i, e)
  <2>1. c.to \in Server
    BY <1>0, AppendCallTypes
  <2>2. CASE s # c.to
    BY <1>0, <1>3, <1>6, <2>1, <2>2 DEF AppendEntries1Accept
  <2>3. CASE s = c.to
    <3>1. m_logs'[s] = MergedLog(c.to, c.prevLogIndex, c.entries)
          /\ m_lastSnapshotIncludeIndex'[s] = m_lastSnapshotIncludeIndex[c.to]
      BY <1>0, <1>6, <2>1, <2>3 DEF AppendEntries1Accept
    <3> QED BY <3>1, <1>2, <1>6, MergedItems
  <2> QED BY <2>2, <2>3
<1>7. ASSUME NEW c \in isCalls, InstallSnapshot(c) PROVE Item(i, e)
  <2>1. c.to \in Server /\ c.index \in Nat
    BY <1>0, SnapshotCallTypes
  <2>2. CASE s # c.to
    BY <1>0, <1>3, <1>7, <2>1, <2>2 DEF InstallSnapshot
  <2>3. CASE s = c.to
    <3> DEFINE n == c.index - m_lastSnapshotIncludeIndex[s]
    <3>1. /\ m_logs'[s] = IF getLastLogIndex(s) > c.index
                          THEN SubSeq(m_logs[s], n + 1, Len(m_logs[s])) ELSE <<>>
          /\ m_lastSnapshotIncludeIndex'[s] = c.index /\ c.index > m_lastSnapshotIncludeIndex[s]
      BY <1>0, <1>7, <2>1, <2>3 DEF InstallSnapshot
    <3>2. m_logs'[s] # <<>>
      BY <1>2
    <3>3. /\ n \in 0..Len(m_logs[s])
          /\ m_lastSnapshotIncludeIndex'[s] = m_lastSnapshotIncludeIndex[s] + n
          /\ m_logs'[s] = SubSeq(m_logs[s], n + 1, Len(m_logs[s]))
      <4>1. Len(m_logs[s]) \in Nat /\ m_lastSnapshotIncludeIndex[s] \in Nat
        BY <1>0
      <4>2. getLastLogIndex(s) > c.index /\ m_logs'[s] = SubSeq(m_logs[s], n + 1, Len(m_logs[s]))
        BY <3>1, <3>2
      <4>3. m_lastSnapshotIncludeIndex[s] + Len(m_logs[s]) > c.index
        BY <4>2 DEF getLastLogIndex
      <4>4. n \in 0..Len(m_logs[s]) /\ c.index = m_lastSnapshotIncludeIndex[s] + n
        BY <4>1, <4>3, <3>1, <2>1
      <4> QED BY <4>2, <4>4, <3>1
    <3> HIDE DEF n
    <3>4. InLog(m_lastSnapshotIncludeIndex[s] + n + k, m_logs'[s][k])
      BY <3>3, <1>0, TailItems
    <3> QED BY <3>3, <3>4, <1>2 DEF Item
  <2> QED BY <2>2, <2>3
<1>8. ASSUME NEW p \in Server, Restart(p) PROVE FALSE
  BY <1>8 DEF Restart
<1>9. CASE UNCHANGED logVars
  BY <1>3, <1>9 DEF logVars
<1>10. ASSUME \/ \E p \in Server : applierTicker(p)
              \/ \E c \in aeCalls : sendAppendEntriesAccepted(c)
       PROVE  UNCHANGED logVars
  BY <1>10 DEF applierTicker, sendAppendEntriesAccepted
<1> QED BY <1>4, <1>5, <1>6, <1>7, <1>8, <1>9, <1>10, LogFrame DEF LogStep

\* An answered AppendEntries keeps its arguments.
LEMMA AnswerKeeps ==
    ASSUME TypeOK, NEW d \in aeCalls,
           AppendEntries1Stale(d) \/ AppendEntries1Mismatch(d) \/ AppendEntries1Accept(d),
           NEW c \in aeCalls', c \notin aeCalls
    PROVE  c.prevLogIndex = d.prevLogIndex /\ c.entries = d.entries
<1>1. d \in AppendEntriesCall
  BY DEF TypeOK, CallTypeOK
<1>2. CASE AppendEntries1Stale(d)
  BY <1>1, <1>2 DEF AppendEntries1Stale, Reply, AppendEntriesCall
<1>3. CASE AppendEntries1Mismatch(d)
  <2>1. PICK u : aeCalls' = Reply(aeCalls, d,
              [d EXCEPT !.st = "rep", !.replyTerm = d.term, !.updateNextIndex = u])
    BY <1>3 DEF AppendEntries1Mismatch
  <2> QED BY <1>1, <2>1 DEF Reply, AppendEntriesCall
<1>4. CASE AppendEntries1Accept(d)
  BY <1>1, <1>4 DEF AppendEntries1Accept, Reply, AppendEntriesCall
<1> QED BY <1>2, <1>3, <1>4

\* Calls: every entry was in the call, or in the log of the leader that sends it.
LEMMA CallItems ==
    ASSUME IndexInv, MaxRestarts = 0, restarts = 0, [Next]_vars, NEW i, NEW e, InCall(i, e)'
    PROVE  Item(i, e)
<1>0. TypeOK
  BY DEF IndexInv
<1>1. PICK c \in aeCalls' : \E k \in 1..Len(c.entries) : i = c.prevLogIndex + k /\ e = c.entries[k]
  BY DEF InCall
<1>2. PICK k \in 1..Len(c.entries) : i = c.prevLogIndex + k /\ e = c.entries[k]
  BY <1>1
<1>3. CASE c \in aeCalls
  BY <1>2, <1>3 DEF Item, InCall
<1>4. ASSUME NEW d \in aeCalls, c \notin aeCalls,
             AppendEntries1Stale(d) \/ AppendEntries1Mismatch(d) \/ AppendEntries1Accept(d)
      PROVE  Item(i, e)
  <2>1. c.prevLogIndex = d.prevLogIndex /\ c.entries = d.entries
    BY <1>0, <1>4, AnswerKeeps
  <2> QED BY <1>2, <2>1 DEF Item, InCall
<1>5. ASSUME NEW s \in Server, doHeartBeat(s), c \notin aeCalls
      PROVE  Item(i, e)
  <2>1. PICK r \in Rounds, p \in (Server \ {s}) \ NeedsSnapshot(s) : c = AppendEntriesArgs(s, p, r)
    BY <1>5 DEF doHeartBeat
  <2> DEFINE snap == m_lastSnapshotIncludeIndex[s]
             n == m_nextIndex[s][p] - 1 - snap
  <2>2. /\ snap \in Nat /\ m_nextIndex[s][p] \in Nat /\ Len(m_logs[s]) \in Nat
    BY <1>0 DEF TypeOK, ServerTypeOK
  <2>3. m_nextIndex[s][p] > snap /\ m_nextIndex[s][p] <= snap + Len(m_logs[s]) + 1
    BY <2>2 DEF NeedsSnapshot, IndexInv, PeerBounds, getLastLogIndex
  <2>4. n \in 0..Len(m_logs[s]) /\ m_nextIndex[s][p] - 1 = snap + n
    BY <2>2, <2>3
  <2>5. /\ c.prevLogIndex = m_nextIndex[s][p] - 1
        /\ c.entries = SubSeq(m_logs[s], n + 1, Len(m_logs[s]))
    BY <2>1 DEF AppendEntriesArgs
  <2> HIDE DEF n
  <2>6. InLog(snap + n + k, c.entries[k])
    BY <1>0, <2>4, <2>5, TailItems
  <2> QED BY <1>2, <2>4, <2>5, <2>6 DEF Item
<1>6. ASSUME NEW p \in Server, Restart(p) PROVE FALSE
  BY <1>6 DEF Restart
<1> QED BY <1>1, <1>3, <1>4, <1>5, <1>6, AppendFrame

\* Only applierTicker hands entries out.
LEMMA AppliedFrame ==
    ASSUME [Next]_vars
    PROVE  applied' = applied \/ \E s \in Server : applierTicker(s)
<1>1. ASSUME NEW s \in Server,
             \/ doElection(s) \/ doHeartBeat(s) \/ Crash(s) \/ Restart(s)
             \/ \E command \in Command : Start(s, command)
             \/ \E index \in 1..m_lastApplied[s] : Snapshot(s, index)
      PROVE  applied' = applied
  BY <1>1 DEF doElection, doHeartBeat, Crash, Restart, Start, Snapshot
<1>2. ASSUME NEW c \in rvCalls, VoteStep(c)
      PROVE  applied' = applied
  BY <1>2 DEF VoteStep, RequestVote, sendRequestVoteNewerTerm, sendRequestVoteIgnored,
              sendRequestVoteCounted, sendRequestVoteElected
<1>3. ASSUME NEW c \in aeCalls, AppendStep(c)
      PROVE  applied' = applied
  BY <1>3 DEF AppendStep, AppendEntries1Stale, AppendEntries1Mismatch,
              AppendEntries1BehindSnapshot, AppendEntries1Conflict, AppendEntries1Accept,
              sendAppendEntriesNewerTerm, sendAppendEntriesIgnored,
              sendAppendEntriesRefused, sendAppendEntriesAccepted
<1>4. ASSUME NEW c \in isCalls, SnapshotStep(c)
      PROVE  applied' = applied
  BY <1>4 DEF SnapshotStep, InstallSnapshotStale, InstallSnapshotOutdated, InstallSnapshot,
              leaderSendSnapShotIgnored, leaderSendSnapShotNewerTerm, leaderSendSnapShotDone
<1>5. ASSUME \/ \E t \in snapThreads : leaderSendSnapShot(t)
             \/ CallFails
             \/ UNCHANGED vars
      PROVE  applied' = applied
  BY <1>5 DEF leaderSendSnapShot, CallFails, vars
<1> QED BY <1>1, <1>2, <1>3, <1>4, <1>5 DEF Next

\* Every entry applied was applied before or is in the log at that index.
LEMMA AppliedItems ==
    ASSUME IndexInv, [Next]_vars, NEW i, NEW e, <<i, e>> \in applied'
    PROVE  Item(i, e)
<1>1. CASE <<i, e>> \in applied
  BY <1>1 DEF Item
<1>2. ASSUME NEW s \in Server, applierTicker(s), <<i, e>> \notin applied
      PROVE  Item(i, e)
  <2> DEFINE snap == m_lastSnapshotIncludeIndex[s]
  <2>1. PICK j \in (m_lastApplied[s] + 1)..m_commitIndex[s] : <<i, e>> = <<j, m_logs[s][j - snap]>>
    BY <1>2 DEF applierTicker
  <2>2. /\ snap \in Nat /\ Len(m_logs[s]) \in Nat /\ m_lastApplied[s] \in Nat /\ m_commitIndex[s] \in Nat
        /\ snap <= m_lastApplied[s] /\ m_commitIndex[s] <= snap + Len(m_logs[s])
    BY DEF IndexInv, LogBounds, getLastLogIndex, TypeOK, ServerTypeOK
  <2>3. i = j /\ e = m_logs[s][j - snap]
    BY <2>1
  <2>4. j - snap \in 1..Len(m_logs[s]) /\ j = snap + (j - snap)
    BY SMTT(60), <2>2
  <2> QED BY <2>3, <2>4 DEF Item, InLog
<1> QED BY <1>1, <1>2, AppliedFrame

\* Together: an entry is old or was just taken by a leader.
LEMMA ItemStep ==
    ASSUME IndexInv, TypeOK', MaxRestarts = 0, restarts = 0, [Next]_vars, NEW i, NEW e, Item(i, e)'
    PROVE  Item(i, e) \/ Taken(i, e)
<1>1. InLog(i, e)' \/ InCall(i, e)' \/ <<i, e>> \in applied'
  BY DEF Item
<1> QED BY <1>1, LogItems, CallItems, AppliedItems

\* Only the myAssert of AppendEntries1 gives this end.
LEMMA ConflictFrame ==
    ASSUME TypeOK, MaxRestarts = 0, restarts = 0, [Next]_vars, NEW s \in Server,
           proc[s] # "conflictingCommand", proc'[s] = "conflictingCommand"
    PROVE  \E c \in aeCalls : c.to = s /\ AppendEntries1Conflict(c)
<1>0. proc \in [Server -> ProcStates]
  BY DEF TypeOK, ServerTypeOK
<1>1. ASSUME NEW p \in Server,
             \/ doElection(p) \/ doHeartBeat(p) \/ applierTicker(p) \/ Crash(p) \/ Restart(p)
             \/ \E command \in Command : Start(p, command)
             \/ \E index \in 1..m_lastApplied[p] : Snapshot(p, index)
      PROVE  FALSE
  <2>1. proc' = proc \/ Crash(p) \/ Restart(p)
    BY <1>1 DEF doElection, doHeartBeat, applierTicker, Start, Snapshot, serverVars
  <2> QED BY <1>0, <2>1 DEF Crash, Restart, Abort
<1>2. ASSUME NEW c \in rvCalls, VoteStep(c)
      PROVE  FALSE
  <2>1. proc' = proc \/ sendRequestVoteElected(c)
    BY <1>2 DEF VoteStep, RequestVote, sendRequestVoteNewerTerm, sendRequestVoteIgnored,
              sendRequestVoteCounted, serverVars
  <2> QED BY <1>0, <2>1 DEF sendRequestVoteElected
<1>3. ASSUME NEW c \in aeCalls, AppendStep(c)
      PROVE  c.to = s /\ AppendEntries1Conflict(c)
  <2>1. proc' = proc \/ AppendEntries1BehindSnapshot(c) \/ AppendEntries1Conflict(c)
    BY <1>3 DEF AppendStep, AppendEntries1Stale, AppendEntries1Mismatch, AppendEntries1Accept,
              sendAppendEntriesNewerTerm, sendAppendEntriesIgnored,
              sendAppendEntriesRefused, sendAppendEntriesAccepted, serverVars
  <2> QED BY <1>0, <2>1 DEF AppendEntries1BehindSnapshot, AppendEntries1Conflict, Abort
<1>4. ASSUME \/ \E c \in isCalls : SnapshotStep(c)
             \/ \E t \in snapThreads : leaderSendSnapShot(t)
             \/ CallFails
             \/ UNCHANGED vars
      PROVE  FALSE
  <2>1. proc' = proc
    BY <1>4 DEF SnapshotStep, InstallSnapshotStale, InstallSnapshotOutdated, InstallSnapshot,
              leaderSendSnapShotIgnored, leaderSendSnapShotNewerTerm, leaderSendSnapShotDone,
              leaderSendSnapShot, CallFails, vars, serverVars
  <2> QED BY <2>1
<1> QED BY <1>1, <1>2, <1>3, <1>4 DEF Next

\* Indexes are numbers.
LEMMA ItemIndex ==
    ASSUME TypeOK, NEW i, NEW e, Item(i, e)
    PROVE  i \in Nat
<1>1. CASE InLog(i, e)
  BY <1>1 DEF InLog, TypeOK, ServerTypeOK
<1>2. CASE InCall(i, e)
  BY <1>2, AppendCallTypes DEF InCall
<1>3. CASE <<i, e>> \in applied
  BY <1>3 DEF TypeOK, HistoryTypeOK
<1> QED BY <1>1, <1>2, <1>3 DEF Item

\* A term in leaders is one its winner has reached; an election adds the winner's own.
LEMMA LeadersStep ==
    ASSUME TypeOK, TypeOK', MaxRestarts = 0, restarts = 0, [Next]_vars
    PROVE  /\ leaders \subseteq leaders'
           /\ \A s \in Server : m_currentTerm'[s] >= m_currentTerm[s]
           /\ \A s \in Server : \A t \in Nat :
                 <<s, t>> \in leaders' /\ <<s, t>> \notin leaders =>
                    t = m_currentTerm[s] /\ t = m_currentTerm'[s]
<1>0. m_currentTerm \in [Server -> Nat] /\ m_currentTerm' \in [Server -> Nat]
  BY DEF TypeOK, ServerTypeOK
<1>1. ASSUME Quiet
      PROVE  leaders' = leaders /\ \A s \in Server : m_currentTerm'[s] >= m_currentTerm[s]
  BY <1>0, <1>1 DEF Quiet, VotesKept, TermKept, TermRaised
<1>2. ASSUME NEW p \in Server, doElection(p)
      PROVE  leaders' = leaders /\ \A s \in Server : m_currentTerm'[s] >= m_currentTerm[s]
  BY <1>0, <1>2 DEF doElection
<1>3. ASSUME NEW c \in rvCalls, RequestVote(c)
      PROVE  leaders' = leaders /\ \A s \in Server : m_currentTerm'[s] >= m_currentTerm[s]
  <2>1. c.to \in Server /\ c.term \in Nat
    BY VoteCallTypes
  <2> QED BY <1>0, <1>3, <2>1 DEF RequestVote, Max2
<1>4. ASSUME NEW c \in rvCalls, sendRequestVoteCounted(c)
      PROVE  leaders' = leaders /\ m_currentTerm' = m_currentTerm
  BY <1>4 DEF sendRequestVoteCounted, serverVars
<1>5. ASSUME NEW c \in rvCalls, sendRequestVoteElected(c)
      PROVE  leaders' = leaders \cup {<<c.from, m_currentTerm[c.from]>>} /\ m_currentTerm' = m_currentTerm
  BY <1>5 DEF sendRequestVoteElected
<1>6. CASE leaders' = leaders /\ \A s \in Server : m_currentTerm'[s] >= m_currentTerm[s]
  BY <1>6
<1>7. CASE \E c \in rvCalls : sendRequestVoteElected(c)
  <2>1. PICK c \in rvCalls : sendRequestVoteElected(c)
    BY <1>7
  <2>2. leaders' = leaders \cup {<<c.from, m_currentTerm[c.from]>>} /\ m_currentTerm' = m_currentTerm
    BY <1>5, <2>1
  <2>3. \A s \in Server : m_currentTerm[s] >= m_currentTerm[s]
    BY <1>0
  <2> QED BY <2>2, <2>3
<1>8. CASE \E c \in rvCalls : sendRequestVoteCounted(c)
  BY <1>0, <1>4, <1>6, <1>8
<1> QED BY <1>1, <1>2, <1>3, <1>6, <1>7, <1>8, ElectionFrame

\* A leader has won its term.
LEMMA LeadsWhatItWon ==
    ASSUME TypeOK, TypeOK', MaxRestarts = 0, restarts = 0, [Next]_vars, EntryInv,
           NEW s \in Server, m_status'[s] = Leader
    PROVE  <<s, m_currentTerm'[s]>> \in leaders'
<1>1. leaders \subseteq leaders'
  BY LeadersStep
<1>2. CASE RoleWon(s)
  BY <1>2 DEF RoleWon, sendRequestVoteElected
<1>3. CASE RoleKept(s)
  BY <1>1, <1>3 DEF RoleKept, EntryInv
<1> QED BY <1>2, <1>3, RoleFrame DEF RoleGoal, RoleLeft, RoleTaken, Follower, Leader

\* The invariant is inductive: the one step that makes an entry puts it past all
\* the leader's entries of that term, which nobody else has won.
LEMMA EntryInvStep ==
    ASSUME MaxRestarts = 0, IndexInv, IndexInv', ElectionInv, ElectionInv', EntryInv, [Next]_vars
    PROVE  EntryInv'
<1>0. TypeOK /\ TypeOK' /\ restarts = 0 /\ m_currentTerm \in [Server -> Nat]
  BY DEF IndexInv, ElectionInv, TypeOK, ServerTypeOK
<1>1. \A i, e : Item(i, e)' => Item(i, e) \/ Taken(i, e)
  BY <1>0, ItemStep
<1>2. /\ leaders \subseteq leaders'
      /\ \A s \in Server : m_currentTerm'[s] >= m_currentTerm[s]
      /\ \A s \in Server : \A t \in Nat :
            <<s, t>> \in leaders' /\ <<s, t>> \notin leaders =>
               t = m_currentTerm[s] /\ t = m_currentTerm'[s]
  BY <1>0, LeadersStep
<1>3. \A s \in Server : getLastLogIndex(s) <= getLastLogIndex(s)'
  <2>1. ASSUME NEW s \in Server, Restart(s) PROVE FALSE
    BY <1>0, <2>1 DEF Restart
  <2> QED BY <1>0, <2>1, LogBoundsStep
<1>4. \A s \in Server : getLastLogIndex(s) \in Nat /\ getLastLogIndex(s)' \in Nat
  BY SMTT(60), <1>0 DEF getLastLogIndex, TypeOK, ServerTypeOK
<1>5. ASSUME NEW s \in Server, NEW p \in Server, NEW t, <<s, t>> \in leaders', <<p, t>> \in leaders'
      PROVE  s = p
  <2>1. ElectionSafety'
    BY ElectionInvSafe, PTL
  <2>2. /\ <<s, t>>[1] = s /\ <<s, t>>[2] = t /\ <<p, t>>[1] = p /\ <<p, t>>[2] = t
    OBVIOUS
  <2> QED BY <1>5, <2>1, <2>2 DEF ElectionSafety
\* What is true of the entry a leader takes.
<1>6. ASSUME NEW i, NEW e, Taken(i, e)
      PROVE  \E s \in Server : /\ i = getLastLogIndex(s) + 1 /\ i = getLastLogIndex(s)'
                               /\ e.term = m_currentTerm[s] /\ m_currentTerm' = m_currentTerm
                               /\ <<s, e.term>> \in leaders /\ leaders' = leaders
  <2>1. PICK s \in Server, command \in Command :
            Start(s, command) /\ i = getLastLogIndex(s) + 1
            /\ e = [term |-> m_currentTerm[s], command |-> command]
    BY <1>6 DEF Taken
  <2>2. i = getLastLogIndex(s)'
    <3>1. PICK x : x = [term |-> m_currentTerm[s], command |-> command]
      OBVIOUS
    <3>2. /\ m_logs'[s] = Append(m_logs[s], x) /\ m_lastSnapshotIncludeIndex'[s] = m_lastSnapshotIncludeIndex[s]
          /\ m_logs[s] \in Seq(Entry) /\ m_lastSnapshotIncludeIndex[s] \in Nat
      BY <1>0, <2>1, <3>1 DEF Start, TypeOK, ServerTypeOK
    <3>3. Len(m_logs'[s]) = Len(m_logs[s]) + 1 /\ Len(m_logs[s]) \in Nat
      BY <3>2
    <3> QED BY <2>1, <3>2, <3>3 DEF getLastLogIndex
  <2>3. m_status[s] = Leader /\ m_currentTerm' = m_currentTerm /\ leaders' = leaders
    BY <2>1 DEF Start, serverVars, voteVars
  <2>4. <<s, e.term>> \in leaders /\ e.term = m_currentTerm[s]
    BY <2>1, <2>3 DEF EntryInv
  <2> QED BY <2>1, <2>2, <2>3, <2>4
\* An old entry of a leader's term is before it.
<1>7. ASSUME NEW i, NEW e, NEW f, Taken(i, e), Item(i, f), e.term = f.term
      PROVE  FALSE
  <2>1. PICK s \in Server : /\ i = getLastLogIndex(s) + 1 /\ e.term = m_currentTerm[s]
                            /\ <<s, e.term>> \in leaders
    BY <1>6, <1>7
  <2>2. i <= getLastLogIndex(s)
    BY <1>7, <2>1 DEF EntryInv
  <2> QED BY <1>4, <2>1, <2>2
<1>8. ASSUME NEW i, NEW e, NEW f, Item(i, e)', Item(i, f)', e.term = f.term
      PROVE  e = f
  <2>1. CASE Item(i, e) /\ Item(i, f)
    BY <1>8, <2>1 DEF EntryInv
  <2>2. CASE Taken(i, e) /\ Taken(i, f)
    <3>1. PICK s \in Server, a \in Command :
              Start(s, a) /\ e = [term |-> m_currentTerm[s], command |-> a]
      BY <2>2 DEF Taken
    <3>2. PICK p \in Server, b \in Command :
              Start(p, b) /\ f = [term |-> m_currentTerm[p], command |-> b]
      BY <2>2 DEF Taken
    <3>3. m_status[s] = Leader /\ m_status[p] = Leader /\ m_currentTerm[s] = m_currentTerm[p]
      BY <1>8, <3>1, <3>2 DEF Start
    <3>4. <<s, m_currentTerm[s]>> \in leaders' /\ <<p, m_currentTerm[s]>> \in leaders'
      BY <1>2, <3>3 DEF EntryInv
    <3>5. s = p
      BY <1>5, <3>4
    <3>6. Append(m_logs[s], e) = Append(m_logs[s], f) /\ m_logs[s] \in Seq(Entry)
      <4>1. m_logs \in [Server -> Seq(Entry)]
        BY <1>0 DEF TypeOK, ServerTypeOK
      <4>2. m_logs'[s] = Append(m_logs[s], e)
        BY <3>1, <4>1 DEF Start
      <4>3. m_logs'[s] = Append(m_logs[s], f)
        BY <3>2, <3>5, <4>1 DEF Start
      <4> QED BY <4>1, <4>2, <4>3
    <3>7. /\ Append(m_logs[s], e)[Len(m_logs[s]) + 1] = e
          /\ Append(m_logs[s], f)[Len(m_logs[s]) + 1] = f
      BY <3>6
    <3> QED BY <3>6, <3>7
  <2> QED BY <1>1, <1>7, <1>8, <2>1, <2>2
<1>9. ASSUME NEW i, NEW e, Item(i, e)'
      PROVE  \E s \in Server : <<s, e.term>> \in leaders'
  <2>1. CASE Item(i, e)
    BY <1>2, <2>1 DEF EntryInv
  <2>2. CASE Taken(i, e)
    BY <1>2, <1>6, <2>2
  <2> QED BY <1>1, <1>9, <2>1, <2>2
<1>10. ASSUME NEW s \in Server, NEW t \in Nat, <<s, t>> \in leaders'
       PROVE  t <= m_currentTerm'[s]
  <2>1. m_currentTerm'[s] \in Nat /\ m_currentTerm[s] \in Nat
    BY <1>0 DEF TypeOK, ServerTypeOK
  <2>2. CASE <<s, t>> \in leaders
    <3>1. t <= m_currentTerm[s]
      BY <2>2 DEF EntryInv
    <3> QED BY <1>2, <2>1, <3>1
  <2>3. CASE <<s, t>> \notin leaders
    BY <1>2, <1>10, <2>1, <2>3
  <2> QED BY <2>2, <2>3
<1>11. ASSUME NEW s \in Server, <<s, m_currentTerm'[s]>> \in leaders',
              NEW i, NEW e, Item(i, e)', e.term = m_currentTerm'[s]
       PROVE  i <= getLastLogIndex(s)'
  <2>1. m_currentTerm'[s] \in Nat /\ m_currentTerm[s] \in Nat
    BY <1>0 DEF TypeOK, ServerTypeOK
  <2>2. CASE Taken(i, e)
    <3>1. PICK p \in Server : i = getLastLogIndex(p)' /\ <<p, e.term>> \in leaders'
      BY <1>2, <1>6, <2>2
    <3>2. s = p
      BY <1>5, <1>11, <3>1
    <3> QED BY <1>4, <3>1, <3>2
  <2>3. CASE Item(i, e)
    <3>1. PICK p \in Server : <<p, e.term>> \in leaders
      BY <2>3 DEF EntryInv
    <3>2. <<s, e.term>> \in leaders
      BY <1>2, <1>5, <1>11, <3>1
    <3>3. e.term <= m_currentTerm[s]
      BY <1>11, <2>1, <3>2 DEF EntryInv
    <3>4. e.term = m_currentTerm[s]
      BY <1>2, <1>11, <2>1, <3>3
    <3>5. i <= getLastLogIndex(s) /\ i \in Nat
      <4>1. i <= getLastLogIndex(s)
        BY <2>3, <3>2, <3>4 DEF EntryInv
      <4> QED BY <4>1, <2>3, <1>0, ItemIndex
    <3> QED BY <1>3, <1>4, <3>5
  <2> QED BY <1>1, <1>11, <2>2, <2>3
<1>12. \A s \in Server : m_status'[s] = Leader => <<s, m_currentTerm'[s]>> \in leaders'
  BY <1>0, LeadsWhatItWon
<1>13. ASSUME NEW s \in Server, proc'[s] = "conflictingCommand"
       PROVE  FALSE
  <2>1. PICK c \in aeCalls : c.to = s /\ AppendEntries1Conflict(c)
    BY <1>0, <1>13, ConflictFrame DEF EntryInv
  <2> DEFINE snap == m_lastSnapshotIncludeIndex[s]
             off == c.prevLogIndex - snap
  <2>2. PICK k \in 1..Len(c.entries) :
            /\ off + k <= Len(m_logs[s])
            /\ m_logs[s][off + k].term = c.entries[k].term
            /\ m_logs[s][off + k].command # c.entries[k].command
    BY <2>1 DEF AppendEntries1Conflict, ConflictingCommand
  <2>3. /\ snap \in Nat /\ c.prevLogIndex \in Nat /\ Len(m_logs[s]) \in Nat /\ off \in Nat
    <3>1. c.prevLogIndex \in Nat /\ snap \in Nat
      BY <1>0, AppendCallTypes DEF TypeOK, ServerTypeOK
    <3>2. c.prevLogIndex >= snap
      BY <2>1, <3>1 DEF AppendEntries1Conflict, matchLog
    <3>3. Len(m_logs[s]) \in Nat
      BY <1>0 DEF TypeOK, ServerTypeOK
    <3> QED BY <3>1, <3>2, <3>3
  <2>4. off + k \in 1..Len(m_logs[s]) /\ snap + (off + k) = c.prevLogIndex + k
    BY <2>2, <2>3
  <2> HIDE DEF off
  <2>5. Item(c.prevLogIndex + k, m_logs[s][off + k])
    BY <2>4 DEF Item, InLog
  <2>6. Item(c.prevLogIndex + k, c.entries[k])
    BY DEF Item, InCall
  <2> QED BY <2>2, <2>5, <2>6 DEF EntryInv
<1> QED BY <1>8, <1>9, <1>10, <1>11, <1>12, <1>13 DEF EntryInv

\* At the start there is no entry, no call and no leader.
LEMMA EntryInvInit == Init => EntryInv
<1> SUFFICES ASSUME Init PROVE EntryInv
  OBVIOUS
<1>1. ASSUME NEW i, NEW e, Item(i, e) PROVE FALSE
  BY <1>1 DEF Init, Item, InLog, InCall
<1> QED BY <1>1 DEF Init, EntryInv, Leader, Follower

\* What the entries' invariant says of logs and state machines.
LEMMA EntryInvOne == TypeOK /\ EntryInv => OneCommand
<1> SUFFICES ASSUME TypeOK, EntryInv PROVE OneCommand
  OBVIOUS
<1> DEFINE Stored == UNION {{<<m_lastSnapshotIncludeIndex[s] + k, m_logs[s][k]>> : k \in 1..Len(m_logs[s])} :
                            s \in Server}
<1>1. ASSUME NEW a \in Stored PROVE Item(a[1], a[2])
  <2>0. PICK s \in Server : a \in {<<m_lastSnapshotIncludeIndex[s] + k, m_logs[s][k]>> : k \in 1..Len(m_logs[s])}
    BY <1>1
  <2>1. PICK k \in 1..Len(m_logs[s]) : a = <<m_lastSnapshotIncludeIndex[s] + k, m_logs[s][k]>>
    BY <2>0
  <2>2. a[1] = m_lastSnapshotIncludeIndex[s] + k /\ a[2] = m_logs[s][k]
    BY <2>1
  <2> QED BY <2>2 DEF Item, InLog
<1>2. ASSUME NEW a \in applied PROVE Item(a[1], a[2])
  <2>1. a = <<a[1], a[2]>>
    BY <1>2 DEF TypeOK, HistoryTypeOK
  <2> QED BY <2>1 DEF Item
<1> QED BY <1>1, <1>2 DEF EntryInv, OneCommand

\* One command per index and term, in every cluster whose processes are not
\* restarted, with any number of servers, commands, terms and entries: no
\* AppendEntries1 ends its process over a conflicting command (raft.cpp:82-90).
THEOREM OneCommandCorrect ==
    ASSUME MaxRestarts = 0
    PROVE  Spec => []OneCommand
<1> DEFINE Inv == IndexInv /\ ElectionInv /\ EntryInv
<1>1. Init => Inv
  BY IndexInvInit, ElectionInvInit, EntryInvInit
<1>2. Inv /\ [Next]_vars => Inv'
  BY IndexInvStep, ElectionInvStep, EntryInvStep DEF IndexInv
<1>3. Inv => OneCommand
  BY EntryInvOne DEF IndexInv
<1> HIDE DEF Inv
<1> QED BY <1>1, <1>2, <1>3, PTL DEF Spec
=============================================================================
