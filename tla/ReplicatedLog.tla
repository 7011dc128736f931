--------------------------- MODULE ReplicatedLog ----------------------------
(***************************************************************************)
(* What KvServer is promised by Raft (class Raft of raftCore/raft.cpp):    *)
(* one committed log, extended by the leader of the moment.  The module    *)
(* Raft is the detailed model.                                             *)
(*                                                                         *)
(* Two habits of the code are kept.  A deposed leader believes in itself   *)
(* until it hears of its successor, and AppendEntries1 overwrites entries  *)
(* but never shortens a log, so a server's last index never goes back.     *)
(***************************************************************************)
EXTENDS Integers, Sequences, FiniteSets

CONSTANTS
    NumServers,     \* the nodes, in the order of the configuration file
    MaxElections    \* bound: leader changes

ASSUME NumServersAssumption == NumServers \in Nat \ {0}
ASSUME MaxElectionsAssumption == MaxElections \in Nat

Server == 1..NumServers

VARIABLES
    raftLog,    \* m_logs of each server, from index 1
    isLeader,   \* what GetState and Start answer
    lead,       \* the leader of the newest term
    log,        \* the committed entries
    elections   \* how often the leader changed

raftVars == <<raftLog, isLeader, lead, log, elections>>

Prefix(s, k) == SubSeq(raftLog[s], 1, k)

\* Mutant of Overwrite: the log is cut to what the leader sent.
Truncate(mine, theirs) == theirs

\* AppendEntries1: entry by entry, what is there beyond them stays.
Overwrite(mine, theirs) == theirs \o SubSeq(mine, Len(theirs) + 1, Len(mine))

Holds(s, k) == Len(raftLog[s]) >= k /\ Prefix(s, k) = SubSeq(log, 1, k)

\* The entry gets the next index of the log of s.
Start(s, op) ==
    /\ isLeader[s]
    /\ raftLog' = [raftLog EXCEPT ![s] = Append(@, op)]
    /\ UNCHANGED <<isLeader, lead, log, elections>>

\* An AppendEntries of the leader reaches p.
Replicate(p) ==
    /\ p # lead
    /\ isLeader[p] \/ Overwrite(raftLog[p], raftLog[lead]) # raftLog[p]
    /\ raftLog' = [raftLog EXCEPT ![p] = Overwrite(@, raftLog[lead])]
    /\ isLeader' = [isLeader EXCEPT ![p] = FALSE]
    /\ UNCHANGED <<lead, log, elections>>

\* The leader finds its log up to k on a majority.
Commit(k) ==
    /\ k \in (Len(log) + 1)..Len(raftLog[lead])
    /\ 2 * Cardinality({p \in Server : /\ Len(raftLog[p]) >= k
                                       /\ Prefix(p, k) = Prefix(lead, k)}) > NumServers
    /\ log' = Prefix(lead, k)
    /\ UNCHANGED <<raftLog, isLeader, lead, elections>>

\* Only a server with every committed entry wins.
Elect(p) ==
    /\ p # lead
    /\ elections < MaxElections
    /\ Holds(p, Len(log))
    /\ lead' = p
    /\ isLeader' = [isLeader EXCEPT ![p] = TRUE]
    /\ elections' = elections + 1
    /\ UNCHANGED <<raftLog, log>>

RaftStep ==
    \/ \E p \in Server : Replicate(p) \/ Elect(p)
    \/ \E k \in 1..Len(raftLog[lead]) : Commit(k)

RaftInit ==
    /\ raftLog = [s \in Server |-> <<>>]
    /\ lead = 1
    /\ isLeader = [s \in Server |-> s = 1]
    /\ log = <<>>
    /\ elections = 0
=============================================================================
