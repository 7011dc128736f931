----------------------------- MODULE AgreedLog ------------------------------
(* What replication is for: one log that only grows, of which every server's  *)
(* state machine has executed a beginning, entry by entry and none twice.     *)
(* A server that was replaced by an empty one begins again.  Raft implements  *)
(* this module, with log the entries that some server has applied.            *)
EXTENDS Naturals, Sequences

CONSTANTS Server, Entry

VARIABLES
    log,   \* the entries agreed on
    done   \* how many of them each server has executed

Init == log = <<>> /\ done = [s \in Server |-> 0]

\* s executes the entries up to the k-th; those it is the first to execute are
\* from now on the agreed ones.
Execute(s, k) ==
    /\ k > done[s]
    /\ done' = [done EXCEPT ![s] = k]
    /\ log' \in Seq(Entry)
    /\ SubSeq(log', 1, Len(log)) = log
    /\ Len(log') = IF k > Len(log) THEN k ELSE Len(log)

BeginAgain(s) ==
    /\ done' = [done EXCEPT ![s] = 0]
    /\ UNCHANGED log

Next ==
    \E s \in Server : BeginAgain(s) \/ Execute(s, done'[s])

Spec == Init /\ [][Next]_<<log, done>>
=============================================================================
