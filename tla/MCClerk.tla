------------------------------ MODULE MCClerk -------------------------------
(* Small instances of Clerk and KvServer for TLC. *)
EXTENDS Clerk, TLC

Symmetry == Permutations(Client)

\* Clients that have found their leader in earlier days.
Seasoned ==
    /\ KvInit
    /\ m_requestId = [c \in Client |-> 0]
    /\ m_recentLeaderId \in [Client -> Server]
    /\ request = [c \in Client |-> 0]
    /\ answers = {}

\* Kv.cfg looks at reads, writes and second requests (writes) around one leader change,
\* at single writes, first sent to server 1, among two changes, at one write
\* and its retry around a snapshot, and with three calls at a client whose Get is
\* late, and sets a number back, while it sends a write again after a leader change.
ReadsOrManyChanges ==
    /\ elections > 0 => \A n \in DOMAIN calls : calls[n].op.id = 2 => calls[n].op.kind = "Put"
    /\ elections > 1 \/ installs > 0 =>
          \A n \in DOMAIN calls :
              /\ calls[n].op.kind = "Put" /\ calls[n].op.id = 1
              /\ calls[n].server = 1 \/ \E k \in 1..(n - 1) : calls[k].op = calls[n].op
    /\ installs > 0 => elections <= 1 /\ \A n \in DOMAIN calls : calls[n].op = calls[1].op
    /\ Len(calls) > 2 =>
          /\ elections = 1 /\ installs = 0 /\ \A c \in Client : m_recentLeaderId[c] = 1
          /\ calls[1].op.kind = "Get"
          /\ calls[1].st \in {"leading", "execute"} \/ \E s \in Server : setBack[s] # {}
          /\ calls[2].op = calls[3].op /\ calls[2].op.client = calls[1].op.client

SpecSeasoned == Seasoned /\ [][Next]_vars
=============================================================================
