------------------------------ MODULE MCGameWs ------------------------------
(* Small instances of GameWs for TLC. *)
EXTENDS GameWs, TLC

Symmetry == Permutations(User) \cup Permutations(Cell) \cup Permutations(Conn)

\* Nothing is claimed, and so nothing explored, after a Put of an earlier
\* incarnation has landed.  A second room is explored with two connections, no
\* restart and no Put of unknown outcome, before any stone is set; a second Put of
\* unknown outcome with one room, two WebSocket connections, and no restart; a third
\* connection before the first stone is set, with no restart and no Put open.
SecondRoom == store.next > 2 \/ \E i \in DOMAIN late : late[i].env.next > 2
Opened == {c \in Conn : tcp[c] # "none"}
Explored ==
    /\ ~overrun
    /\ SecondRoom => /\ incarnation = 0 /\ late = <<>>
                     /\ Cardinality(Opened) <= 2
                     /\ \A r \in DOMAIN store.room : store.room[r].board = <<>>
    /\ Len(late) > 1 \/ forked => /\ incarnation = 0 /\ Cardinality(Opened) <= 2
                                  /\ \A c \in Opened : tcp[c] = "ws"
    /\ Cardinality(Opened) > 2 =>
          incarnation = 0 /\ late = <<>> /\ \A r \in DOMAIN store.room : store.room[r].board = <<>>
=============================================================================
