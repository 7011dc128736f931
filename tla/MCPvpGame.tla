----------------------------- MODULE MCPvpGame ------------------------------
(* Small instances of PvpGame for TLC. *)
EXTENDS PvpGame, TLC

Symmetry == Permutations(User) \cup Permutations(Cell) \cup Permutations(Thread)

\* Nothing is claimed, and so nothing explored, after a Put of an earlier
\* incarnation has landed; a restart and a second Put of unknown outcome are
\* explored, one at a time, with one room.
Explored ==
    /\ ~overrun
    /\ incarnation > 0 => store.next <= 2
    /\ Len(late) > 1 => store.next <= 2 /\ incarnation = 0
=============================================================================
