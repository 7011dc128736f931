------------------------------ MODULE MCFiber ------------------------------
(* Instance of Fiber: one thread, or two of which the fibers together park at   *)
(* most twice.  Which thread is the only one does not matter.                   *)
EXTENDS Fiber, FiniteSetsExt

Explored ==
    IF Cardinality(pool) = 1
    THEN pool = {CHOOSE w \in Worker : TRUE}
    ELSE MapThenSumSet(LAMBDA f : waits[f], Fiber) <= 2
=============================================================================
