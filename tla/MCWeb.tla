------------------------------- MODULE MCWeb -------------------------------
(* The parts of the web server that keep state of their own and do not share    *)
(* it, checked side by side: a behaviour is one of the part chosen at its       *)
(* start, the others stay in their first state.                                 *)
EXTENDS Http, Accounts, AiGame, DbPool

VARIABLE part

vars == <<part, httpVars, accVars, aiVars, dbVars>>

Init ==
    /\ part \in {"http", "accounts", "ai", "db"}
    /\ HttpInit /\ AccInit /\ AiInit /\ DbInit
    /\ part # "http" => shake = 0

OnlyHttp == part = "http" /\ UNCHANGED <<part, accVars, aiVars, dbVars>>
OnlyAccounts == part = "accounts" /\ UNCHANGED <<part, httpVars, aiVars, dbVars>>
OnlyAi == part = "ai" /\ UNCHANGED <<part, httpVars, accVars, dbVars>>
OnlyDb == part = "db" /\ UNCHANGED <<part, httpVars, accVars, aiVars>>

Next == \/ OnlyHttp /\ HttpNext
        \/ OnlyAccounts /\ AccNext
        \/ OnlyAi /\ AiNext
        \/ OnlyDb /\ DbNext

\* HTTP: onMessage runs to its end and TCP delivers.  Pool: pings and sleeps end, and
\* of the threads that want a mutex which stays free one gets it.  Nothing is assumed
\* of a mutex that is only free in between.
Fairness ==
    /\ WF_vars(OnlyHttp /\ Serve) /\ WF_vars(OnlyHttp /\ DeliverAll)
    /\ WF_vars(OnlyDb /\ CheckAgain) /\ WF_vars(OnlyDb /\ CheckOne)
    /\ WF_vars(OnlyDb /\ \E w \in Worker : ping(w))
    /\ WF_vars(OnlyDb /\ \E w \in Worker : getConnection(w))
    /\ WF_vars(OnlyDb /\ \E w \in Worker : GiveBack(w))

Spec == Init /\ [][Next]_vars /\ Fairness
=============================================================================
