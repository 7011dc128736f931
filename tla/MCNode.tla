------------------------------- MODULE MCNode -------------------------------
(* The parts below a key-value server that keep state of their own and do not   *)
(* share it, checked side by side: its skip list, the channel of one RPC client *)
(* thread, and the bytes of its requests.  A behaviour is one of the part       *)
(* chosen at its start, the others stay in their first state.                   *)
EXTENDS SkipList, RpcChannel, Wire

VARIABLE part

vars == <<part, skipVars, rpcVars, wireVars>>

Init ==
    /\ part \in {"skiplist", "rpc", "wire"}
    /\ SkipInit /\ RpcInit /\ WireInit
    /\ part # "wire" =>
          msg = [schema |-> InstallSnapshotResponse, fields |-> default_instance(InstallSnapshotResponse)]

OnlySkipList == part = "skiplist" /\ UNCHANGED <<part, rpcVars, wireVars>>
OnlyRpc == part = "rpc" /\ UNCHANGED <<part, skipVars, wireVars>>
OnlyWire == part = "wire" /\ UNCHANGED <<part, skipVars, rpcVars>>

Next == \/ OnlySkipList /\ SkipNext
        \/ OnlyRpc /\ RpcNext
        \/ OnlyWire /\ WireNext

\* The client's thread goes on calling and the provider's loop goes on reading.
Fairness == WF_vars(OnlyRpc /\ \E c \in Caller : CallStep(c)) /\ WF_vars(OnlyRpc /\ Answering)

Spec == Init /\ [][Next]_vars /\ Fairness

\* Recovers of RpcChannel, for the behaviours of the channel (newConnect and the
\* closes in CallMethod): however often the server died or was slow before, a
\* client that goes on calling gets replies again.
ChannelRecovers == part = "rpc" => Recovers
=============================================================================
