------------------------------ MODULE MCTcpRpc ------------------------------
EXTENDS TcpRpc, TLC

CONSTANTS c1, c2, k1, k2

MCClients == {(c1 :> k1) @@ (c2 :> k2), (c1 :> k1) @@ (c2 :> k1)}
=============================================================================
