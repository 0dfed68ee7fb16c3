---------------------------- MODULE MCMessageBus ----------------------------
(* Small instances of MessageBus: a gateway that publishes to two streams. *)
EXTENDS MessageBus, TLC

CONSTANTS gateway, router, action, m1, m2, m3

Gateway == gateway
MCSender == [m \in Msgs |-> gateway]
MCDest == [m \in Msgs |-> IF m = m2 THEN action ELSE router]
OneStream == [m \in Msgs |-> router]

Open == {<<gateway, router>>, <<gateway, action>>}
Narrow == {<<gateway, action>>}
MCMatrices == {Open, Narrow}
=============================================================================
