-------------------------- MODULE MCGatewaySession --------------------------
(* Instances of GatewaySession. *)
EXTENDS GatewaySession, TLC

MCHosts == {[name |-> "loopback", port |-> p] : p \in Ports}
             \union {[name |-> "foreign", port |-> CHOOSE p \in Ports : TRUE]}
MCNoOrigin == [bare |-> FALSE, name |-> "none", port |-> 0]
MCOrigins == {MCNoOrigin, [bare |-> TRUE, name |-> "foreign", port |-> 1]}
Alike == Permutations(Gateways)
=============================================================================
