------------------------------ MODULE MCRouter ------------------------------
(***************************************************************************)
(* TLC instances of Router, modelled on router 5: frames for receiver 2    *)
(* come in at eth1 and leave at eth3 for router 6, acks go the other way   *)
(* to router 1, and AS4 takes the route of receiver 2 out of use and back. *)
(* Router 6 asks for router 5's MAC address; router 1 does not.            *)
(***************************************************************************)
EXTENDS Router
MCRoutingTable ==
  [r2 |-> [next_hop |-> "router6", interface_name |-> "eth3"],
   sender |-> [next_hop |-> "router1", interface_name |-> "eth1"]]
MCFlows == {<<"eth1", "r2">>, <<"eth3", "sender">>}
=============================================================================
