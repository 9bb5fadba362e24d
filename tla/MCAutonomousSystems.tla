------------------------ MODULE MCAutonomousSystems ------------------------
(***************************************************************************)
(* TLC instance of AutonomousSystems: the network main.cpp and the files   *)
(* router_*.txt set up, five ASes and seven routers, where r1 and r2 are   *)
(* the addresses of the two receivers.                                     *)
(***************************************************************************)
EXTENDS BorderFlags

MCASList == <<"AS1", "AS2", "AS3", "AS4", "AS5">>
MCAdjacent == [AS1 |-> {"AS2", "AS4"}, AS2 |-> {"AS1", "AS3"}, AS3 |-> {"AS2", "AS4"},
               AS4 |-> {"AS1", "AS3", "AS5"}, AS5 |-> {"AS4"}]
MCBorderRouters == [AS1 |-> <<"R1">>, AS2 |-> <<"R2", "R3">>, AS3 |-> <<"R4">>,
                    AS4 |-> <<"R5", "R6">>, AS5 |-> <<"R7">>]
MCInitialRoutes ==
  [R1 |-> [r1 |-> TRUE, r2 |-> FALSE], R2 |-> [r1 |-> TRUE], R3 |-> [r1 |-> TRUE],
   R4 |-> [r1 |-> TRUE], R5 |-> [r1 |-> TRUE, r2 |-> TRUE],
   R6 |-> [r1 |-> TRUE, r2 |-> TRUE], R7 |-> [r2 |-> TRUE]]
MCInitialReach == [AS1 |-> {"r1"}, AS2 |-> {"r1"}, AS3 |-> {"r1"}, AS4 |-> {"r1"},
                   AS5 |-> {"r2"}]
ToR1(path) == [dest |-> "r1", path |-> path]
MCGivenPaths ==
  [AS1 |-> <<ToR1(<<"AS2", "AS3">>), ToR1(<<"AS4", "AS3">>)>>,
   AS2 |-> <<ToR1(<<"AS3">>)>>, AS3 |-> <<>>, AS4 |-> <<ToR1(<<"AS3">>)>>, AS5 |-> <<>>]
MCNextRouter == [R1 |-> "R5", R5 |-> "R6", R6 |-> "R7", R7 |-> "receiver"]
=============================================================================
