---------------------------- MODULE BorderFlags ----------------------------
(***************************************************************************)
(* What AutonomousSystems comes down to for the frames of Withdrawal: the  *)
(* routes into the way to one destination (of the AS of the sender) and    *)
(* at its end (of the provider) are two flags, set and cleared one at a    *)
(* time in the order of Membership.                                        *)
(***************************************************************************)
EXTENDS AutonomousSystems

CONSTANTS
  Entrance,     \* the AS of the sender: AS1 of Membership, the provider is its AS4
  Destination   \* the one of the newcomer's destinations that is looked at

\* The rows for the destination: the files router_*.txt are read once.
RowsFor(as) == {r \in Range(BorderRouters[as]) : Destination \in DOMAIN InitialRoutes[r]}

\* A router belongs to one AS and is listed there once; global_as_list has an AS once and
\* the sender's in front of the provider.  At first the provider's rows are in use, the
\* entrance's are not.
ASSUME BorderAssumption ==
  /\ Entrance \in ASes \ HostASes /\ Destination \in Announced
  /\ \A as \in ASes \ HostASes : IsInjective(BorderRouters[as])
  /\ \A a \in ASes \ HostASes : \A b \in (ASes \ HostASes) \ {a} :
       Range(BorderRouters[a]) \cap Range(BorderRouters[b]) = {}
  /\ IsInjective(ASList)
  /\ \E i, j \in DOMAIN ASList : i < j /\ ASList[i] = Entrance /\ ASList[j] = Provider
  /\ RowsFor(Provider) # {} /\ \A r \in RowsFor(Provider) : InitialRoutes[r][Destination]
  /\ RowsFor(Entrance) # {} /\ \A r \in RowsFor(Entrance) : ~InitialRoutes[r][Destination]

\* An AS lets frames through with its last row set, and stops with the first cleared.
Passes(as) == \A r \in RowsFor(as) : in_use[r][Destination]
StillToWrite(as, value) ==
  {r \in RowsFor(as) :
     \E k \in DOMAIN writes :
       writes[k] = [router |-> r, dest |-> Destination, value |-> value]}

\* The provider reaches the destination, unless a withdrawal is on its way to it.
Attached == Destination \in m_reachable[Provider] /\ Provider \notin Range(to_signal)

StillToSet(as) ==
  Attached /\ (Destination \notin m_reachable[as] \/ StillToWrite(as, TRUE) # {})
StillToClear(as) ==
  \/ to_signal # <<>> /\ as \in Range(Tail(to_signal))
  \/ to_signal # <<>> /\ as = Head(to_signal) /\ Destination \in to_erase
  \/ StillToWrite(as, FALSE) = RowsFor(as)

BorderInUse == [as \in {"AS1", "AS4"} |-> IF as = "AS1" THEN Passes(Entrance) ELSE Passes(Provider)]

OneIf(condition, change) == IF condition THEN <<change>> ELSE <<>>
StillToChange ==
  OneIf(StillToSet(Provider), <<"AS4", TRUE>>) \o OneIf(StillToSet(Entrance), <<"AS1", TRUE>>)
  \o OneIf(StillToClear(Entrance), <<"AS1", FALSE>>)
  \o OneIf(StillToClear(Provider), <<"AS4", FALSE>>)

Flags == INSTANCE Membership WITH
  in_use <- BorderInUse, attached <- Attached, changing <- StillToChange

\* Routers, ASes and a breadth-first search come down to the two flags Withdrawal knows,
\* set and cleared one at a time and in its order: hookUpRequest opens AS4 before AS1,
\* withdrawl closes AS1 before AS4, and neither starts early.
ImplementsMembership == Flags!MembershipSpec
=============================================================================
