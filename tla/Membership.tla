----------------------------- MODULE Membership -----------------------------
(***************************************************************************)
(* What the frames to receiver 2 see of AS.cpp: the route out of AS1 and   *)
(* the one out of AS4 are put to use from the receiver backwards and taken *)
(* out of use from the sender onwards, one after the other, by the thread  *)
(* of main.cpp.  Withdrawal is built on these actions; AutonomousSystems   *)
(* is shown to implement them (BorderFlags).                               *)
(***************************************************************************)
EXTENDS Sequences

VARIABLES
  in_use,       \* per AS, is its route to the receiver in use?
  attached,     \* is the receiver in m_reachable_dest_ip_list of AS4?
  changing      \* flags the main thread has still to set: <<AS, value>>, in order

membership == <<in_use, attached, changing>>

BorderASes == {"AS1", "AS4"}

HookUpOrder == <<<<"AS4", TRUE>>, <<"AS1", TRUE>>>>
WithdrawalOrder == <<<<"AS1", FALSE>>, <<"AS4", FALSE>>>>

MembershipInit ==
  /\ in_use = [as \in BorderASes |-> as = "AS4"]       \* router_*.txt, last column
  /\ attached = FALSE /\ changing = <<>>

Change(newAttached, order) ==
  /\ changing = <<>>
  /\ attached' = newAttached
  /\ changing' = order
  /\ UNCHANGED in_use

\* A destination AS4 already reaches is not announced a second time.
HookUpRequest == ~attached /\ Change(TRUE, HookUpOrder)
Withdrawl == Change(FALSE, WithdrawalOrder)

SetRoute ==
  /\ changing # <<>>
  /\ in_use' = [in_use EXCEPT ![Head(changing)[1]] = Head(changing)[2]]
  /\ changing' = Tail(changing)
  /\ UNCHANGED attached

MembershipNext == HookUpRequest \/ Withdrawl \/ SetRoute

MembershipSpec == MembershipInit /\ [][MembershipNext]_membership
=============================================================================
