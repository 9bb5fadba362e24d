----------------------------- MODULE LossyLines -----------------------------
(***************************************************************************)
(* What a router promises the hosts: each stream of packets, from one      *)
(* interface to one next hop, is a line that packets enter at one end and  *)
(* leave at the other.  Some may be lost inside; none is doubled, and none *)
(* passes another.  SlidingWindow takes routers for such lines without     *)
(* losses, Withdrawal for lines whose losses are reported.                 *)
(***************************************************************************)
EXTENDS Naturals, SequencesExt

CONSTANTS Lines, Packets

VARIABLES inside, delivered      \* of each line: its packets, oldest first

lines == <<inside, delivered>>

Init == /\ inside = [l \in Lines |-> <<>>]
        /\ delivered = [l \in Lines |-> <<>>]

\* Each packet enters once, behind all others of its line.
Enter(l, packet) ==
  /\ inside' = [inside EXCEPT ![l] = Append(@, packet)]
  /\ UNCHANGED delivered
  /\ \A k \in Lines : packet \notin Range(inside[k]) \cup Range(delivered[k])

\* What leaves was at the front.
Leave ==
  \A l \in Lines : \E n \in 0..Len(inside[l]) :
    /\ delivered'[l] = delivered[l] \o SubSeq(inside[l], 1, n)
    /\ inside'[l] = SubSeq(inside[l], n + 1, Len(inside[l]))

\* The packets that are left stay in their order.
PartOf(left, queue) ==
  \E place \in [DOMAIN left -> DOMAIN queue] :
    /\ \A j, k \in DOMAIN left : j < k => place[j] < place[k]
    /\ \A k \in DOMAIN left : left[k] = queue[place[k]]

Lose == UNCHANGED delivered /\ \A l \in Lines : PartOf(inside'[l], inside[l])

Next == Leave \/ Lose \/ \E l \in Lines, packet \in Packets : Enter(l, packet)

Spec == Init /\ [][Next]_lines
=============================================================================
