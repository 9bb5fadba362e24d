------------------------------- MODULE Router -------------------------------
(***************************************************************************)
(* One router: the loop of runRouter.cpp over the handlers of router.cpp,  *)
(* with the neighbours that fill its input queues and answer its ARP       *)
(* requests, late or never, and with the clock that time(NULL) reads.      *)
(*                                                                         *)
(* A route stands for the row longestPrefixMatch finds (RoutingTrie.tla);  *)
(* the main thread takes rows out of use and back while packets wait for   *)
(* it.  A packet stands for the fields handlePacket reads.  No host sends  *)
(* to an address of a router and every length and checksum is right, so    *)
(* those branches of handlePacket are left out.  The unordered_maps are    *)
(* visited in any order.  Ages stop one past the last value a comparison   *)
(* can tell apart.                                                         *)
(***************************************************************************)
EXTENDS Selection

CONSTANTS
  Interfaces,
  Hops,            \* next-hop addresses
  Destinations,    \* addresses of hosts the packets are for
  RoutingTable,    \* the route of each destination, in use or not
  Withdrawable,    \* destinations whose row the ASes take out of use and back
  Flows,           \* which destinations the packets on an interface are for
  Neighbours,      \* interfaces whose neighbour asks for this router's address
  RetryAfter,      \* 4 in sweepArpReqs, in seconds
  MaxTimesSent,    \* 5 in sweepArpReqs
  CacheExpired,    \* ARP_CACHE_EXPIRED
  MaxPackets,      \* bound: how many packets arrive
  TTLs             \* bound: the ip_ttl a packet arrives with

Routes == [next_hop : Hops, interface_name : Interfaces]
ASSUME RoutingTableAssumption == RoutingTable \in [Destinations -> Routes]
\* The files router_*.txt give one interface to every next hop.
ASSUME OneInterfacePerHop ==
  \A d, e \in Destinations :
    RoutingTable[d].next_hop = RoutingTable[e].next_hop => RoutingTable[d] = RoutingTable[e]
ASSUME HopAssumption ==
  \A h \in Hops : \E d \in Destinations : RoutingTable[d].next_hop = h
ASSUME LimitAssumption == /\ RetryAfter \in Nat /\ MaxTimesSent \in Nat
                          /\ CacheExpired \in Nat /\ MaxPackets \in Nat
                          /\ TTLs \subseteq 0..255 /\ Neighbours \subseteq Interfaces
                          /\ Withdrawable \subseteq Destinations
                          /\ Flows \subseteq Interfaces \X Destinations

VARIABLES
  pc,                  \* which part of its loop the router thread is in
  in_use,              \* the destinations whose row is in use
  to_visit,            \* what the loop over a map has still to visit
  m_input_queue,       \* per interface
  m_switch_queue,
  m_output_queue,      \* per interface
  m_arp_cache,         \* next hop -> age of the entry
  m_arpreq_queue,      \* next hop -> packets waiting for its MAC address
  m_arpreq_times_list, \* next hop -> the ArpReq: requests sent, age of the last
  aborted,             \* the process died: an assertion, or the use of a freed node
  asked,               \* per next hop, requests its owner has not answered yet
  wire,                \* history: per interface, the packets that left
  arrived,             \* history: the packets that came in, in order
  given_up             \* history: the packets dropped for want of an ARP reply

arpVars == <<m_arp_cache, m_arpreq_queue, m_arpreq_times_list>>
queueVars == <<m_input_queue, m_switch_queue, m_output_queue>>
wireVars == <<asked, wire, arrived>>
vars == <<pc, in_use, to_visit, queueVars, arpVars, aborted, wireVars, given_up>>

IpPackets == [type : {"ip"}, id : 1..MaxPackets, from : Interfaces,
              dst : Destinations, ip_ttl : 0..255]
ArpRequests == [type : {"request"}, from : Interfaces]
ArpReplies == [type : {"reply"}, from : Interfaces, ar_sip : Hops]
Incoming == IpPackets \cup ArpRequests \cup ArpReplies
\* What the router itself writes: an ICMP message about a packet, an ARP request,
\* the ARP reply it makes of a neighbour's request.
IcmpMessages == [type : {"icmp"}, about : 1..MaxPackets]
Requests == [type : {"ask"}, ar_tip : Hops]
Answers == [type : {"answer"}]
Outgoing == IpPackets \cup IcmpMessages \cup Requests \cup Answers

IsIp(packet) == packet.type = "ip"
RouteOf(packet) == RoutingTable[packet.dst]

Put(map, key, value) == [k \in DOMAIN map \cup {key} |-> IF k = key THEN value ELSE map[k]]
Erase(map, key) == [k \in DOMAIN map \ {key} |-> map[k]]
Empty == [k \in {} |-> 0]

\* addPacketToOutputQueue
AddPacketToOutputQueue(packet, interface) ==
  m_output_queue' = [m_output_queue EXCEPT ![interface] = Append(@, packet)]

Init ==
  /\ pc = "cleaning" /\ to_visit = {}
  /\ \E off \in SUBSET Withdrawable : in_use = Destinations \ off
  /\ m_input_queue = [i \in Interfaces |-> <<>>]
  /\ m_switch_queue = <<>>
  /\ m_output_queue = [i \in Interfaces |-> <<>>]
  /\ m_arp_cache = Empty /\ m_arpreq_queue = Empty /\ m_arpreq_times_list = Empty
  /\ aborted = FALSE
  /\ asked = [h \in Hops |-> 0]
  /\ wire = [i \in Interfaces |-> <<>>]
  /\ arrived = <<>> /\ given_up = {}

-----------------------------------------------------------------------------
(* The neighbours, each pushing to one input queue, the ASes, and time.    *)

Push(packet) ==
  m_input_queue' = [m_input_queue EXCEPT ![packet.from] = Append(@, packet)]

PacketArrives(from, dst, ttl) ==
  LET packet == [type |-> "ip", id |-> Len(arrived) + 1, from |-> from,
                 dst |-> dst, ip_ttl |-> ttl]
  IN  /\ Len(arrived) < MaxPackets
      /\ Push(packet)
      /\ arrived' = Append(arrived, packet)
      /\ UNCHANGED <<pc, in_use, to_visit, m_switch_queue, m_output_queue, arpVars, aborted,
                     asked, wire, given_up>>

\* The neighbour behind an interface asks for this router's MAC address.
RequestArrives(from) ==
  /\ m_input_queue[from] = <<>>          \* bound
  /\ Push([type |-> "request", from |-> from])
  /\ UNCHANGED <<pc, in_use, to_visit, m_switch_queue, m_output_queue, arpVars, aborted,
                 wireVars, given_up>>

InterfaceTo(hop) ==
  CHOOSE i \in Interfaces : \E d \in Destinations :
    RoutingTable[d] = [next_hop |-> hop, interface_name |-> i]

\* The owner of a next-hop address answers each request once, in its own time.
HopAnswers(hop) ==
  /\ asked[hop] > 0
  /\ asked' = [asked EXCEPT ![hop] = @ - 1]
  /\ Push([type |-> "reply", from |-> InterfaceTo(hop), ar_sip |-> hop])
  /\ UNCHANGED <<pc, in_use, to_visit, m_switch_queue, m_output_queue, arpVars, aborted,
                 wire, arrived, given_up>>

\* hookUpRequest, broadcastUpdate and withdrawalSignal write in_use of the row of a
\* destination, without a lock.
SetInUse(dst, value) ==
  /\ in_use' = IF value THEN in_use \cup {dst} ELSE in_use \ {dst}
  /\ UNCHANGED <<pc, to_visit, queueVars, arpVars, aborted, wireVars, given_up>>

Older(age, limit) == IF age \in 0..limit THEN age + 1 ELSE age

Tick ==
  /\ m_arp_cache' = [h \in DOMAIN m_arp_cache |-> Older(m_arp_cache[h], CacheExpired)]
  /\ m_arpreq_times_list' =
       [h \in DOMAIN m_arpreq_times_list |->
          [m_arpreq_times_list[h] EXCEPT !.elapsed = Older(@, RetryAfter)]]
  /\ UNCHANGED <<pc, in_use, to_visit, queueVars, m_arpreq_queue, aborted, wireVars, given_up>>

-----------------------------------------------------------------------------
(* arpCacheCleaning and the intake of runRouter.                           *)

\* Erasing the node an iterator stands on and then incrementing the iterator: it
\* goes on, it finds the end too early, or the process dies.
AfterErasing(hop) ==
  \/ to_visit' = to_visit \ {hop} /\ UNCHANGED aborted
  \/ to_visit' = {} /\ UNCHANGED aborted
  \/ aborted' = TRUE /\ UNCHANGED to_visit

\* Mutant: an entry never gets old.
StaleNever(hop) == CacheExpired < 0
Stale(hop) == CacheExpired < m_arp_cache[hop]

CleanEntry(hop) ==
  /\ pc = "cleaning" /\ hop \in to_visit
  /\ IF Stale(hop)
     THEN m_arp_cache' = Erase(m_arp_cache, hop) /\ AfterErasing(hop)
     ELSE to_visit' = to_visit \ {hop} /\ UNCHANGED <<m_arp_cache, aborted>>
  /\ UNCHANGED <<pc, in_use, queueVars, m_arpreq_queue, m_arpreq_times_list, wireVars, given_up>>

EndCleaning ==
  /\ pc = "cleaning" /\ to_visit = {}
  /\ pc' = "intake" /\ to_visit' = Interfaces
  /\ UNCHANGED <<in_use, queueVars, arpVars, aborted, wireVars, given_up>>

\* Mutant: the input queue is read and not popped.
IntakeKeepsQueue(interface) ==
  /\ pc = "intake" /\ interface \in to_visit
  /\ to_visit' = to_visit \ {interface}
  /\ m_switch_queue' = m_switch_queue \o m_input_queue[interface]
  /\ UNCHANGED <<pc, in_use, m_input_queue, m_output_queue, arpVars, aborted, wireVars, given_up>>

\* A push to another queue while the mutex is held is one that came before it was.
Intake(interface) ==
  /\ pc = "intake" /\ interface \in to_visit
  /\ to_visit' = to_visit \ {interface}
  /\ m_switch_queue' = m_switch_queue \o m_input_queue[interface]
  /\ m_input_queue' = [m_input_queue EXCEPT ![interface] = <<>>]
  /\ UNCHANGED <<pc, in_use, m_output_queue, arpVars, aborted, wireVars, given_up>>

\* With nothing to do, the timed wait ends after a second at the latest.
EndIntake ==
  /\ pc = "intake" /\ to_visit = {}
  /\ pc' = "switching"
  /\ UNCHANGED <<in_use, to_visit, queueVars, arpVars, aborted, wireVars, given_up>>

-----------------------------------------------------------------------------
(* handlePacket, on the oldest packet of the switch queue.                 *)

popped == Head(m_switch_queue)

Switching(type) ==
  /\ pc = "switching" /\ m_switch_queue # <<>>
  /\ popped.type = type
  /\ m_switch_queue' = Tail(m_switch_queue)
  /\ UNCHANGED <<pc, in_use, to_visit, m_input_queue, wireVars, given_up>>

\* The ICMP message for an expired TTL is commented out.
TTLExpired ==
  /\ Switching("ip") /\ popped.ip_ttl <= 1
  /\ UNCHANGED <<m_output_queue, arpVars, aborted>>

LPMMiss ==
  /\ Switching("ip") /\ popped.ip_ttl > 1 /\ popped.dst \notin in_use
  /\ AddPacketToOutputQueue([type |-> "icmp", about |-> popped.id], popped.from)
  /\ UNCHANGED <<arpVars, aborted>>

LPMHit == popped.ip_ttl > 1 /\ popped.dst \in in_use

Decremented(p) == [p EXCEPT !.ip_ttl = @ - 1]

CacheHit ==
  /\ Switching("ip") /\ LPMHit
  /\ RouteOf(popped).next_hop \in DOMAIN m_arp_cache
  /\ AddPacketToOutputQueue(Decremented(popped), RouteOf(popped).interface_name)
  /\ UNCHANGED <<arpVars, aborted>>

Waiting(p) == [packet |-> p, iface |-> RouteOf(p).interface_name]

\* Mutant: a packet that finds others waiting is forgotten.
ArpCacheQueueReqFirstOnly(hop, p) ==
  IF hop \in DOMAIN m_arpreq_queue
  THEN UNCHANGED <<m_arpreq_queue, m_arpreq_times_list>>
  ELSE /\ m_arpreq_queue' = Put(m_arpreq_queue, hop, <<Waiting(p)>>)
       /\ \E elapsed \in -1..(RetryAfter + 1) :
            m_arpreq_times_list' =
              Put(m_arpreq_times_list, hop,
                  [times_sent |-> 0, elapsed |-> elapsed, iface |-> Waiting(p).iface])

\* The field sent of a new ArpReq is not initialised: the request may seem old or
\* new, or (elapsed = -1) sent at a time still to come.
ArpCacheQueueReq(hop, p) ==
  IF hop \in DOMAIN m_arpreq_queue
  THEN /\ m_arpreq_queue' = [m_arpreq_queue EXCEPT ![hop] = Append(@, Waiting(p))]
       /\ UNCHANGED m_arpreq_times_list
  ELSE /\ m_arpreq_queue' = Put(m_arpreq_queue, hop, <<Waiting(p)>>)
       /\ \E elapsed \in -1..(RetryAfter + 1) :
            m_arpreq_times_list' =
              Put(m_arpreq_times_list, hop,
                  [times_sent |-> 0, elapsed |-> elapsed, iface |-> Waiting(p).iface])

CacheMiss ==
  /\ Switching("ip") /\ LPMHit
  /\ RouteOf(popped).next_hop \notin DOMAIN m_arp_cache
  /\ ArpCacheQueueReq(RouteOf(popped).next_hop, popped)
  /\ UNCHANGED <<m_output_queue, m_arp_cache, aborted>>

HandleArpRequestToMe ==
  /\ Switching("request")
  /\ AddPacketToOutputQueue([type |-> "answer"], popped.from)
  /\ UNCHANGED <<arpVars, aborted>>

\* unordered_map::insert leaves an entry that is there as it is.
Learnt(hop) == IF hop \in DOMAIN m_arp_cache THEN m_arp_cache ELSE Put(m_arp_cache, hop, 0)

\* Mutant: the packets are taken from the wrong end.
ReleasedNewestFirst(waiting) ==
  [k \in 1..Len(waiting) |-> Decremented(waiting[Len(waiting) + 1 - k].packet)]
Released(waiting) == [k \in 1..Len(waiting) |-> Decremented(waiting[k].packet)]

For(interface, waiting) == At(waiting, {k \in DOMAIN waiting : waiting[k].iface = interface})

\* Mutant: the emptied queue is left in the map.
HandleArpReplyKeepsQueue ==
  LET hop == popped.ar_sip
      waiting == m_arpreq_queue[hop]
  IN  /\ Switching("reply") /\ hop \in DOMAIN m_arpreq_queue
      /\ m_arp_cache' = Learnt(hop)
      /\ m_output_queue' =
           [i \in Interfaces |->
              m_output_queue[i] \o Released(For(i, waiting))]
      /\ m_arpreq_queue' = [m_arpreq_queue EXCEPT ![hop] = <<>>]
      /\ m_arpreq_times_list' = Erase(m_arpreq_times_list, hop)
      /\ UNCHANGED aborted

HandleArpReplyToMe ==
  LET hop == popped.ar_sip
      waiting == m_arpreq_queue[hop]
  IN  /\ Switching("reply") /\ hop \in DOMAIN m_arpreq_queue
      /\ m_arp_cache' = Learnt(hop)
      /\ m_output_queue' =
           [i \in Interfaces |->
              m_output_queue[i] \o Released(For(i, waiting))]
      /\ m_arpreq_queue' = Erase(m_arpreq_queue, hop)
      /\ m_arpreq_times_list' = Erase(m_arpreq_times_list, hop)
      /\ UNCHANGED aborted

\* assert(it != m_arpreq_queue.end())
UnexpectedArpReply ==
  /\ Switching("reply") /\ popped.ar_sip \notin DOMAIN m_arpreq_queue
  /\ m_arp_cache' = Learnt(popped.ar_sip)
  /\ aborted' = TRUE
  /\ UNCHANGED <<m_output_queue, m_arpreq_queue, m_arpreq_times_list>>

EndSwitching ==
  /\ pc = "switching" /\ m_switch_queue = <<>>
  /\ pc' = "sweeping" /\ to_visit' = DOMAIN m_arpreq_times_list
  /\ UNCHANGED <<in_use, queueVars, arpVars, aborted, wireVars, given_up>>

-----------------------------------------------------------------------------
(* sweepArpReqs, then sendToTheNextHop.                                    *)

Sweeping(hop) ==
  /\ pc = "sweeping" /\ hop \in to_visit
  /\ UNCHANGED <<pc, in_use, m_input_queue, m_switch_queue, m_arp_cache, wireVars>>

Due(hop) == RetryAfter < m_arpreq_times_list[hop].elapsed
\* Mutant: the limit is tested with one request too many.
OutOfTriesLate(hop) == MaxTimesSent + 1 < m_arpreq_times_list[hop].times_sent
OutOfTries(hop) == MaxTimesSent < m_arpreq_times_list[hop].times_sent

TooEarly(hop) ==
  /\ Sweeping(hop) /\ ~Due(hop)
  /\ to_visit' = to_visit \ {hop}
  /\ UNCHANGED <<m_output_queue, m_arpreq_queue, m_arpreq_times_list, aborted, given_up>>

SendArpRequest(hop) ==
  /\ Sweeping(hop) /\ Due(hop) /\ ~OutOfTries(hop)
  /\ to_visit' = to_visit \ {hop}
  /\ AddPacketToOutputQueue([type |-> "ask", ar_tip |-> hop], m_arpreq_times_list[hop].iface)
  /\ m_arpreq_times_list' =
       [m_arpreq_times_list EXCEPT ![hop].times_sent = @ + 1, ![hop].elapsed = 0]
  /\ UNCHANGED <<m_arpreq_queue, aborted, given_up>>

WaitingIds(hop) == {m_arpreq_queue[hop][k].packet.id : k \in DOMAIN m_arpreq_queue[hop]}

\* Mutant: the packets are dropped, the record of the requests stays.
GiveUpKeepingTimes(hop) ==
  /\ Sweeping(hop) /\ Due(hop) /\ OutOfTries(hop)
  /\ given_up' = given_up \cup WaitingIds(hop)
  /\ m_arpreq_queue' = Erase(m_arpreq_queue, hop)
  /\ AfterErasing(hop)
  /\ UNCHANGED <<m_output_queue, m_arpreq_times_list>>

\* The waiting packets are dropped, and nobody is told.
GiveUp(hop) ==
  /\ Sweeping(hop) /\ Due(hop) /\ OutOfTries(hop)
  /\ given_up' = given_up \cup WaitingIds(hop)
  /\ m_arpreq_queue' = Erase(m_arpreq_queue, hop)
  /\ m_arpreq_times_list' = Erase(m_arpreq_times_list, hop)
  /\ AfterErasing(hop)
  /\ UNCHANGED m_output_queue

EndSweeping ==
  /\ pc = "sweeping" /\ to_visit = {}
  /\ pc' = "sending"
  /\ UNCHANGED <<in_use, to_visit, queueVars, arpVars, aborted, wireVars, given_up>>

Asks(hop) == LET queue == m_output_queue[InterfaceTo(hop)]
             IN  {k \in DOMAIN queue : queue[k] = [type |-> "ask", ar_tip |-> hop]}

\* What the hosts are to see of a queue: no ARP.
WithoutArp(queue) == At(queue, {k \in DOMAIN queue : queue[k].type \in {"ip", "icmp"}})

\* One sendThread per interface, all joined before the loop goes on.
SendToTheNextHop ==
  /\ pc = "sending"
  /\ pc' = "cleaning" /\ to_visit' = DOMAIN m_arp_cache
  /\ m_output_queue' = [i \in Interfaces |-> <<>>]
  /\ wire' = [i \in Interfaces |-> wire[i] \o WithoutArp(m_output_queue[i])]
  /\ asked' = [h \in Hops |-> asked[h] + Cardinality(Asks(h))]
  /\ UNCHANGED <<in_use, m_input_queue, m_switch_queue, arpVars, aborted, arrived, given_up>>

-----------------------------------------------------------------------------
RouterThread ==
  \/ \E h \in Hops : CleanEntry(h)
  \/ EndCleaning
  \/ \E i \in Interfaces : Intake(i)
  \/ EndIntake
  \/ TTLExpired \/ LPMMiss \/ CacheHit \/ CacheMiss
  \/ HandleArpRequestToMe \/ HandleArpReplyToMe \/ UnexpectedArpReply
  \/ EndSwitching
  \/ \E h \in Hops : TooEarly(h) \/ SendArpRequest(h) \/ GiveUp(h)
  \/ EndSweeping
  \/ SendToTheNextHop

Network ==
  \/ \E flow \in Flows, ttl \in TTLs : PacketArrives(flow[1], flow[2], ttl)
  \/ \E i \in Neighbours : RequestArrives(i)
  \/ \E h \in Hops : HopAnswers(h)

RouteChange == \E d \in Withdrawable, value \in BOOLEAN : SetInUse(d, value)

Next == ~aborted /\ (RouterThread \/ Network \/ RouteChange \/ Tick)

\* The router thread keeps being scheduled and time passes; no neighbour has to answer.
Fairness == WF_vars(~aborted /\ RouterThread) /\ WF_vars(~aborted /\ Tick)

Spec == Init /\ [][Next]_vars /\ Fairness

-----------------------------------------------------------------------------
(* Properties.                                                             *)

\* Every table keeps its type: ages stop where the comparisons do, and no more than
\* MaxTimesSent + 1 requests are counted before sweepArpReqs gives up.
TypeOK ==
  /\ pc \in {"cleaning", "intake", "switching", "sweeping", "sending"}
  /\ in_use \subseteq Destinations /\ to_visit \subseteq Hops \cup Interfaces
  /\ m_input_queue \in [Interfaces -> Seq(Incoming)]
  /\ m_switch_queue \in Seq(Incoming)
  /\ m_output_queue \in [Interfaces -> Seq(Outgoing)]
  /\ DOMAIN m_arp_cache \subseteq Hops
  /\ \A h \in DOMAIN m_arp_cache : m_arp_cache[h] \in 0..(CacheExpired + 1)
  /\ DOMAIN m_arpreq_queue \subseteq Hops
  /\ \A h \in DOMAIN m_arpreq_queue :
       m_arpreq_queue[h] \in Seq([packet : IpPackets, iface : Interfaces])
  /\ DOMAIN m_arpreq_times_list \subseteq Hops
  /\ \A h \in DOMAIN m_arpreq_times_list :
       m_arpreq_times_list[h] \in [times_sent : 0..(MaxTimesSent + 1),
                                   elapsed : -1..(RetryAfter + 1), iface : Interfaces]
  /\ aborted \in BOOLEAN
  /\ asked \in [Hops -> Nat]
  /\ wire \in [Interfaces -> Seq(IpPackets \cup IcmpMessages)]
  /\ arrived \in Seq(IpPackets) /\ given_up \subseteq 1..MaxPackets

\* The three ARP tables agree, whatever replies, expiries and retries come in between:
\* a next hop has packets waiting exactly when its requests are counted, never while
\* its MAC address is in the cache, and requests go out where the packets will.
ArpTablesAgree ==
  /\ DOMAIN m_arpreq_queue = DOMAIN m_arpreq_times_list
  /\ ~aborted => DOMAIN m_arpreq_queue \cap DOMAIN m_arp_cache = {}
  /\ \A h \in DOMAIN m_arpreq_queue :
       /\ m_arpreq_queue[h] # <<>>
       /\ \A k \in DOMAIN m_arpreq_queue[h] :
            m_arpreq_queue[h][k].iface = m_arpreq_times_list[h].iface

WaitingPackets(hop) ==
  IF hop \in DOMAIN m_arpreq_queue
  THEN [k \in DOMAIN m_arpreq_queue[hop] |-> m_arpreq_queue[hop][k].packet]
  ELSE <<>>

OnLine(packet, line) ==
  /\ IsIp(packet) /\ packet.from = line[1]
  /\ RouteOf(packet).next_hop = line[2]

\* A line: an interface packets come in at and the next hop they go to.
Lines == Interfaces \X Hops

\* The numbers of a line's packets in a queue.
NumbersIn(line, queue) ==
  LET mine == {k \in DOMAIN queue : OnLine(queue[k], line)}
  IN  At([k \in mine |-> queue[k].id], mine)

Delivered(line) == NumbersIn(line, wire[InterfaceTo(line[2])])

\* The stages a packet goes through, the first one last.
Inside(line) ==
  NumbersIn(line, m_output_queue[InterfaceTo(line[2])])
    \o NumbersIn(line, WaitingPackets(line[2]))
    \o NumbersIn(line, m_switch_queue) \o NumbersIn(line, m_input_queue[line[1]])

\* Packets from one interface to one next hop leave in the order they came, although
\* some wait for an ARP reply and later ones find the reply in the cache.
NoOvertaking ==
  \A line \in Lines :
    LET all == Delivered(line) \o Inside(line)
    IN  \A j, k \in DOMAIN all : j < k => all[j] < all[k]

Streams == INSTANCE LossyLines WITH
  Packets <- 1..MaxPackets,
  delivered <- [line \in Lines |-> Delivered(line)],
  inside <- [line \in Lines |-> Inside(line)]

\* With its queues, its ARP tables and its retries a router is to the hosts no more than
\* lines that keep packets in order, never double one and may lose some: the packets
\* that wait for a reply, those that were quicker and those behind them are one line.
ImplementsLossyLines == Streams!Spec

Copies(item, queues) ==
  Cardinality(UNION {{<<q, k>> : k \in {n \in DOMAIN queues[q] : queues[q][n] = item}}
                       : q \in DOMAIN queues})

\* Every packet that arrived has one fate: it is still on its way in, unchanged, or
\* it has been sent on with its ip_ttl decremented once, or it was reported as
\* unreachable, or it was given up for want of an ARP reply; only one whose ip_ttl
\* ran out disappears.
OneFate ==
  \A id \in DOMAIN arrived :
    LET p == arrived[id]
        inside == Copies(p, m_input_queue) + Copies(p, [q \in {1} |-> m_switch_queue])
                    + Copies(p, [h \in Hops |-> WaitingPackets(h)])
        forwarded == Copies(Decremented(p), m_output_queue) + Copies(Decremented(p), wire)
        report == [type |-> "icmp", about |-> id]
        reported == Copies(report, m_output_queue) + Copies(report, wire)
        dropped == IF id \in given_up THEN 1 ELSE 0
        left == forwarded + reported + dropped
    IN  IF p.ip_ttl > 1 THEN inside + left = 1 ELSE inside <= 1 /\ left = 0

\* A packet does not wait for an ARP reply for ever: the reply comes, or the requests
\* run out and it is dropped, unless the uninitialised time of the first request lies
\* in the future.
SentInFuture(h) == h \in DOMAIN m_arpreq_times_list /\ m_arpreq_times_list[h].elapsed = -1
WaitingEnds ==
  \A h \in Hops : (h \in DOMAIN m_arpreq_queue /\ ~SentInFuture(h))
                    ~> (h \notin DOMAIN m_arpreq_queue \/ aborted)

\* An ARP cache entry is dropped in the end however much it is used, so a next hop
\* that changes its MAC address is found again.
CacheForgets ==
  \A h \in Hops : h \in DOMAIN m_arp_cache ~> (h \notin DOMAIN m_arp_cache \/ aborted)

\* The assertion of router.cpp:605: an ARP reply finds packets that wait for it.
ReplyIsExpected ==
  pc = "switching" /\ m_switch_queue # <<>> /\ popped.type = "reply"
    => popped.ar_sip \in DOMAIN m_arpreq_queue

=============================================================================
