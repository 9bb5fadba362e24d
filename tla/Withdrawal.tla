----------------------------- MODULE Withdrawal -----------------------------
(***************************************************************************)
(* The sliding window while the autonomous system of receiver 2 (AS5) is   *)
(* attached and withdrawn: menu entries 3 and 4 of main.cpp, hookUpRequest *)
(* and withdrawl of AS.cpp, the route lookup and the ICMP answer of        *)
(* router.cpp handlePacket, and handleIcmpMessage of host.cpp.             *)
(*                                                                         *)
(* A frame crosses the border of AS1 (router 1) and of AS4 (routers 5, 6). *)
(* Each border looks its route up when the frame is there; the main thread *)
(* sets the in_use flags one AS after the other and without a lock.        *)
(***************************************************************************)
EXTENDS SlidingWindow, Membership

CONSTANT MaxChanges      \* bound: how often the user attaches or withdraws AS5

VARIABLES
  changes,      \* bound: attachments and withdrawals so far
  crossing,     \* frames from the border of AS1 to the one of AS4
  ackCrossing,  \* acks and ICMP messages from the border of AS4 to the one of AS1
  crashed,      \* the process has dereferenced a null SenderBlock
  dropped,      \* history: how many frames met a route that is not in use
  reported,     \* history: how many ICMP messages the sender has handled
  taken,        \* history: the chunks the receiver stored
  refused,      \* history: the chunks it met outside its window
  confirmed     \* history: the chunks LAR has moved past

routeVars == <<membership, changes>>
crossingVars == <<crossing, ackCrossing>>
historyVars == <<dropped, reported, taken, refused, confirmed>>
networkVars == <<routeVars, crossingVars, crashed, historyVars>>
allVars == <<vars, networkVars>>

\* createIcmpHeader(3, 0, ...), which names the destination in its unused field.
Unreachable == [icmp_type |-> 3]
IsIcmp(message) == "icmp_type" \in DOMAIN message

WInit ==
  /\ Init
  /\ MembershipInit /\ changes = 0
  /\ crossing = <<>> /\ ackCrossing = <<>>
  /\ crashed = FALSE
  /\ dropped = 0 /\ reported = 0
  /\ taken = {} /\ refused = {} /\ confirmed = {}

-----------------------------------------------------------------------------
(* The main thread.                                                        *)

ChangeMembership ==
  /\ changes < MaxChanges
  /\ HookUpRequest \/ Withdrawl
  /\ changes' = changes + 1
  /\ UNCHANGED <<vars, crossingVars, crashed, historyVars>>

WSetRoute == SetRoute /\ UNCHANGED <<vars, changes, crossingVars, crashed, historyVars>>

WUserTypes(length) == changing = <<>> /\ UserTypes(length) /\ UNCHANGED networkVars

-----------------------------------------------------------------------------
(* The routers at the two borders.                                         *)

hostVars == <<userVars, pc, blockVars, m_output_queue, receiverVars, sent, acked>>

\* Router 1: the route is looked up, and a miss answered, when the frame is there.
BorderAS1 ==
  /\ uplink # <<>>
  /\ uplink' = Tail(uplink)
  /\ IF in_use["AS1"]
     THEN /\ crossing' = Append(crossing, Head(uplink))
          /\ UNCHANGED <<toSender, dropped>>
     ELSE /\ toSender' = Append(toSender, Unreachable)
          /\ dropped' = dropped + 1
          /\ UNCHANGED crossing
  /\ UNCHANGED <<hostVars, toReceiver, ackUplink, routeVars, ackCrossing, crashed,
                 reported, taken, refused, confirmed>>

\* Mutant: a frame without a route is dropped in silence, as TTL expiry is.
BorderAS4Silent ==
  /\ crossing # <<>>
  /\ crossing' = Tail(crossing)
  /\ IF in_use["AS4"]
     THEN toReceiver' = Append(toReceiver, Head(crossing)) /\ UNCHANGED dropped
     ELSE dropped' = dropped + 1 /\ UNCHANGED toReceiver
  /\ UNCHANGED <<hostVars, uplink, ackLinks, routeVars, ackCrossing, crashed, reported,
                 taken, refused, confirmed>>

\* Routers 5 and 6: their ICMP message goes back through router 1.
BorderAS4 ==
  /\ crossing # <<>>
  /\ crossing' = Tail(crossing)
  /\ IF in_use["AS4"]
     THEN /\ toReceiver' = Append(toReceiver, Head(crossing))
          /\ UNCHANGED <<ackCrossing, dropped>>
     ELSE /\ ackCrossing' = Append(ackCrossing, Unreachable)
          /\ dropped' = dropped + 1
          /\ UNCHANGED toReceiver
  /\ UNCHANGED <<hostVars, uplink, ackLinks, routeVars, crashed, reported, taken, refused,
                 confirmed>>

\* The routes back to the sender are always in use.
ReturnAS4 ==
  /\ ackUplink # <<>>
  /\ ackCrossing' = Append(ackCrossing, Head(ackUplink))
  /\ ackUplink' = Tail(ackUplink)
  /\ UNCHANGED <<hostVars, frameLinks, toSender, routeVars, crossing, crashed, historyVars>>

ReturnAS1 ==
  /\ ackCrossing # <<>>
  /\ toSender' = Append(toSender, Head(ackCrossing))
  /\ ackCrossing' = Tail(ackCrossing)
  /\ UNCHANGED <<hostVars, frameLinks, ackUplink, routeVars, crossing, crashed, historyVars>>

-----------------------------------------------------------------------------
(* The hosts.                                                              *)

Incoming == pc = "incoming" /\ ~AdvancingLAR /\ toSender # <<>>

WHandleAck == /\ Incoming /\ ~IsIcmp(Head(toSender)) /\ listed
              /\ HandleAck
              /\ UNCHANGED networkVars

\* m_sender_block_list[ip_src] of an unknown receiver inserts a null pointer, which
\* the next line dereferences.
AckWithoutBlock ==
  /\ Incoming /\ ~IsIcmp(Head(toSender)) /\ ~listed
  /\ crashed' = TRUE
  /\ UNCHANGED <<vars, routeVars, crossingVars, historyVars>>

\* handleIcmpMessage erases the block, with everything still pending in it.
HandleIcmpMessage ==
  /\ Incoming /\ IsIcmp(Head(toSender))
  /\ toSender' = Tail(toSender)
  /\ listed' = FALSE
  /\ LAR' = SeqMod - 1 /\ LFS' = SeqMod - 1 /\ SEQ' = 0
  /\ pending_frame_list' = <<>>
  /\ ack_marked' = {}
  /\ sender_queue' = [s \in SeqNums |-> NoFrame]
  /\ reported' = reported + 1
  /\ UNCHANGED <<userVars, pc, m_output_queue, frameLinks, receiverVars, ackUplink, sent,
                 acked, routeVars, crossingVars, crashed, dropped, taken, refused,
                 confirmed>>

WAdvanceLAR ==
  /\ AdvanceLAR
  /\ confirmed' = confirmed \cup {sender_queue[Inc(LAR)].data}
  /\ UNCHANGED <<routeVars, crossingVars, crashed, dropped, reported, taken, refused>>

\* Inside its window or not, the frame is acknowledged by HandlePacket.
WHandlePacket ==
  /\ HandlePacket
  /\ LET chunk == Head(toReceiver).data
     IN  IF InReceiveWindow(Head(toReceiver).seq_ack_num)
         THEN taken' = taken \cup {chunk} /\ UNCHANGED refused
         ELSE refused' = refused \cup {chunk} /\ UNCHANGED taken
  /\ UNCHANGED <<routeVars, crossingVars, crashed, dropped, reported, confirmed>>

Unaffected(A) == A /\ UNCHANGED networkVars

WSenderThread ==
  \/ WHandleAck \/ AckWithoutBlock \/ HandleIcmpMessage \/ WAdvanceLAR
  \/ Unaffected(EndIncoming)
  \/ Unaffected(HandleUserInput) \/ Unaffected(EndInput)
  \/ Unaffected(SendPendingFrame) \/ Unaffected(EndPending)
  \/ Unaffected(SendMessageToRouter)

WReceiverThread == WHandlePacket \/ Unaffected(DeliverFrame) \/ Unaffected(SendAcks)

MainThread == \/ \E length \in Lengths : WUserTypes(length)
              \/ ChangeMembership \/ WSetRoute

WNext == /\ ~crashed
         /\ \/ MainThread
            \/ WSenderThread
            \/ BorderAS1 \/ BorderAS4 \/ ReturnAS4 \/ ReturnAS1
            \/ WReceiverThread

Running(A) == ~crashed /\ A
WFairness == /\ WF_allVars(Running(WSenderThread))
             /\ WF_allVars(Running(WReceiverThread))
             /\ WF_allVars(Running(BorderAS1)) /\ WF_allVars(Running(BorderAS4))
             /\ WF_allVars(Running(ReturnAS4)) /\ WF_allVars(Running(ReturnAS1))
             /\ WF_allVars(Running(WSetRoute))

WSpec == WInit /\ [][WNext]_allVars /\ WFairness

-----------------------------------------------------------------------------
(* Properties.                                                             *)

\* Both hosts keep their types through every erased and renewed block.
WTypeOK ==
  /\ LAR \in SeqNums /\ LFS \in SeqNums /\ SEQ \in SeqNums /\ NFE \in SeqNums
  /\ ack_marked \subseteq SeqNums /\ recv_marked \subseteq SeqNums
  /\ uplink \in Seq(Frames) /\ crossing \in Seq(Frames) /\ toReceiver \in Seq(Frames)
  /\ ackUplink \in Seq(Acks)
  /\ ackCrossing \in Seq(Acks \cup {Unreachable})
  /\ toSender \in Seq(Acks \cup {Unreachable})
  /\ in_use \in [BorderASes -> BOOLEAN] /\ attached \in BOOLEAN
  /\ taken \subseteq Chunks /\ refused \subseteq Chunks

\* However blocks and numbers are mixed by withdrawals, printOutMessage walks back into a
\* slot no frame was stored in, whose pointer is null, only before the receiver's numbers
\* wrap, when its window already does and slot 0, stored in for the second time, no longer
\* has the start of a message; with a window of two or less that cannot be.
EmptySlotOnlyALapAhead ==
  [][\A p \in DOMAIN printed' \ DOMAIN printed :
       (\E k \in DOMAIN printed'[p] : printed'[p][k] = NoChunk)
       => /\ SeqMod < accepted + RWS /\ accepted + 1 < SeqMod
          /\ ~receiver_queue[0].start_of_message]_allVars

LastPrinted(p) == printed[p][Len(printed[p])]

\* A walk of so many frames reaches no slot ahead of NFE.
StaysBehind(p) == Len(printed[p]) <= SeqMod - RWS + 1

\* What is printed ends in a frame nothing printed before has, be it at its end or
\* before: after a withdrawal printOutMessage may walk into an earlier message and print
\* it again in front of another one's frames, but never an earlier message by itself.
PrintsEndInSomethingNew ==
  \A p, q \in DOMAIN printed : p < q =>
    /\ LastPrinted(q) # LastPrinted(p)
    /\ StaysBehind(p) => \A k \in DOMAIN printed[p] : LastPrinted(q) # printed[p][k]

\* Every frame that meets a route not in use is reported to the sender sooner or
\* later, unless the process has died first: again and again no report is missing.
DropsReported == []<>(reported = dropped \/ crashed)

\* host.cpp:511 says of handleIncomingRouterMessage that its job is to handle ACKs and
\* ICMP messages: it has a block to handle an ACK with.
AcksHaveABlock == ~crashed

\* README.txt:20 announces a sliding window protocol with selective acknowledgements:
\* what is acknowledged has been received, here stored by handlePacket.
AcknowledgedWasStored == confirmed \subseteq taken

\* The same with no ack taken for another frame's: when all the receiver has looked at is
\* confirmed, and nothing else, none of it was outside the window.
RefusedNotConfirmed == confirmed = taken \cup refused => refused = {}

=============================================================================
