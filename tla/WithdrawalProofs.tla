-------------------------- MODULE WithdrawalProofs --------------------------
(***************************************************************************)
(* Withdrawal for every window, every number of messages and of changes:   *)
(* both hosts keep their types through every erased block, what is printed *)
(* ends in something new, and where a message can be printed out of an     *)
(* empty slot.                                                             *)
(***************************************************************************)
EXTENDS Withdrawal, SlidingWindowProofs

-----------------------------------------------------------------------------
(* The types.  WTypeOK says nothing of what is still to be sent and stored;*)
(* its inductive form does.                                                *)

Answers == Acks \cup {Unreachable}

UserTypesOK == typed \in Seq(Messages) /\ m_user_input_queue \in Seq(Messages)
SenderTypes ==
  /\ LAR \in SeqNums /\ LFS \in SeqNums /\ SEQ \in SeqNums /\ ack_marked \subseteq SeqNums
  /\ pending_frame_list \in Seq(Frames) /\ m_output_queue \in Seq(Frames)
LinkTypes ==
  /\ uplink \in Seq(Frames) /\ crossing \in Seq(Frames) /\ toReceiver \in Seq(Frames)
  /\ ack_output_queue \in Seq(Acks) /\ ackUplink \in Seq(Acks)
  /\ ackCrossing \in Seq(Answers) /\ toSender \in Seq(Answers)
ReceiverTypes ==
  /\ NFE \in SeqNums /\ recv_marked \subseteq SeqNums
  /\ taken \subseteq Chunks /\ refused \subseteq Chunks
WTypes == UserTypesOK /\ SenderTypes /\ LinkTypes /\ ReceiverTypes

\* The flags, and the writes the main thread has still to do.
FlagTypes ==
  /\ in_use \in [BorderASes -> BOOLEAN] /\ attached \in BOOLEAN
  /\ changing \in Seq(BorderASes \X BOOLEAN)

LEMMA WTypesInit == WInit => WTypes
<1>. SUFFICES ASSUME WInit PROVE WTypes
  OBVIOUS
<1>1. \A S : <<>> \in Seq(S)
  BY EmptySeq
<1>2. 0 \in SeqNums /\ SeqMod - 1 \in SeqNums
  BY SeqModAssumption DEF SeqNums
<1>. QED  BY <1>1, <1>2
     DEF WInit, Init, WTypes, UserTypesOK, SenderTypes, LinkTypes, ReceiverTypes

\* An ack is told from an ICMP message by its fields.
LEMMA AckOrIcmp ==
  ASSUME NEW m \in Answers, ~IsIcmp(m)
  PROVE  m \in Acks /\ m.seq_ack_num \in SeqNums
<1>1. m # Unreachable
  BY DEF IsIcmp, Unreachable
<1>. QED  BY <1>1 DEF Answers, Acks

LEMMA UserTypesStep ==
  ASSUME WTypes, NEW length \in Lengths, WUserTypes(length)
  PROVE  WTypes'
<1>. DEFINE message == [id |-> Len(typed) + 1, length |-> length]
<1>1. typed \in Seq(Messages) /\ m_user_input_queue \in Seq(Messages)
  BY DEF WTypes, UserTypesOK
<1>2. Len(typed) < MaxMessages /\ Len(typed) \in Nat
  BY <1>1, LenProperties DEF WUserTypes, UserTypes
<1>3. message \in Messages
  BY <1>2, BoundAssumption DEF Messages
<1>4. /\ typed' = Append(typed, message)
      /\ m_user_input_queue' = Append(m_user_input_queue, message)
  BY DEF WUserTypes, UserTypes
<1>. HIDE DEF message
<1>5. UserTypesOK'
  BY <1>1, <1>3, <1>4, AppendProperties DEF UserTypesOK
<1>. QED  BY <1>5 DEF WUserTypes, UserTypes, WTypes, SenderTypes, LinkTypes, ReceiverTypes,
                      blockVars, frameLinks, receiverVars, ackLinks, networkVars,
                      crossingVars, historyVars

\* An ack, an ICMP message that erases the block, a slot the window moves past.
LEMMA IncomingStep ==
  ASSUME WTypes, WHandleAck \/ AckWithoutBlock \/ HandleIcmpMessage \/ WAdvanceLAR
  PROVE  WTypes'
<1>. USE DEF WTypes, UserTypesOK, SenderTypes, LinkTypes, ReceiverTypes
<1>1. CASE WHandleAck
  <2>1. toSender # <<>> /\ toSender' = Tail(toSender)
    BY <1>1 DEF WHandleAck, HandleAck
  <2>2. Head(toSender) \in Answers /\ toSender' \in Seq(Answers)
    BY <2>1, HeadTailProperties
  <2>3. Head(toSender).seq_ack_num \in SeqNums
    BY <1>1, <2>2, AckOrIcmp DEF WHandleAck
  <2>4. ack_marked' \subseteq SeqNums
    BY <1>1, <2>3 DEF WHandleAck, HandleAck
  <2>. QED  BY <1>1, <2>2, <2>4
       DEF WHandleAck, HandleAck, userVars, frameLinks, receiverVars, networkVars,
           crossingVars, historyVars
<1>2. CASE AckWithoutBlock
  BY <1>2 DEF AckWithoutBlock, vars, userVars, blockVars, frameLinks, receiverVars,
              ackLinks, crossingVars, historyVars
<1>3. CASE HandleIcmpMessage
  <2>1. toSender # <<>> /\ toSender' = Tail(toSender)
    BY <1>3 DEF HandleIcmpMessage, Incoming
  <2>2. toSender' \in Seq(Answers)
    BY <2>1, HeadTailProperties
  <2>3. 0 \in SeqNums /\ SeqMod - 1 \in SeqNums
    BY SeqModAssumption DEF SeqNums
  <2>4. SenderTypes'
    BY <1>3, <2>3, EmptySeq DEF HandleIcmpMessage
  <2>. QED  BY <1>3, <2>2, <2>4
       DEF HandleIcmpMessage, userVars, frameLinks, receiverVars, crossingVars
<1>4. CASE WAdvanceLAR
  BY <1>4, IncType
  DEF WAdvanceLAR, AdvanceLAR, userVars, frameLinks, receiverVars, ackLinks, crossingVars
<1>. QED  BY <1>1, <1>2, <1>3, <1>4

\* The rest of the sender's loop, which Withdrawal takes as it is.
LEMMA SenderLoopStep ==
  ASSUME WTypes, UNCHANGED networkVars,
         \/ EndIncoming \/ HandleUserInput \/ EndInput
         \/ SendPendingFrame \/ EndPending \/ SendMessageToRouter
  PROVE  WTypes'
<1>1. UNCHANGED <<crossing, ackCrossing, taken, refused>>
  BY DEF networkVars, crossingVars, historyVars
<1>. USE DEF WTypes, UserTypesOK, SenderTypes, LinkTypes, ReceiverTypes
<1>2. CASE EndIncoming \/ EndInput \/ EndPending
  BY <1>1, <1>2 DEF EndIncoming, EndInput, EndPending, SenderGoesTo, userVars, blockVars,
                    receiverVars, frameLinks, ackLinks
<1>3. CASE HandleUserInput
  <2>. DEFINE message == Head(m_user_input_queue)
  <2>1. message \in Messages /\ m_user_input_queue' \in Seq(Messages)
    BY <1>3, HeadTailProperties DEF HandleUserInput
  <2>2. FramesOf(message) \in Seq(Frames) /\ NumOfChunks(message.length) \in Nat
    BY <2>1, FramesOfType, SplitType
  <2>3. SEQ' \in SeqNums
    <3>1. SEQ + NumOfChunks(message.length) \in Nat
      BY <2>2 DEF SeqNums
    <3>. QED  BY <3>1, <1>3, ModType DEF HandleUserInput
  <2>4. pending_frame_list' \in Seq(Frames)
    BY <1>3, <2>2, ConcatProperties DEF HandleUserInput
  <2>. QED  BY <1>1, <1>3, <2>1, <2>3, <2>4
       DEF HandleUserInput, receiverVars, frameLinks, ackLinks
<1>4. CASE SendPendingFrame
  <2>1. /\ Head(pending_frame_list) \in Frames /\ pending_frame_list' \in Seq(Frames)
    BY <1>4, HeadTailProperties DEF SendPendingFrame, MayLeave
  <2>2. Head(pending_frame_list).seq_ack_num \in SeqNums
    BY <2>1 DEF Frames
  <2>3. m_output_queue' \in Seq(Frames)
    BY <1>4, <2>1, AppendProperties DEF SendPendingFrame
  <2>. QED  BY <1>1, <1>4, <2>1, <2>2, <2>3
       DEF SendPendingFrame, userVars, receiverVars, frameLinks, ackLinks
<1>5. CASE SendMessageToRouter
  <2>1. uplink' \in Seq(Frames) /\ m_output_queue' \in Seq(Frames)
    BY <1>5, ConcatProperties, EmptySeq DEF SendMessageToRouter
  <2>. QED  BY <1>1, <1>5, <2>1
       DEF SendMessageToRouter, userVars, blockVars, receiverVars, ackLinks
<1>. QED  BY <1>2, <1>3, <1>4, <1>5

\* A frame or an answer goes on, or is replaced by an ICMP message.
LEMMA BorderStep ==
  ASSUME WTypes, BorderAS1 \/ BorderAS4 \/ ReturnAS4 \/ ReturnAS1
  PROVE  WTypes'
<1>. USE DEF WTypes, UserTypesOK, SenderTypes, LinkTypes, ReceiverTypes
<1>1. Unreachable \in Answers /\ \A a \in Acks : a \in Answers
  BY DEF Answers
<1>2. CASE BorderAS1
  <2>1. Head(uplink) \in Frames /\ uplink' \in Seq(Frames)
    BY <1>2, HeadTailProperties DEF BorderAS1
  <2>2. crossing' \in Seq(Frames) /\ toSender' \in Seq(Answers)
    <3>1. /\ Append(crossing, Head(uplink)) \in Seq(Frames)
          /\ Append(toSender, Unreachable) \in Seq(Answers)
      BY <1>1, <2>1, AppendProperties
    <3>2. CASE in_use["AS1"]
      BY <1>2, <3>1, <3>2 DEF BorderAS1
    <3>3. CASE ~in_use["AS1"]
      BY <1>2, <3>1, <3>3 DEF BorderAS1
    <3>. QED  BY <3>2, <3>3
  <2>. QED  BY <1>2, <2>1, <2>2 DEF BorderAS1, hostVars, userVars, blockVars, receiverVars
<1>3. CASE BorderAS4
  <2>1. Head(crossing) \in Frames /\ crossing' \in Seq(Frames)
    BY <1>3, HeadTailProperties DEF BorderAS4
  <2>2. toReceiver' \in Seq(Frames) /\ ackCrossing' \in Seq(Answers)
    <3>1. /\ Append(toReceiver, Head(crossing)) \in Seq(Frames)
          /\ Append(ackCrossing, Unreachable) \in Seq(Answers)
      BY <1>1, <2>1, AppendProperties
    <3>2. CASE in_use["AS4"]
      BY <1>3, <3>1, <3>2 DEF BorderAS4
    <3>3. CASE ~in_use["AS4"]
      BY <1>3, <3>1, <3>3 DEF BorderAS4
    <3>. QED  BY <3>2, <3>3
  <2>. QED  BY <1>3, <2>1, <2>2
       DEF BorderAS4, hostVars, userVars, blockVars, receiverVars, ackLinks
<1>4. CASE ReturnAS4
  <2>1. Head(ackUplink) \in Acks /\ ackUplink' \in Seq(Acks)
    BY <1>4, HeadTailProperties DEF ReturnAS4
  <2>2. ackCrossing' \in Seq(Answers)
    BY <1>1, <1>4, <2>1, AppendProperties DEF ReturnAS4
  <2>. QED  BY <1>4, <2>1, <2>2
       DEF ReturnAS4, hostVars, userVars, blockVars, receiverVars, frameLinks, historyVars
<1>5. CASE ReturnAS1
  <2>1. Head(ackCrossing) \in Answers /\ ackCrossing' \in Seq(Answers)
    BY <1>5, HeadTailProperties DEF ReturnAS1
  <2>2. toSender' \in Seq(Answers)
    BY <1>5, <2>1, AppendProperties DEF ReturnAS1
  <2>. QED  BY <1>5, <2>1, <2>2
       DEF ReturnAS1, hostVars, userVars, blockVars, receiverVars, frameLinks, historyVars
<1>. QED  BY <1>2, <1>3, <1>4, <1>5

LEMMA ReceiverStep ==
  ASSUME WTypes, WReceiverThread
  PROVE  WTypes'
<1>. USE DEF WTypes, UserTypesOK, SenderTypes, LinkTypes, ReceiverTypes
<1>1. CASE WHandlePacket
  <2>1. Head(toReceiver) \in Frames /\ toReceiver' \in Seq(Frames)
    BY <1>1, HeadTailProperties DEF WHandlePacket, HandlePacket
  <2>2. Head(toReceiver).seq_ack_num \in SeqNums /\ Head(toReceiver).data \in Chunks
    BY <2>1 DEF Frames
  <2>3. ack_output_queue' \in Seq(Acks)
    <3>1. [seq_ack_num |-> Head(toReceiver).seq_ack_num] \in Acks
      BY <2>2 DEF Acks
    <3>. QED  BY <1>1, <3>1, AppendProperties DEF WHandlePacket, HandlePacket
  <2>4. recv_marked' \subseteq SeqNums
    BY <1>1, <2>2 DEF WHandlePacket, HandlePacket
  <2>5. taken' \subseteq Chunks /\ refused' \subseteq Chunks
    BY <1>1, <2>2 DEF WHandlePacket
  <2>. QED  BY <1>1, <2>1, <2>3, <2>4, <2>5
       DEF WHandlePacket, HandlePacket, userVars, blockVars, ackLinks, crossingVars
<1>2. CASE Unaffected(DeliverFrame)
  BY <1>2, IncType DEF Unaffected, DeliverFrame, userVars, blockVars, frameLinks, ackLinks,
                       networkVars, crossingVars, historyVars
<1>3. CASE Unaffected(SendAcks)
  <2>1. ackUplink' \in Seq(Acks) /\ ack_output_queue' \in Seq(Acks)
    BY <1>3, ConcatProperties, EmptySeq DEF Unaffected, SendAcks
  <2>. QED  BY <1>3, <2>1 DEF Unaffected, SendAcks, userVars, blockVars, frameLinks,
                              networkVars, crossingVars, historyVars
<1>. QED  BY <1>1, <1>2, <1>3 DEF WReceiverThread

LEMMA WTypesNext == WTypes /\ [WNext]_allVars => WTypes'
<1>. SUFFICES ASSUME WTypes, [WNext]_allVars PROVE WTypes'
  OBVIOUS
<1>1. CASE ChangeMembership \/ WSetRoute \/ UNCHANGED allVars
  BY <1>1 DEF ChangeMembership, WSetRoute, allVars, networkVars, vars, userVars, blockVars,
              frameLinks, receiverVars, ackLinks, crossingVars, historyVars, WTypes,
              UserTypesOK, SenderTypes, LinkTypes, ReceiverTypes
<1>2. CASE WSenderThread
  BY <1>2, IncomingStep, SenderLoopStep DEF WSenderThread, Unaffected
<1>. QED  BY <1>1, <1>2, UserTypesStep, BorderStep, ReceiverStep DEF WNext, MainThread

LEMMA FlagTypesInit == WInit => FlagTypes
<1>1. <<>> \in Seq(BorderASes \X BOOLEAN)
  BY EmptySeq
<1>. QED  BY <1>1 DEF WInit, MembershipInit, FlagTypes

\* Flags are written by the main thread alone, from what the calls gave it to write.
LEMMA FlagTypesNext == FlagTypes /\ [WNext]_allVars => FlagTypes'
<1>. SUFFICES ASSUME FlagTypes, [WNext]_allVars PROVE FlagTypes'
  OBVIOUS
<1>1. CASE ChangeMembership
  <2>1. <<"AS1", TRUE>> \in BorderASes \X BOOLEAN /\ <<"AS4", TRUE>> \in BorderASes \X BOOLEAN
    BY DEF BorderASes
  <2>2. <<"AS1", FALSE>> \in BorderASes \X BOOLEAN /\ <<"AS4", FALSE>> \in BorderASes \X BOOLEAN
    BY DEF BorderASes
  <2>3. /\ HookUpOrder \in Seq(BorderASes \X BOOLEAN)
        /\ WithdrawalOrder \in Seq(BorderASes \X BOOLEAN)
    BY <2>1, <2>2 DEF HookUpOrder, WithdrawalOrder
  <2>. QED  BY <1>1, <2>3
       DEF ChangeMembership, HookUpRequest, Withdrawl, Change, FlagTypes
<1>2. CASE WSetRoute
  <2>1. changing # <<>> /\ changing \in Seq(BorderASes \X BOOLEAN)
    BY <1>2 DEF WSetRoute, SetRoute, FlagTypes
  <2>2. /\ Head(changing) \in BorderASes \X BOOLEAN
        /\ changing' \in Seq(BorderASes \X BOOLEAN)
    BY <1>2, <2>1, HeadTailProperties DEF WSetRoute, SetRoute
  <2>. QED  BY <1>2, <2>2 DEF WSetRoute, SetRoute, FlagTypes
<1>3. CASE ~ChangeMembership /\ ~WSetRoute
  <2>1. ASSUME NEW length \in Lengths, WUserTypes(length) PROVE UNCHANGED routeVars
    BY <2>1 DEF WUserTypes, networkVars, routeVars, membership
  <2>2. CASE WSenderThread
    BY <2>2 DEF WSenderThread, WHandleAck, AckWithoutBlock, HandleIcmpMessage, WAdvanceLAR,
                Unaffected, networkVars, routeVars, membership, FlagTypes
  <2>3. CASE BorderAS1 \/ BorderAS4 \/ ReturnAS4 \/ ReturnAS1
    BY <2>3 DEF BorderAS1, BorderAS4, ReturnAS4, ReturnAS1, routeVars, membership, FlagTypes
  <2>4. CASE WReceiverThread
    BY <2>4 DEF WReceiverThread, WHandlePacket, Unaffected, networkVars, routeVars,
                membership, FlagTypes
  <2>5. CASE UNCHANGED routeVars
    BY <2>5 DEF routeVars, membership, FlagTypes
  <2>6. CASE UNCHANGED allVars
    BY <2>6 DEF allVars, networkVars, routeVars, membership, FlagTypes
  <2>. QED  BY <1>3, <2>1, <2>2, <2>3, <2>4, <2>5, <2>6 DEF WNext, MainThread
<1>. QED  BY <1>1, <1>2, <1>3

\* The counters of both hosts stay uint8_t and the queues hold what they are for,
\* although ICMP messages and acks share the way back and blocks come and go.
THEOREM WTypesAlways == WSpec => []WTypeOK
<1>1. WTypes /\ FlagTypes => WTypeOK
  BY DEF WTypes, SenderTypes, LinkTypes, ReceiverTypes, FlagTypes, Answers, WTypeOK
<1>. QED  BY <1>1, WTypesInit, WTypesNext, FlagTypesInit, FlagTypesNext, PTL DEF WSpec

-----------------------------------------------------------------------------
(* Nothing twice.  A frame is in one place: on its way in one of five      *)
(* queues, in a marked slot, or behind.  An erased block takes the frames  *)
(* it had pending along, and the frames of a new one are those of a        *)
(* message nothing was cut from before.  Behind is what no later print may *)
(* end in: the slots that are not marked, the ends of what is printed, and *)
(* the whole of a print that did not reach into the window.                *)

ChunksOf(queue) == {queue[i].data : i \in DOMAIN queue}
Apart(queue) == \A i, j \in DOMAIN queue : i # j => queue[i].data # queue[j].data

\* How many of the typed messages handleUserInput has cut into frames.
Cut == Len(typed) - Len(m_user_input_queue)

Marked == {receiver_queue[s].data : s \in recv_marked}
Left == {receiver_queue[s].data : s \in SeqNums \ recv_marked}
Ends == {LastPrinted(p) : p \in DOMAIN printed}
AllOf(p) == {printed[p][k] : k \in DOMAIN printed[p]}
Heads == UNION {AllOf(p) : p \in {q \in DOMAIN printed : StaysBehind(q)}}
Behind == (Left \cup Ends \cup Heads) \ {NoChunk}

\* Seven sets no two of which share a chunk, and none of a message still to be cut.
OnePlaceEach(P, O, U, X, R, M, F, n) ==
  /\ P \cap (O \cup U \cup X \cup R \cup M \cup F) = {}
  /\ O \cap (U \cup X \cup R \cup M \cup F) = {}
  /\ U \cap (X \cup R \cup M \cup F) = {}
  /\ X \cap (R \cup M \cup F) = {}
  /\ R \cap (M \cup F) = {}
  /\ M \cap F = {}
  /\ \A c \in P \cup O \cup U \cup X \cup R \cup M \cup F : c.message \in 1..n

SlotTypes ==
  /\ receiver_queue \in [SeqNums -> Frames \cup {NoFrame}]
  /\ printed \in Seq(Seq(Chunks \cup {NoChunk}))

UserQueueInOrder ==
  /\ Len(m_user_input_queue) <= Len(typed)
  /\ \A j \in DOMAIN m_user_input_queue : m_user_input_queue[j].id = Cut + j

OnceInQueues ==
  /\ Apart(pending_frame_list) /\ Apart(m_output_queue) /\ Apart(uplink)
  /\ Apart(crossing) /\ Apart(toReceiver)

OnceInSlots ==
  \A s, t \in recv_marked : s # t => receiver_queue[s].data # receiver_queue[t].data

\* A marked slot is less than a window ahead of NFE, around the end of the numbers or not.
Ahead(s) == IF NFE <= s THEN s - NFE < RWS ELSE s + SeqMod - NFE < RWS
MarkedAhead == \A s \in recv_marked : Ahead(s)

OnceInv ==
  /\ WTypes /\ SlotTypes /\ UserQueueInOrder
  /\ OnceInQueues /\ OnceInSlots /\ MarkedAhead /\ PrintsEndInSomethingNew
  /\ OnePlaceEach(ChunksOf(pending_frame_list), ChunksOf(m_output_queue), ChunksOf(uplink),
                  ChunksOf(crossing), ChunksOf(toReceiver), Marked, Behind, Cut)

LEMMA NoChunks == ChunksOf(<<>>) = {} /\ Apart(<<>>)
<1>1. \A i \in DOMAIN <<>> : FALSE
  BY SMT
<1>. QED  BY <1>1 DEF ChunksOf, Apart

LEMMA WithoutFirstChunk ==
  ASSUME NEW queue \in Seq(Frames), queue # <<>>, Apart(queue)
  PROVE  /\ Apart(Tail(queue))
         /\ ChunksOf(queue) = ChunksOf(Tail(queue)) \cup {Head(queue).data}
         /\ Head(queue).data \notin ChunksOf(Tail(queue))
<1>1. PICK rest : rest = Tail(queue)
  OBVIOUS
<1>2. /\ Len(queue) \in Nat \ {0} /\ DOMAIN queue = 1..Len(queue) /\ Head(queue) = queue[1]
      /\ DOMAIN rest = 1..(Len(queue) - 1)
      /\ \A k \in 1..(Len(queue) - 1) : rest[k] = queue[k + 1]
  BY <1>1, HeadTailProperties, LenProperties
<1>3. \A k \in DOMAIN rest : k + 1 \in DOMAIN queue /\ k + 1 # 1 /\ rest[k] = queue[k + 1]
  BY <1>2
<1>4. 1 \in DOMAIN queue /\ \A k \in DOMAIN queue : k = 1 \/ (k - 1 \in DOMAIN rest /\ queue[k] = rest[k - 1])
  BY <1>2
<1>5. Apart(rest)
  <2>. SUFFICES ASSUME NEW i \in DOMAIN rest, NEW j \in DOMAIN rest, i # j
                PROVE  rest[i].data # rest[j].data
    BY DEF Apart
  <2>1. i + 1 # j + 1
    BY <1>2
  <2>. QED  BY <1>3, <2>1 DEF Apart
<1>6. Head(queue).data \notin ChunksOf(rest)
  BY <1>2, <1>3, <1>4 DEF Apart, ChunksOf
<1>7. ChunksOf(queue) \subseteq ChunksOf(rest) \cup {Head(queue).data}
  <2>. SUFFICES ASSUME NEW k \in DOMAIN queue
                PROVE  queue[k].data \in ChunksOf(rest) \cup {Head(queue).data}
    BY DEF ChunksOf
  <2>1. CASE k = 1
    BY <1>2, <2>1
  <2>2. CASE k - 1 \in DOMAIN rest /\ queue[k] = rest[k - 1]
    BY <2>2 DEF ChunksOf
  <2>. QED  BY <1>4, <2>1, <2>2
<1>8. ChunksOf(rest) \subseteq ChunksOf(queue) /\ Head(queue).data \in ChunksOf(queue)
  BY <1>2, <1>3, <1>4 DEF ChunksOf
<1>. QED  BY <1>1, <1>5, <1>6, <1>7, <1>8

LEMMA WithLastChunk ==
  ASSUME NEW queue \in Seq(Frames), NEW frame \in Frames, Apart(queue),
         frame.data \notin ChunksOf(queue)
  PROVE  /\ Apart(Append(queue, frame))
         /\ ChunksOf(Append(queue, frame)) = ChunksOf(queue) \cup {frame.data}
<1>1. PICK longer : longer = Append(queue, frame)
  OBVIOUS
<1>2. /\ Len(queue) \in Nat /\ DOMAIN queue = 1..Len(queue)
      /\ DOMAIN longer = 1..(Len(queue) + 1)
      /\ \A i \in 1..Len(queue) : longer[i] = queue[i]
      /\ longer[Len(queue) + 1] = frame
  BY <1>1, AppendProperties, LenProperties
<1>3. PICK last : last = Len(queue) + 1
  OBVIOUS
<1>4. /\ \A i \in DOMAIN longer : i = last \/ (i \in DOMAIN queue /\ longer[i] = queue[i])
      /\ last \in DOMAIN longer /\ longer[last] = frame
      /\ \A i \in DOMAIN queue : i \in DOMAIN longer /\ longer[i] = queue[i]
  BY <1>2, <1>3
<1>5. Apart(longer)
  BY <1>4 DEF Apart, ChunksOf
<1>6. ChunksOf(longer) = ChunksOf(queue) \cup {frame.data}
  BY <1>4 DEF ChunksOf
<1>. QED  BY <1>1, <1>5, <1>6

LEMMA ChunksBehind ==
  ASSUME NEW queue \in Seq(Frames), NEW rest \in Seq(Frames), Apart(queue), Apart(rest),
         ChunksOf(queue) \cap ChunksOf(rest) = {}
  PROVE  /\ Apart(queue \o rest)
         /\ ChunksOf(queue \o rest) = ChunksOf(queue) \cup ChunksOf(rest)
<1>1. PICK both, len : both = queue \o rest /\ len = Len(queue)
  OBVIOUS
<1>2. /\ len \in Nat /\ Len(rest) \in Nat
      /\ DOMAIN queue = 1..len /\ DOMAIN rest = 1..Len(rest)
      /\ DOMAIN both = 1..(len + Len(rest))
      /\ \A i \in 1..(len + Len(rest)) :
           both[i] = IF i <= len THEN queue[i] ELSE rest[i - len]
  BY <1>1, ConcatProperties, LenProperties
<1>3. \A i \in DOMAIN both : \/ i \in DOMAIN queue /\ both[i] = queue[i]
                             \/ /\ i \notin DOMAIN queue
                                /\ i - len \in DOMAIN rest /\ both[i] = rest[i - len]
  BY <1>2
<1>4. /\ \A i \in DOMAIN queue : i \in DOMAIN both /\ both[i] = queue[i]
      /\ \A i \in DOMAIN rest : i + len \in DOMAIN both /\ both[i + len] = rest[i]
  BY <1>2
<1>5. Apart(both)
  <2>. SUFFICES ASSUME NEW i \in DOMAIN both, NEW j \in DOMAIN both, i # j
                PROVE  both[i].data # both[j].data
    BY DEF Apart
  <2>1. CASE i \in DOMAIN queue /\ j \in DOMAIN queue
    BY <1>4, <2>1 DEF Apart
  <2>2. CASE i \notin DOMAIN queue /\ j \notin DOMAIN queue
    <3>1. i - len # j - len
      BY <1>2
    <3>. QED  BY <1>3, <2>2, <3>1 DEF Apart
  <2>3. CASE i \in DOMAIN queue /\ j \notin DOMAIN queue
    <3>1. both[i].data \in ChunksOf(queue) /\ both[j].data \in ChunksOf(rest)
      BY <1>3, <1>4, <2>3 DEF ChunksOf
    <3>. QED  BY <3>1
  <2>4. CASE i \notin DOMAIN queue /\ j \in DOMAIN queue
    <3>1. both[j].data \in ChunksOf(queue) /\ both[i].data \in ChunksOf(rest)
      BY <1>3, <1>4, <2>4 DEF ChunksOf
    <3>. QED  BY <3>1
  <2>. QED  BY <2>1, <2>2, <2>3, <2>4
<1>6. ChunksOf(both) \subseteq ChunksOf(queue) \cup ChunksOf(rest)
  BY <1>3 DEF ChunksOf
<1>7. ChunksOf(queue) \cup ChunksOf(rest) \subseteq ChunksOf(both)
  BY <1>4 DEF ChunksOf
<1>. QED  BY <1>1, <1>5, <1>6, <1>7

\* The frames of one message have a chunk each, and it is that message's.
LEMMA FramesApart ==
  ASSUME NEW message \in Messages
  PROVE  /\ Apart(FramesOf(message))
         /\ \A c \in ChunksOf(FramesOf(message)) : c.message = message.id
<1>1. PICK frames, n : frames = FramesOf(message) /\ n = NumOfChunks(message.length)
  OBVIOUS
<1>2. /\ n \in Nat \ {0} /\ Room \in Nat \ {0} /\ Len(Split(message)) = n
      /\ \A i \in 1..n : /\ Split(message)[i].message = message.id
                         /\ Split(message)[i].first = (i - 1) * Room + 1
  BY <1>1, ChunkBounds
<1>3. DOMAIN frames = 1..n /\ \A i \in 1..n : frames[i].data = Split(message)[i]
  BY <1>1, <1>2 DEF FramesOf
<1>4. ASSUME NEW i \in 1..n, NEW j \in 1..n, i # j
      PROVE  frames[i].data # frames[j].data
  <2>1. i - 1 \in Nat /\ j - 1 \in Nat /\ i - 1 # j - 1
    BY <1>2, <1>4
  <2>2. (i - 1) * Room + 1 # (j - 1) * Room + 1
    BY <1>2, <2>1, FirstDistinct
  <2>3. Split(message)[i].first # Split(message)[j].first
    BY <1>2, <2>2
  <2>. QED  BY <1>3, <2>3
<1>5. Apart(frames)
  BY <1>3, <1>4 DEF Apart
<1>6. \A c \in ChunksOf(frames) : c.message = message.id
  BY <1>2, <1>3 DEF ChunksOf
<1>. QED  BY <1>1, <1>5, <1>6

\* What printOutMessage prints last is the chunk of the slot it starts from.
LEMMA PrintedLast ==
  ASSUME NEW index \in SeqNums,
         receiver_queue \in [SeqNums -> Frames \cup {NoFrame}]
  PROVE  /\ MessageEndingAt(index) \in Seq(Chunks \cup {NoChunk})
         /\ MessageEndingAt(index)[Len(MessageEndingAt(index))] = receiver_queue[index].data
<1>. DEFINE Back(d) == receiver_queue[(index + SeqMod - d) % SeqMod]
            walked  == {d \in SeqNums : \A e \in SeqNums : e < d => ~Back(e).start_of_message}
            len     == Cardinality(walked)
<1>1. len \in Nat \ {0}
  <2>1. IsFiniteSet(SeqNums)
    BY FS_Interval, SeqModAssumption, SMT DEF SeqNums
  <2>2. walked \subseteq SeqNums
    OBVIOUS
  <2>3. 0 \in SeqNums /\ \A e \in SeqNums : ~(e < 0)
    BY SeqModAssumption DEF SeqNums
  <2>4. 0 \in walked
    BY <2>3
  <2>. HIDE DEF walked
  <2>5. IsFiniteSet(walked)
    BY <2>1, <2>2, FS_Subset
  <2>. QED  BY <2>4, <2>5, FS_CardinalityType, FS_EmptySet
<1>2. MessageEndingAt(index) = [k \in 1..len |-> Back(len - k).data]
  BY DEF MessageEndingAt
<1>3. Back(0) = receiver_queue[index]
  <2>1. (index + SeqMod - 0) % SeqMod = index
    BY SeqModAssumption DEF SeqNums
  <2>. QED  BY <2>1
<1>. HIDE DEF len, Back
<1>4. len \in 1..len /\ len - len = 0
  BY <1>1
<1>5. MessageEndingAt(index) \in Seq(Chunks \cup {NoChunk})
  BY MessageEndingAtType
<1>6. Len(MessageEndingAt(index)) = len
  BY <1>1, <1>2, <1>5, LenProperties
<1>. QED  BY <1>2, <1>3, <1>4, <1>5, <1>6

onceVars == <<userVars, pending_frame_list, m_output_queue, uplink, crossing, toReceiver,
              NFE, recv_marked, receiver_queue, printed>>

\* The sets of OnceInv, by a name each.
AreThePlaces(P, O, U, X, R, M, F) ==
  /\ P = ChunksOf(pending_frame_list) /\ O = ChunksOf(m_output_queue)
  /\ U = ChunksOf(uplink) /\ X = ChunksOf(crossing) /\ R = ChunksOf(toReceiver)
  /\ M = Marked /\ F = Behind

LEMMA OnceInit == WInit => OnceInv
<1>. SUFFICES ASSUME WInit PROVE OnceInv
  OBVIOUS
<1>1. WTypes
  BY WTypesInit
<1>2. \A S : <<>> \in Seq(S)
  BY EmptySeq
<1>3. SlotTypes
  BY <1>2 DEF WInit, Init, SlotTypes
<1>4. UserQueueInOrder
  BY SMT DEF WInit, Init, UserQueueInOrder
<1>5. OnceInQueues /\ OnceInSlots /\ MarkedAhead /\ PrintsEndInSomethingNew
  <2>1. OnceInQueues
    BY NoChunks DEF WInit, Init, OnceInQueues
  <2>2. OnceInSlots /\ MarkedAhead
    BY DEF WInit, Init, OnceInSlots, MarkedAhead
  <2>3. DOMAIN printed = {}
    BY SMT DEF WInit, Init
  <2>. QED  BY <2>1, <2>2, <2>3 DEF PrintsEndInSomethingNew
<1>6. OnePlaceEach(ChunksOf(pending_frame_list), ChunksOf(m_output_queue), ChunksOf(uplink),
                   ChunksOf(crossing), ChunksOf(toReceiver), Marked, Behind, Cut)
  <2>1. /\ ChunksOf(pending_frame_list) = {} /\ ChunksOf(m_output_queue) = {}
        /\ ChunksOf(uplink) = {} /\ ChunksOf(crossing) = {} /\ ChunksOf(toReceiver) = {}
    BY NoChunks DEF WInit, Init
  <2>2. Marked = {}
    BY DEF WInit, Init, Marked
  <2>3. DOMAIN printed = {}
    BY SMT DEF WInit, Init
  <2>4. Behind = {}
    <3>1. \A s \in SeqNums : receiver_queue[s].data = NoChunk
      BY DEF WInit, Init, NoFrame
    <3>2. Left \subseteq {NoChunk} /\ Ends = {} /\ Heads = {}
      BY <2>3, <3>1 DEF Left, Ends, Heads
    <3>. QED  BY <3>2 DEF Behind
  <2>. QED  BY <2>1, <2>2, <2>4 DEF OnePlaceEach
<1>. QED  BY <1>1, <1>3, <1>4, <1>5, <1>6 DEF OnceInv

\* Who leaves the slots and the printed messages alone leaves what is behind alone.
LEMMA SameReceiver ==
  ASSUME UNCHANGED <<NFE, recv_marked, receiver_queue, printed>>
  PROVE  /\ Behind' = Behind /\ (MarkedAhead => MarkedAhead')
         /\ PrintsEndInSomethingNew => PrintsEndInSomethingNew'
<1>1. Left' = Left
  BY DEF Left
<1>2. Ends' = Ends
  BY DEF Ends, LastPrinted
<1>3. \A p : StaysBehind(p)' = StaysBehind(p) /\ AllOf(p)' = AllOf(p)
  BY DEF StaysBehind, AllOf
<1>4. Heads' = Heads
  BY <1>3 DEF Heads
<1>5. MarkedAhead => MarkedAhead'
  BY DEF MarkedAhead, Ahead
<1>6. PrintsEndInSomethingNew => PrintsEndInSomethingNew'
  BY <1>3 DEF PrintsEndInSomethingNew, LastPrinted
<1>. QED  BY <1>1, <1>2, <1>4, <1>5, <1>6 DEF Behind

LEMMA OnceUntouched == OnceInv /\ WTypes' /\ UNCHANGED onceVars => OnceInv'
<1>1. ASSUME UNCHANGED <<NFE, recv_marked, receiver_queue, printed>>
      PROVE  /\ Behind' = Behind /\ (MarkedAhead => MarkedAhead')
             /\ PrintsEndInSomethingNew => PrintsEndInSomethingNew'
  BY <1>1, SameReceiver
<1>. QED  BY <1>1 DEF OnceInv, onceVars, userVars, SlotTypes, UserQueueInOrder, OnceInQueues,
                      OnceInSlots, ChunksOf, Apart, Marked, Cut

\* Nothing changes but the queues, which hold less or what another one held.
LEMMA OnceMoved ==
  ASSUME OnceInv, WTypes', OnceInQueues', NEW n \in Nat, n = Cut',
         UNCHANGED <<NFE, recv_marked, receiver_queue, printed>>, UserQueueInOrder',
         OnePlaceEach(ChunksOf(pending_frame_list'), ChunksOf(m_output_queue'),
                      ChunksOf(uplink'), ChunksOf(crossing'), ChunksOf(toReceiver'),
                      Marked, Behind, n)
  PROVE  OnceInv'
<1>1. SlotTypes' /\ OnceInSlots' /\ MarkedAhead' /\ PrintsEndInSomethingNew'
  BY SameReceiver DEF OnceInv, SlotTypes, OnceInSlots
<1>2. Marked' = Marked /\ Behind' = Behind
  BY SameReceiver DEF Marked
<1>3. OnePlaceEach(ChunksOf(pending_frame_list), ChunksOf(m_output_queue), ChunksOf(uplink),
                   ChunksOf(crossing), ChunksOf(toReceiver), Marked, Behind, Cut)'
  BY <1>2 DEF ChunksOf
<1>. QED  BY <1>1, <1>3 DEF OnceInv

LEMMA CutType == OnceInv => Cut \in Nat
<1>1. OnceInv => Len(typed) \in Nat /\ Len(m_user_input_queue) \in Nat
  BY LenProperties DEF OnceInv, WTypes, UserTypesOK
<1>2. OnceInv => Len(m_user_input_queue) <= Len(typed)
  BY DEF OnceInv, UserQueueInOrder
<1>. QED  BY <1>1, <1>2 DEF Cut

LEMMA OnceUserTypes ==
  ASSUME OnceInv, WTypes', NEW length \in Lengths, WUserTypes(length)
  PROVE  OnceInv'
<1>. DEFINE message == [id |-> Len(typed) + 1, length |-> length]
<1>1. /\ typed' = Append(typed, message)
      /\ m_user_input_queue' = Append(m_user_input_queue, message)
      /\ UNCHANGED <<pending_frame_list, m_output_queue, uplink, crossing, toReceiver,
                     NFE, recv_marked, receiver_queue, printed>>
  BY DEF WUserTypes, UserTypes, networkVars, crossingVars, blockVars, frameLinks, receiverVars
<1>2. /\ typed \in Seq(Messages) /\ m_user_input_queue \in Seq(Messages)
      /\ Len(typed) \in Nat /\ Len(m_user_input_queue) \in Nat
      /\ Len(m_user_input_queue) <= Len(typed)
      /\ DOMAIN m_user_input_queue = 1..Len(m_user_input_queue)
      /\ \A j \in DOMAIN m_user_input_queue : m_user_input_queue[j].id = Cut + j
  BY LenProperties DEF OnceInv, WTypes, UserTypesOK, UserQueueInOrder
<1>3. PICK late : late = message
  OBVIOUS
<1>4. late \in Messages /\ late.id = Len(typed) + 1
  <2>1. Len(typed) < MaxMessages
    BY DEF WUserTypes, UserTypes
  <2>. QED  BY <1>2, <1>3, <2>1, BoundAssumption DEF Messages
<1>. HIDE DEF message
<1>5. /\ Len(typed') = Len(typed) + 1 /\ Len(m_user_input_queue') = Len(m_user_input_queue) + 1
      /\ DOMAIN m_user_input_queue' = 1..(Len(m_user_input_queue) + 1)
      /\ \A j \in 1..Len(m_user_input_queue) : m_user_input_queue'[j] = m_user_input_queue[j]
      /\ m_user_input_queue'[Len(m_user_input_queue) + 1] = late
  BY <1>1, <1>2, <1>3, <1>4, AppendProperties, LenProperties
<1>6. Cut' = Cut /\ Cut \in Nat /\ Cut + (Len(m_user_input_queue) + 1) = Len(typed) + 1
  BY <1>2, <1>5 DEF Cut
<1>7. UserQueueInOrder'
  <2>1. Len(m_user_input_queue') <= Len(typed')
    BY <1>2, <1>5
  <2>2. ASSUME NEW j \in 1..(Len(m_user_input_queue) + 1)
        PROVE  m_user_input_queue'[j].id = Cut + j
    <3>1. CASE j = Len(m_user_input_queue) + 1
      BY <1>4, <1>5, <1>6, <3>1
    <3>2. CASE j # Len(m_user_input_queue) + 1
      <4>1. j \in 1..Len(m_user_input_queue)
        BY <1>2, <3>2
      <4>. QED  BY <1>2, <1>5, <4>1
    <3>. QED  BY <3>1, <3>2
  <2>. QED  BY <1>5, <1>6, <2>1, <2>2 DEF UserQueueInOrder
<1>8. OnceInQueues'
  BY <1>1 DEF OnceInv, OnceInQueues, Apart
<1>. QED  BY <1>1, <1>6, <1>7, <1>8, OnceMoved DEF OnceInv

\* What is left of the user's queue is still in order, and one message more is cut.
LEMMA OnceUserInput ==
  ASSUME OnceInv, WTypes', UNCHANGED networkVars, HandleUserInput
  PROVE  OnceInv'
<1>1. PICK message, queue, frames :
        /\ queue = m_user_input_queue /\ message = Head(queue) /\ frames = FramesOf(message)
  OBVIOUS
<1>2. /\ queue # <<>> /\ m_user_input_queue' = Tail(queue)
      /\ pending_frame_list' = pending_frame_list \o frames
      /\ UNCHANGED <<typed, m_output_queue, uplink, crossing, toReceiver, NFE, recv_marked,
                     receiver_queue, printed>>
  BY <1>1 DEF HandleUserInput, networkVars, crossingVars, frameLinks, receiverVars
<1>3. /\ typed \in Seq(Messages) /\ queue \in Seq(Messages)
      /\ Len(typed) \in Nat /\ Len(queue) <= Len(typed)
      /\ \A j \in DOMAIN queue : queue[j].id = Cut + j
      /\ SEQ \in SeqNums /\ pending_frame_list \in Seq(Frames)
  BY <1>1, LenProperties DEF OnceInv, WTypes, UserTypesOK, SenderTypes, UserQueueInOrder
<1>4. /\ message \in Messages /\ message = queue[1]
      /\ Len(queue) \in Nat \ {0} /\ DOMAIN queue = 1..Len(queue)
      /\ Len(Tail(queue)) = Len(queue) - 1 /\ DOMAIN Tail(queue) = 1..(Len(queue) - 1)
      /\ \A j \in 1..(Len(queue) - 1) : Tail(queue)[j] = queue[j + 1]
  BY <1>1, <1>2, <1>3, HeadTailProperties, LenProperties
<1>5. Cut \in Nat /\ Cut' = Cut + 1
  BY <1>1, <1>2, <1>3, <1>4 DEF Cut
<1>6. message.id = Cut + 1
  BY <1>3, <1>4
<1>7. UserQueueInOrder'
  <2>1. ASSUME NEW j \in 1..(Len(queue) - 1)
        PROVE  Tail(queue)[j].id = Cut + 1 + j
    <3>1. j + 1 \in DOMAIN queue /\ Cut + (j + 1) = Cut + 1 + j
      BY <1>4, <1>5
    <3>. QED  BY <1>3, <1>4, <3>1
  <2>2. Len(Tail(queue)) <= Len(typed)
    BY <1>3, <1>4
  <2>. QED  BY <1>2, <1>4, <1>5, <2>1, <2>2 DEF UserQueueInOrder
<1>8. /\ frames \in Seq(Frames) /\ Apart(frames)
      /\ \A c \in ChunksOf(frames) : c.message = Cut + 1
  BY <1>1, <1>3, <1>4, <1>6, FramesOfType, FramesApart
<1>9. PICK P, O, U, X, R, M, F, n : AreThePlaces(P, O, U, X, R, M, F) /\ n = Cut
  BY DEF AreThePlaces
<1>10. OnePlaceEach(P, O, U, X, R, M, F, n)
  BY <1>9 DEF OnceInv, AreThePlaces
<1>11. PICK new : new = ChunksOf(frames)
  OBVIOUS
<1>12. \A c \in P \cup O \cup U \cup X \cup R \cup M \cup F : c \notin new
  <2>1. \A c \in P \cup O \cup U \cup X \cup R \cup M \cup F : c.message \in 1..n
    BY <1>10 DEF OnePlaceEach
  <2>2. n + 1 \notin 1..n
    BY <1>5, <1>9
  <2>. QED  BY <1>8, <1>9, <1>11, <2>1, <2>2
<1>13. OnePlaceEach(P \cup new, O, U, X, R, M, F, n + 1)
  <2>1. \A i \in 1..n : i \in 1..(n + 1)
    BY <1>5, <1>9
  <2>2. \A c \in P \cup O \cup U \cup X \cup R \cup M \cup F : c.message \in 1..(n + 1)
    BY <1>10, <2>1 DEF OnePlaceEach
  <2>3. \A c \in new : c.message \in 1..(n + 1)
    BY <1>5, <1>8, <1>9, <1>11
  <2>. QED  BY <1>10, <1>12, <2>2, <2>3 DEF OnePlaceEach
<1>14. /\ Apart(pending_frame_list')
       /\ ChunksOf(pending_frame_list') = P \cup new
  <2>1. Apart(pending_frame_list) /\ P \cap new = {} /\ P = ChunksOf(pending_frame_list)
    BY <1>9, <1>12 DEF OnceInv, OnceInQueues, AreThePlaces
  <2>. QED  BY <1>2, <1>3, <1>8, <1>11, <2>1, ChunksBehind
<1>15. OnceInQueues'
  BY <1>2, <1>14 DEF OnceInv, OnceInQueues, Apart
<1>16. OnePlaceEach(ChunksOf(pending_frame_list'), ChunksOf(m_output_queue'),
                    ChunksOf(uplink'), ChunksOf(crossing'), ChunksOf(toReceiver'),
                    Marked, Behind, n + 1)
  BY <1>2, <1>9, <1>13, <1>14 DEF AreThePlaces
<1>. QED  BY <1>2, <1>5, <1>7, <1>9, <1>15, <1>16, OnceMoved

\* Fewer frames, or a frame one queue further: everything is still in one place.
LEMMA PlacesMoved ==
  ASSUME NEW P, NEW O, NEW U, NEW X, NEW R, NEW M, NEW F, NEW n, NEW c,
         OnePlaceEach(P, O, U, X, R, M, F, n)
  PROVE  /\ OnePlaceEach({}, O, U, X, R, M, F, n)
         /\ c \in P => OnePlaceEach(P \ {c}, O \cup {c}, U, X, R, M, F, n)
         /\ OnePlaceEach(P, {}, U \cup O, X, R, M, F, n)
         /\ c \in U => /\ OnePlaceEach(P, O, U \ {c}, X \cup {c}, R, M, F, n)
                       /\ OnePlaceEach(P, O, U \ {c}, X, R, M, F, n)
         /\ c \in X => /\ OnePlaceEach(P, O, U, X \ {c}, R \cup {c}, M, F, n)
                       /\ OnePlaceEach(P, O, U, X \ {c}, R, M, F, n)
         /\ c \in R => OnePlaceEach(P, O, U, X, R \ {c}, M, F, n)
<1>1. OnePlaceEach({}, O, U, X, R, M, F, n)
  BY DEF OnePlaceEach
<1>2. ASSUME c \in P PROVE OnePlaceEach(P \ {c}, O \cup {c}, U, X, R, M, F, n)
  BY <1>2 DEF OnePlaceEach
<1>3. OnePlaceEach(P, {}, U \cup O, X, R, M, F, n)
  BY DEF OnePlaceEach
<1>4. ASSUME c \in U PROVE /\ OnePlaceEach(P, O, U \ {c}, X \cup {c}, R, M, F, n)
                           /\ OnePlaceEach(P, O, U \ {c}, X, R, M, F, n)
  BY <1>4 DEF OnePlaceEach
<1>5. ASSUME c \in X PROVE /\ OnePlaceEach(P, O, U, X \ {c}, R \cup {c}, M, F, n)
                           /\ OnePlaceEach(P, O, U, X \ {c}, R, M, F, n)
  BY <1>5 DEF OnePlaceEach
<1>6. ASSUME c \in R PROVE OnePlaceEach(P, O, U, X, R \ {c}, M, F, n)
  BY <1>6 DEF OnePlaceEach
<1>. QED  BY <1>1, <1>2, <1>3, <1>4, <1>5, <1>6

\* What OnceInv says of the queues and the slots.
LEMMA OnceTypes ==
  OnceInv => /\ pending_frame_list \in Seq(Frames) /\ m_output_queue \in Seq(Frames)
             /\ uplink \in Seq(Frames) /\ crossing \in Seq(Frames)
             /\ toReceiver \in Seq(Frames)
             /\ OnceInQueues /\ UserQueueInOrder /\ SlotTypes
             /\ NFE \in SeqNums /\ recv_marked \subseteq SeqNums
BY DEF OnceInv, WTypes, SenderTypes, LinkTypes, ReceiverTypes

\* The set without the head, by the set with it.
LEMMA HeadGone ==
  ASSUME NEW queue \in Seq(Frames), queue # <<>>, Apart(queue)
  PROVE  /\ Apart(Tail(queue)) /\ Head(queue) \in Frames
         /\ Head(queue).data \in ChunksOf(queue)
         /\ ChunksOf(Tail(queue)) = ChunksOf(queue) \ {Head(queue).data}
<1>1. Head(queue) \in Frames
  BY HeadTailProperties
<1>. QED  BY <1>1, WithoutFirstChunk

\* A frame leaves the window, or the frames of an erased block are gone.
LEMMA OnceSends ==
  ASSUME OnceInv, WTypes', UNCHANGED networkVars \/ HandleIcmpMessage,
         SendPendingFrame \/ SendMessageToRouter \/ HandleIcmpMessage
  PROVE  OnceInv'
<1>1. PICK P, O, U, X, R, M, F, n : AreThePlaces(P, O, U, X, R, M, F) /\ n = Cut
  BY DEF AreThePlaces
<1>2. OnePlaceEach(P, O, U, X, R, M, F, n) /\ n \in Nat
  BY <1>1, CutType DEF OnceInv, AreThePlaces
<1>3. crossing' = crossing
  BY DEF networkVars, crossingVars, HandleIcmpMessage
<1>4. CASE SendPendingFrame
  <2>1. PICK frame : frame = Head(pending_frame_list)
    OBVIOUS
  <2>2. /\ pending_frame_list # <<>> /\ pending_frame_list' = Tail(pending_frame_list)
        /\ m_output_queue' = Append(m_output_queue, frame)
        /\ UNCHANGED <<userVars, uplink, toReceiver, NFE, recv_marked, receiver_queue,
                       printed>>
    BY <1>4, <2>1 DEF SendPendingFrame, MayLeave, frameLinks, receiverVars
  <2>3. /\ Apart(pending_frame_list') /\ frame \in Frames /\ frame.data \in P
        /\ ChunksOf(pending_frame_list') = P \ {frame.data}
    BY <1>1, <2>1, <2>2, OnceTypes, HeadGone DEF OnceInQueues, AreThePlaces
  <2>4. frame.data \notin O
    BY <1>2, <2>3 DEF OnePlaceEach
  <2>5. /\ Apart(m_output_queue')
        /\ ChunksOf(m_output_queue') = O \cup {frame.data}
    BY <1>1, <2>2, <2>3, <2>4, OnceTypes, WithLastChunk DEF OnceInQueues, AreThePlaces
  <2>6. OnceInQueues'
    BY <1>3, <2>2, <2>3, <2>5, OnceTypes DEF OnceInQueues, Apart
  <2>7. OnePlaceEach(P \ {frame.data}, O \cup {frame.data}, U, X, R, M, F, n)
    BY <1>2, <2>3, PlacesMoved
  <2>8. OnePlaceEach(ChunksOf(pending_frame_list'), ChunksOf(m_output_queue'),
                     ChunksOf(uplink'), ChunksOf(crossing'), ChunksOf(toReceiver'),
                     Marked, Behind, n)
    BY <1>1, <1>3, <2>2, <2>3, <2>5, <2>7 DEF AreThePlaces
  <2>9. UserQueueInOrder' /\ n = Cut'
    BY <1>1, <2>2, OnceTypes DEF UserQueueInOrder, Cut, userVars
  <2>. QED  BY <1>2, <2>2, <2>6, <2>8, <2>9, OnceMoved
<1>5. CASE SendMessageToRouter
  <2>1. /\ uplink' = uplink \o m_output_queue /\ m_output_queue' = <<>>
        /\ UNCHANGED <<userVars, pending_frame_list, toReceiver, NFE, recv_marked,
                       receiver_queue, printed>>
    BY <1>5 DEF SendMessageToRouter, blockVars, receiverVars
  <2>2. U \cap O = {}
    BY <1>2 DEF OnePlaceEach
  <2>3. Apart(uplink') /\ ChunksOf(uplink') = U \cup O
    BY <1>1, <2>1, <2>2, OnceTypes, ChunksBehind DEF OnceInQueues, AreThePlaces
  <2>4. Apart(m_output_queue') /\ ChunksOf(m_output_queue') = {}
    BY <2>1, NoChunks
  <2>5. OnceInQueues'
    BY <1>3, <2>1, <2>3, <2>4, OnceTypes DEF OnceInQueues, Apart
  <2>6. OnePlaceEach(P, {}, U \cup O, X, R, M, F, n)
    BY <1>2, PlacesMoved
  <2>7. OnePlaceEach(ChunksOf(pending_frame_list'), ChunksOf(m_output_queue'),
                     ChunksOf(uplink'), ChunksOf(crossing'), ChunksOf(toReceiver'),
                     Marked, Behind, n)
    BY <1>1, <1>3, <2>1, <2>3, <2>4, <2>6 DEF AreThePlaces
  <2>8. UserQueueInOrder' /\ n = Cut'
    BY <1>1, <2>1, OnceTypes DEF UserQueueInOrder, Cut, userVars
  <2>. QED  BY <1>2, <2>1, <2>5, <2>7, <2>8, OnceMoved
<1>6. CASE HandleIcmpMessage
  <2>1. /\ pending_frame_list' = <<>>
        /\ UNCHANGED <<userVars, m_output_queue, uplink, toReceiver, NFE, recv_marked,
                       receiver_queue, printed>>
    BY <1>6 DEF HandleIcmpMessage, frameLinks, receiverVars
  <2>2. Apart(pending_frame_list') /\ ChunksOf(pending_frame_list') = {}
    BY <2>1, NoChunks
  <2>3. OnceInQueues'
    BY <1>3, <2>1, <2>2, OnceTypes DEF OnceInQueues, Apart
  <2>4. OnePlaceEach({}, O, U, X, R, M, F, n)
    BY <1>2, PlacesMoved
  <2>5. OnePlaceEach(ChunksOf(pending_frame_list'), ChunksOf(m_output_queue'),
                     ChunksOf(uplink'), ChunksOf(crossing'), ChunksOf(toReceiver'),
                     Marked, Behind, n)
    BY <1>1, <1>3, <2>1, <2>2, <2>4 DEF AreThePlaces
  <2>6. UserQueueInOrder' /\ n = Cut'
    BY <1>1, <2>1, OnceTypes DEF UserQueueInOrder, Cut, userVars
  <2>. QED  BY <1>2, <2>1, <2>3, <2>5, <2>6, OnceMoved
<1>. QED  BY <1>4, <1>5, <1>6

\* A frame passes a border or is dropped there.
LEMMA OnceBorders ==
  ASSUME OnceInv, WTypes', BorderAS1 \/ BorderAS4
  PROVE  OnceInv'
<1>1. PICK P, O, U, X, R, M, F, n : AreThePlaces(P, O, U, X, R, M, F) /\ n = Cut
  BY DEF AreThePlaces
<1>2. OnePlaceEach(P, O, U, X, R, M, F, n) /\ n \in Nat
  BY <1>1, CutType DEF OnceInv, AreThePlaces
<1>3. UNCHANGED <<userVars, pending_frame_list, m_output_queue, NFE, recv_marked,
                  receiver_queue, printed>>
  BY DEF BorderAS1, BorderAS4, hostVars, blockVars, receiverVars
<1>4. UserQueueInOrder' /\ n = Cut'
  BY <1>1, <1>3, OnceTypes DEF UserQueueInOrder, Cut, userVars
<1>5. CASE BorderAS1
  <2>1. PICK frame : frame = Head(uplink)
    OBVIOUS
  <2>2. /\ uplink # <<>> /\ uplink' = Tail(uplink) /\ toReceiver' = toReceiver
        /\ crossing' = Append(crossing, frame) \/ crossing' = crossing
    BY <1>5, <2>1 DEF BorderAS1
  <2>3. /\ Apart(uplink') /\ frame \in Frames /\ frame.data \in U
        /\ ChunksOf(uplink') = U \ {frame.data}
    BY <1>1, <2>1, <2>2, OnceTypes, HeadGone DEF OnceInQueues, AreThePlaces
  <2>4. /\ OnePlaceEach(P, O, U \ {frame.data}, X \cup {frame.data}, R, M, F, n)
        /\ OnePlaceEach(P, O, U \ {frame.data}, X, R, M, F, n)
    BY <1>2, <2>3, PlacesMoved
  <2>5. CASE crossing' = Append(crossing, frame)
    <3>1. frame.data \notin X
      BY <1>2, <2>3 DEF OnePlaceEach
    <3>2. /\ Apart(crossing') /\ ChunksOf(crossing') = X \cup {frame.data}
      BY <1>1, <2>3, <2>5, <3>1, OnceTypes, WithLastChunk DEF OnceInQueues, AreThePlaces
    <3>3. OnceInQueues'
      BY <1>3, <2>2, <2>3, <3>2, OnceTypes DEF OnceInQueues, Apart
    <3>4. OnePlaceEach(ChunksOf(pending_frame_list'), ChunksOf(m_output_queue'),
                       ChunksOf(uplink'), ChunksOf(crossing'), ChunksOf(toReceiver'),
                       Marked, Behind, n)
      BY <1>1, <1>3, <2>2, <2>3, <2>4, <3>2 DEF AreThePlaces
    <3>. QED  BY <1>2, <1>3, <1>4, <3>3, <3>4, OnceMoved
  <2>6. CASE crossing' = crossing
    <3>1. OnceInQueues'
      BY <1>3, <2>2, <2>3, <2>6, OnceTypes DEF OnceInQueues, Apart
    <3>2. OnePlaceEach(ChunksOf(pending_frame_list'), ChunksOf(m_output_queue'),
                       ChunksOf(uplink'), ChunksOf(crossing'), ChunksOf(toReceiver'),
                       Marked, Behind, n)
      BY <1>1, <1>3, <2>2, <2>3, <2>4, <2>6 DEF AreThePlaces
    <3>. QED  BY <1>2, <1>3, <1>4, <3>1, <3>2, OnceMoved
  <2>. QED  BY <2>2, <2>5, <2>6
<1>6. CASE BorderAS4
  <2>1. PICK frame : frame = Head(crossing)
    OBVIOUS
  <2>2. /\ crossing # <<>> /\ crossing' = Tail(crossing) /\ uplink' = uplink
        /\ toReceiver' = Append(toReceiver, frame) \/ toReceiver' = toReceiver
    BY <1>6, <2>1 DEF BorderAS4
  <2>3. /\ Apart(crossing') /\ frame \in Frames /\ frame.data \in X
        /\ ChunksOf(crossing') = X \ {frame.data}
    BY <1>1, <2>1, <2>2, OnceTypes, HeadGone DEF OnceInQueues, AreThePlaces
  <2>4. /\ OnePlaceEach(P, O, U, X \ {frame.data}, R \cup {frame.data}, M, F, n)
        /\ OnePlaceEach(P, O, U, X \ {frame.data}, R, M, F, n)
    BY <1>2, <2>3, PlacesMoved
  <2>5. CASE toReceiver' = Append(toReceiver, frame)
    <3>1. frame.data \notin R
      BY <1>2, <2>3 DEF OnePlaceEach
    <3>2. /\ Apart(toReceiver') /\ ChunksOf(toReceiver') = R \cup {frame.data}
      BY <1>1, <2>3, <2>5, <3>1, OnceTypes, WithLastChunk DEF OnceInQueues, AreThePlaces
    <3>3. OnceInQueues'
      BY <1>3, <2>2, <2>3, <3>2, OnceTypes DEF OnceInQueues, Apart
    <3>4. OnePlaceEach(ChunksOf(pending_frame_list'), ChunksOf(m_output_queue'),
                       ChunksOf(uplink'), ChunksOf(crossing'), ChunksOf(toReceiver'),
                       Marked, Behind, n)
      BY <1>1, <1>3, <2>2, <2>3, <2>4, <3>2 DEF AreThePlaces
    <3>. QED  BY <1>2, <1>3, <1>4, <3>3, <3>4, OnceMoved
  <2>6. CASE toReceiver' = toReceiver
    <3>1. OnceInQueues'
      BY <1>3, <2>2, <2>3, <2>6, OnceTypes DEF OnceInQueues, Apart
    <3>2. OnePlaceEach(ChunksOf(pending_frame_list'), ChunksOf(m_output_queue'),
                       ChunksOf(uplink'), ChunksOf(crossing'), ChunksOf(toReceiver'),
                       Marked, Behind, n)
      BY <1>1, <1>3, <2>2, <2>3, <2>4, <2>6 DEF AreThePlaces
    <3>. QED  BY <1>2, <1>3, <1>4, <3>1, <3>2, OnceMoved
  <2>. QED  BY <2>2, <2>5, <2>6
<1>. QED  BY <1>5, <1>6

\* A frame that is stored may take the slot of another one, which is then gone.
LEMMA PlacesStored ==
  ASSUME NEW P, NEW O, NEW U, NEW X, NEW R, NEW M, NEW F, NEW n, NEW c, NEW N, NEW G,
         OnePlaceEach(P, O, U, X, R, M, F, n)
  PROVE  /\ c \in R /\ N \subseteq M \cup {c} /\ G \subseteq F
              => OnePlaceEach(P, O, U, X, R \ {c}, N, G, n)
         /\ c \in M /\ N \subseteq M \ {c} /\ G \subseteq F \cup {c}
              => OnePlaceEach(P, O, U, X, R, N, G, n)
<1>1. ASSUME c \in R, N \subseteq M \cup {c}, G \subseteq F
      PROVE  OnePlaceEach(P, O, U, X, R \ {c}, N, G, n)
  BY <1>1 DEF OnePlaceEach
<1>2. ASSUME c \in M, N \subseteq M \ {c}, G \subseteq F \cup {c}
      PROVE  OnePlaceEach(P, O, U, X, R, N, G, n)
  BY <1>2 DEF OnePlaceEach
<1>. QED  BY <1>1, <1>2

\* The window of the code, as a distance from NFE.
LEMMA WindowIsAhead ==
  ASSUME NFE \in SeqNums, NEW s \in SeqNums, InReceiveWindow(s)
  PROVE  Ahead(s)
<1>1. NFE \in Nat /\ NFE < SeqMod /\ RWS - 1 \in 0..SeqMod /\ NFE % SeqMod = NFE
  BY SeqModAssumption, WindowAssumption, SMT DEF SeqNums
<1>2. NFE + RWS - 1 = NFE + (RWS - 1)
  BY <1>1, WindowAssumption, SMT
<1>3. LAF = IF NFE + (RWS - 1) < SeqMod THEN NFE + (RWS - 1) ELSE NFE + (RWS - 1) - SeqMod
  BY <1>1, <1>2, ModPlus DEF LAF
<1>. QED  BY <1>1, <1>3, WindowAssumption, SeqModAssumption, SMT
          DEF InReceiveWindow, Ahead, SeqNums

\* The window moves on by one: what was ahead of NFE still is.
LEMMA AheadOfNext ==
  ASSUME NFE \in SeqNums, NFE' = Inc(NFE), NEW s \in SeqNums, s # NFE, Ahead(s)
  PROVE  Ahead(s)'
<1>1. NFE \in Nat /\ NFE < SeqMod /\ 1 \in 0..SeqMod /\ NFE % SeqMod = NFE
  BY SeqModAssumption, SMT DEF SeqNums
<1>2. NFE' = IF NFE + 1 < SeqMod THEN NFE + 1 ELSE NFE + 1 - SeqMod
  BY <1>1, ModPlus DEF Inc
<1>. QED  BY <1>1, <1>2, WindowAssumption, SeqModAssumption, SMT DEF Ahead, SeqNums

\* A walk back that is not too long meets slots behind the window only.
LEMMA WalkStaysBehind ==
  ASSUME NFE \in SeqNums, MarkedAhead,
         receiver_queue \in [SeqNums -> Frames \cup {NoFrame}],
         NEW text, text = MessageEndingAt(NFE), Len(text) <= SeqMod - RWS + 1,
         NEW k \in DOMAIN text
  PROVE  text[k] = receiver_queue[NFE].data \/ text[k] \in Left
<1>. DEFINE Back(d) == receiver_queue[(NFE + SeqMod - d) % SeqMod]
            walked  == {d \in SeqNums : \A e \in SeqNums : e < d => ~Back(e).start_of_message}
            len     == Cardinality(walked)
<1>1. text = [i \in 1..len |-> Back(len - i).data]
  BY DEF MessageEndingAt
<1>2. len \in Nat
  <2>1. IsFiniteSet(SeqNums)
    BY FS_Interval, SeqModAssumption, SMT DEF SeqNums
  <2>2. walked \subseteq SeqNums
    OBVIOUS
  <2>. HIDE DEF walked
  <2>. QED  BY <2>1, <2>2, FS_Subset, FS_CardinalityType
<1>3. text \in Seq(Chunks \cup {NoChunk})
  BY MessageEndingAtType
<1>. HIDE DEF len
<1>4. Len(text) = len /\ k \in 1..len
  BY <1>1, <1>2, <1>3, LenProperties
<1>5. PICK d : d = len - k
  OBVIOUS
<1>6. d \in Nat /\ d <= SeqMod - RWS
  BY <1>2, <1>4, <1>5, SeqModAssumption, WindowAssumption
<1>7. text[k] = Back(d).data
  BY <1>1, <1>4, <1>5
<1>8. PICK s : s = (NFE + SeqMod - d) % SeqMod
  OBVIOUS
<1>9. s = IF d <= NFE THEN NFE - d ELSE NFE + SeqMod - d
  <2>1. /\ NFE \in Nat /\ NFE < SeqMod /\ NFE % SeqMod = NFE /\ SeqMod - d \in 0..SeqMod
        /\ NFE + SeqMod - d = NFE + (SeqMod - d)
    BY <1>6, SeqModAssumption, WindowAssumption, SMT DEF SeqNums
  <2>2. s = IF NFE + (SeqMod - d) < SeqMod THEN NFE + (SeqMod - d)
            ELSE NFE + (SeqMod - d) - SeqMod
    BY <1>8, <2>1, ModPlus
  <2>. QED  BY <1>6, <2>1, <2>2, SeqModAssumption, SMT
<1>10. CASE d = 0
  BY <1>7, <1>8, <1>9, <1>10, SeqModAssumption, SMT DEF SeqNums
<1>11. CASE d # 0
  <2>1. s \in SeqNums /\ ~Ahead(s)
    BY <1>6, <1>9, <1>11, SeqModAssumption, WindowAssumption, SMT DEF SeqNums, Ahead
  <2>2. s \in SeqNums \ recv_marked
    BY <2>1 DEF MarkedAhead
  <2>. QED  BY <1>7, <1>8, <2>2 DEF Left
<1>. QED  BY <1>10, <1>11

LEMMA OnceTakesIn ==
  ASSUME OnceInv, WTypes', WHandlePacket
  PROVE  OnceInv'
<1>1. PICK P, O, U, X, R, M, F, n : AreThePlaces(P, O, U, X, R, M, F) /\ n = Cut
  BY DEF AreThePlaces
<1>2. OnePlaceEach(P, O, U, X, R, M, F, n) /\ n \in Nat
  BY <1>1, CutType DEF OnceInv, AreThePlaces
<1>3. PICK frame, s : frame = Head(toReceiver) /\ s = frame.seq_ack_num
  OBVIOUS
<1>4. /\ toReceiver # <<>> /\ toReceiver' = Tail(toReceiver)
      /\ UNCHANGED <<userVars, pending_frame_list, m_output_queue, uplink, crossing, printed>>
      /\ \/ /\ receiver_queue' = [receiver_queue EXCEPT ![s] = frame]
            /\ recv_marked' = recv_marked \cup {s} /\ InReceiveWindow(s)
         \/ UNCHANGED <<receiver_queue, recv_marked>>
      /\ NFE' = NFE
  BY <1>3 DEF WHandlePacket, HandlePacket, blockVars, crossingVars
<1>5. /\ Apart(toReceiver') /\ frame \in Frames /\ frame.data \in R
      /\ ChunksOf(toReceiver') = R \ {frame.data}
  BY <1>1, <1>3, <1>4, OnceTypes, HeadGone DEF OnceInQueues, AreThePlaces
<1>6. s \in SeqNums
  BY <1>3, <1>5 DEF Frames
<1>7. OnceInQueues'
  BY <1>4, <1>5, OnceTypes DEF OnceInQueues, Apart
<1>8. UserQueueInOrder' /\ n = Cut'
  BY <1>1, <1>4, OnceTypes DEF UserQueueInOrder, Cut, userVars
<1>9. PICK N : N = Marked'
  OBVIOUS
<1>10. PICK G : G = Behind'
  OBVIOUS
<1>11. SlotTypes' /\ OnceInSlots' /\ N \subseteq M \cup {frame.data}
  <2>1. /\ receiver_queue \in [SeqNums -> Frames \cup {NoFrame}] /\ recv_marked \subseteq SeqNums
        /\ printed' \in Seq(Seq(Chunks \cup {NoChunk}))
        /\ \A i, j \in recv_marked : i # j => receiver_queue[i].data # receiver_queue[j].data
    BY <1>4, OnceTypes DEF SlotTypes, OnceInv, OnceInSlots
  <2>2. CASE UNCHANGED <<receiver_queue, recv_marked>>
    BY <1>1, <1>9, <2>1, <2>2 DEF SlotTypes, OnceInSlots, Marked, AreThePlaces
  <2>3. CASE /\ receiver_queue' = [receiver_queue EXCEPT ![s] = frame]
             /\ recv_marked' = recv_marked \cup {s}
    <3>1. /\ receiver_queue' \in [SeqNums -> Frames \cup {NoFrame}]
          /\ receiver_queue'[s] = frame
          /\ \A i \in SeqNums \ {s} : receiver_queue'[i] = receiver_queue[i]
      BY <1>5, <1>6, <2>1, <2>3
    <3>2. frame.data \notin M
      BY <1>2, <1>5 DEF OnePlaceEach
    <3>3. \A i \in recv_marked : receiver_queue[i].data # frame.data
      BY <1>1, <3>2 DEF AreThePlaces, Marked
    <3>4. ASSUME NEW i \in recv_marked', NEW j \in recv_marked', i # j
          PROVE  receiver_queue'[i].data # receiver_queue'[j].data
      <4>1. CASE i = s
        <5>1. j \in recv_marked /\ receiver_queue'[j] = receiver_queue[j]
          BY <2>1, <2>3, <3>1, <3>4, <4>1
        <5>. QED  BY <3>1, <3>3, <4>1, <5>1
      <4>2. CASE j = s
        <5>1. i \in recv_marked /\ receiver_queue'[i] = receiver_queue[i]
          BY <2>1, <2>3, <3>1, <3>4, <4>2
        <5>. QED  BY <3>1, <3>3, <4>2, <5>1
      <4>3. CASE i # s /\ j # s
        BY <2>1, <2>3, <3>1, <3>4, <4>3
      <4>. QED  BY <4>1, <4>2, <4>3
    <3>5. ASSUME NEW i \in recv_marked' PROVE receiver_queue'[i].data \in M \cup {frame.data}
      <4>1. CASE i = s
        BY <3>1, <4>1
      <4>2. CASE i # s
        <5>1. i \in recv_marked /\ receiver_queue'[i] = receiver_queue[i]
          BY <2>1, <2>3, <3>1, <3>5, <4>2
        <5>. QED  BY <1>1, <5>1 DEF AreThePlaces, Marked
      <4>. QED  BY <4>1, <4>2
    <3>6. N \subseteq M \cup {frame.data}
      BY <1>9, <3>5 DEF Marked
    <3>. QED  BY <2>1, <3>1, <3>4, <3>6 DEF SlotTypes, OnceInSlots
  <2>. QED  BY <1>4, <2>2, <2>3
<1>13. G \subseteq F /\ MarkedAhead' /\ PrintsEndInSomethingNew'
  <2>1. Ends' = Ends /\ Heads' = Heads
    BY <1>4 DEF Ends, LastPrinted, Heads, StaysBehind, AllOf
  <2>2. Left' \subseteq Left
    <3>1. ASSUME NEW i \in SeqNums \ recv_marked'
          PROVE  i \in SeqNums \ recv_marked /\ receiver_queue'[i] = receiver_queue[i]
      BY <1>4, <3>1, OnceTypes DEF SlotTypes
    <3>. QED  BY <3>1 DEF Left
  <2>3. MarkedAhead'
    <3>1. MarkedAhead /\ NFE \in SeqNums
      BY OnceTypes DEF OnceInv
    <3>2. InReceiveWindow(s) => Ahead(s)
      BY <1>6, <3>1, WindowIsAhead
    <3>. QED  BY <1>4, <3>1, <3>2 DEF MarkedAhead, Ahead
  <2>4. PrintsEndInSomethingNew'
    BY <1>4 DEF OnceInv, PrintsEndInSomethingNew, LastPrinted, StaysBehind
  <2>. QED  BY <1>1, <1>10, <2>1, <2>2, <2>3, <2>4 DEF AreThePlaces, Behind
<1>12. OnePlaceEach(P, O, U, X, R \ {frame.data}, N, G, n)
  <2>1. PICK c : c = frame.data
    OBVIOUS
  <2>2. c \in R /\ N \subseteq M \cup {c} /\ G \subseteq F
    BY <1>5, <1>11, <1>13, <2>1
  <2>3. OnePlaceEach(P, O, U, X, R \ {c}, N, G, n)
    BY <1>2, <2>2, PlacesStored
  <2>. QED  BY <2>1, <2>3
<1>14. OnePlaceEach(ChunksOf(pending_frame_list), ChunksOf(m_output_queue), ChunksOf(uplink),
                    ChunksOf(crossing), ChunksOf(toReceiver), Marked, Behind, Cut)'
  <2>1. /\ ChunksOf(pending_frame_list)' = P /\ ChunksOf(m_output_queue)' = O
        /\ ChunksOf(uplink)' = U /\ ChunksOf(crossing)' = X
        /\ ChunksOf(toReceiver)' = R \ {frame.data}
    BY <1>1, <1>4, <1>5 DEF AreThePlaces, ChunksOf
  <2>. QED  BY <1>8, <1>9, <1>10, <1>12, <2>1
<1>. QED  BY <1>7, <1>8, <1>11, <1>13, <1>14 DEF OnceInv

\* A new print ends in the chunk of the slot it starts from, which nothing behind has.
LEMMA PrintIsNew ==
  ASSUME OnceInv, NEW c, c \notin Behind, c # NoChunk,
         NEW text \in Seq(Chunks \cup {NoChunk}), text[Len(text)] = c,
         printed' = Append(printed, text),
         Len(text) <= SeqMod - RWS + 1 => \A k \in DOMAIN text : text[k] \in Left \cup {c}
  PROVE  /\ printed' \in Seq(Seq(Chunks \cup {NoChunk})) /\ PrintsEndInSomethingNew'
         /\ Ends' \subseteq Ends \cup {c} /\ Heads' \subseteq Heads \cup Left \cup {c}
<1>1. printed \in Seq(Seq(Chunks \cup {NoChunk})) /\ PrintsEndInSomethingNew
  BY DEF OnceInv, SlotTypes
<1>2. PICK last : last = Len(printed) + 1
  OBVIOUS
<1>3. /\ printed' \in Seq(Seq(Chunks \cup {NoChunk}))
      /\ Len(printed) \in Nat /\ DOMAIN printed = 1..Len(printed)
      /\ DOMAIN printed' = 1..(Len(printed) + 1)
      /\ \A p \in 1..Len(printed) : printed'[p] = printed[p]
      /\ printed'[Len(printed) + 1] = text
  BY <1>1, AppendProperties, LenProperties
<1>4. /\ \A p \in DOMAIN printed' : \/ p = last
                                    \/ p \in DOMAIN printed /\ printed'[p] = printed[p]
      /\ last \in DOMAIN printed' /\ printed'[last] = text
  BY <1>2, <1>3
<1>5. \A p, q \in DOMAIN printed' : p < q => p \in DOMAIN printed /\ (q = last \/ q \in DOMAIN printed)
  BY <1>2, <1>3
<1>6. /\ \A p \in DOMAIN printed : LastPrinted(p)' = LastPrinted(p)
      /\ \A p \in DOMAIN printed : StaysBehind(p)' <=> StaysBehind(p)
      /\ \A p \in DOMAIN printed : AllOf(p)' = AllOf(p)
      /\ LastPrinted(last)' = c /\ StaysBehind(last)' <=> Len(text) <= SeqMod - RWS + 1
      /\ AllOf(last)' = {text[k] : k \in DOMAIN text}
  <2>1. \A p \in DOMAIN printed : printed'[p] = printed[p]
    BY <1>3
  <2>. QED  BY <1>4, <2>1 DEF LastPrinted, StaysBehind, AllOf
<1>7. PrintsEndInSomethingNew'
  <2>. SUFFICES ASSUME NEW p \in DOMAIN printed', NEW q \in DOMAIN printed', p < q
                PROVE  /\ LastPrinted(q)' # LastPrinted(p)'
                       /\ StaysBehind(p)' => \A k \in DOMAIN printed'[p] :
                                               LastPrinted(q)' # printed'[p][k]
    BY DEF PrintsEndInSomethingNew
  <2>1. p \in DOMAIN printed /\ (q = last \/ q \in DOMAIN printed) /\ printed'[p] = printed[p]
    BY <1>3, <1>5
  <2>2. CASE q \in DOMAIN printed
    BY <1>1, <1>6, <2>1, <2>2 DEF PrintsEndInSomethingNew
  <2>3. CASE q = last
    <3>1. LastPrinted(p) # c
      BY <2>1 DEF Behind, Ends
    <3>2. StaysBehind(p) => c \notin AllOf(p)
      BY <2>1 DEF Behind, Heads
    <3>3. LastPrinted(q)' = c
      BY <1>4, <2>3 DEF LastPrinted
    <3>4. StaysBehind(p)' => c \notin {printed[p][k] : k \in DOMAIN printed[p]}
      BY <2>1, <3>2 DEF StaysBehind, AllOf
    <3>. QED  BY <2>1, <3>1, <3>3, <3>4 DEF LastPrinted
  <2>. QED  BY <2>1, <2>2, <2>3
<1>8. Ends' \subseteq Ends \cup {c}
  <2>1. ASSUME NEW p \in DOMAIN printed'
        PROVE  printed'[p][Len(printed'[p])] \in Ends \cup {c}
    <3>1. CASE p = last
      BY <1>4, <3>1
    <3>2. CASE p \in DOMAIN printed /\ printed'[p] = printed[p]
      BY <3>2 DEF Ends, LastPrinted
    <3>. QED  BY <1>4, <3>1, <3>2
  <2>. QED  BY <2>1 DEF Ends, LastPrinted
<1>9. Heads' \subseteq Heads \cup Left \cup {c}
  <2>. SUFFICES ASSUME NEW p \in DOMAIN printed', StaysBehind(p)'
                PROVE  AllOf(p)' \subseteq Heads \cup Left \cup {c}
    BY DEF Heads
  <2>1. CASE p \in DOMAIN printed
    BY <1>6, <2>1 DEF Heads
  <2>2. CASE p = last
    BY <1>4, <2>2 DEF StaysBehind, AllOf
  <2>. QED  BY <1>4, <2>1, <2>2
<1>. QED  BY <1>3, <1>7, <1>8, <1>9

\* The frame at NFE leaves its slot for good, and ends a message at most.
LEMMA OnceDelivers ==
  ASSUME OnceInv, WTypes', Unaffected(DeliverFrame)
  PROVE  OnceInv'
<1>1. PICK P, O, U, X, R, M, F, n : AreThePlaces(P, O, U, X, R, M, F) /\ n = Cut
  BY DEF AreThePlaces
<1>2. OnePlaceEach(P, O, U, X, R, M, F, n) /\ n \in Nat
  BY <1>1, CutType DEF OnceInv, AreThePlaces
<1>3. PICK c, text : c = receiver_queue[NFE].data /\ text = MessageEndingAt(NFE)
  OBVIOUS
<1>4. /\ NFE \in recv_marked /\ recv_marked' = recv_marked \ {NFE} /\ NFE' = Inc(NFE)
      /\ printed' = Append(printed, text) \/ printed' = printed
      /\ UNCHANGED <<userVars, pending_frame_list, m_output_queue, uplink, crossing,
                     toReceiver, receiver_queue>>
  BY <1>3 DEF Unaffected, DeliverFrame, Delivering, networkVars, crossingVars, blockVars,
              frameLinks
<1>5. OnceInQueues'
  BY <1>4, OnceTypes DEF OnceInQueues, Apart
<1>6. UserQueueInOrder' /\ n = Cut'
  BY <1>1, <1>4, OnceTypes DEF UserQueueInOrder, Cut, userVars
<1>7. PICK N, G : N = Marked' /\ G = Behind'
  OBVIOUS
<1>8. c \in M /\ N \subseteq M \ {c} /\ OnceInSlots'
  <2>1. \A i, j \in recv_marked : i # j => receiver_queue[i].data # receiver_queue[j].data
    BY DEF OnceInv, OnceInSlots
  <2>2. c \in M
    BY <1>1, <1>3, <1>4 DEF AreThePlaces, Marked
  <2>3. OnceInSlots'
    BY <1>4, <2>1 DEF OnceInSlots
  <2>4. N \subseteq M \ {c}
    <3>1. N = {receiver_queue[i].data : i \in recv_marked \ {NFE}}
      BY <1>4, <1>7 DEF Marked
    <3>2. \A i \in recv_marked \ {NFE} : receiver_queue[i].data \in M \ {c}
      BY <1>1, <1>3, <1>4, <2>1 DEF AreThePlaces, Marked
    <3>. QED  BY <3>1, <3>2
  <2>. QED  BY <2>2, <2>3, <2>4
<1>9. c \notin F /\ c # NoChunk
  <2>1. c \notin F /\ c.message \in 1..n
    BY <1>2, <1>8 DEF OnePlaceEach
  <2>2. NoChunk.message = 0
    BY DEF NoChunk
  <2>3. 0 \notin 1..n
    BY <1>2
  <2>. QED  BY <2>1, <2>2, <2>3
<1>10. /\ receiver_queue \in [SeqNums -> Frames \cup {NoFrame}]
       /\ printed \in Seq(Seq(Chunks \cup {NoChunk})) /\ NFE \in SeqNums
       /\ recv_marked \subseteq SeqNums
  BY OnceTypes DEF SlotTypes
<1>11. /\ text \in Seq(Chunks \cup {NoChunk}) /\ text[Len(text)] = c
       /\ Len(text) <= SeqMod - RWS + 1 => \A k \in DOMAIN text : text[k] \in Left \cup {c}
  <2>1. MarkedAhead
    BY DEF OnceInv
  <2>. QED  BY <1>3, <1>10, <2>1, PrintedLast, WalkStaysBehind
<1>12. /\ printed' \in Seq(Seq(Chunks \cup {NoChunk})) /\ PrintsEndInSomethingNew'
       /\ Ends' \subseteq Ends \cup {c} /\ Heads' \subseteq Heads \cup Left \cup {c}
  <2>1. CASE printed' = printed
    <3>1. Ends' = Ends /\ Heads' = Heads
      BY <2>1 DEF Ends, LastPrinted, Heads, StaysBehind, AllOf
    <3>2. PrintsEndInSomethingNew'
      BY <2>1 DEF OnceInv, PrintsEndInSomethingNew, LastPrinted, StaysBehind
    <3>. QED  BY <1>10, <2>1, <3>1, <3>2
  <2>2. CASE printed' = Append(printed, text)
    <3>1. c \notin Behind
      BY <1>1, <1>9 DEF AreThePlaces
    <3>. QED  BY <1>9, <1>11, <2>2, <3>1, PrintIsNew
  <2>. QED  BY <1>4, <2>1, <2>2
<1>13. G \subseteq F \cup {c}
  <2>1. Left' \subseteq Left \cup {c}
    <3>1. \A s \in SeqNums \ recv_marked' : s = NFE \/ s \in SeqNums \ recv_marked
      BY <1>4
    <3>. QED  BY <1>3, <1>4, <3>1 DEF Left
  <2>. QED  BY <1>1, <1>7, <1>12, <2>1 DEF AreThePlaces, Behind
<1>14. MarkedAhead'
  <2>. SUFFICES ASSUME NEW s \in recv_marked, s # NFE PROVE Ahead(s)'
    BY <1>4 DEF MarkedAhead
  <2>1. Ahead(s) /\ s \in SeqNums
    BY <1>10 DEF OnceInv, MarkedAhead
  <2>. QED  BY <1>4, <1>10, <2>1, AheadOfNext
<1>15. OnePlaceEach(P, O, U, X, R, N, G, n)
  BY <1>2, <1>8, <1>13, PlacesStored
<1>16. SlotTypes'
  BY <1>4, <1>10, <1>12 DEF SlotTypes
<1>17. OnePlaceEach(ChunksOf(pending_frame_list), ChunksOf(m_output_queue), ChunksOf(uplink),
                    ChunksOf(crossing), ChunksOf(toReceiver), Marked, Behind, Cut)'
  <2>1. /\ ChunksOf(pending_frame_list)' = P /\ ChunksOf(m_output_queue)' = O
        /\ ChunksOf(uplink)' = U /\ ChunksOf(crossing)' = X /\ ChunksOf(toReceiver)' = R
    BY <1>1, <1>4 DEF AreThePlaces, ChunksOf
  <2>. QED  BY <1>6, <1>7, <1>15, <2>1
<1>. QED  BY <1>5, <1>6, <1>8, <1>12, <1>14, <1>16, <1>17 DEF OnceInv

\* What touches no frame on its way to the receiver.
LEMMA OnceBystanders ==
  ASSUME \/ ChangeMembership \/ WSetRoute \/ ReturnAS4 \/ ReturnAS1
         \/ WHandleAck \/ AckWithoutBlock \/ WAdvanceLAR
         \/ Unaffected(EndIncoming) \/ Unaffected(EndInput) \/ Unaffected(EndPending)
         \/ Unaffected(SendAcks) \/ UNCHANGED allVars
  PROVE  UNCHANGED onceVars
<1>. USE DEF onceVars, vars, networkVars, crossingVars, hostVars, blockVars, frameLinks,
             receiverVars, userVars
<1>1. CASE ChangeMembership \/ WSetRoute \/ UNCHANGED allVars
  BY <1>1 DEF ChangeMembership, WSetRoute, allVars
<1>2. CASE ReturnAS4 \/ ReturnAS1
  BY <1>2 DEF ReturnAS4, ReturnAS1
<1>3. CASE WHandleAck \/ AckWithoutBlock \/ WAdvanceLAR
  BY <1>3 DEF WHandleAck, HandleAck, AckWithoutBlock, WAdvanceLAR, AdvanceLAR
<1>4. CASE Unaffected(EndIncoming) \/ Unaffected(EndInput) \/ Unaffected(EndPending)
  BY <1>4 DEF Unaffected, EndIncoming, EndInput, EndPending, SenderGoesTo
<1>5. CASE Unaffected(SendAcks)
  BY <1>5 DEF Unaffected, SendAcks
<1>. QED  BY <1>1, <1>2, <1>3, <1>4, <1>5

LEMMA OnceNext == OnceInv /\ [WNext]_allVars => OnceInv'
<1>. SUFFICES ASSUME OnceInv, [WNext]_allVars PROVE OnceInv'
  OBVIOUS
<1>1. WTypes'
  BY WTypesNext DEF OnceInv
<1>2. CASE Unaffected(HandleUserInput)
  BY <1>1, <1>2, OnceUserInput DEF Unaffected
<1>3. CASE Unaffected(SendPendingFrame) \/ Unaffected(SendMessageToRouter) \/ HandleIcmpMessage
  BY <1>1, <1>3, OnceSends DEF Unaffected
<1>4. CASE BorderAS1 \/ BorderAS4
  BY <1>1, <1>4, OnceBorders
<1>5. CASE WHandlePacket
  BY <1>1, <1>5, OnceTakesIn
<1>6. CASE Unaffected(DeliverFrame)
  BY <1>1, <1>6, OnceDelivers
<1>7. ASSUME NEW length \in Lengths, WUserTypes(length) PROVE OnceInv'
  BY <1>1, <1>7, OnceUserTypes
<1>8. CASE UNCHANGED onceVars
  BY <1>1, <1>8, OnceUntouched
<1>. QED  BY <1>2, <1>3, <1>4, <1>5, <1>6, <1>7, <1>8, OnceBystanders
     DEF WNext, MainThread, WSenderThread, WReceiverThread

\* handlePacket and printOutMessage: although blocks are erased with their numbers and new
\* ones begin at zero again, a frame that ended a print, or stood in one that did not reach
\* into the window, never ends another, for every window, every length and any number of
\* withdrawals.
THEOREM PrintsEndNew == WSpec => []PrintsEndInSomethingNew
<1>1. OnceInv => PrintsEndInSomethingNew
  BY DEF OnceInv
<1>. QED  BY <1>1, OnceInit, OnceNext, PTL DEF WSpec

-----------------------------------------------------------------------------
(* Empty slots.  In its first lap the receiver's slots are stored in from  *)
(* 0 on, and slot 0 has the start of a message, because until a frame 0 is *)
(* received no ack 0 exists: every block is still at its first window, and *)
(* every frame 0 under way is the first of a block.                        *)

\* A frame 0 that starts no message, and the ack of a frame 0.
Stray == {f \in Frames : f.seq_ack_num = 0 /\ ~f.start_of_message} \cup {[seq_ack_num |-> 0]}
Clean(queue) == \A i \in DOMAIN queue : queue[i] \notin Stray

\* Nothing under way, in either direction, is of these.
CleanLinks ==
  /\ Clean(m_output_queue) /\ Clean(uplink) /\ Clean(crossing) /\ Clean(toReceiver)
  /\ Clean(ack_output_queue) /\ Clean(ackUplink) /\ Clean(ackCrossing) /\ Clean(toSender)

\* A block whose LAR has not moved: what is pending is numbered on from LFS, and what
\* will get the number 0 first is the first frame of the first message.
BlockAtStart ==
  /\ LAR = SeqMod - 1 /\ 0 \notin ack_marked
  /\ LFS = SeqMod - 1 \/ LFS < SWS
  /\ \A i \in DOMAIN pending_frame_list : pending_frame_list[i].seq_ack_num = (LFS + i) % SeqMod
  /\ SEQ = (LFS + 1 + Len(pending_frame_list)) % SeqMod
  /\ LFS = SeqMod - 1 /\ pending_frame_list # <<>> => Head(pending_frame_list).start_of_message

\* Every slot NFE has moved past, or that is marked, has a frame; slot 0 keeps the start
\* of a message until the window wraps.
FirstLap ==
  /\ accepted \in Nat /\ NFE = accepted % SeqMod
  /\ \A s \in SeqNums : s < accepted \/ s \in recv_marked => receiver_queue[s].data \in Chunks
  /\ accepted + RWS <= SeqMod /\ (accepted > 0 \/ 0 \in recv_marked)
     => receiver_queue[0].start_of_message

NoZeroYet == accepted = 0 /\ 0 \notin recv_marked
LapInv == FirstLap /\ (NoZeroYet => BlockAtStart /\ CleanLinks)

LEMMA CleanTakeFirst ==
  ASSUME NEW S, NEW queue \in Seq(S), queue # <<>>, Clean(queue)
  PROVE  Head(queue) \notin Stray /\ Clean(Tail(queue))
<1>1. /\ 1 \in DOMAIN queue /\ Head(queue) = queue[1]
      /\ \A i \in DOMAIN Tail(queue) : Tail(queue)[i] = queue[i + 1] /\ i + 1 \in DOMAIN queue
  OBVIOUS
<1>. QED  BY <1>1 DEF Clean

LEMMA CleanAddLast ==
  ASSUME NEW S, NEW queue \in Seq(S), NEW elem \in S, Clean(queue), elem \notin Stray
  PROVE  Clean(Append(queue, elem))
<1>1. \A i \in DOMAIN Append(queue, elem) :
        \/ Append(queue, elem)[i] = elem
        \/ i \in DOMAIN queue /\ Append(queue, elem)[i] = queue[i]
  OBVIOUS
<1>. QED  BY <1>1 DEF Clean

LEMMA CleanBehind ==
  ASSUME NEW S, NEW queue \in Seq(S), NEW rest \in Seq(S), Clean(queue), Clean(rest)
  PROVE  Clean(queue \o rest)
<1>. DEFINE both == queue \o rest
<1>1. /\ Len(queue) \in Nat /\ Len(rest) \in Nat
      /\ DOMAIN queue = 1..Len(queue) /\ DOMAIN rest = 1..Len(rest)
      /\ DOMAIN both = 1..(Len(queue) + Len(rest))
      /\ \A i \in 1..(Len(queue) + Len(rest)) :
           both[i] = IF i <= Len(queue) THEN queue[i] ELSE rest[i - Len(queue)]
  BY ConcatProperties
<1>2. \A i \in DOMAIN both :
        \/ i \in DOMAIN queue /\ both[i] = queue[i]
        \/ i - Len(queue) \in DOMAIN rest /\ both[i] = rest[i - Len(queue)]
  BY <1>1
<1>. HIDE DEF both
<1>. QED  BY <1>2 DEF Clean, both

LEMMA CleanEmpty == Clean(<<>>)
<1>1. \A i \in DOMAIN <<>> : FALSE
  BY SMT
<1>. QED  BY <1>1 DEF Clean

\* An ICMP message is no ack of a frame, and a frame no ack.
LEMMA NotStray ==
  /\ Unreachable \notin Stray
  /\ \A f \in Frames : f \in Stray <=> f.seq_ack_num = 0 /\ ~f.start_of_message
  /\ \A a \in Acks : a \in Stray <=> a.seq_ack_num = 0
<1>1. Unreachable \notin Frames /\ Unreachable # [seq_ack_num |-> 0]
  <2>1. "seq_ack_num" \notin DOMAIN Unreachable
    BY DEF Unreachable
  <2>2. \A f \in Frames : "seq_ack_num" \in DOMAIN f
    BY DEF Frames
  <2>3. "seq_ack_num" \in DOMAIN [seq_ack_num |-> 0]
    OBVIOUS
  <2>. QED  BY <2>1, <2>2, <2>3
<1>2. \A f \in Frames : f # [seq_ack_num |-> 0]
  <2>1. "data" \notin DOMAIN [seq_ack_num |-> 0]
    OBVIOUS
  <2>2. \A f \in Frames : "data" \in DOMAIN f
    BY DEF Frames
  <2>. QED  BY <2>1, <2>2
<1>3. ASSUME NEW a \in Acks PROVE a \notin Frames /\ (a = [seq_ack_num |-> 0] <=> a.seq_ack_num = 0)
  <2>1. "data" \notin DOMAIN a
    BY DEF Acks
  <2>2. \A f \in Frames : "data" \in DOMAIN f
    BY DEF Frames
  <2>3. a = [seq_ack_num |-> a.seq_ack_num]
    BY DEF Acks
  <2>. QED  BY <2>1, <2>2, <2>3
<1>. QED  BY <1>1, <1>2, <1>3 DEF Stray

-----------------------------------------------------------------------------
(* The walk of printOutMessage.                                            *)

\* Everything in front of an empty slot on the way back starts no message.
LEMMA EmptySlotMet ==
  ASSUME NEW index \in SeqNums, NEW k \in DOMAIN MessageEndingAt(index),
         MessageEndingAt(index)[k] = NoChunk
  PROVE  \E d \in SeqNums :
           /\ receiver_queue[(index + SeqMod - d) % SeqMod].data = NoChunk
           /\ \A e \in SeqNums :
                e < d => ~receiver_queue[(index + SeqMod - e) % SeqMod].start_of_message
<1> DEFINE Back(d) == receiver_queue[(index + SeqMod - d) % SeqMod]
           walked  == {d \in SeqNums : \A e \in SeqNums : e < d => ~Back(e).start_of_message}
           len     == Cardinality(walked)
<1>1. len \in Nat /\ len <= SeqMod
  <2>1. IsFiniteSet(SeqNums) /\ Cardinality(SeqNums) = SeqMod
    BY FS_Interval, SeqModAssumption, SMT DEF SeqNums
  <2>2. walked \subseteq SeqNums
    OBVIOUS
  <2> HIDE DEF walked
  <2>3. Cardinality(walked) <= Cardinality(SeqNums) /\ IsFiniteSet(walked)
    BY <2>1, <2>2, FS_Subset
  <2> QED
    BY <2>1, <2>3, FS_CardinalityType
<1>2. MessageEndingAt(index) = [j \in 1..len |-> Back(len - j).data]
  BY DEF MessageEndingAt
<1>3. ASSUME NEW e \in SeqNums, Back(e).start_of_message
      PROVE  len <= e + 1
  <2>1. walked \subseteq 0..e
    BY <1>3, SeqModAssumption DEF SeqNums
  <2>2. IsFiniteSet(0..e) /\ Cardinality(0..e) = e + 1
    BY FS_Interval, SeqModAssumption, SMT DEF SeqNums
  <2> HIDE DEF walked
  <2>. QED  BY <2>1, <2>2, FS_Subset
<1>. HIDE DEF len, Back
<1>4. k \in 1..len /\ Back(len - k).data = NoChunk
  BY <1>2
<1>5. PICK d : d = len - k
  OBVIOUS
<1>6. d \in SeqNums /\ d < len
  BY <1>1, <1>4, <1>5, SeqModAssumption DEF SeqNums
<1>7. ASSUME NEW e \in SeqNums, e < d PROVE ~Back(e).start_of_message
  BY <1>1, <1>3, <1>6, <1>7, SeqModAssumption DEF SeqNums
<1>. QED  BY <1>4, <1>5, <1>6, <1>7 DEF Back

\* What DeliverFrame may print of slots that nothing was stored in.
LEMMA DeliversEmpty ==
  ASSUME WTypes, SlotTypes, FirstLap, Delivering, NEW k \in DOMAIN MessageEndingAt(NFE),
         MessageEndingAt(NFE)[k] = NoChunk
  PROVE  /\ SeqMod < accepted + RWS /\ accepted + 1 < SeqMod
         /\ ~receiver_queue[0].start_of_message
<1>1. /\ NFE \in SeqNums /\ NFE \in recv_marked /\ accepted \in Nat /\ NFE = accepted % SeqMod
      /\ RWS \in Nat /\ RWS < SeqMod /\ SeqMod \in Nat /\ SeqMod > 1
  BY SeqModAssumption, WindowAssumption DEF WTypes, ReceiverTypes, FirstLap, Delivering
<1>2. \A s \in SeqNums : s < accepted \/ s \in recv_marked => receiver_queue[s].data # NoChunk
  <2>1. \A c \in Chunks : c # NoChunk
    BY DEF Chunks, NoChunk
  <2>. QED  BY <2>1 DEF FirstLap
<1>3. PICK d \in SeqNums :
        /\ receiver_queue[(NFE + SeqMod - d) % SeqMod].data = NoChunk
        /\ \A e \in SeqNums :
             e < d => ~receiver_queue[(NFE + SeqMod - e) % SeqMod].start_of_message
  BY <1>1, EmptySlotMet
<1>4. PICK s : s = (NFE + SeqMod - d) % SeqMod
  OBVIOUS
<1>5. s \in SeqNums /\ s = IF d <= NFE THEN NFE - d ELSE NFE + SeqMod - d
  <2>1. NFE + SeqMod - d \in Nat
    BY <1>1 DEF SeqNums
  <2>2. s \in SeqNums
    BY <1>4, <2>1, ModType
  <2>3. CASE d <= NFE
    <3>1. PICK x \in 0..(SeqMod - 1) : x = NFE - d
      BY <1>1, <2>3 DEF SeqNums
    <3>2. NFE + SeqMod - d = x + SeqMod
      BY <1>1, <3>1 DEF SeqNums
    <3>3. (x + SeqMod) % SeqMod = x
      BY <1>1, <3>1
    <3>. QED  BY <1>4, <2>2, <2>3, <3>1, <3>2, <3>3
  <2>4. CASE ~(d <= NFE)
    <3>1. NFE + SeqMod - d \in 0..(SeqMod - 1)
      BY <1>1, <2>4 DEF SeqNums
    <3>. QED  BY <1>1, <1>4, <2>2, <2>4, <3>1
  <2>. QED  BY <2>3, <2>4
<1>6. ~(s < accepted) /\ s # NFE
  BY <1>1, <1>2, <1>3, <1>4, <1>5
<1>7. accepted < SeqMod
  BY <1>1, <1>5, <1>6 DEF SeqNums
<1>8. NFE = accepted
  BY <1>1, <1>7
<1>9. NFE < d
  BY <1>1, <1>5, <1>6, <1>8 DEF SeqNums
<1>10. ~receiver_queue[0].start_of_message
  <2>1. (NFE + SeqMod - NFE) % SeqMod = 0
    BY <1>1 DEF SeqNums
  <2>. QED  BY <1>1, <1>3, <1>9, <2>1
<1>11. accepted + 1 < SeqMod
  BY <1>1, <1>8, <1>9 DEF SeqNums
<1>12. ~(accepted + RWS <= SeqMod)
  <2>1. accepted > 0 \/ 0 \in recv_marked
    BY <1>1, <1>8
  <2>. QED  BY <1>10, <2>1 DEF FirstLap
<1>. QED  BY <1>1, <1>10, <1>11, <1>12

-----------------------------------------------------------------------------
(* The steps of the sender and of the borders, as long as no frame 0 has   *)
(* reached the receiver.                                                   *)

\* What BlockAtStart is about, but for the marks.
pendingVars == <<LAR, LFS, SEQ, pending_frame_list>>

LEMMA ModSmall == \A x \in 0..(SeqMod - 1) : x % SeqMod = x
BY SeqModAssumption

LEMMA BlockFacts ==
  ASSUME WTypes, BlockAtStart
  PROVE  /\ SeqMod \in Nat /\ SeqMod > 1 /\ SWS \in 1..(SeqMod - 1) /\ LFS \in 0..(SeqMod - 1)
         /\ pending_frame_list \in Seq(Frames) /\ Len(pending_frame_list) \in Nat
         /\ DOMAIN pending_frame_list = 1..Len(pending_frame_list)
         /\ Inc(LAR) = 0
<1>1. /\ SeqMod \in Nat /\ SeqMod > 1 /\ SWS \in 1..(SeqMod - 1)
  BY SeqModAssumption, WindowAssumption
<1>2. Inc(LAR) = 0
  <2>1. LAR + 1 = SeqMod /\ SeqMod % SeqMod = 0
    BY <1>1 DEF BlockAtStart
  <2>. QED  BY <2>1 DEF Inc
<1>. QED  BY <1>1, <1>2, LenProperties DEF WTypes, SenderTypes, SeqNums

\* No ack 0 among what has come, so LAR stays where it is.
LEMMA IncomingAtStart ==
  ASSUME WTypes, BlockAtStart, CleanLinks, WHandleAck \/ WAdvanceLAR
  PROVE  BlockAtStart' /\ CleanLinks'
<1>1. ~AdvancingLAR
  BY BlockFacts DEF AdvancingLAR, BlockAtStart
<1>2. WHandleAck
  BY <1>1 DEF WAdvanceLAR, AdvanceLAR
<1>3. /\ toSender # <<>> /\ toSender' = Tail(toSender)
      /\ ack_marked' \subseteq ack_marked \cup {Head(toSender).seq_ack_num}
      /\ UNCHANGED pendingVars
      /\ UNCHANGED <<m_output_queue, uplink, crossing, toReceiver, ack_output_queue, ackUplink,
                     ackCrossing>>
  BY <1>2 DEF WHandleAck, HandleAck, pendingVars, frameLinks, receiverVars, networkVars,
              crossingVars
<1>4. toSender \in Seq(Answers) /\ Clean(toSender)
  BY DEF WTypes, LinkTypes, CleanLinks
<1>5. Head(toSender) \in Answers /\ Head(toSender) \notin Stray /\ Clean(toSender')
  BY <1>3, <1>4, CleanTakeFirst
<1>6. Head(toSender).seq_ack_num # 0
  <2>1. Head(toSender) \in Acks
    BY <1>2, <1>5, AckOrIcmp DEF WHandleAck
  <2>. QED  BY <1>5, <2>1, NotStray
<1>7. BlockAtStart'
  BY <1>3, <1>6 DEF BlockAtStart, pendingVars
<1>. QED  BY <1>3, <1>5, <1>7 DEF CleanLinks

\* An erased block makes place for one that is at its start.
LEMMA ErasedAtStart ==
  ASSUME WTypes, BlockAtStart, CleanLinks, HandleIcmpMessage
  PROVE  BlockAtStart' /\ CleanLinks'
<1>1. /\ toSender # <<>> /\ toSender' = Tail(toSender)
      /\ LAR' = SeqMod - 1 /\ LFS' = SeqMod - 1 /\ SEQ' = 0 /\ pending_frame_list' = <<>>
      /\ ack_marked' = {}
      /\ UNCHANGED <<m_output_queue, uplink, crossing, toReceiver, ack_output_queue, ackUplink,
                     ackCrossing>>
  BY DEF HandleIcmpMessage, Incoming, frameLinks, receiverVars, crossingVars
<1>2. Clean(toSender')
  <2>1. toSender \in Seq(Answers) /\ Clean(toSender)
    BY DEF WTypes, LinkTypes, CleanLinks
  <2>. QED  BY <1>1, <2>1, CleanTakeFirst
<1>3. Len(<<>>) = 0 /\ DOMAIN <<>> = {}
  OBVIOUS
<1>4. (SeqMod - 1 + 1 + 0) % SeqMod = 0
  BY SeqModAssumption
<1>5. BlockAtStart'
  BY <1>1, <1>3, <1>4 DEF BlockAtStart
<1>. QED  BY <1>1, <1>2, <1>5 DEF CleanLinks

\* The first frame of the first message gets the number 0 and starts that message.
LEMMA InputAtStart ==
  ASSUME WTypes, BlockAtStart, CleanLinks, HandleUserInput, UNCHANGED networkVars
  PROVE  BlockAtStart' /\ CleanLinks'
<1>p1. PICK message, frames, n, c, list :
         /\ message = Head(m_user_input_queue) /\ frames = FramesOf(message)
         /\ n = Len(pending_frame_list) /\ c = NumOfChunks(message.length)
         /\ list = pending_frame_list
  OBVIOUS
<1>1. /\ m_user_input_queue # <<>> /\ pending_frame_list' = list \o frames
      /\ SEQ' = (SEQ + c) % SeqMod
      /\ UNCHANGED <<LAR, LFS, ack_marked>>
      /\ UNCHANGED <<m_output_queue, uplink, crossing, toReceiver, ack_output_queue, ackUplink,
                     ackCrossing, toSender>>
  BY <1>p1 DEF HandleUserInput, frameLinks, receiverVars, ackLinks, networkVars, crossingVars
<1>2. /\ SeqMod \in Nat /\ SeqMod > 1 /\ LFS \in 0..(SeqMod - 1) /\ SEQ \in SeqNums
      /\ list \in Seq(Frames) /\ n \in Nat /\ n = Len(list) /\ DOMAIN list = 1..n
      /\ SEQ = (LFS + 1 + n) % SeqMod
      /\ \A i \in 1..n : list[i].seq_ack_num = (LFS + i) % SeqMod
  BY <1>p1, BlockFacts DEF BlockAtStart, WTypes, SenderTypes
<1>3. /\ frames \in Seq(Frames) /\ Len(frames) = c /\ c \in Nat \ {0} /\ DOMAIN frames = 1..c
      /\ \A i \in 1..c : frames[i].seq_ack_num = (SEQ + i - 1) % SeqMod
      /\ frames[1].start_of_message
  <2>1. message \in Messages
    BY <1>p1, <1>1, HeadTailProperties DEF WTypes, UserTypesOK
  <2>2. frames \in Seq(Frames) /\ Len(frames) = c /\ c \in Nat \ {0} /\ Len(Split(message)) = c
    BY <1>p1, <1>2, <2>1, FramesOfType, SplitType
  <2>3. DOMAIN frames = 1..c
    BY <2>2, LenProperties
  <2>4. frames = [i \in 1..c |->
                    [data |-> Split(message)[i], seq_ack_num |-> (SEQ + i - 1) % SeqMod,
                     start_of_message |-> i = 1, end_of_message |-> i = c]]
    BY <1>p1, <2>2 DEF FramesOf
  <2>5. ASSUME NEW i \in 1..c
        PROVE  frames[i].seq_ack_num = (SEQ + i - 1) % SeqMod /\ frames[i].start_of_message = (i = 1)
    BY <2>4
  <2>6. 1 \in 1..c
    BY <2>2
  <2>7. frames[1].start_of_message = (1 = 1)
    BY <2>5, <2>6
  <2>. QED  BY <2>2, <2>3, <2>5, <2>7
<1>4. /\ pending_frame_list' \in Seq(Frames) /\ Len(pending_frame_list') = n + c
      /\ DOMAIN pending_frame_list' = 1..(n + c)
      /\ \A i \in 1..(n + c) : pending_frame_list'[i] = IF i <= n THEN list[i] ELSE frames[i - n]
  <2>. DEFINE both == list \o frames
  <2>1. list \in Seq(Frames) /\ frames \in Seq(Frames) /\ Len(list) = n /\ Len(frames) = c
    BY <1>2, <1>3
  <2>2. /\ both \in Seq(Frames) /\ Len(both) = n + c
        /\ \A i \in 1..(n + c) : both[i] = IF i <= n THEN list[i] ELSE frames[i - n]
    BY <2>1, ConcatProperties
  <2>3. DOMAIN both = 1..(n + c)
    BY <2>2, LenProperties
  <2>. QED  BY <1>1, <2>2, <2>3
<1>5. /\ SeqMod \in Nat /\ SeqMod > 1 /\ LFS \in 0..(SeqMod - 1) /\ n \in Nat
  BY <1>2
<1>6. c \in Nat \ {0}
  BY <1>3
<1>7. ASSUME NEW i \in 1..(n + c)
      PROVE  pending_frame_list'[i].seq_ack_num = (LFS + i) % SeqMod
  <2>1. CASE i <= n
    <3>1. i \in 1..n
      BY <1>2, <2>1
    <3>. QED  BY <1>2, <1>4, <2>1, <3>1
  <2>2. CASE ~(i <= n)
    <3>1. PICK j : j = i - n
      OBVIOUS
    <3>2. j \in 1..c /\ j - 1 \in Nat /\ LFS + 1 + n \in Nat /\ (LFS + 1 + n) + (j - 1) = LFS + i
      BY ONLY <1>6, <1>5, <2>2, <3>1
    <3>3. pending_frame_list'[i].seq_ack_num = (SEQ + j - 1) % SeqMod
      BY <1>3, <1>4, <2>2, <3>1, <3>2
    <3>4. SEQ + j - 1 = SEQ + (j - 1)
      BY <1>2, <3>2 DEF SeqNums
    <3>5. (((LFS + 1 + n) % SeqMod) + (j - 1)) % SeqMod = ((LFS + 1 + n) + (j - 1)) % SeqMod
      BY <1>2, <3>2, ModAddMod
    <3>6. SEQ + (j - 1) = ((LFS + 1 + n) % SeqMod) + (j - 1)
      <4>1. SEQ = (LFS + 1 + n) % SeqMod
        BY <1>2
      <4>. QED  BY ONLY <4>1, Zenon
    <3>7. (LFS + 1 + n) + (j - 1) = LFS + i
      BY <3>2
    <3>. QED  BY ONLY <3>3, <3>4, <3>5, <3>6, <3>7, Zenon
  <2>. QED  BY <2>1, <2>2
<1>8. SEQ' = (LFS + 1 + (n + c)) % SeqMod
  <2>1. LFS + 1 + n \in Nat /\ c \in Nat /\ LFS + 1 + (n + c) = (LFS + 1 + n) + c
    BY ONLY <1>6, <1>5
  <2>2. (((LFS + 1 + n) % SeqMod) + c) % SeqMod = ((LFS + 1 + n) + c) % SeqMod
    BY <1>2, <2>1, ModAddMod
  <2>3. SEQ = (LFS + 1 + n) % SeqMod /\ SEQ' = (SEQ + c) % SeqMod
    BY <1>1, <1>2
  <2>4. LFS + 1 + (n + c) = (LFS + 1 + n) + c
    BY <2>1
  <2>. QED  BY ONLY <2>2, <2>3, <2>4, Zenon
<1>9. ASSUME LFS = SeqMod - 1 PROVE Head(pending_frame_list').start_of_message
  <2>1. Head(pending_frame_list') = pending_frame_list'[1] /\ 1 \in 1..(n + c)
    BY <1>2, <1>3, <1>4
  <2>2. CASE n = 0
    <3>1. pending_frame_list'[1] = frames[1 - 0]
      BY <1>4, <2>1, <2>2
    <3>. QED  BY <1>3, <2>1, <3>1
  <2>3. CASE n # 0
    <3>1. pending_frame_list'[1] = list[1] /\ list # <<>> /\ Head(list) = list[1]
      BY <1>2, <1>4, <2>1, <2>3
    <3>. QED  BY <1>p1, <1>9, <2>1, <3>1 DEF BlockAtStart
  <2>. QED  BY <2>2, <2>3
<1>10. BlockAtStart'
  BY <1>1, <1>4, <1>7, <1>8, <1>9 DEF BlockAtStart
<1>. QED  BY <1>1, <1>10 DEF CleanLinks

\* The window of a block at its start is 0..(SWS - 1).
LEMMA SendAtStart ==
  ASSUME WTypes, BlockAtStart, CleanLinks, SendPendingFrame, UNCHANGED networkVars
  PROVE  BlockAtStart' /\ CleanLinks'
<1>p1. PICK frame, s, n, list :
         /\ frame = Head(pending_frame_list) /\ s = frame.seq_ack_num
         /\ n = Len(pending_frame_list) /\ list = pending_frame_list
  OBVIOUS
<1>1. /\ list # <<>> /\ InSendWindow(s) /\ pending_frame_list' = Tail(list)
      /\ ack_marked' = ack_marked \ {s} /\ LFS' = s
      /\ m_output_queue' = Append(m_output_queue, frame)
      /\ UNCHANGED <<LAR, SEQ>>
      /\ UNCHANGED <<uplink, crossing, toReceiver, ack_output_queue, ackUplink, ackCrossing,
                     toSender>>
  BY <1>p1 DEF SendPendingFrame, MayLeave, frameLinks, receiverVars, ackLinks, networkVars,
               crossingVars
<1>2. /\ SeqMod \in Nat /\ SeqMod > 1 /\ SWS \in 1..(SeqMod - 1) /\ LFS \in 0..(SeqMod - 1)
      /\ list \in Seq(Frames) /\ n \in Nat /\ n = Len(list) /\ DOMAIN list = 1..n
      /\ SEQ = (LFS + 1 + n) % SeqMod /\ LAR = SeqMod - 1 /\ 0 \notin ack_marked
      /\ \A i \in 1..n : list[i].seq_ack_num = (LFS + i) % SeqMod
  BY <1>p1, BlockFacts DEF BlockAtStart
<1>3. /\ n > 0 /\ frame = list[1] /\ frame \in Frames /\ Tail(list) \in Seq(Frames)
      /\ Len(Tail(list)) = n - 1 /\ DOMAIN Tail(list) = 1..(n - 1)
      /\ \A i \in 1..(n - 1) : Tail(list)[i] = list[i + 1]
  BY <1>p1, <1>1, <1>2
<1>4. s \in 0..(SeqMod - 1) /\ s = (LFS + 1) % SeqMod
  BY <1>p1, <1>2, <1>3 DEF Frames, SeqNums
<1>5. s < SWS
  <2>1. LastOfWindow = SWS - 1
    <3>1. (SeqMod - 1) + SWS = (SWS - 1) + SeqMod /\ SWS - 1 \in Nat
      BY <1>2
    <3>2. ((SWS - 1) + SeqMod) % SeqMod = (SWS - 1) % SeqMod
      BY <3>1, ModTurn
    <3>3. (SWS - 1) % SeqMod = SWS - 1
      <4>1. PICK x \in 0..(SeqMod - 1) : x = SWS - 1
        BY <1>2
      <4>. QED  BY ONLY <4>1, ModSmall, Zenon
    <3>4. LAR + SWS = (SeqMod - 1) + SWS
      BY <1>2
    <3>. QED  BY ONLY <3>1, <3>2, <3>3, <3>4, Zenon DEF LastOfWindow
  <2>. QED  BY <1>1, <1>2, <1>4, <2>1 DEF InSendWindow
<1>6. s = 0 => LFS = SeqMod - 1
  <2>1. CASE LFS + 1 < SeqMod
    <3>1. (LFS + 1) % SeqMod = LFS + 1
      <4>1. PICK x \in 0..(SeqMod - 1) : x = LFS + 1
        BY <1>2, <2>1
      <4>. QED  BY ONLY <4>1, ModSmall, Zenon
    <3>. QED  BY <1>2, <1>4, <3>1
  <2>. QED  BY <1>2, <2>1
<1>7. frame \notin Stray
  <2>1. s = 0 => frame.start_of_message
    BY <1>p1, <1>1, <1>6 DEF BlockAtStart
  <2>. QED  BY <1>p1, <1>3, <2>1, NotStray
<1>8. Clean(m_output_queue')
  <2>1. m_output_queue \in Seq(Frames) /\ Clean(m_output_queue)
    BY DEF WTypes, SenderTypes, CleanLinks
  <2>. QED  BY <1>1, <1>3, <1>7, <2>1, CleanAddLast
<1>9. ASSUME NEW i \in 1..(n - 1)
      PROVE  Tail(list)[i].seq_ack_num = (s + i) % SeqMod
  <2>1. /\ i + 1 \in 1..n /\ i \in Nat /\ LFS + 1 \in Nat /\ LFS + (i + 1) = (LFS + 1) + i
    BY <1>2, <1>3
  <2>2. (((LFS + 1) % SeqMod) + i) % SeqMod = ((LFS + 1) + i) % SeqMod
    BY <1>2, <2>1, ModAddMod
  <2>. QED  BY <1>2, <1>3, <1>4, <2>1, <2>2
<1>10. SEQ = (s + 1 + (n - 1)) % SeqMod
  <2>1. LFS + 1 \in Nat /\ LFS + 1 + n = (LFS + 1) + n /\ s + 1 + (n - 1) = s + n
    BY <1>2, <1>4
  <2>2. (((LFS + 1) % SeqMod) + n) % SeqMod = ((LFS + 1) + n) % SeqMod
    BY <1>2, <2>1, ModAddMod
  <2>. QED  BY <1>2, <1>4, <2>1, <2>2
<1>11. BlockAtStart'
  <2>1. s # SeqMod - 1
    BY <1>2, <1>4, <1>5
  <2>. QED  BY <1>1, <1>2, <1>3, <1>5, <1>9, <1>10, <2>1 DEF BlockAtStart
<1>. QED  BY <1>1, <1>8, <1>11 DEF CleanLinks

\* The rest of the sender's loop, and the borders, hand on what they have.
LEMMA LinksAtStart ==
  ASSUME WTypes, CleanLinks, UNCHANGED <<pendingVars, ack_marked>>,
         \/ SendMessageToRouter /\ UNCHANGED networkVars
         \/ BorderAS1 \/ BorderAS4 \/ ReturnAS4 \/ ReturnAS1
  PROVE  CleanLinks'
<1>1. /\ Clean(m_output_queue) /\ Clean(uplink) /\ Clean(crossing) /\ Clean(toReceiver)
      /\ Clean(ack_output_queue) /\ Clean(ackUplink) /\ Clean(ackCrossing) /\ Clean(toSender)
      /\ m_output_queue \in Seq(Frames) /\ uplink \in Seq(Frames) /\ crossing \in Seq(Frames)
      /\ toReceiver \in Seq(Frames) /\ ackUplink \in Seq(Acks)
      /\ ackCrossing \in Seq(Answers) /\ toSender \in Seq(Answers)
      /\ Unreachable \in Answers /\ Unreachable \notin Stray /\ \A a \in Acks : a \in Answers
  BY NotStray DEF CleanLinks, WTypes, SenderTypes, LinkTypes, Answers
<1>2. \A S : \A queue \in Seq(S) : queue # <<>> => Head(queue) \in S
  OBVIOUS
<1>3. CASE SendMessageToRouter /\ UNCHANGED networkVars
  <2>1. /\ uplink' = uplink \o m_output_queue /\ m_output_queue' = <<>>
        /\ UNCHANGED <<crossing, toReceiver, ack_output_queue, ackUplink, ackCrossing, toSender>>
    BY <1>3 DEF SendMessageToRouter, receiverVars, ackLinks, networkVars, crossingVars
  <2>. QED  BY <1>1, <2>1, CleanBehind, CleanEmpty DEF CleanLinks
<1>4. CASE BorderAS1
  <2>1. /\ uplink # <<>> /\ uplink' = Tail(uplink)
        /\ \/ crossing' = Append(crossing, Head(uplink)) /\ toSender' = toSender
           \/ toSender' = Append(toSender, Unreachable) /\ crossing' = crossing
        /\ UNCHANGED <<m_output_queue, toReceiver, ack_output_queue, ackUplink, ackCrossing>>
    BY <1>4 DEF BorderAS1, hostVars, receiverVars
  <2>2. Head(uplink) \in Frames /\ Head(uplink) \notin Stray /\ Clean(uplink')
    BY <1>1, <1>2, <2>1, CleanTakeFirst
  <2>3. Clean(Append(crossing, Head(uplink))) /\ Clean(Append(toSender, Unreachable))
    BY <1>1, <2>2, CleanAddLast
  <2>. QED  BY <1>1, <2>1, <2>2, <2>3 DEF CleanLinks
<1>5. CASE BorderAS4
  <2>1. /\ crossing # <<>> /\ crossing' = Tail(crossing)
        /\ \/ toReceiver' = Append(toReceiver, Head(crossing)) /\ ackCrossing' = ackCrossing
           \/ ackCrossing' = Append(ackCrossing, Unreachable) /\ toReceiver' = toReceiver
        /\ UNCHANGED <<m_output_queue, uplink, ack_output_queue, ackUplink, toSender>>
    BY <1>5 DEF BorderAS4, hostVars, receiverVars, ackLinks
  <2>2. Head(crossing) \in Frames /\ Head(crossing) \notin Stray /\ Clean(crossing')
    BY <1>1, <1>2, <2>1, CleanTakeFirst
  <2>3. Clean(Append(toReceiver, Head(crossing))) /\ Clean(Append(ackCrossing, Unreachable))
    BY <1>1, <2>2, CleanAddLast
  <2>. QED  BY <1>1, <2>1, <2>2, <2>3 DEF CleanLinks
<1>6. CASE ReturnAS4
  <2>1. /\ ackUplink # <<>> /\ ackUplink' = Tail(ackUplink)
        /\ ackCrossing' = Append(ackCrossing, Head(ackUplink))
        /\ UNCHANGED <<m_output_queue, uplink, crossing, toReceiver, ack_output_queue, toSender>>
    BY <1>6 DEF ReturnAS4, hostVars, receiverVars, frameLinks
  <2>2. Head(ackUplink) \in Answers /\ Head(ackUplink) \notin Stray /\ Clean(ackUplink')
    BY <1>1, <1>2, <2>1, CleanTakeFirst
  <2>3. Clean(Append(ackCrossing, Head(ackUplink)))
    BY <1>1, <2>2, CleanAddLast
  <2>. QED  BY <1>1, <2>1, <2>2, <2>3 DEF CleanLinks
<1>7. CASE ReturnAS1
  <2>1. /\ ackCrossing # <<>> /\ ackCrossing' = Tail(ackCrossing)
        /\ toSender' = Append(toSender, Head(ackCrossing))
        /\ UNCHANGED <<m_output_queue, uplink, crossing, toReceiver, ack_output_queue, ackUplink>>
    BY <1>7 DEF ReturnAS1, hostVars, receiverVars, frameLinks
  <2>2. Head(ackCrossing) \in Answers /\ Head(ackCrossing) \notin Stray /\ Clean(ackCrossing')
    BY <1>1, <1>2, <2>1, CleanTakeFirst
  <2>3. Clean(Append(toSender, Head(ackCrossing)))
    BY <1>1, <2>2, CleanAddLast
  <2>. QED  BY <1>1, <2>1, <2>2, <2>3 DEF CleanLinks
<1>. QED  BY <1>3, <1>4, <1>5, <1>6, <1>7

-----------------------------------------------------------------------------
(* The steps of the receiver, and what they leave alone.                   *)

queueVars == <<m_output_queue, uplink, crossing, toReceiver, ack_output_queue, ackUplink,
               ackCrossing, toSender>>
lapVars == <<NFE, recv_marked, receiver_queue, accepted>>

LEMMA SameBlock == BlockAtStart /\ UNCHANGED <<pendingVars, ack_marked>> => BlockAtStart'
BY DEF BlockAtStart, pendingVars

LEMMA SameQueues == CleanLinks /\ UNCHANGED queueVars => CleanLinks'
BY DEF CleanLinks, queueVars, Clean

LEMMA SameLap ==
  ASSUME LapInv, UNCHANGED lapVars, NoZeroYet => BlockAtStart' /\ CleanLinks'
  PROVE  LapInv'
<1>1. FirstLap' /\ (NoZeroYet' <=> NoZeroYet)
  BY DEF LapInv, FirstLap, NoZeroYet, lapVars
<1>. QED  BY <1>1 DEF LapInv

LEMMA LapFacts ==
  ASSUME WTypes, FirstLap
  PROVE  /\ SeqMod \in Nat /\ SeqMod > 1 /\ RWS \in 1..(SeqMod - 1)
         /\ accepted \in Nat /\ NFE \in 0..(SeqMod - 1) /\ recv_marked \subseteq SeqNums
         /\ accepted < SeqMod => NFE = accepted
         /\ accepted + RWS <= SeqMod => LAF = accepted + RWS - 1
<1>1. /\ SeqMod \in Nat /\ SeqMod > 1 /\ RWS \in 1..(SeqMod - 1)
      /\ accepted \in Nat /\ NFE \in 0..(SeqMod - 1) /\ recv_marked \subseteq SeqNums
  BY SeqModAssumption, WindowAssumption DEF WTypes, ReceiverTypes, SeqNums, FirstLap
<1>2. ASSUME accepted < SeqMod PROVE NFE = accepted
  <2>1. accepted \in 0..(SeqMod - 1)
    BY <1>1, <1>2
  <2>2. NFE = accepted % SeqMod
    BY DEF FirstLap
  <2>. QED  BY ONLY <2>1, <2>2, ModSmall, Zenon
<1>3. ASSUME accepted + RWS <= SeqMod PROVE LAF = accepted + RWS - 1
  <2>1. NFE = accepted /\ accepted + RWS - 1 \in 0..(SeqMod - 1)
    BY <1>1, <1>2, <1>3
  <2>2. LAF = (accepted + RWS - 1) % SeqMod
    BY <2>1 DEF LAF
  <2>. QED  BY ONLY <2>1, <2>2, ModSmall, Zenon
<1>. QED  BY <1>1, <1>2, <1>3

\* Before the window wraps, slot 0 is stored in only by the first frame of a block.
LEMMA LapTakesIn ==
  ASSUME WTypes, SlotTypes, LapInv, WHandlePacket
  PROVE  LapInv'
<1>p1. PICK frame, s : frame = Head(toReceiver) /\ s = frame.seq_ack_num
  OBVIOUS
<1>1. /\ NFE \notin recv_marked /\ toReceiver # <<>> /\ toReceiver' = Tail(toReceiver)
      /\ ack_output_queue' = Append(ack_output_queue, [seq_ack_num |-> s])
      /\ UNCHANGED <<NFE, accepted, pendingVars, ack_marked>>
      /\ UNCHANGED <<m_output_queue, uplink, crossing, ackUplink, ackCrossing, toSender>>
  BY <1>p1 DEF WHandlePacket, HandlePacket, Delivering, blockVars, pendingVars, ackLinks,
               crossingVars
<1>2. \/ /\ InReceiveWindow(s)
         /\ receiver_queue' = [receiver_queue EXCEPT ![s] = frame]
         /\ recv_marked' = recv_marked \cup {s}
      \/ ~InReceiveWindow(s) /\ UNCHANGED <<receiver_queue, recv_marked>>
  BY <1>p1 DEF WHandlePacket, HandlePacket
<1>3. frame \in Frames /\ s \in SeqNums /\ frame.data \in Chunks /\ [seq_ack_num |-> s] \in Acks
  <2>1. toReceiver \in Seq(Frames)
    BY DEF WTypes, LinkTypes
  <2>2. frame \in Frames
    BY <1>p1, <1>1, <2>1
  <2>. QED  BY <1>p1, <2>2 DEF Frames, Acks
<1>4. FirstLap
  BY DEF LapInv
<1>5. ASSUME NEW t \in SeqNums
      PROVE  \/ t = s /\ InReceiveWindow(s) /\ receiver_queue'[t] = frame
             \/ receiver_queue'[t] = receiver_queue[t] /\ (t \in recv_marked' => t \in recv_marked)
  BY <1>2, <1>3 DEF SlotTypes
<1>6. \A t \in SeqNums : t < accepted' \/ t \in recv_marked' => receiver_queue'[t].data \in Chunks
  BY <1>1, <1>3, <1>4, <1>5 DEF FirstLap
<1>7. 0 \in SeqNums
  BY SeqModAssumption DEF SeqNums
<1>8. ASSUME accepted + RWS <= SeqMod, InReceiveWindow(0) PROVE accepted = 0
  BY <1>4, <1>8, LapFacts DEF InReceiveWindow
<1>9. ASSUME NoZeroYet, s = 0 PROVE InReceiveWindow(0)
  BY <1>4, <1>9, LapFacts DEF NoZeroYet, InReceiveWindow
<1>10. NoZeroYet /\ s = 0 => frame.start_of_message
  <2>1. ASSUME NoZeroYet PROVE frame \notin Stray
    <3>1. toReceiver \in Seq(Frames) /\ Clean(toReceiver)
      BY <2>1 DEF LapInv, CleanLinks, WTypes, LinkTypes
    <3>. QED  BY <1>p1, <1>1, <3>1, CleanTakeFirst
  <2>. QED  BY <1>p1, <1>3, <2>1, NotStray
<1>11. ASSUME accepted + RWS <= SeqMod, accepted > 0 \/ 0 \in recv_marked'
       PROVE  receiver_queue'[0].start_of_message
  <2>1. CASE accepted > 0
    <3>1. receiver_queue'[0] = receiver_queue[0]
      BY <1>4, <1>5, <1>7, <1>8, <1>11, <2>1, LapFacts
    <3>. QED  BY <1>4, <1>11, <2>1, <3>1 DEF FirstLap
  <2>2. CASE ~(accepted > 0)
    <3>1. NoZeroYet
      BY <1>1, <1>4, <2>2, LapFacts DEF NoZeroYet
    <3>2. s = 0 /\ receiver_queue'[0] = frame
      BY <1>5, <1>7, <1>11, <2>2, <3>1, <1>4, LapFacts DEF NoZeroYet
    <3>. QED  BY <1>10, <3>1, <3>2
  <2>. QED  BY <2>1, <2>2
<1>12. FirstLap'
  BY <1>1, <1>4, <1>6, <1>11 DEF FirstLap
<1>13. ASSUME NoZeroYet' PROVE BlockAtStart' /\ CleanLinks'
  <2>1. NoZeroYet /\ s # 0
    BY <1>1, <1>2, <1>9, <1>13 DEF NoZeroYet
  <2>2. BlockAtStart /\ CleanLinks
    BY <2>1 DEF LapInv
  <2>3. Clean(toReceiver')
    <3>1. toReceiver \in Seq(Frames) /\ Clean(toReceiver)
      BY <2>2 DEF CleanLinks, WTypes, LinkTypes
    <3>. QED  BY <1>1, <3>1, CleanTakeFirst
  <2>4. Clean(ack_output_queue')
    <3>1. ack_output_queue \in Seq(Acks) /\ Clean(ack_output_queue)
      BY <2>2 DEF CleanLinks, WTypes, LinkTypes
    <3>2. [seq_ack_num |-> s] \notin Stray
      <4>1. [seq_ack_num |-> s].seq_ack_num = s
        OBVIOUS
      <4>. QED  BY <1>3, <2>1, <4>1, NotStray
    <3>. QED  BY <1>1, <1>3, <3>1, <3>2, CleanAddLast
  <2>5. CleanLinks'
    BY <1>1, <2>2, <2>3, <2>4 DEF CleanLinks
  <2>. QED  BY <1>1, <2>2, <2>5, SameBlock
<1>. QED  BY <1>12, <1>13 DEF LapInv

LEMMA LapDelivers ==
  ASSUME WTypes, LapInv, DeliverFrame
  PROVE  LapInv'
<1>1. /\ NFE \in recv_marked /\ recv_marked' = recv_marked \ {NFE} /\ NFE' = Inc(NFE)
      /\ accepted' = accepted + 1 /\ receiver_queue' = receiver_queue
  BY DEF DeliverFrame, Delivering
<1>2. FirstLap
  BY DEF LapInv
<1>3. accepted' \in Nat /\ NFE' = accepted' % SeqMod
  <2>1. accepted \in Nat /\ NFE = accepted % SeqMod
    BY <1>2 DEF FirstLap
  <2>2. Inc(accepted % SeqMod) = (accepted + 1) % SeqMod /\ accepted + 1 \in Nat
    BY <2>1, ModNext
  <2>. QED  BY ONLY <1>1, <2>1, <2>2, Zenon
<1>4. ASSUME NEW t \in SeqNums, t < accepted' \/ t \in recv_marked'
      PROVE  receiver_queue'[t].data \in Chunks
  <2>1. t < accepted \/ t = accepted \/ t \in recv_marked
    BY <1>1, <1>2, <1>4, LapFacts DEF SeqNums
  <2>2. t = accepted => t \in recv_marked
    BY <1>1, <1>2, LapFacts DEF SeqNums
  <2>. QED  BY <1>1, <1>2, <2>1, <2>2 DEF FirstLap
<1>5. ASSUME accepted' + RWS <= SeqMod PROVE receiver_queue'[0].start_of_message
  <2>1. accepted + RWS <= SeqMod /\ (accepted > 0 \/ 0 \in recv_marked)
    BY <1>1, <1>2, <1>5, LapFacts
  <2>. QED  BY <1>1, <1>2, <2>1 DEF FirstLap
<1>6. FirstLap'
  BY <1>3, <1>4, <1>5 DEF FirstLap
<1>7. ~NoZeroYet'
  BY <1>1, <1>2, LapFacts DEF NoZeroYet
<1>. QED  BY <1>6, <1>7 DEF LapInv

LEMMA LapInit == WInit => LapInv
<1>. SUFFICES ASSUME WInit PROVE LapInv
  OBVIOUS
<1>1. FirstLap
  <2>1. 0 % SeqMod = 0
    BY SeqModAssumption
  <2>2. accepted = 0 /\ NFE = 0 /\ recv_marked = {}
    BY DEF WInit, Init
  <2>. QED  BY <2>1, <2>2 DEF FirstLap, SeqNums
<1>2. BlockAtStart
  <2>1. Len(<<>>) = 0 /\ DOMAIN <<>> = {}
    OBVIOUS
  <2>2. (SeqMod - 1 + 1 + 0) % SeqMod = 0
    BY SeqModAssumption
  <2>3. /\ LAR = SeqMod - 1 /\ LFS = SeqMod - 1 /\ SEQ = 0 /\ pending_frame_list = <<>>
        /\ ack_marked = {}
    BY DEF WInit, Init
  <2>. QED  BY <2>1, <2>2, <2>3 DEF BlockAtStart
<1>3. CleanLinks
  BY CleanEmpty DEF WInit, Init, CleanLinks
<1>. QED  BY <1>1, <1>2, <1>3 DEF LapInv

LEMMA LapNext == OnceInv /\ LapInv /\ [WNext]_allVars => LapInv'
<1>. SUFFICES ASSUME WTypes, SlotTypes, LapInv, [WNext]_allVars PROVE LapInv'
  BY DEF OnceInv
<1>1. CASE WHandlePacket
  BY <1>1, LapTakesIn
<1>2. CASE Unaffected(DeliverFrame)
  BY <1>2, LapDelivers DEF Unaffected
<1>3. CASE Unaffected(SendAcks)
  <2>1. /\ UNCHANGED lapVars /\ UNCHANGED <<pendingVars, ack_marked>>
        /\ ackUplink' = ackUplink \o ack_output_queue /\ ack_output_queue' = <<>>
        /\ UNCHANGED <<m_output_queue, uplink, crossing, toReceiver, ackCrossing, toSender>>
    BY <1>3 DEF Unaffected, SendAcks, lapVars, pendingVars, blockVars, frameLinks, networkVars,
                crossingVars
  <2>2. ASSUME CleanLinks PROVE CleanLinks'
    <3>1. ackUplink \in Seq(Acks) /\ ack_output_queue \in Seq(Acks)
      BY DEF WTypes, LinkTypes
    <3>. QED  BY <2>1, <2>2, <3>1, CleanBehind, CleanEmpty DEF CleanLinks
  <2>. QED  BY <2>1, <2>2, SameLap, SameBlock DEF LapInv
<1>4. CASE WHandleAck \/ WAdvanceLAR \/ HandleIcmpMessage
  <2>1. UNCHANGED lapVars
    BY <1>4 DEF WHandleAck, HandleAck, WAdvanceLAR, AdvanceLAR, HandleIcmpMessage, receiverVars,
                lapVars
  <2>2. ASSUME BlockAtStart, CleanLinks PROVE BlockAtStart' /\ CleanLinks'
    BY <1>4, <2>2, IncomingAtStart, ErasedAtStart
  <2>. QED  BY <2>1, <2>2, SameLap DEF LapInv
<1>5. CASE Unaffected(HandleUserInput) \/ Unaffected(SendPendingFrame)
  <2>1. UNCHANGED lapVars
    BY <1>5 DEF Unaffected, HandleUserInput, SendPendingFrame, receiverVars, lapVars
  <2>2. ASSUME BlockAtStart, CleanLinks PROVE BlockAtStart' /\ CleanLinks'
    BY <1>5, <2>2, InputAtStart, SendAtStart DEF Unaffected
  <2>. QED  BY <2>1, <2>2, SameLap DEF LapInv
<1>6. CASE \/ Unaffected(SendMessageToRouter)
           \/ BorderAS1 \/ BorderAS4 \/ ReturnAS4 \/ ReturnAS1
  <2>1. UNCHANGED lapVars /\ UNCHANGED <<pendingVars, ack_marked>>
    BY <1>6 DEF Unaffected, SendMessageToRouter, BorderAS1, BorderAS4, ReturnAS4, ReturnAS1,
                hostVars, receiverVars, lapVars, blockVars, pendingVars
  <2>2. ASSUME CleanLinks PROVE CleanLinks'
    BY <1>6, <2>1, <2>2, LinksAtStart DEF Unaffected
  <2>. QED  BY <2>1, <2>2, SameLap, SameBlock DEF LapInv
<1>7. CASE UNCHANGED <<lapVars, pendingVars, ack_marked, queueVars>>
  BY <1>7, SameLap, SameBlock, SameQueues DEF LapInv
<1>8. ASSUME NEW length \in Lengths, WUserTypes(length)
      PROVE  UNCHANGED <<lapVars, pendingVars, ack_marked, queueVars>>
  BY <1>8 DEF WUserTypes, UserTypes, networkVars, crossingVars, lapVars, pendingVars, queueVars,
              blockVars, frameLinks, receiverVars, ackLinks
<1>9. CASE \/ ChangeMembership \/ WSetRoute \/ AckWithoutBlock \/ UNCHANGED allVars
           \/ Unaffected(EndIncoming) \/ Unaffected(EndInput) \/ Unaffected(EndPending)
  <2>. USE DEF networkVars, crossingVars, lapVars, pendingVars, queueVars, blockVars, frameLinks,
               receiverVars, ackLinks, vars
  <2>1. CASE ChangeMembership \/ WSetRoute \/ AckWithoutBlock \/ UNCHANGED allVars
    BY <1>7, <2>1 DEF ChangeMembership, WSetRoute, AckWithoutBlock, allVars
  <2>2. CASE Unaffected(EndIncoming) \/ Unaffected(EndInput) \/ Unaffected(EndPending)
    BY <1>7, <2>2 DEF Unaffected, EndIncoming, EndInput, EndPending, SenderGoesTo
  <2>. QED  BY <1>9, <2>1, <2>2
<1>. QED  BY <1>1, <1>2, <1>3, <1>4, <1>5, <1>6, <1>7, <1>8, <1>9
     DEF WNext, MainThread, WSenderThread, WReceiverThread

-----------------------------------------------------------------------------
\* A step that prints, and what it prints.
LEMMA PrintsOne ==
  ASSUME SlotTypes, [WNext]_allVars, NEW p \in DOMAIN printed' \ DOMAIN printed
  PROVE  Delivering /\ printed'[p] = MessageEndingAt(NFE)
<1>1. CASE Unaffected(DeliverFrame)
  <2>1. Delivering /\ printed' = Append(printed, MessageEndingAt(NFE))
    BY <1>1 DEF Unaffected, DeliverFrame
  <2>. QED  BY <2>1 DEF SlotTypes
<1>2. CASE UNCHANGED printed
  BY <1>2
<1>3. \/ UNCHANGED onceVars \/ \E length \in Lengths : WUserTypes(length)
      \/ Unaffected(HandleUserInput) \/ Unaffected(SendPendingFrame)
      \/ Unaffected(SendMessageToRouter) \/ HandleIcmpMessage \/ BorderAS1 \/ BorderAS4
      \/ WHandlePacket \/ Unaffected(DeliverFrame)
  BY OnceBystanders DEF WNext, MainThread, WSenderThread, WReceiverThread
<1>4. UNCHANGED printed \/ Unaffected(DeliverFrame)
  BY <1>3 DEF onceVars, WUserTypes, UserTypes, Unaffected, HandleUserInput, SendPendingFrame,
              SendMessageToRouter, HandleIcmpMessage, BorderAS1, BorderAS4, hostVars,
              WHandlePacket, HandlePacket, receiverVars
<1>. QED  BY <1>1, <1>2, <1>4

LEMMA EmptySlotStep ==
  ASSUME OnceInv, LapInv, [WNext]_allVars,
         NEW p \in DOMAIN printed' \ DOMAIN printed,
         NEW k \in DOMAIN printed'[p], printed'[p][k] = NoChunk
  PROVE  /\ SeqMod < accepted + RWS /\ accepted + 1 < SeqMod
         /\ ~receiver_queue[0].start_of_message
<1>1. WTypes /\ SlotTypes /\ FirstLap
  BY DEF OnceInv, LapInv
<1>2. Delivering /\ printed'[p] = MessageEndingAt(NFE)
  BY <1>1, PrintsOne
<1>3. k \in DOMAIN MessageEndingAt(NFE) /\ MessageEndingAt(NFE)[k] = NoChunk
  BY <1>2
<1>. QED  BY <1>1, <1>2, <1>3, DeliversEmpty

\* printOutMessage, however blocks are erased and their numbers used again: a null
\* pointer is met on the walk back only in the receiver's first lap, with a window that
\* reaches into the second and a slot 0 that it has stored a frame in for the second time.
THEOREM EmptySlotsALapAhead == WSpec => EmptySlotOnlyALapAhead
<1>1. OnceInv /\ LapInv /\ [WNext]_allVars
      => [\A p \in DOMAIN printed' \ DOMAIN printed :
            (\E k \in DOMAIN printed'[p] : printed'[p][k] = NoChunk)
            => /\ SeqMod < accepted + RWS /\ accepted + 1 < SeqMod
               /\ ~receiver_queue[0].start_of_message]_allVars
  BY EmptySlotStep
<1>. QED  BY <1>1, OnceInit, OnceNext, LapInit, LapNext, PTL DEF WSpec, EmptySlotOnlyALapAhead

\* With windows of one or two frames printOutMessage never meets an empty slot.
COROLLARY SmallWindowsPrintFrames ==
  ASSUME RWS <= 2
  PROVE  WSpec => [][\A p \in DOMAIN printed' \ DOMAIN printed :
                       \A k \in DOMAIN printed'[p] : printed'[p][k] # NoChunk]_allVars
<1>1. OnceInv /\ LapInv /\ [WNext]_allVars
      => [\A p \in DOMAIN printed' \ DOMAIN printed :
            \A k \in DOMAIN printed'[p] : printed'[p][k] # NoChunk]_allVars
  <2>1. ASSUME OnceInv, LapInv, [WNext]_allVars,
               NEW p \in DOMAIN printed' \ DOMAIN printed,
               NEW k \in DOMAIN printed'[p], printed'[p][k] = NoChunk
        PROVE  FALSE
    <3>1. SeqMod < accepted + RWS /\ accepted + 1 < SeqMod
      BY <2>1, EmptySlotStep
    <3>2. accepted \in Nat /\ SeqMod \in Nat /\ RWS \in Nat
      BY <2>1, SeqModAssumption, WindowAssumption DEF LapInv, FirstLap
    <3>. QED  BY <2>1, <3>1, <3>2
  <2>. QED  BY <2>1
<1>. QED  BY <1>1, OnceInit, OnceNext, LapInit, LapNext, PTL DEF WSpec

=============================================================================
