----------------------- MODULE TamperingRouterProofs -----------------------
(***************************************************************************)
(* Router 4 keeps both hosts' numbers uint8_t for every number of sequence *)
(* numbers and every window: what it adds to a frame's number wraps, what  *)
(* it takes from an ack's is never zero, it remembers one altered message  *)
(* at most, and no more frames overtake the drop than came by after it.    *)
(*                                                                         *)
(* What its shifts do to a flow rests on two invariants more.  NumbersInv  *)
(* follows the numbers of every frame and ack under way, and gives that a  *)
(* tampered flow ends with its lap, or in front of what overtook the drop. *)
(* PlacesInv follows the messages: where each begins in the sender's flow  *)
(* and in the receiver's, which has one frame more, and which piece every  *)
(* frame under way is.  It gives that the receiver prints what was typed,  *)
(* with the one insertion, as long as nothing overtakes the drop.          *)
(***************************************************************************)
EXTENDS TamperingRouter, DeliveryProofs

\* What may arrive at the receiver.
TFrames == [data : Chunks \cup {Inserted}, seq_ack_num : SeqNums,
            start_of_message : BOOLEAN, end_of_message : BOOLEAN]
Pieces == Chunks \cup {Inserted, NoChunk}

\* TTypeOK is not inductive: it says nothing of the queues before the links, and not
\* that nothing is dropped or overtaken before a message is altered.  If it were, with
\* no number remembered alterSeqAckNum would lower an ack's number below zero.
SenderSide ==
  /\ typed \in Seq(Messages) /\ m_user_input_queue \in Seq(Messages)
  /\ LAR \in SeqNums /\ LFS \in SeqNums /\ SEQ \in SeqNums
  /\ pending_frame_list \in Seq(Frames) /\ m_output_queue \in Seq(Frames)
  /\ uplink \in Seq(Frames) /\ toSender \in Seq(Acks)
  /\ ack_marked \subseteq SeqNums /\ sent \in Seq(Chunks) /\ acked \in Nat
ReceiverSide ==
  /\ NFE \in SeqNums /\ toReceiver \in Seq(TFrames)
  /\ ack_output_queue \in Seq(Acks) /\ ackUplink \in Seq(Acks)
  /\ receiver_queue \in [SeqNums -> TFrames \cup {NoFrame}]
  /\ printed \in Seq(Seq(Pieces)) /\ accepted \in Nat
Remembered ==
  /\ m_seq_ack_control_flag \in BOOLEAN
  /\ passed \in Nat /\ alteredAt \in 0..passed /\ overtaken \in 0..(passed - alteredAt)
  /\ \/ m_hack_ack_data = {} /\ ~m_seq_ack_control_flag /\ alteredAt = 0 /\ overtaken = 0
     \/ \E a \in SeqNums : m_hack_ack_data = {a}
TTypes == SenderSide /\ ReceiverSide /\ Remembered

LEMMA TTypesInit == TInit => TTypes
<1>. SUFFICES ASSUME TInit PROVE TTypes
  OBVIOUS
<1>1. \A S : <<>> \in Seq(S)
  BY EmptySeq
<1>2. 0 \in SeqNums /\ SeqMod - 1 \in SeqNums
  BY SeqModAssumption DEF SeqNums
<1>3. receiver_queue \in [SeqNums -> TFrames \cup {NoFrame}]
  BY DEF TInit, Init
<1>. QED  BY <1>1, <1>2, <1>3 DEF TInit, Init, TTypes, SenderSide, ReceiverSide, Remembered

-----------------------------------------------------------------------------
(* The hosts, which know nothing of router 4.                              *)

LEMMA UserStep ==
  ASSUME TTypes, NEW length \in Lengths, UserTypes(length)
  PROVE  SenderSide' /\ ReceiverSide'
<1>. DEFINE message == [id |-> Len(typed) + 1, length |-> length]
<1>1. typed \in Seq(Messages) /\ m_user_input_queue \in Seq(Messages)
  BY DEF TTypes, SenderSide
<1>2. Len(typed) < MaxMessages /\ Len(typed) \in Nat
  BY <1>1, LenProperties DEF UserTypes
<1>3. message \in Messages
  BY <1>2, BoundAssumption DEF Messages
<1>4. /\ typed' = Append(typed, message)
      /\ m_user_input_queue' = Append(m_user_input_queue, message)
  BY DEF UserTypes
<1>. HIDE DEF message
<1>5. typed' \in Seq(Messages) /\ m_user_input_queue' \in Seq(Messages)
  BY <1>1, <1>3, <1>4, AppendProperties
<1>. QED  BY <1>5 DEF UserTypes, TTypes, SenderSide, ReceiverSide, blockVars, frameLinks,
                      receiverVars, ackLinks

LEMMA SenderStep ==
  ASSUME TTypes, SenderThread
  PROVE  SenderSide' /\ ReceiverSide'
<1>. USE DEF TTypes, SenderSide, ReceiverSide
<1>1. CASE HandleAck
  <2>1. Head(toSender) \in Acks /\ toSender' \in Seq(Acks)
    BY <1>1, HeadTailProperties DEF HandleAck
  <2>2. Head(toSender).seq_ack_num \in SeqNums
    BY <2>1 DEF Acks
  <2>3. ack_marked' \subseteq SeqNums
    BY <1>1, <2>2 DEF HandleAck
  <2>. QED  BY <1>1, <2>1, <2>3 DEF HandleAck, userVars, receiverVars, frameLinks
<1>2. CASE AdvanceLAR
  BY <1>2, IncType DEF AdvanceLAR, userVars, receiverVars, frameLinks, ackLinks
<1>3. CASE EndIncoming \/ EndInput \/ EndPending
  BY <1>3 DEF EndIncoming, EndInput, EndPending, SenderGoesTo, userVars, blockVars,
              receiverVars, frameLinks, ackLinks
<1>4. CASE HandleUserInput
  <2>. DEFINE message == Head(m_user_input_queue)
  <2>1. message \in Messages /\ m_user_input_queue' \in Seq(Messages)
    BY <1>4, HeadTailProperties DEF HandleUserInput
  <2>2. FramesOf(message) \in Seq(Frames) /\ NumOfChunks(message.length) \in Nat
    BY <2>1, FramesOfType, SplitType
  <2>3. SEQ' \in SeqNums
    <3>1. SEQ + NumOfChunks(message.length) \in Nat
      BY <2>2 DEF SeqNums
    <3>. QED  BY <3>1, <1>4, ModType DEF HandleUserInput
  <2>4. pending_frame_list' \in Seq(Frames)
    BY <1>4, <2>2, ConcatProperties DEF HandleUserInput
  <2>. QED  BY <1>4, <2>1, <2>3, <2>4 DEF HandleUserInput, receiverVars, frameLinks, ackLinks
<1>5. CASE SendPendingFrame
  <2>1. /\ Head(pending_frame_list) \in Frames /\ pending_frame_list' \in Seq(Frames)
    BY <1>5, HeadTailProperties DEF SendPendingFrame, MayLeave
  <2>2. /\ Head(pending_frame_list).seq_ack_num \in SeqNums
        /\ Head(pending_frame_list).data \in Chunks
    BY <2>1 DEF Frames
  <2>3. m_output_queue' \in Seq(Frames)
    BY <1>5, <2>1, AppendProperties DEF SendPendingFrame
  <2>4. sent' \in Seq(Chunks) /\ ack_marked' \subseteq SeqNums
    BY <1>5, <2>2, AppendProperties DEF SendPendingFrame
  <2>. QED  BY <1>5, <2>1, <2>2, <2>3, <2>4
       DEF SendPendingFrame, userVars, receiverVars, frameLinks, ackLinks
<1>6. CASE SendMessageToRouter
  <2>1. uplink' \in Seq(Frames) /\ m_output_queue' \in Seq(Frames)
    BY <1>6, ConcatProperties, EmptySeq DEF SendMessageToRouter
  <2>. QED  BY <1>6, <2>1 DEF SendMessageToRouter, userVars, blockVars, receiverVars, ackLinks
<1>. QED  BY <1>1, <1>2, <1>3, <1>4, <1>5, <1>6 DEF SenderThread

LEMMA ReceiverStep ==
  ASSUME TTypes, ReceiverThread
  PROVE  SenderSide' /\ ReceiverSide'
<1>. USE DEF TTypes, SenderSide, ReceiverSide
<1>1. CASE HandlePacket
  <2>1. Head(toReceiver) \in TFrames /\ toReceiver' \in Seq(TFrames)
    BY <1>1, HeadTailProperties DEF HandlePacket
  <2>2. [seq_ack_num |-> Head(toReceiver).seq_ack_num] \in Acks
    BY <2>1 DEF TFrames, Acks
  <2>3. ack_output_queue' \in Seq(Acks)
    BY <1>1, <2>2, AppendProperties DEF HandlePacket
  <2>. QED  BY <1>1, <2>1, <2>3 DEF HandlePacket, userVars, blockVars, ackLinks
<1>2. CASE DeliverFrame
  <2>1. printed' \in Seq(Seq(Pieces))
    <3>1. \A s \in SeqNums : receiver_queue[s].data \in Pieces
      <4>. TAKE s \in SeqNums
      <4>1. receiver_queue[s] \in TFrames \cup {NoFrame}
        OBVIOUS
      <4>. QED  BY <4>1 DEF TFrames, NoFrame, Pieces
    <3>2. MessageEndingAt(NFE) \in Seq(Pieces)
      BY <3>1, MessageEndingAtPieces
    <3>. QED  BY <1>2, <3>2, AppendProperties DEF DeliverFrame
  <2>. QED  BY <1>2, <2>1, IncType DEF DeliverFrame, userVars, blockVars, frameLinks, ackLinks
<1>3. CASE SendAcks
  <2>1. ackUplink' \in Seq(Acks) /\ ack_output_queue' \in Seq(Acks)
    BY <1>3, ConcatProperties, EmptySeq DEF SendAcks
  <2>. QED  BY <1>3, <2>1 DEF SendAcks, userVars, blockVars, frameLinks
<1>. QED  BY <1>1, <1>2, <1>3 DEF ReceiverThread

-----------------------------------------------------------------------------
(* Router 4.                                                               *)

LEMMA CreateAttackMessageStep ==
  ASSUME TTypes, CreateAttackMessage
  PROVE  TTypes'
<1>. DEFINE frame == Head(uplink)
            first == [frame EXCEPT !.end_of_message = FALSE]
            copy  == [data |-> Inserted, seq_ack_num |-> Inc(frame.seq_ack_num),
                      start_of_message |-> FALSE, end_of_message |-> TRUE]
<1>1. uplink \in Seq(Frames) /\ uplink # <<>> /\ uplink' = Tail(uplink)
  BY DEF TTypes, SenderSide, CreateAttackMessage
<1>2. frame \in Frames /\ uplink' \in Seq(Frames)
  BY <1>1, HeadTailProperties
<1>3. first \in TFrames /\ copy \in TFrames /\ frame.seq_ack_num \in SeqNums
  BY <1>2, IncType DEF Frames, TFrames
<1>4. toReceiver' = toReceiver \o <<first, copy>>
  BY DEF CreateAttackMessage
<1>5. /\ m_hack_ack_data = {} /\ m_hack_ack_data' = {frame.seq_ack_num}
      /\ passed' = passed + 1 /\ alteredAt' = passed + 1
      /\ UNCHANGED <<m_seq_ack_control_flag, overtaken>>
  BY DEF CreateAttackMessage, AttackObject
<1>. HIDE DEF frame, first, copy
<1>6. toReceiver' \in Seq(TFrames)
  <2>1. <<first, copy>> \in Seq(TFrames)
    BY <1>3
  <2>. QED  BY <1>4, <2>1, ConcatProperties DEF TTypes, ReceiverSide
<1>7. SenderSide' /\ ReceiverSide'
  BY <1>2, <1>6 DEF CreateAttackMessage, hostVars, userVars, blockVars, receiverVars,
                    ackLinks, TTypes, SenderSide, ReceiverSide
<1>8. Remembered'
  BY <1>3, <1>5 DEF TTypes, Remembered
<1>. QED  BY <1>7, <1>8 DEF TTypes

LEMMA ForwardAlteredFrameStep ==
  ASSUME TTypes, ForwardAlteredFrame
  PROVE  TTypes'
<1>1. uplink \in Seq(Frames) /\ uplink # <<>> /\ uplink' = Tail(uplink)
  BY DEF TTypes, SenderSide, ForwardAlteredFrame
<1>2. Head(uplink) \in Frames /\ uplink' \in Seq(Frames)
  BY <1>1, HeadTailProperties
<1>3. AlterSeqNum(Head(uplink)) \in TFrames
  BY <1>2, IncType DEF AlterSeqNum, Frames, TFrames
<1>4. toReceiver' \in Seq(TFrames)
  BY <1>3, AppendProperties DEF ForwardAlteredFrame, TTypes, ReceiverSide
<1>5. SenderSide' /\ ReceiverSide'
  BY <1>2, <1>4 DEF ForwardAlteredFrame, hostVars, userVars, blockVars, receiverVars,
                    ackLinks, TTypes, SenderSide, ReceiverSide
<1>6. Remembered'
  BY DEF ForwardAlteredFrame, tamperVars, TTypes, Remembered
<1>. QED  BY <1>5, <1>6 DEF TTypes

\* Lowering an ack's number needs no wrap: it is above the one remembered.
LEMMA AlterAckNumType ==
  ASSUME Remembered, NEW ack \in Acks
  PROVE  AlterAckNum(ack) \in Acks
<1>1. CASE ~Shifts(ack.seq_ack_num) \/ m_hack_ack_data = {}
  BY <1>1 DEF Remembered, Shifts, AlterAckNum
<1>2. CASE Shifts(ack.seq_ack_num) /\ m_hack_ack_data # {}
  <2>1. PICK a \in SeqNums : m_hack_ack_data = {a}
    BY <1>2 DEF Remembered
  <2>2. ack.seq_ack_num \in SeqNums /\ a < ack.seq_ack_num
    BY <1>2, <2>1 DEF Shifts, Acks
  <2>3. ack.seq_ack_num - 1 \in SeqNums
    BY <2>2, SeqModAssumption DEF SeqNums
  <2>. QED  BY <1>2, <2>3 DEF AlterAckNum, Acks
<1>. QED  BY <1>1, <1>2

LEMMA AckStep ==
  ASSUME TTypes, AckThroughRouter4
  PROVE  TTypes'
<1>1. ackUplink \in Seq(Acks) /\ ackUplink # <<>> /\ ackUplink' = Tail(ackUplink)
  BY DEF TTypes, ReceiverSide, AckThroughRouter4, DropAck, ForwardAlteredAck
<1>2. Head(ackUplink) \in Acks /\ ackUplink' \in Seq(Acks)
  BY <1>1, HeadTailProperties
<1>3. CASE DropAck
  BY <1>2, <1>3 DEF DropAck, OfInserted, hostVars, userVars, blockVars, receiverVars, frameLinks,
                    tamperHistory, TTypes, SenderSide, ReceiverSide, Remembered
<1>4. CASE ForwardAlteredAck
  <2>1. toSender' \in Seq(Acks)
    BY <1>2, <1>4, AlterAckNumType, AppendProperties
    DEF ForwardAlteredAck, TTypes, SenderSide
  <2>. QED  BY <1>2, <1>4, <2>1
       DEF ForwardAlteredAck, hostVars, userVars, blockVars, receiverVars, frameLinks,
           tamperVars, tamperHistory, TTypes, SenderSide, ReceiverSide, Remembered
<1>. QED  BY <1>3, <1>4 DEF AckThroughRouter4

LEMMA TTypesNext == TTypes /\ [TNext]_allVars => TTypes'
<1>. SUFFICES ASSUME TTypes, [TNext]_allVars PROVE TTypes'
  OBVIOUS
<1>1. CASE Hosts /\ UNCHANGED <<tamperVars, tamperHistory>>
  <2>1. SenderSide' /\ ReceiverSide'
    BY <1>1, UserStep, SenderStep, ReceiverStep DEF Hosts
  <2>. QED  BY <1>1, <2>1 DEF TTypes, Remembered, tamperVars, tamperHistory
<1>2. CASE UNCHANGED allVars
  BY <1>2 DEF allVars, vars, userVars, blockVars, frameLinks, receiverVars, ackLinks,
              tamperVars, tamperHistory, TTypes, SenderSide, ReceiverSide, Remembered
<1>. QED  BY <1>1, <1>2, CreateAttackMessageStep, ForwardAlteredFrameStep, AckStep
     DEF TNext, FrameThroughRouter4

\* createAttackMessage, alterSeqAckNum, dropAck: numbers stay uint8_t on both sides of
\* router 4, one message at most is altered, and the frames that overtake the drop of
\* its ack came by after it.
THEOREM TamperTypesAlways == TSpec => []TTypeOK
<1>1. TTypes => TTypeOK
  <2>. SUFFICES ASSUME TTypes PROVE TTypeOK
    OBVIOUS
  <2>1. m_hack_ack_data \subseteq SeqNums /\ Cardinality(m_hack_ack_data) <= 1
    <3>1. CASE m_hack_ack_data = {}
      BY <3>1, FS_EmptySet
    <3>2. CASE \E a \in SeqNums : m_hack_ack_data = {a}
      <4>1. PICK a \in SeqNums : m_hack_ack_data = {a}
        BY <3>2
      <4>2. Cardinality({a}) = 1
        BY FS_Singleton
      <4>. QED  BY <4>1, <4>2
    <3>. QED  BY <3>1, <3>2 DEF TTypes, Remembered
  <2>. QED  BY <2>1 DEF TTypes, SenderSide, ReceiverSide, Remembered, TFrames, TTypeOK
<1>. QED  BY <1>1, TTypesInit, TTypesNext, PTL DEF TSpec

-----------------------------------------------------------------------------
(* Numbers within the lap of the altered frame.                            *)

\* The numbers of a lap of SeqMod frames and of the lap behind it.
LEMMA LapValues ==
  ASSUME NEW A \in Nat \ {0}, NEW W, W = ((A - 1) \div SeqMod + 1) * SeqMod
  PROVE  /\ W \in Nat /\ A <= W /\ W <= A - 1 + SeqMod
         /\ \A x \in Nat : W <= x + SeqMod /\ x < W => x % SeqMod = x + SeqMod - W
         /\ \A x \in Nat : W <= x /\ x < W + SeqMod => x % SeqMod = x - W
<1>. DEFINE q == (A - 1) \div SeqMod
            a == (A - 1) % SeqMod
<1>1. SeqMod \in Nat /\ SeqMod > 1 /\ A - 1 \in Nat
  BY SeqModAssumption
<1>2. q \in Nat /\ a \in 0..(SeqMod - 1) /\ A - 1 = SeqMod * q + a
  BY <1>1, DivMod
<1>3. W = (q + 1) * SeqMod
  OBVIOUS
<1>. HIDE DEF q, a
<1>4. SeqMod * q \in Nat /\ W = SeqMod * q + SeqMod
  BY <1>1, <1>2, <1>3, ProductInNat
<1>5. W \in Nat /\ A <= W /\ W <= A - 1 + SeqMod
  BY <1>1, <1>2, <1>4
<1>6. ASSUME NEW x \in Nat, NEW p \in Int, NEW lap \in Nat, lap = SeqMod * p,
             lap <= x, x < lap + SeqMod
      PROVE  x % SeqMod = x - lap
  <2>1. /\ x \div SeqMod \in Nat /\ x % SeqMod \in 0..(SeqMod - 1)
        /\ x = SeqMod * (x \div SeqMod) + (x % SeqMod)
    BY <1>1, DivMod
  <2>. PICK d, r, s : d = x \div SeqMod /\ r = x % SeqMod /\ s = x - lap
    OBVIOUS
  <2>2. /\ d \in Int /\ r \in Int /\ 0 <= r /\ r < SeqMod /\ x = SeqMod * d + r
        /\ s \in Int /\ 0 <= s /\ s < SeqMod /\ x = lap + s /\ p \in Int
    BY <1>1, <1>6, <2>1
  <2>3. SeqMod * d + r = SeqMod * p + s
    BY <1>6, <2>2
  <2>4. r = s
    BY ONLY <1>1, <2>2, <2>3, DivUnique
  <2>. QED  BY <2>4
<1>7. ASSUME NEW x \in Nat, W <= x + SeqMod, x < W
      PROVE  x % SeqMod = x + SeqMod - W
  <2>1. x % SeqMod = x - SeqMod * q
    <3>1. q \in Int /\ SeqMod * q <= x /\ x < SeqMod * q + SeqMod
      BY <1>1, <1>2, <1>4, <1>7
    <3>. QED  BY <1>4, <1>6, <3>1
  <2>. QED  BY <1>1, <1>4, <2>1
<1>8. ASSUME NEW x \in Nat, W <= x, x < W + SeqMod
      PROVE  x % SeqMod = x - W
  <2>1. q + 1 \in Int /\ W = SeqMod * (q + 1)
    BY <1>1, <1>2, <1>3
  <2>. QED  BY <1>5, <1>6, <1>8, <2>1
<1>. QED  BY <1>5, <1>7, <1>8

LEMMA IncValue ==
  ASSUME NEW s \in SeqNums
  PROVE  Inc(s) = IF s = SeqMod - 1 THEN 0 ELSE s + 1
<1>1. SeqMod \in Nat /\ SeqMod > 1 /\ s \in 0..(SeqMod - 1) /\ s \in Nat
  BY SeqModAssumption DEF SeqNums
<1>2. s % SeqMod = s /\ 1 \in 0..SeqMod
  BY <1>1
<1>3. (s + 1) % SeqMod = IF (s % SeqMod) + 1 < SeqMod THEN (s % SeqMod) + 1
                         ELSE (s % SeqMod) + 1 - SeqMod
  BY <1>1, <1>2, ModPlus
<1>. QED  BY <1>1, <1>2, <1>3 DEF Inc

-----------------------------------------------------------------------------
(* The inductive invariant about numbers.  It says nothing of a tampered   *)
(* flow whose altered frame is the last of a lap: its number is 255, and   *)
(* OfInserted and Shifts hold of no number behind that.                    *)

WithinLap == alteredAt > 0 => alteredAt < WrapsAt

\* What router 4 has sent to the receiver, and the acks of it that have come back.
Forwarded == passed + (IF alteredAt > 0 THEN 1 ELSE 0)
Answered == Forwarded - Len(toReceiver) - Len(ack_output_queue) - Len(ackUplink)

\* The number the k-th of those frames has, and its ack with it, if the at-th was
\* altered (0: none) and late more came by before the drop.
ForwardedNumber(k, at, late) ==
  LET n == (k - 2) % SeqMod
  IN  IF at = 0 \/ k <= at + 1 THEN (k - 1) % SeqMod
      ELSE IF k > at + late + 1 /\ (at - 1) % SeqMod < n THEN Inc(n) ELSE n
ForwardedAs(queue, first, at, late) ==
  \A i \in DOMAIN queue : queue[i].seq_ack_num = ForwardedNumber(first + i, at, late)

FramesCounted == passed + Len(uplink) + Len(m_output_queue) = Len(sent)

SenderNumbers ==
  /\ LAR = (acked + SeqMod - 1) % SeqMod
  /\ LFS = (Len(sent) + SeqMod - 1) % SeqMod
  /\ SEQ = (Len(sent) + Len(pending_frame_list)) % SeqMod
  /\ Numbered(uplink, passed)
  /\ Numbered(m_output_queue, passed + Len(uplink))
  /\ Numbered(pending_frame_list, Len(sent))
  /\ acked <= Len(sent) /\ Len(sent) <= acked + SWS

ShiftedNumbers ==
  /\ m_hack_ack_data = IF alteredAt = 0 THEN {} ELSE {(alteredAt - 1) % SeqMod}
  /\ m_seq_ack_control_flag <=> alteredAt > 0 /\ Answered > alteredAt
  /\ alteredAt > 0 /\ ~m_seq_ack_control_flag => overtaken = passed - alteredAt
  /\ overtaken <= SWS
  /\ ForwardedAs(ackUplink, Answered, alteredAt, overtaken)
  /\ ForwardedAs(ack_output_queue, Answered + Len(ackUplink), alteredAt, overtaken)
  /\ ForwardedAs(toReceiver, Answered + Len(ackUplink) + Len(ack_output_queue),
                 alteredAt, overtaken)

\* The frame whose ack the sender never hears of.
Unheard == IF overtaken > 0 /\ alteredAt + overtaken < WrapsAt
           THEN alteredAt + overtaken ELSE WrapsAt
Astray == m_seq_ack_control_flag /\ acked >= alteredAt

\* Up to that of the altered frame, acks come in order; the later ones carry any number
\* but one.
InOrderUpTo(number, k, flag, at, unheard) ==
  IF flag /\ k > at THEN number # unheard ELSE number = (k - 1) % SeqMod
AcksHeard ==
  /\ \A m \in ack_marked : \E i \in (acked + 1)..Len(sent) : m = (i - 1) % SeqMod
  /\ IF Astray
     THEN /\ acked < Unheard /\ (Unheard - 1) % SeqMod \notin ack_marked
          /\ \A i \in DOMAIN toSender : toSender[i].seq_ack_num # (Unheard - 1) % SeqMod
     ELSE /\ ack_marked \subseteq {Inc(LAR)} /\ (ack_marked # {} => pc = "incoming")
          /\ IF m_seq_ack_control_flag THEN Heard + Len(toSender) >= alteredAt
             ELSE Heard + Len(toSender) = Answered
          /\ \A i \in DOMAIN toSender :
               InOrderUpTo(toSender[i].seq_ack_num, Heard + i, m_seq_ack_control_flag, alteredAt,
                           (Unheard - 1) % SeqMod)

NumbersInv == FramesCounted /\ (WithinLap => SenderNumbers /\ ShiftedNumbers /\ AcksHeard)

-----------------------------------------------------------------------------
(* Queues between router 4 and the receiver.                               *)

LEMMA ForwardedTakeFirst ==
  ASSUME NEW S, NEW queue \in Seq(S), queue # <<>>, NEW first \in Int, NEW at, NEW late,
         ForwardedAs(queue, first, at, late)
  PROVE  /\ Head(queue).seq_ack_num = ForwardedNumber(first + 1, at, late)
         /\ ForwardedAs(Tail(queue), first + 1, at, late)
<1>1. /\ 1 \in DOMAIN queue /\ Head(queue) = queue[1]
      /\ \A i \in DOMAIN Tail(queue) : /\ Tail(queue)[i] = queue[i + 1] /\ i + 1 \in DOMAIN queue
                                       /\ first + (i + 1) = (first + 1) + i
  OBVIOUS
<1>. QED  BY <1>1 DEF ForwardedAs

LEMMA ForwardedAddLast ==
  ASSUME NEW S, NEW queue \in Seq(S), NEW elem \in S, NEW first \in Int, NEW at, NEW late,
         ForwardedAs(queue, first, at, late),
         elem.seq_ack_num = ForwardedNumber(first + Len(queue) + 1, at, late)
  PROVE  ForwardedAs(Append(queue, elem), first, at, late)
<1>1. \A i \in DOMAIN Append(queue, elem) :
        \/ Append(queue, elem)[i] = elem /\ first + i = first + Len(queue) + 1
        \/ i \in DOMAIN queue /\ Append(queue, elem)[i] = queue[i]
  OBVIOUS
<1>. QED  BY <1>1 DEF ForwardedAs

LEMMA ForwardedMoveBehind ==
  ASSUME NEW S, NEW queue \in Seq(S), NEW rest \in Seq(S), NEW first \in Int, NEW at, NEW late,
         ForwardedAs(queue, first, at, late), ForwardedAs(rest, first + Len(queue), at, late)
  PROVE  ForwardedAs(queue \o rest, first, at, late)
<1>. DEFINE both == queue \o rest
<1>1. /\ Len(queue) \in Nat /\ Len(rest) \in Nat
      /\ DOMAIN queue = 1..Len(queue) /\ DOMAIN rest = 1..Len(rest)
      /\ DOMAIN both = 1..(Len(queue) + Len(rest))
      /\ \A i \in 1..(Len(queue) + Len(rest)) :
           both[i] = IF i <= Len(queue) THEN queue[i] ELSE rest[i - Len(queue)]
  BY ConcatProperties
<1>2. \A i \in DOMAIN both :
        \/ i \in DOMAIN queue /\ both[i] = queue[i]
        \/ /\ i - Len(queue) \in DOMAIN rest /\ both[i] = rest[i - Len(queue)]
           /\ first + Len(queue) + (i - Len(queue)) = first + i
  BY <1>1
<1>. HIDE DEF both
<1>. QED  BY <1>2 DEF ForwardedAs, both

LEMMA ForwardedStable ==
  ASSUME NEW S, NEW queue \in Seq(S), NEW first \in Int, NEW at, NEW late, NEW at2, NEW late2,
         ForwardedAs(queue, first, at, late),
         \A k \in (first + 1)..(first + Len(queue)) :
           ForwardedNumber(k, at2, late2) = ForwardedNumber(k, at, late)
  PROVE  ForwardedAs(queue, first, at2, late2)
<1>1. \A i \in DOMAIN queue : first + i \in (first + 1)..(first + Len(queue))
  OBVIOUS
<1>. QED  BY <1>1 DEF ForwardedAs

-----------------------------------------------------------------------------
(* Arithmetic of the lap.                                                  *)

\* Whatever router 4 makes of the acks behind that of the inserted frame, none has the
\* number of the frame that stays unheard of.
LEMMA NeverHeard ==
  ASSUME alteredAt \in Nat \ {0}, alteredAt < WrapsAt, overtaken \in Nat, overtaken <= SWS,
         NEW k \in Nat, alteredAt + 1 < k, k <= Unheard + SWS,
         NEW n, n = ForwardedNumber(k, alteredAt, overtaken)
  PROVE  (IF (alteredAt - 1) % SeqMod < n THEN n - 1 ELSE n) # (Unheard - 1) % SeqMod
<1>. PICK A, W, M, O, U, x :
       A = alteredAt /\ W = WrapsAt /\ M = SeqMod /\ O = overtaken /\ U = Unheard /\ x = k - 2
  OBVIOUS
<1>. PICK a, r, s : a = (A - 1) % M /\ r = x % M /\ s = (U - 1) % M
  OBVIOUS
<1>1. /\ A \in Nat \ {0} /\ M \in Nat /\ M > 1 /\ O \in Nat /\ O <= SWS /\ SWS \in 1..(M - 1)
      /\ A < W
  BY SeqModAssumption, WindowAssumption
<1>2. /\ W \in Nat /\ W <= A - 1 + M
      /\ \A y \in Nat : W <= y + M /\ y < W => y % M = y + M - W
      /\ \A y \in Nat : W <= y /\ y < W + M => y % M = y - W
  BY <1>1, LapValues DEF WrapsAt
<1>3. U = IF O > 0 /\ A + O < W THEN A + O ELSE W
  BY DEF Unheard
<1>4. x \in Nat /\ A <= x /\ x <= U + SWS - 2 /\ x = k - 2
  BY <1>1, <1>2, <1>3
<1>5. a = A - 1 + M - W /\ s = U - 1 + M - W
  <2>1. A - 1 \in Nat /\ U - 1 \in Nat /\ U - 1 < W /\ A <= U - 1 /\ A - 1 < W
        /\ W <= (A - 1) + M /\ W <= (U - 1) + M
    BY <1>1, <1>2, <1>3
  <2>2. (A - 1) % M = (A - 1) + M - W
    BY ONLY <1>2, <2>1
  <2>3. (U - 1) % M = (U - 1) + M - W
    BY ONLY <1>2, <2>1
  <2>. QED  BY <2>2, <2>3
<1>6. r = IF x < W THEN x + M - W ELSE x - W
  <2>1. x < W + M /\ W <= x + M
    BY <1>1, <1>2, <1>3, <1>4
  <2>. QED  BY <1>2, <1>4, <2>1
<1>7. n = IF x >= A + O /\ a < r THEN (IF r = M - 1 THEN 0 ELSE r + 1) ELSE r
  <2>1. r \in SeqNums /\ ~(k <= alteredAt + 1) /\ ~(alteredAt = 0)
    BY <1>1, <1>4, ModType
  <2>2. (k > alteredAt + overtaken + 1) = (x >= A + O)
    BY <1>1, <1>4
  <2>3. n = IF k > alteredAt + overtaken + 1 /\ a < r THEN Inc(r) ELSE r
    BY <1>4, <2>1 DEF ForwardedNumber
  <2>. QED  BY ONLY <2>1, <2>2, <2>3, IncValue, M = SeqMod
<1>8. (IF a < n THEN n - 1 ELSE n) # s
  BY ONLY <1>1, <1>2, <1>3, <1>4, <1>5, <1>6, <1>7
<1>. QED  BY <1>8

-----------------------------------------------------------------------------
(* The counts the arithmetic of the proof is about.                        *)

LEMMA TamperLengths ==
  ASSUME TTypes
  PROVE  /\ Len(sent) \in Nat /\ Len(pending_frame_list) \in Nat
         /\ Len(toReceiver) \in Nat /\ Len(uplink) \in Nat /\ Len(m_output_queue) \in Nat
         /\ Len(toSender) \in Nat /\ Len(ackUplink) \in Nat /\ Len(ack_output_queue) \in Nat
BY LenProperties DEF TTypes, SenderSide, ReceiverSide

LEMMA WindowNumbers == SWS \in 1..(SeqMod - 1) /\ SWS \in Nat /\ SeqMod \in Nat /\ SeqMod > 1
BY SeqModAssumption, WindowAssumption

LEMMA RouterCounts ==
  ASSUME TTypes
  PROVE  /\ passed \in Nat /\ alteredAt \in Nat /\ overtaken \in Nat
         /\ alteredAt <= passed /\ overtaken <= passed - alteredAt
         /\ Forwarded \in Nat
         /\ Forwarded = IF alteredAt > 0 THEN passed + 1 ELSE passed
         /\ Answered \in Int
         /\ Answered + Len(toReceiver) + Len(ack_output_queue) + Len(ackUplink) = Forwarded
<1>1. /\ passed \in Nat /\ alteredAt \in 0..passed /\ overtaken \in 0..(passed - alteredAt)
  BY DEF TTypes, Remembered
<1>2. Forwarded \in Nat /\ Forwarded = IF alteredAt > 0 THEN passed + 1 ELSE passed
  BY <1>1 DEF Forwarded
<1>. QED  BY <1>1, <1>2, TamperLengths DEF Answered

LEMMA HostCounts ==
  ASSUME TTypes
  PROVE  /\ acked \in Nat /\ Heard \in Nat /\ acked <= Heard
         /\ Heard = IF AdvancingLAR THEN acked + 1 ELSE acked
<1>1. acked \in Nat
  BY DEF TTypes, SenderSide
<1>. QED  BY <1>1 DEF Heard

\* How far the sender, router 4 and the receiver are ahead of each other.
LEMMA TamperOrder ==
  ASSUME TTypes, FramesCounted, SenderNumbers, ShiftedNumbers, AcksHeard
  PROVE  /\ passed <= Len(sent) /\ Heard <= Len(sent)
         /\ Answered \in Nat
         /\ ~m_seq_ack_control_flag => Answered <= passed /\ acked <= Answered
         /\ alteredAt > 0 /\ ~m_seq_ack_control_flag => Answered <= alteredAt
         /\ m_seq_ack_control_flag => Answered > alteredAt /\ alteredAt > 0
<1>1. passed <= Len(sent)
  BY TamperLengths, RouterCounts DEF FramesCounted
<1>2. Heard <= Len(sent)
  <2>1. CASE AdvancingLAR
    <3>1. PICK i \in (acked + 1)..Len(sent) : TRUE
      BY <2>1 DEF AdvancingLAR, AcksHeard
    <3>. QED  BY <2>1, <3>1, HostCounts, TamperLengths
  <2>2. CASE ~AdvancingLAR
    BY <2>2, HostCounts DEF SenderNumbers
  <2>. QED  BY <2>1, <2>2
<1>3. m_seq_ack_control_flag => Answered > alteredAt /\ alteredAt > 0
  BY DEF ShiftedNumbers
<1>4. alteredAt > 0 /\ ~m_seq_ack_control_flag => Answered <= alteredAt
  BY RouterCounts DEF ShiftedNumbers
<1>5. ~m_seq_ack_control_flag => Heard + Len(toSender) = Answered
  BY DEF AcksHeard, Astray
<1>6. Answered \in Nat
  <2>1. CASE m_seq_ack_control_flag
    BY <2>1, <1>3, RouterCounts
  <2>2. CASE ~m_seq_ack_control_flag
    BY <2>2, <1>5, HostCounts, TamperLengths
  <2>. QED  BY <2>1, <2>2
<1>7. ~m_seq_ack_control_flag => acked <= Answered
  BY <1>5, HostCounts, TamperLengths
<1>8. ~m_seq_ack_control_flag => Answered <= passed
  <2>1. CASE alteredAt > 0
    BY <2>1, <1>4, <1>6, RouterCounts
  <2>2. CASE ~(alteredAt > 0)
    BY <2>2, <1>6, RouterCounts, TamperLengths
  <2>. QED  BY <2>1, <2>2
<1>. QED  BY <1>1, <1>2, <1>3, <1>4, <1>6, <1>7, <1>8

LEMMA NumbersInit == TInit => NumbersInv
<1>. SUFFICES ASSUME TInit PROVE NumbersInv
  OBVIOUS
<1>1. Len(<<>>) = 0 /\ alteredAt = 0 /\ passed = 0 /\ acked = 0 /\ overtaken = 0
  BY DEF TInit, Init
<1>2. Len(sent) = 0 /\ Len(toReceiver) = 0 /\ Len(ackUplink) = 0 /\ Len(ack_output_queue) = 0
      /\ Len(toSender) = 0 /\ Len(pending_frame_list) = 0 /\ Len(uplink) = 0
      /\ Len(m_output_queue) = 0
  BY <1>1 DEF TInit, Init
<1>3. Forwarded = 0 /\ Answered = 0
  BY <1>1, <1>2 DEF Forwarded, Answered
<1>4. ~AdvancingLAR /\ Heard = 0
  BY <1>1 DEF TInit, Init, AdvancingLAR, Heard
<1>5. SeqMod \in Nat /\ SeqMod > 1 /\ SWS \in Nat
  BY WindowNumbers
<1>6. SenderNumbers
  <2>1. (0 + SeqMod - 1) % SeqMod = SeqMod - 1 /\ (0 + 0) % SeqMod = 0
    BY <1>5
  <2>2. \A first : Numbered(<<>>, first)
    BY EmptyQueue
  <2>3. uplink = <<>> /\ m_output_queue = <<>> /\ pending_frame_list = <<>>
        /\ LAR = SeqMod - 1 /\ LFS = SeqMod - 1 /\ SEQ = 0
    BY DEF TInit, Init
  <2>. QED  BY <1>1, <1>2, <1>5, <2>1, <2>2, <2>3 DEF SenderNumbers
<1>7. ShiftedNumbers
  BY <1>1, <1>3, <1>5 DEF TInit, Init, ShiftedNumbers, ForwardedAs
<1>8. AcksHeard
  BY <1>2, <1>3, <1>4 DEF TInit, Init, AcksHeard, Astray
<1>9. FramesCounted
  BY <1>1, <1>2 DEF FramesCounted
<1>. QED  BY <1>6, <1>7, <1>8, <1>9 DEF NumbersInv

\* With one or more to come before the count wraps to zero, handleIncomingRouterMessage
\* marks only frames of the window.
LEMMA AckMeans ==
  ASSUME NEW a \in Nat, NEW e \in 0..SWS, NEW n \in SeqNums,
         LAR = (a + SeqMod - 1) % SeqMod, LFS = (a + e + SeqMod - 1) % SeqMod,
         a % SeqMod # 0, AckAcceptable(n)
  PROVE  \E i \in (a + 1)..(a + e) : n = (i - 1) % SeqMod
<1>. PICK M, r : M = SeqMod /\ r = a % SeqMod
  OBVIOUS
<1>1. M \in Nat /\ M > 1 /\ SWS < M /\ SWS \in Nat /\ n \in 0..(M - 1) /\ e \in 0..M /\ e <= SWS
  BY SeqModAssumption, WindowAssumption DEF SeqNums
<1>2. r \in 1..(M - 1) /\ (a + e) % M = IF r + e < M THEN r + e ELSE r + e - M
  <2>1. e \in 0..SeqMod
    BY <1>1
  <2>. QED  BY <2>1, ModPlus
<1>3. LAR = r - 1 /\ Inc(LAR) = r
  <2>1. LAR = IF r = 0 THEN M - 1 ELSE r - 1
    BY BehindValue
  <2>. QED  BY <1>2, <2>1, BehindNext
<1>4. LFS = IF (a + e) % M = 0 THEN M - 1 ELSE ((a + e) % M) - 1
  <2>1. a + e \in Nat
    BY <1>1
  <2>. QED  BY <2>1, BehindValue
<1>5. \/ r <= n /\ n <= LFS
      \/ LFS < r - 1 /\ (r <= n \/ n <= LFS)
  BY <1>3 DEF AckAcceptable
<1>. PICK d : d = IF r <= n THEN n - r ELSE n + M - r
  OBVIOUS
<1>6. d \in 0..(e - 1) /\ n = IF r + d < M THEN r + d ELSE r + d - M
  <2>1. e \in Int /\ M \in Int /\ r \in Int /\ n \in Int /\ 0 <= n /\ n < M /\ 1 <= r /\ r < M
        /\ 0 <= e /\ e < M
    BY <1>1, <1>2
  <2>2. LFS = IF r + e < M THEN r + e - 1 ELSE IF r + e = M THEN M - 1 ELSE r + e - M - 1
    BY ONLY <1>2, <1>4, <2>1
  <2>3. \/ r <= n /\ n < r + e
        \/ n < r /\ M <= r + e /\ n + M < r + e
    BY ONLY <1>5, <2>1, <2>2
  <2>. QED  BY <2>1, <2>3
<1>7. n = (a + d) % M
  <2>1. d \in 0..SeqMod
    BY <1>1, <1>6
  <2>. QED  BY <1>6, <2>1, ModPlus
<1>8. a + d + 1 \in (a + 1)..(a + e) /\ (a + d + 1) - 1 = a + d
  BY <1>1, <1>6
<1>. QED  BY <1>7, <1>8

-----------------------------------------------------------------------------
(* What a step leaves alone.                                               *)

LEMMA FramesCountedSame ==
  ASSUME FramesCounted, UNCHANGED <<passed, uplink, m_output_queue, sent>>
  PROVE  FramesCounted'
BY DEF FramesCounted

LEMMA SenderNumbersSame ==
  ASSUME SenderNumbers,
         UNCHANGED <<LAR, LFS, SEQ, acked, sent, pending_frame_list, passed, uplink, m_output_queue>>
  PROVE  SenderNumbers'
BY DEF SenderNumbers, Numbered

LEMMA ShiftedNumbersSame ==
  ASSUME ShiftedNumbers,
         UNCHANGED <<tamperVars, tamperHistory, toReceiver, ack_output_queue, ackUplink>>
  PROVE  /\ ShiftedNumbers' /\ Forwarded' = Forwarded /\ Answered' = Answered
<1>1. Forwarded' = Forwarded /\ Answered' = Answered
  BY DEF Forwarded, Answered, tamperHistory
<1>. QED  BY <1>1 DEF ShiftedNumbers, tamperVars, tamperHistory

LEMMA TamperSame ==
  ASSUME UNCHANGED <<tamperVars, tamperHistory>>
  PROVE  /\ Unheard' = Unheard /\ WrapsAt' = WrapsAt /\ WithinLap' = WithinLap
         /\ UNCHANGED <<m_hack_ack_data, m_seq_ack_control_flag, passed, alteredAt, overtaken>>
BY DEF tamperVars, tamperHistory, Unheard, WrapsAt, WithinLap

LEMMA AcksHeardSame ==
  ASSUME AcksHeard, UNCHANGED <<tamperVars, tamperHistory, LAR, acked, sent, ack_marked, toSender,
                                toReceiver, ack_output_queue, ackUplink>>,
         pc' = pc \/ pc' = "incoming" \/ ~AdvancingLAR
  PROVE  AcksHeard'
<1>1. /\ Unheard' = Unheard
      /\ UNCHANGED <<m_seq_ack_control_flag, alteredAt>>
  BY TamperSame
<1>2. Answered' = Answered
  BY DEF Forwarded, Answered, tamperHistory
<1>3. Heard' = Heard /\ Astray' = Astray /\ AdvancingLAR' = AdvancingLAR
  BY <1>1 DEF Heard, Astray, AdvancingLAR
<1>4. ack_marked \subseteq {Inc(LAR)} /\ (ack_marked # {} => pc = "incoming")
      => ack_marked' \subseteq {Inc(LAR')} /\ (ack_marked' # {} => pc' = "incoming")
  BY DEF AdvancingLAR
<1>. QED  BY <1>1, <1>2, <1>3, <1>4 DEF AcksHeard

-----------------------------------------------------------------------------
(* The sender thread.                                                      *)

LEMMA HandleAckNumbers ==
  ASSUME TTypes, WithinLap, FramesCounted, SenderNumbers, ShiftedNumbers, AcksHeard,
         HandleAck, UNCHANGED <<tamperVars, tamperHistory>>
  PROVE  AcksHeard'
<1>. DEFINE n == Head(toSender).seq_ack_num
<1>1. /\ ~AdvancingLAR /\ Heard = acked /\ acked \in Nat
      /\ UNCHANGED <<LAR, acked, sent, toReceiver, ack_output_queue, ackUplink>>
      /\ ack_marked' = IF AckAcceptable(n) THEN ack_marked \cup {n} ELSE ack_marked
      /\ pc' = "incoming"
  BY HostCounts DEF HandleAck, userVars, receiverVars, frameLinks
<1>2. /\ Unheard' = Unheard
      /\ UNCHANGED <<m_seq_ack_control_flag, alteredAt>>
  BY TamperSame
<1>3. Answered' = Answered /\ Astray' = Astray
  BY <1>1, <1>2, ShiftedNumbersSame DEF Astray
<1>4. /\ toSender \in Seq(Acks) /\ toSender # <<>> /\ toSender' = Tail(toSender)
      /\ 1 \in DOMAIN toSender /\ n = toSender[1].seq_ack_num /\ n \in SeqNums
      /\ Len(toSender') = Len(toSender) - 1 /\ Len(toSender) \in Nat /\ Len(toSender) > 0
      /\ \A i \in DOMAIN toSender' : /\ i + 1 \in DOMAIN toSender /\ i \in Nat
                                     /\ toSender'[i] = toSender[i + 1]
  <2>1. toSender \in Seq(Acks) /\ toSender # <<>> /\ toSender' = Tail(toSender)
    BY DEF TTypes, SenderSide, HandleAck
  <2>2. /\ 1 \in DOMAIN toSender /\ n = toSender[1].seq_ack_num
        /\ Len(toSender') = Len(toSender) - 1 /\ Len(toSender) \in Nat /\ Len(toSender) > 0
    BY <2>1
  <2>3. toSender[1] \in Acks
    BY <2>1, <2>2
  <2>4. n \in SeqNums
    BY <2>2, <2>3 DEF Acks
  <2>5. \A i \in DOMAIN toSender' : /\ i + 1 \in DOMAIN toSender /\ i \in Nat
                                   /\ toSender'[i] = toSender[i + 1]
    BY <2>1
  <2>. QED  BY <2>1, <2>2, <2>4, <2>5
<1>. HIDE DEF n
<1>5. LAR = (acked + SeqMod - 1) % SeqMod /\ LFS = (Len(sent) + SeqMod - 1) % SeqMod
      /\ acked <= Len(sent) /\ Len(sent) <= acked + SWS /\ Len(sent) \in Nat
  BY TamperLengths DEF SenderNumbers
<1>6. Inc(LAR) = acked % SeqMod
  BY <1>1, <1>5, BehindNext
<1>7. PICK e : e = Len(sent) - acked
  OBVIOUS
<1>8. e \in 0..SWS /\ acked + e = Len(sent)
  BY <1>1, <1>5, <1>7, WindowNumbers
<1>9. CASE Astray
  <2>1. acked < Unheard /\ (Unheard - 1) % SeqMod \notin ack_marked
        /\ \A i \in DOMAIN toSender : toSender[i].seq_ack_num # (Unheard - 1) % SeqMod
    BY <1>9 DEF AcksHeard
  <2>2. (Unheard - 1) % SeqMod \notin ack_marked'
    BY <1>1, <1>4, <2>1
  <2>3. \A i \in DOMAIN toSender' : toSender'[i].seq_ack_num # (Unheard - 1) % SeqMod
    BY <1>4, <2>1
  <2>4. acked % SeqMod # 0
    <3>1. m_seq_ack_control_flag /\ alteredAt <= acked /\ alteredAt > 0 /\ alteredAt < WrapsAt
          /\ alteredAt \in Nat /\ overtaken \in Nat
      BY <1>9, TamperOrder, RouterCounts DEF Astray, WithinLap
    <3>. PICK W : W = WrapsAt
      OBVIOUS
    <3>2. /\ W \in Nat /\ W <= alteredAt - 1 + SeqMod
          /\ \A x \in Nat : W <= x + SeqMod /\ x < W => x % SeqMod = x + SeqMod - W
      BY <3>1, LapValues DEF WrapsAt
    <3>3. Unheard <= W
      BY <3>1, <3>2 DEF Unheard
    <3>4. W <= acked + SeqMod /\ acked < W
      <4>1. Unheard \in Int
        BY <3>1, <3>2 DEF Unheard
      <4>. QED  BY <1>1, <2>1, <3>1, <3>2, <3>3, <4>1, WindowNumbers
    <3>5. acked % SeqMod = acked + SeqMod - W
      BY ONLY <1>1, <3>2, <3>4
    <3>. QED  BY <1>1, <3>1, <3>2, <3>5, WindowNumbers
  <2>5. \A m \in ack_marked' : \E i \in (acked + 1)..Len(sent) : m = (i - 1) % SeqMod
    <3>1. AckAcceptable(n) => \E i \in (acked + 1)..Len(sent) : n = (i - 1) % SeqMod
      <4>. HAVE AckAcceptable(n)
      <4>1. LFS = (acked + e + SeqMod - 1) % SeqMod
        BY <1>5, <1>8
      <4>2. \E i \in (acked + 1)..(acked + e) : n = (i - 1) % SeqMod
        BY <1>1, <1>4, <1>5, <1>8, <2>4, <4>1, AckMeans
      <4>. QED  BY <1>8, <4>2
    <3>. QED  BY <1>1, <3>1 DEF AcksHeard
  <2>. QED  BY <1>1, <1>2, <1>3, <1>9, <2>1, <2>2, <2>3, <2>5 DEF AcksHeard
<1>10. CASE ~Astray
  <2>1. /\ ack_marked = {}
        /\ IF m_seq_ack_control_flag THEN Heard + Len(toSender) >= alteredAt
           ELSE Heard + Len(toSender) = Answered
        /\ \A i \in DOMAIN toSender :
             InOrderUpTo(toSender[i].seq_ack_num, Heard + i, m_seq_ack_control_flag, alteredAt,
                         (Unheard - 1) % SeqMod)
    BY <1>1, <1>10 DEF AcksHeard, AdvancingLAR
  <2>2. acked < Len(sent)
    <3>1. CASE m_seq_ack_control_flag
      BY <1>1, <1>5, <1>10, <3>1, TamperOrder, RouterCounts DEF Astray
    <3>2. CASE ~m_seq_ack_control_flag
      BY <1>1, <1>4, <1>5, <2>1, <3>2, TamperOrder, RouterCounts
    <3>. QED  BY <3>1, <3>2
  <2>3. n = acked % SeqMod
    <3>1. ~(m_seq_ack_control_flag /\ Heard + 1 > alteredAt)
      BY <1>1, <1>10, RouterCounts DEF Astray
    <3>2. n = (Heard + 1 - 1) % SeqMod
      <4>1. InOrderUpTo(n, Heard + 1, m_seq_ack_control_flag, alteredAt, (Unheard - 1) % SeqMod)
        BY <1>4, <2>1
      <4>. QED  BY <1>1, <3>1, <4>1, RouterCounts DEF InOrderUpTo
    <3>. QED  BY <1>1, <3>2
  <2>4. AckAcceptable(n)
    <3>1. e \in 1..SWS /\ LFS = (acked + e + SeqMod - 1) % SeqMod
      BY <1>1, <1>5, <1>7, <1>8, <2>2
    <3>. QED  BY <1>1, <1>5, <2>3, <3>1, AckIsAcceptable
  <2>5. ack_marked' = {Inc(LAR)}
    BY <1>1, <1>6, <2>1, <2>3, <2>4
  <2>6. Heard' = acked + 1
    BY <1>1, <2>5 DEF Heard, AdvancingLAR
  <2>7. \A m \in ack_marked' : \E i \in (acked + 1)..Len(sent) : m = (i - 1) % SeqMod
    <3>1. acked + 1 \in (acked + 1)..Len(sent) /\ (acked + 1) - 1 = acked
      BY <1>1, <1>5, <2>2
    <3>. QED  BY <1>6, <2>5, <3>1
  <2>8. Heard' + Len(toSender') = Heard + Len(toSender)
    BY <1>1, <1>4, <2>6
  <2>9. \A i \in DOMAIN toSender' :
          InOrderUpTo(toSender'[i].seq_ack_num, Heard' + i, m_seq_ack_control_flag, alteredAt,
                      (Unheard - 1) % SeqMod)
    <3>. TAKE i \in DOMAIN toSender'
    <3>1. InOrderUpTo(toSender[i + 1].seq_ack_num, Heard + (i + 1), m_seq_ack_control_flag,
                      alteredAt, (Unheard - 1) % SeqMod)
      BY <1>4, <2>1
    <3>2. Heard' + i = Heard + (i + 1) /\ toSender'[i] = toSender[i + 1]
      BY <1>1, <1>4, <2>6
    <3>. QED  BY <3>1, <3>2
  <2>. QED  BY <1>1, <1>2, <1>3, <1>10, <2>1, <2>5, <2>7, <2>8, <2>9 DEF AcksHeard
<1>. QED  BY <1>9, <1>10

LEMMA AdvanceLARNumbers ==
  ASSUME TTypes, WithinLap, FramesCounted, SenderNumbers, ShiftedNumbers, AcksHeard,
         AdvanceLAR, UNCHANGED <<tamperVars, tamperHistory>>
  PROVE  SenderNumbers' /\ AcksHeard'
<1>1. /\ AdvancingLAR /\ Heard = acked + 1 /\ acked \in Nat /\ acked' = acked + 1
      /\ ack_marked' = ack_marked \ {Inc(LAR)} /\ LAR' = Inc(LAR) /\ pc' = "incoming"
      /\ UNCHANGED <<LFS, SEQ, sent, pending_frame_list, toSender, uplink, m_output_queue,
                     toReceiver, ack_output_queue, ackUplink>>
  BY HostCounts DEF AdvanceLAR, userVars, receiverVars, frameLinks, ackLinks
<1>2. /\ Unheard' = Unheard
      /\ UNCHANGED <<m_seq_ack_control_flag, alteredAt, passed>>
  BY TamperSame
<1>3. Answered' = Answered
  BY <1>1, ShiftedNumbersSame
<1>4. LAR = (acked + SeqMod - 1) % SeqMod /\ Len(sent) <= acked + SWS /\ Len(sent) \in Nat
  BY TamperLengths DEF SenderNumbers
<1>5. Inc(LAR) = acked % SeqMod /\ LAR' = (acked' + SeqMod - 1) % SeqMod
  <2>1. Inc(LAR) = acked % SeqMod
    BY <1>1, <1>4, BehindNext
  <2>2. acked' + SeqMod - 1 = acked + SeqMod
    BY <1>1, WindowNumbers
  <2>. QED  BY <1>1, <2>1, <2>2, ModTurn
<1>6. acked + 1 <= Len(sent)
  BY <1>1, TamperOrder
<1>7. SenderNumbers'
  <2>1. acked' <= Len(sent) /\ Len(sent) <= acked' + SWS
    BY <1>1, <1>4, <1>6, WindowNumbers
  <2>. QED  BY <1>1, <1>2, <1>5, <2>1 DEF SenderNumbers, Numbered
<1>8. \A m \in ack_marked' : \E i \in (acked' + 1)..Len(sent) : m = (i - 1) % SeqMod
  <2>. TAKE m \in ack_marked'
  <2>1. m \in ack_marked /\ m # acked % SeqMod
    BY <1>1, <1>5
  <2>2. PICK i \in (acked + 1)..Len(sent) : m = (i - 1) % SeqMod
    BY <2>1 DEF AcksHeard
  <2>3. i # acked + 1
    BY <1>1, <2>1, <2>2
  <2>4. i \in (acked' + 1)..Len(sent)
    BY <1>1, <1>4, <2>2, <2>3
  <2>. QED  BY <2>2, <2>4
<1>9. ASSUME Astray PROVE AcksHeard'
  <2>1. acked < Unheard /\ (Unheard - 1) % SeqMod \notin ack_marked
        /\ \A i \in DOMAIN toSender : toSender[i].seq_ack_num # (Unheard - 1) % SeqMod
    BY <1>9 DEF AcksHeard
  <2>2. alteredAt \in Nat /\ overtaken \in Nat /\ alteredAt > 0 /\ alteredAt <= acked
        /\ m_seq_ack_control_flag
    BY <1>9, TamperOrder, RouterCounts DEF Astray
  <2>3. Unheard \in Int
    <3>1. WrapsAt \in Nat
      BY <2>2, LapValues DEF WrapsAt
    <3>. QED  BY <2>2, <3>1 DEF Unheard
  <2>4. acked % SeqMod \in ack_marked
    BY <1>1, <1>5 DEF AdvancingLAR
  <2>5. acked # Unheard - 1
    BY <2>1, <2>4
  <2>6. acked' < Unheard /\ acked' >= alteredAt
    BY <1>1, <2>1, <2>2, <2>3, <2>5
  <2>7. Astray'
    BY <1>2, <2>2, <2>6 DEF Astray
  <2>. QED  BY <1>1, <1>2, <1>8, <2>1, <2>6, <2>7 DEF AcksHeard
<1>10. ASSUME ~Astray PROVE AcksHeard'
  <2>1. /\ ack_marked \subseteq {Inc(LAR)}
        /\ IF m_seq_ack_control_flag THEN Heard + Len(toSender) >= alteredAt
           ELSE Heard + Len(toSender) = Answered
        /\ \A i \in DOMAIN toSender :
             InOrderUpTo(toSender[i].seq_ack_num, Heard + i, m_seq_ack_control_flag, alteredAt,
                         (Unheard - 1) % SeqMod)
    BY <1>10 DEF AcksHeard
  <2>2. ack_marked' = {} /\ Heard' = Heard
    <3>1. ack_marked' = {}
      BY <1>1, <2>1
    <3>. QED  BY <1>1, <3>1 DEF Heard, AdvancingLAR
  <2>3. CASE ~(Astray')
    BY <1>1, <1>2, <1>3, <1>8, <2>1, <2>2, <2>3 DEF AcksHeard
  <2>4. CASE Astray'
    <3>1. m_seq_ack_control_flag /\ acked + 1 = alteredAt /\ alteredAt \in Nat
      BY <1>1, <1>2, <1>10, <2>4, RouterCounts DEF Astray
    <3>2. \A i \in DOMAIN toSender : toSender[i].seq_ack_num # (Unheard - 1) % SeqMod
      <4>. TAKE i \in DOMAIN toSender
      <4>1. i \in Nat /\ i > 0
        <5>1. toSender \in Seq(Acks)
          BY DEF TTypes, SenderSide
        <5>. QED  BY <5>1
      <4>2. Heard + i > alteredAt
        BY <1>1, <3>1, <4>1
      <4>. QED  BY <2>1, <3>1, <4>2 DEF InOrderUpTo
    <3>3. acked' < Unheard
      <4>1. alteredAt > 0 /\ alteredAt < WrapsAt /\ overtaken \in Nat
        BY <3>1, TamperOrder, RouterCounts DEF WithinLap
      <4>2. WrapsAt \in Nat
        BY <3>1, <4>1, LapValues DEF WrapsAt
      <4>. QED  BY <1>1, <3>1, <4>1, <4>2 DEF Unheard
    <3>. QED  BY <1>1, <1>2, <1>8, <2>2, <2>4, <3>2, <3>3 DEF AcksHeard
  <2>. QED  BY <2>3, <2>4
<1>. QED  BY <1>7, <1>9, <1>10

LEMMA HandleUserInputNumbers ==
  ASSUME TTypes, SenderNumbers, HandleUserInput, UNCHANGED <<tamperVars, tamperHistory>>
  PROVE  SenderNumbers'
<1>. DEFINE message == Head(m_user_input_queue)
            next == Len(sent) + Len(pending_frame_list)
            len == NumOfChunks(message.length)
<1>1. /\ message \in Messages /\ len \in Nat
      /\ SEQ \in SeqNums /\ pending_frame_list \in Seq(Frames)
      /\ FramesOf(message) \in Seq(Frames) /\ Len(FramesOf(message)) = len
  BY HeadTailProperties, SplitType, FramesOfType DEF TTypes, SenderSide, HandleUserInput
<1>2. /\ next \in Nat /\ SEQ = next % SeqMod /\ Len(sent) \in Nat
      /\ Len(pending_frame_list) \in Nat /\ Numbered(pending_frame_list, Len(sent))
  BY TamperLengths DEF SenderNumbers
<1>3. Numbered(FramesOf(message), next)
  <2>1. /\ DOMAIN FramesOf(message) = 1..len
        /\ \A i \in 1..len :
             FramesOf(message)[i].seq_ack_num = (SEQ + i - 1) % SeqMod
    BY <1>1, SplitType DEF FramesOf
  <2>2. ASSUME NEW i \in 1..len
        PROVE  (SEQ + i - 1) % SeqMod = (next + i - 1) % SeqMod
    <3>. DEFINE d == i - 1
    <3>1. d \in Nat /\ SEQ + i - 1 = SEQ + d /\ next + i - 1 = next + d
      BY <1>1, <1>2 DEF SeqNums
    <3>. HIDE DEF d, next
    <3>2. ((next % SeqMod) + d) % SeqMod = (next + d) % SeqMod
      BY <1>2, <3>1, SeqModAssumption, ModAddMod
    <3>. QED  BY <1>2, <3>1, <3>2
  <2>. QED  BY <2>1, <2>2 DEF Numbered
<1>4. /\ pending_frame_list' = pending_frame_list \o FramesOf(message)
      /\ Len(pending_frame_list') = Len(pending_frame_list) + len
      /\ Numbered(pending_frame_list', Len(sent))
  <2>1. pending_frame_list' = pending_frame_list \o FramesOf(message)
    BY DEF HandleUserInput
  <2>2. Len(pending_frame_list \o FramesOf(message))
          = Len(pending_frame_list) + Len(FramesOf(message))
    BY <1>1, ConcatProperties
  <2>. HIDE DEF message
  <2>3. Numbered(pending_frame_list \o FramesOf(message), Len(sent))
    BY <1>1, <1>2, <1>3, MoveBehind
  <2>. QED  BY <1>1, <2>1, <2>2, <2>3
<1>5. SEQ' = (Len(sent) + Len(pending_frame_list')) % SeqMod
  <2>1. SEQ' = (SEQ + len) % SeqMod
    BY DEF HandleUserInput
  <2>. HIDE DEF message
  <2>2. Len(sent) + Len(pending_frame_list') = next + len
    BY <1>1, <1>2, <1>4
  <2>. HIDE DEF next, len
  <2>3. ((next % SeqMod) + len) % SeqMod = (next + len) % SeqMod
    BY <1>1, <1>2, SeqModAssumption, ModAddMod
  <2>. QED  BY <1>2, <2>1, <2>2, <2>3
<1>. QED  BY <1>4, <1>5 DEF HandleUserInput, SenderNumbers, Numbered, frameLinks, tamperHistory

LEMMA SendPendingFrameNumbers ==
  ASSUME TTypes, WithinLap, FramesCounted, SenderNumbers, ShiftedNumbers, AcksHeard,
         SendPendingFrame, UNCHANGED <<tamperVars, tamperHistory>>
  PROVE  FramesCounted' /\ SenderNumbers' /\ AcksHeard'
<1>. DEFINE frame == Head(pending_frame_list)
<1>. PICK n, e : n = Len(sent) /\ e = Len(sent) - acked
  OBVIOUS
<1>1. /\ pending_frame_list \in Seq(Frames) /\ pending_frame_list # <<>>
      /\ frame \in Frames /\ frame.data \in Chunks /\ m_output_queue \in Seq(Frames)
  <2>1. pending_frame_list \in Seq(Frames) /\ pending_frame_list # <<>>
    BY DEF TTypes, SenderSide, SendPendingFrame, MayLeave
  <2>2. frame \in Frames
    BY <2>1, HeadTailProperties
  <2>. QED  BY <2>1, <2>2 DEF TTypes, SenderSide, Frames
<1>2. /\ n \in Nat /\ acked \in Nat /\ passed \in Nat
      /\ Len(m_output_queue) \in Nat /\ Len(uplink) \in Nat /\ Len(pending_frame_list) \in Nat
      /\ passed + Len(uplink) + Len(m_output_queue) = n
      /\ e \in 0..SWS /\ acked + e = n
  <2>1. Len(sent) \in Nat /\ acked \in Nat /\ acked <= Len(sent) /\ Len(sent) <= acked + SWS
    BY TamperLengths, HostCounts DEF SenderNumbers
  <2>2. e \in 0..SWS /\ acked + e = n
    BY <2>1, WindowNumbers
  <2>. QED  BY <2>1, <2>2, TamperLengths, RouterCounts DEF FramesCounted
<1>3. frame.seq_ack_num = n % SeqMod /\ Numbered(pending_frame_list', n + 1)
  <2>1. pending_frame_list' = Tail(pending_frame_list)
    BY DEF SendPendingFrame
  <2>2. Numbered(pending_frame_list, n)
    BY DEF SenderNumbers
  <2>. QED  BY <1>1, <1>2, <2>1, <2>2, TakeFirst
<1>4. /\ Len(pending_frame_list') = Len(pending_frame_list) - 1 /\ Len(sent') = n + 1
      /\ m_output_queue' = Append(m_output_queue, frame)
      /\ Len(m_output_queue') = Len(m_output_queue) + 1
  <2>1. sent \in Seq(Chunks)
    BY DEF TTypes, SenderSide
  <2>. QED  BY <1>1, <2>1, HeadTailProperties, AppendProperties DEF SendPendingFrame
<1>5. /\ UNCHANGED <<LAR, SEQ, acked, uplink, toSender, toReceiver, ackUplink, ack_output_queue, pc>>
      /\ LFS' = n % SeqMod /\ ack_marked' = ack_marked \ {n % SeqMod} /\ pc = "pending"
  BY <1>3 DEF SendPendingFrame, frameLinks, receiverVars, ackLinks
<1>6. /\ Unheard' = Unheard
      /\ UNCHANGED <<m_seq_ack_control_flag, alteredAt, passed>>
  BY TamperSame
<1>7. Answered' = Answered /\ Astray' = Astray
  BY <1>5, <1>6, ShiftedNumbersSame DEF Astray
<1>8. e < SWS
  <2>1. InSendWindow(n % SeqMod) /\ LAR = (acked + SeqMod - 1) % SeqMod
    BY <1>3 DEF SendPendingFrame, MayLeave, SenderNumbers
  <2>2. InSendWindow((acked + e) % SeqMod)
    BY <1>2, <2>1
  <2>. QED  BY <1>2, <2>1, <2>2, SendWindowMeans
<1>. HIDE DEF frame
<1>9. FramesCounted'
  BY <1>2, <1>4, <1>5, <1>6 DEF FramesCounted
<1>10. SenderNumbers'
  <2>1. LFS' = (Len(sent') + SeqMod - 1) % SeqMod
    <3>1. Len(sent') + SeqMod - 1 = n + SeqMod
      BY <1>2, <1>4, WindowNumbers
    <3>. QED  BY <1>2, <1>5, <3>1, ModTurn
  <2>2. SEQ' = (Len(sent') + Len(pending_frame_list')) % SeqMod
    <3>1. Len(sent') + Len(pending_frame_list') = n + Len(pending_frame_list)
      BY <1>2, <1>4
    <3>. QED  BY <1>5, <3>1 DEF SenderNumbers
  <2>3. Numbered(m_output_queue', passed + Len(uplink))
    <3>. PICK first : first = passed + Len(uplink)
      OBVIOUS
    <3>1. first \in Nat /\ first + Len(m_output_queue) = n /\ Numbered(m_output_queue, first)
      BY <1>2 DEF SenderNumbers
    <3>. QED  BY <1>1, <1>3, <1>4, <3>1, AddLast
  <2>4. acked <= Len(sent') /\ Len(sent') <= acked + SWS
    BY <1>2, <1>4, <1>8, WindowNumbers
  <2>5. Numbered(pending_frame_list', Len(sent'))
    BY <1>3, <1>4
  <2>. QED  BY <1>5, <1>6, <2>1, <2>2, <2>3, <2>4, <2>5 DEF SenderNumbers
<1>11. AcksHeard'
  <2>1. \A m \in ack_marked' : \E i \in (acked + 1)..Len(sent') : m = (i - 1) % SeqMod
    <3>. TAKE m \in ack_marked'
    <3>1. PICK i \in (acked + 1)..Len(sent) : m = (i - 1) % SeqMod
      BY <1>5 DEF AcksHeard
    <3>2. i \in (acked + 1)..Len(sent')
      BY <1>2, <1>4
    <3>. QED  BY <3>1, <3>2
  <2>2. CASE Astray
    BY <1>5, <1>6, <1>7, <2>1, <2>2 DEF AcksHeard
  <2>3. CASE ~Astray
    <3>1. ack_marked = {} /\ ack_marked' = {}
      BY <1>5, <2>3 DEF AcksHeard
    <3>2. Heard' = Heard
      BY <1>5, <3>1 DEF Heard, AdvancingLAR
    <3>. QED  BY <1>5, <1>6, <1>7, <2>1, <2>3, <3>1, <3>2 DEF AcksHeard
  <2>. QED  BY <2>2, <2>3
<1>. QED  BY <1>9, <1>10, <1>11

LEMMA SendMessageToRouterNumbers ==
  ASSUME TTypes, FramesCounted, SenderNumbers,
         SendMessageToRouter, UNCHANGED <<tamperVars, tamperHistory>>
  PROVE  FramesCounted' /\ SenderNumbers'
<1>1. /\ uplink \in Seq(Frames) /\ m_output_queue \in Seq(Frames)
      /\ Len(uplink) \in Nat /\ Len(m_output_queue) \in Nat /\ passed \in Nat
  BY TamperLengths, RouterCounts DEF TTypes, SenderSide
<1>2. /\ uplink' = uplink \o m_output_queue /\ m_output_queue' = <<>>
      /\ Len(uplink') = Len(uplink) + Len(m_output_queue) /\ Len(m_output_queue') = 0
  BY <1>1, ConcatProperties, EmptySeq DEF SendMessageToRouter
<1>3. UNCHANGED <<LAR, LFS, SEQ, acked, sent, pending_frame_list, passed>>
  BY DEF SendMessageToRouter, blockVars, tamperHistory
<1>4. Numbered(uplink', passed)
  <2>1. Numbered(uplink, passed) /\ Numbered(m_output_queue, passed + Len(uplink))
    BY DEF SenderNumbers
  <2>. QED  BY <1>1, <1>2, <2>1, MoveBehind
<1>5. Numbered(m_output_queue', passed + Len(uplink'))
  BY <1>2, EmptyQueue
<1>6. FramesCounted'
  BY <1>1, <1>2, <1>3 DEF FramesCounted
<1>. QED  BY <1>3, <1>4, <1>5, <1>6 DEF SenderNumbers

\* The threads of the hosts keep the numbers of the tampered flow, whatever they take
\* from router 4.
LEMMA UserNumbers ==
  ASSUME NumbersInv, UNCHANGED <<tamperVars, tamperHistory>>,
         UNCHANGED <<LAR, LFS, SEQ, acked, sent, pending_frame_list, uplink, m_output_queue,
                     ack_marked, toSender, toReceiver, ack_output_queue, ackUplink>>,
         pc' = pc \/ pc' = "incoming" \/ ~AdvancingLAR
  PROVE  NumbersInv'
<1>1. passed' = passed /\ WithinLap' = WithinLap
  BY TamperSame
<1>. QED  BY <1>1, FramesCountedSame, SenderNumbersSame, ShiftedNumbersSame, AcksHeardSame
     DEF NumbersInv

LEMMA SenderThreadNumbers ==
  ASSUME TTypes, NumbersInv, SenderThread, UNCHANGED <<tamperVars, tamperHistory>>
  PROVE  NumbersInv'
<1>1. passed' = passed /\ WithinLap' = WithinLap
  BY TamperSame
<1>2. CASE HandleAck
  <2>1. UNCHANGED <<LAR, LFS, SEQ, acked, sent, pending_frame_list, uplink, m_output_queue,
                    toReceiver, ack_output_queue, ackUplink>>
    BY <1>2 DEF HandleAck, frameLinks, receiverVars
  <2>. QED  BY <1>1, <1>2, <2>1, HandleAckNumbers, FramesCountedSame, SenderNumbersSame,
               ShiftedNumbersSame DEF NumbersInv
<1>3. CASE AdvanceLAR
  <2>1. UNCHANGED <<sent, uplink, m_output_queue, toReceiver, ack_output_queue, ackUplink>>
    BY <1>3 DEF AdvanceLAR, frameLinks, receiverVars, ackLinks
  <2>. QED  BY <1>1, <1>3, <2>1, AdvanceLARNumbers, FramesCountedSame, ShiftedNumbersSame
       DEF NumbersInv
<1>4. CASE EndIncoming \/ EndInput \/ EndPending
  <2>1. UNCHANGED <<LAR, LFS, SEQ, acked, sent, pending_frame_list, uplink, m_output_queue,
                    ack_marked, toSender, toReceiver, ack_output_queue, ackUplink>>
    BY <1>4 DEF EndIncoming, EndInput, EndPending, SenderGoesTo, blockVars, frameLinks,
                receiverVars, ackLinks
  <2>2. CASE EndIncoming
    BY <2>1, <2>2, UserNumbers DEF EndIncoming
  <2>3. CASE (EndInput \/ EndPending) /\ WithinLap
    <3>1. AcksHeard'
      BY <2>1, <2>3, TamperSame, ShiftedNumbersSame
      DEF NumbersInv, AcksHeard, EndInput, EndPending, Astray, Heard, AdvancingLAR
    <3>. QED  BY <1>1, <2>1, <2>3, <3>1, FramesCountedSame, SenderNumbersSame, ShiftedNumbersSame
         DEF NumbersInv
  <2>4. CASE ~WithinLap
    BY <1>1, <2>1, <2>4, FramesCountedSame DEF NumbersInv
  <2>. QED  BY <1>4, <2>2, <2>3, <2>4
<1>5. CASE HandleUserInput
  <2>1. UNCHANGED <<LAR, acked, sent, uplink, m_output_queue, ack_marked, toSender, toReceiver,
                    ack_output_queue, ackUplink, pc>>
    BY <1>5 DEF HandleUserInput, frameLinks, receiverVars, ackLinks
  <2>. QED  BY <1>1, <1>5, <2>1, HandleUserInputNumbers, FramesCountedSame, ShiftedNumbersSame,
               AcksHeardSame DEF NumbersInv
<1>6. CASE SendPendingFrame
  <2>1. UNCHANGED <<toReceiver, ack_output_queue, ackUplink>>
    BY <1>6 DEF SendPendingFrame, frameLinks, receiverVars, ackLinks
  <2>2. CASE WithinLap
    BY <1>1, <1>6, <2>1, <2>2, SendPendingFrameNumbers, ShiftedNumbersSame DEF NumbersInv
  <2>3. CASE ~WithinLap
    <3>1. passed + Len(uplink) + (Len(m_output_queue) + 1) = Len(sent) + 1
      <4>1. passed \in Nat
        BY RouterCounts
      <4>2. passed + Len(uplink) + Len(m_output_queue) = Len(sent)
        BY DEF NumbersInv, FramesCounted
      <4>. QED  BY <4>1, <4>2, TamperLengths
    <3>2. Len(m_output_queue') = Len(m_output_queue) + 1 /\ Len(sent') = Len(sent) + 1
      <4>1. Head(pending_frame_list) \in Frames
        BY <1>6, HeadTailProperties DEF TTypes, SenderSide, SendPendingFrame, MayLeave
      <4>2. m_output_queue \in Seq(Frames) /\ sent \in Seq(Chunks)
            /\ Head(pending_frame_list).data \in Chunks
        BY <4>1 DEF TTypes, SenderSide, Frames
      <4>. QED  BY <1>6, <4>1, <4>2, AppendProperties DEF SendPendingFrame
    <3>. QED  BY <1>1, <1>6, <2>3, <3>1, <3>2 DEF NumbersInv, FramesCounted, SendPendingFrame,
                                                  frameLinks
  <2>. QED  BY <2>2, <2>3
<1>7. CASE SendMessageToRouter
  <2>1. UNCHANGED <<LAR, acked, sent, ack_marked, toSender, toReceiver, ack_output_queue, ackUplink>>
        /\ pc' = "incoming"
    BY <1>7 DEF SendMessageToRouter, blockVars, receiverVars, ackLinks
  <2>2. CASE WithinLap
    BY <1>1, <1>7, <2>1, <2>2, SendMessageToRouterNumbers, ShiftedNumbersSame, AcksHeardSame
    DEF NumbersInv
  <2>3. CASE ~WithinLap
    <3>1. Len(uplink') = Len(uplink) + Len(m_output_queue) /\ Len(m_output_queue') = 0
      BY <1>7, ConcatProperties, EmptySeq DEF TTypes, SenderSide, SendMessageToRouter
    <3>2. passed \in Nat /\ passed + Len(uplink) + Len(m_output_queue) = Len(sent)
      BY RouterCounts DEF NumbersInv, FramesCounted
    <3>3. passed + Len(uplink') + Len(m_output_queue') = Len(sent)
      BY <3>1, <3>2, TamperLengths
    <3>. QED  BY <1>1, <2>1, <2>3, <3>3 DEF NumbersInv, FramesCounted
  <2>. QED  BY <2>2, <2>3
<1>. QED  BY <1>2, <1>3, <1>4, <1>5, <1>6, <1>7 DEF SenderThread

-----------------------------------------------------------------------------
(* The receiver thread.                                                    *)

LEMMA HandlePacketNumbers ==
  ASSUME TTypes, ShiftedNumbers, HandlePacket, UNCHANGED <<tamperVars, tamperHistory>>
  PROVE  ShiftedNumbers' /\ Answered' = Answered
<1>. DEFINE frame == Head(toReceiver)
            ack == [seq_ack_num |-> frame.seq_ack_num]
<1>1. /\ toReceiver \in Seq(TFrames) /\ toReceiver # <<>> /\ ack_output_queue \in Seq(Acks)
      /\ toReceiver' = Tail(toReceiver) /\ ack_output_queue' = Append(ack_output_queue, ack)
      /\ ackUplink' = ackUplink
  BY DEF TTypes, ReceiverSide, HandlePacket, ackLinks
<1>2. ack \in Acks
  <2>1. frame \in TFrames
    BY <1>1, HeadTailProperties
  <2>. QED  BY <2>1 DEF TFrames, Acks
<1>3. /\ Len(toReceiver') = Len(toReceiver) - 1
      /\ Len(ack_output_queue') = Len(ack_output_queue) + 1
  BY <1>1, <1>2, HeadTailProperties, AppendProperties
<1>4. /\ UNCHANGED <<m_hack_ack_data, m_seq_ack_control_flag, passed, alteredAt, overtaken>>
      /\ Forwarded' = Forwarded
  BY TamperSame DEF Forwarded
<1>5. Len(toReceiver) \in Nat /\ Len(ackUplink) \in Nat /\ Len(ack_output_queue) \in Nat
      /\ Answered \in Int /\ Forwarded \in Int
  BY TamperLengths, RouterCounts
<1>6. Answered' = Answered
  BY <1>1, <1>3, <1>4, <1>5 DEF Answered
<1>. PICK U, P : U = Answered + Len(ackUplink) /\ P = U + Len(ack_output_queue)
  OBVIOUS
<1>7. U \in Int /\ P \in Int /\ U + Len(ack_output_queue') = P + 1
  BY <1>3, <1>5
<1>8. /\ ForwardedAs(ack_output_queue, U, alteredAt, overtaken)
      /\ ForwardedAs(toReceiver, P, alteredAt, overtaken)
  BY DEF ShiftedNumbers
<1>9. /\ frame.seq_ack_num = ForwardedNumber(P + 1, alteredAt, overtaken)
      /\ ForwardedAs(toReceiver', P + 1, alteredAt, overtaken)
  BY <1>1, <1>7, <1>8, ForwardedTakeFirst
<1>10. ForwardedAs(ack_output_queue', U, alteredAt, overtaken)
  <2>1. ack.seq_ack_num = ForwardedNumber(U + Len(ack_output_queue) + 1, alteredAt, overtaken)
    BY <1>9
  <2>. HIDE DEF ack
  <2>. QED  BY <1>1, <1>2, <1>7, <1>8, <2>1, ForwardedAddLast
<1>. HIDE DEF frame, ack
<1>. QED  BY <1>1, <1>4, <1>6, <1>7, <1>9, <1>10 DEF ShiftedNumbers

LEMMA SendAcksNumbers ==
  ASSUME TTypes, ShiftedNumbers, SendAcks, UNCHANGED <<tamperVars, tamperHistory>>
  PROVE  ShiftedNumbers' /\ Answered' = Answered
<1>1. /\ ackUplink \in Seq(Acks) /\ ack_output_queue \in Seq(Acks) /\ toReceiver' = toReceiver
      /\ ackUplink' = ackUplink \o ack_output_queue /\ ack_output_queue' = <<>>
  BY DEF TTypes, ReceiverSide, SendAcks, frameLinks
<1>2. Len(ackUplink') = Len(ackUplink) + Len(ack_output_queue) /\ Len(ack_output_queue') = 0
  BY <1>1, ConcatProperties, EmptySeq
<1>4. /\ UNCHANGED <<m_hack_ack_data, m_seq_ack_control_flag, passed, alteredAt, overtaken>>
      /\ Forwarded' = Forwarded
  BY TamperSame DEF Forwarded
<1>5. Len(toReceiver) \in Nat /\ Len(ackUplink) \in Nat /\ Len(ack_output_queue) \in Nat
      /\ Answered \in Int /\ Forwarded \in Int
  BY TamperLengths, RouterCounts
<1>6. Answered' = Answered
  BY <1>1, <1>2, <1>4, <1>5 DEF Answered
<1>7. Answered + Len(ackUplink') + Len(ack_output_queue')
        = Answered + Len(ackUplink) + Len(ack_output_queue)
  BY <1>2, <1>5
<1>8. /\ ForwardedAs(ackUplink, Answered, alteredAt, overtaken)
      /\ ForwardedAs(ack_output_queue, Answered + Len(ackUplink), alteredAt, overtaken)
  BY DEF ShiftedNumbers
<1>9. ForwardedAs(ackUplink', Answered, alteredAt, overtaken)
  BY <1>1, <1>5, <1>8, ForwardedMoveBehind
<1>10. ForwardedAs(ack_output_queue', Answered + Len(ackUplink'), alteredAt, overtaken)
  BY <1>1 DEF ForwardedAs
<1>. QED  BY <1>1, <1>4, <1>6, <1>7, <1>9, <1>10 DEF ShiftedNumbers

LEMMA ReceiverThreadNumbers ==
  ASSUME TTypes, NumbersInv, ReceiverThread, UNCHANGED <<tamperVars, tamperHistory>>
  PROVE  NumbersInv'
<1>1. UNCHANGED <<LAR, LFS, SEQ, acked, sent, pending_frame_list, uplink, m_output_queue,
                  ack_marked, toSender, pc>>
  BY DEF ReceiverThread, HandlePacket, DeliverFrame, SendAcks, userVars, blockVars,
         frameLinks, ackLinks
<1>2. CASE DeliverFrame
  BY <1>1, <1>2, UserNumbers DEF DeliverFrame, frameLinks, ackLinks
<1>3. CASE HandlePacket \/ SendAcks
  <2>1. passed' = passed /\ WithinLap' = WithinLap /\ Unheard' = Unheard
        /\ UNCHANGED <<m_seq_ack_control_flag, alteredAt>>
    BY TamperSame
  <2>2. FramesCounted' /\ (WithinLap => SenderNumbers')
    BY <1>1, <2>1, FramesCountedSame, SenderNumbersSame DEF NumbersInv
  <2>3. WithinLap => ShiftedNumbers' /\ Answered' = Answered
    BY <1>3, HandlePacketNumbers, SendAcksNumbers DEF NumbersInv
  <2>4. Astray' = Astray /\ Heard' = Heard
    BY <1>1, <2>1 DEF Astray, Heard, AdvancingLAR
  <2>5. WithinLap => AcksHeard'
    BY <1>1, <2>1, <2>3, <2>4 DEF NumbersInv, AcksHeard
  <2>. QED  BY <2>1, <2>2, <2>3, <2>5 DEF NumbersInv
<1>. QED  BY <1>2, <1>3 DEF ReceiverThread

-----------------------------------------------------------------------------
(* Router 4.                                                               *)

\* A frame leaves the sender's link for the receiver's.
LEMMA UplinkTaken ==
  ASSUME TTypes, FrameThroughRouter4
  PROVE  /\ Head(uplink) \in Frames /\ uplink \in Seq(Frames) /\ uplink # <<>>
         /\ uplink' = Tail(uplink) /\ Len(uplink') = Len(uplink) - 1 /\ Len(uplink) > 0
         /\ passed' = passed + 1
         /\ UNCHANGED <<hostVars, ackLinks>>
         /\ FramesCounted => FramesCounted' /\ passed + 1 <= Len(sent)
<1>1. /\ uplink \in Seq(Frames) /\ uplink # <<>> /\ uplink' = Tail(uplink)
      /\ passed' = passed + 1 /\ UNCHANGED <<hostVars, ackLinks>>
  BY DEF TTypes, SenderSide, FrameThroughRouter4, CreateAttackMessage, ForwardAlteredFrame
<1>2. /\ Head(uplink) \in Frames /\ Len(uplink') = Len(uplink) - 1 /\ Len(uplink) > 0
  BY <1>1, HeadTailProperties
<1>3. passed \in Nat /\ Len(uplink) \in Nat /\ Len(m_output_queue) \in Nat /\ Len(sent) \in Nat
  BY TamperLengths, RouterCounts
<1>4. FramesCounted => FramesCounted' /\ passed + 1 <= Len(sent)
  BY <1>1, <1>2, <1>3 DEF FramesCounted, hostVars
<1>. QED  BY <1>1, <1>2, <1>4

LEMMA UplinkTakenNumbers ==
  ASSUME TTypes, FrameThroughRouter4, SenderNumbers
  PROVE  SenderNumbers' /\ Head(uplink).seq_ack_num = passed % SeqMod
<1>1. passed \in Nat
  BY RouterCounts
<1>2. Numbered(uplink, passed)
  BY DEF SenderNumbers
<1>3. Head(uplink).seq_ack_num = passed % SeqMod /\ Numbered(uplink', passed')
  BY <1>1, <1>2, UplinkTaken, TakeFirst
<1>4. passed' + Len(uplink') = passed + Len(uplink)
  BY <1>1, UplinkTaken, TamperLengths
<1>. QED  BY <1>3, <1>4, UplinkTaken DEF SenderNumbers, hostVars, blockVars

LEMMA CreateAttackMessageNumbers ==
  ASSUME TTypes, FramesCounted, SenderNumbers, ShiftedNumbers, AcksHeard, CreateAttackMessage
  PROVE  ShiftedNumbers' /\ AcksHeard'
<1>. DEFINE frame == Head(uplink)
            first == [frame EXCEPT !.end_of_message = FALSE]
            copy  == [data |-> Inserted, seq_ack_num |-> Inc(frame.seq_ack_num),
                      start_of_message |-> FALSE, end_of_message |-> TRUE]
<1>1. /\ toReceiver' = toReceiver \o <<first, copy>> /\ m_hack_ack_data = {}
      /\ m_hack_ack_data' = {frame.seq_ack_num}
      /\ alteredAt' = passed + 1 /\ passed' = passed + 1
      /\ UNCHANGED <<m_seq_ack_control_flag, overtaken, ackUplink, ack_output_queue, toSender,
                     LAR, acked, sent, ack_marked, pc>>
  BY DEF CreateAttackMessage, AttackObject, hostVars, blockVars, receiverVars, ackLinks
<1>2. alteredAt = 0 /\ overtaken = 0 /\ m_seq_ack_control_flag = FALSE
  <2>1. alteredAt = 0
    BY <1>1 DEF ShiftedNumbers
  <2>2. ~ \E a \in SeqNums : m_hack_ack_data = {a}
    BY <1>1
  <2>. QED  BY <2>1, <2>2 DEF TTypes, Remembered
<1>3. passed \in Nat /\ Answered \in Int /\ Forwarded = passed /\ Answered <= passed
      /\ Answered + Len(toReceiver) + Len(ack_output_queue) + Len(ackUplink) = passed
      /\ Len(toReceiver) \in Nat /\ Len(ackUplink) \in Nat /\ Len(ack_output_queue) \in Nat
  BY <1>2, TamperLengths, RouterCounts
<1>4. first \in TFrames /\ copy \in TFrames /\ frame.seq_ack_num \in SeqNums
  <2>1. frame \in Frames
    BY UplinkTaken DEF FrameThroughRouter4
  <2>. QED  BY <2>1, IncType DEF Frames, TFrames
<1>5. first.seq_ack_num = passed % SeqMod /\ copy.seq_ack_num = (passed + 1) % SeqMod
  <2>1. frame.seq_ack_num = passed % SeqMod /\ frame \in Frames
    BY UplinkTaken, UplinkTakenNumbers DEF FrameThroughRouter4
  <2>2. first.seq_ack_num = frame.seq_ack_num
    BY <2>1 DEF Frames
  <2>. QED  BY <1>3, <2>1, <2>2, ModNext
<1>. PICK A : A = passed + 1
  OBVIOUS
<1>6. A \in Nat /\ A > 0 /\ A = passed + 1
  BY <1>3
<1>7. \A k \in Int : k <= A + 1 =>
        /\ ForwardedNumber(k, A, 0) = (k - 1) % SeqMod
        /\ ForwardedNumber(k, 0, 0) = (k - 1) % SeqMod
  BY <1>6 DEF ForwardedNumber
<1>8. ForwardedNumber(passed + 1, A, 0) = passed % SeqMod
      /\ ForwardedNumber(passed + 2, A, 0) = (passed + 1) % SeqMod
  <2>1. \A x \in Nat : x + 1 <= A + 1 => ForwardedNumber(x + 1, A, 0) = x % SeqMod
    <3>. SUFFICES ASSUME NEW x \in Nat, x + 1 <= A + 1
                  PROVE  ForwardedNumber(x + 1, A, 0) = x % SeqMod
      OBVIOUS
    <3>1. x + 1 \in Int /\ x + 1 - 1 = x
      OBVIOUS
    <3>. QED  BY <1>7, <3>1
  <2>2. ForwardedNumber(passed + 1, A, 0) = passed % SeqMod
    BY <1>3, <1>6, <2>1
  <2>. PICK z : z = passed + 1
    OBVIOUS
  <2>3. z \in Nat /\ z + 1 <= A + 1 /\ z + 1 = passed + 2 /\ z = passed + 1
    BY <1>3, <1>6
  <2>4. ForwardedNumber(z + 1, A, 0) = z % SeqMod
    BY <2>1, <2>3
  <2>. QED  BY <2>2, <2>3, <2>4
<1>. PICK U, P : U = Answered + Len(ackUplink) /\ P = U + Len(ack_output_queue)
  OBVIOUS
<1>9. U \in Int /\ P \in Int /\ P + Len(toReceiver) = passed
      /\ Answered + Len(ackUplink) <= A /\ U + Len(ack_output_queue) <= A
  BY <1>3, <1>6
<1>10. /\ toReceiver \in Seq(TFrames) /\ ackUplink \in Seq(Acks) /\ ack_output_queue \in Seq(Acks)
       /\ ForwardedAs(ackUplink, Answered, 0, 0) /\ ForwardedAs(ack_output_queue, U, 0, 0)
       /\ ForwardedAs(toReceiver, P, 0, 0)
  BY <1>2 DEF ShiftedNumbers, TTypes, ReceiverSide
<1>. HIDE DEF first, copy, frame
<1>11. /\ ForwardedAs(ackUplink, Answered, A, 0)
       /\ ForwardedAs(ack_output_queue, U, A, 0)
       /\ ForwardedAs(toReceiver, P, A, 0)
  <2>1. \A f \in Int : \A queue : f + Len(queue) <= A =>
          \A k \in (f + 1)..(f + Len(queue)) : ForwardedNumber(k, A, 0) = ForwardedNumber(k, 0, 0)
    <3>. SUFFICES ASSUME NEW f \in Int, NEW queue, f + Len(queue) <= A,
                         NEW k \in (f + 1)..(f + Len(queue))
                  PROVE  ForwardedNumber(k, A, 0) = ForwardedNumber(k, 0, 0)
      OBVIOUS
    <3>1. k \in Int /\ k <= A + 1
      BY <1>6
    <3>. QED  BY <1>7, <3>1
  <2>2. \A k \in (Answered + 1)..(Answered + Len(ackUplink)) :
          ForwardedNumber(k, A, 0) = ForwardedNumber(k, 0, 0)
    BY ONLY <1>3, <1>9, <2>1
  <2>3. \A k \in (U + 1)..(U + Len(ack_output_queue)) :
          ForwardedNumber(k, A, 0) = ForwardedNumber(k, 0, 0)
    BY ONLY <1>9, <2>1
  <2>4. \A k \in (P + 1)..(P + Len(toReceiver)) :
          ForwardedNumber(k, A, 0) = ForwardedNumber(k, 0, 0)
    <3>1. P + Len(toReceiver) <= A
      BY <1>3, <1>6, <1>9
    <3>. QED  BY ONLY <1>9, <2>1, <3>1
  <2>. QED  BY <1>3, <1>9, <1>10, <2>2, <2>3, <2>4, ForwardedStable
<1>12. /\ ForwardedAs(toReceiver', P, A, 0) /\ Len(toReceiver') = Len(toReceiver) + 2
  <2>1. <<first, copy>> \in Seq(TFrames) /\ Len(<<first, copy>>) = 2
    BY <1>4
  <2>2. ForwardedAs(<<first, copy>>, passed, A, 0)
    BY <1>3, <1>5, <1>8 DEF ForwardedAs
  <2>3. ForwardedAs(<<first, copy>>, P + Len(toReceiver), A, 0)
    BY <1>9, <2>2
  <2>4. ForwardedAs(toReceiver \o <<first, copy>>, P, A, 0)
    BY <1>9, <1>10, <1>11, <2>1, <2>3, ForwardedMoveBehind
  <2>. QED  BY <1>1, <1>10, <2>1, <2>4, ConcatProperties
<1>13. Forwarded' = passed + 2 /\ Answered' = Answered
  <2>1. Forwarded' = passed + 2
    BY <1>1, <1>3 DEF Forwarded
  <2>. QED  BY <1>1, <1>3, <1>12, <2>1 DEF Answered
<1>14. ShiftedNumbers'
  <2>1. m_hack_ack_data' = {(alteredAt' - 1) % SeqMod}
    <3>1. frame.seq_ack_num = passed % SeqMod
      BY UplinkTakenNumbers DEF FrameThroughRouter4, frame
    <3>. QED  BY <1>1, <1>3, <3>1
  <2>2. ~m_seq_ack_control_flag' /\ ~(Answered' > alteredAt') /\ alteredAt' # 0
        /\ overtaken' = passed' - alteredAt' /\ overtaken' <= SWS
    BY <1>1, <1>2, <1>3, <1>13, WindowNumbers
  <2>. QED  BY <1>1, <1>2, <1>6, <1>11, <1>12, <1>13, <2>1, <2>2 DEF ShiftedNumbers
<1>15. AcksHeard'
  <2>1. ~Astray /\ ~Astray' /\ Heard' = Heard
    BY <1>1, <1>2 DEF Astray, Heard, AdvancingLAR
  <2>2. \A i \in DOMAIN toSender' :
          InOrderUpTo(toSender'[i].seq_ack_num, Heard' + i, m_seq_ack_control_flag', alteredAt',
                      (Unheard' - 1) % SeqMod)
    BY <1>1, <1>2, <2>1 DEF AcksHeard, InOrderUpTo
  <2>. QED  BY <1>1, <1>2, <1>13, <2>1, <2>2 DEF AcksHeard
<1>. QED  BY <1>14, <1>15

LEMMA ForwardAlteredFrameNumbers ==
  ASSUME TTypes, FramesCounted, SenderNumbers, ShiftedNumbers, AcksHeard, ForwardAlteredFrame
  PROVE  ShiftedNumbers' /\ AcksHeard'
<1>. DEFINE frame == AlterSeqNum(Head(uplink))
<1>1. /\ toReceiver' = Append(toReceiver, frame) /\ passed' = passed + 1
      /\ overtaken' = IF alteredAt > 0 /\ ~m_seq_ack_control_flag THEN overtaken + 1 ELSE overtaken
      /\ UNCHANGED <<m_seq_ack_control_flag, m_hack_ack_data, alteredAt, ackUplink,
                     ack_output_queue, toSender, LAR, acked, sent, ack_marked, pc>>
  <2>1. overtaken \in Nat
    BY RouterCounts
  <2>. QED  BY <2>1 DEF ForwardAlteredFrame, hostVars, blockVars, receiverVars, ackLinks, tamperVars
<1>2. /\ Head(uplink) \in Frames /\ Head(uplink).seq_ack_num = passed % SeqMod
      /\ passed + 1 <= Len(sent)
  BY UplinkTaken, UplinkTakenNumbers DEF FrameThroughRouter4
<1>3. frame \in TFrames
  BY <1>2, IncType DEF AlterSeqNum, Frames, TFrames
<1>4. frame.seq_ack_num = IF Shifts(passed % SeqMod) THEN Inc(passed % SeqMod) ELSE passed % SeqMod
  BY <1>2 DEF AlterSeqNum, Frames
<1>. HIDE DEF frame
<1>5. /\ passed \in Nat /\ alteredAt \in Nat /\ overtaken \in Nat /\ alteredAt <= passed
      /\ overtaken <= passed - alteredAt
      /\ Answered \in Int /\ Forwarded \in Int
      /\ Answered + Len(toReceiver) + Len(ack_output_queue) + Len(ackUplink) = Forwarded
      /\ Forwarded = IF alteredAt > 0 THEN passed + 1 ELSE passed
      /\ Len(toReceiver) \in Nat /\ Len(ackUplink) \in Nat /\ Len(ack_output_queue) \in Nat
  BY TamperLengths, RouterCounts
<1>6. /\ toReceiver \in Seq(TFrames) /\ ackUplink \in Seq(Acks) /\ ack_output_queue \in Seq(Acks)
      /\ Len(toReceiver') = Len(toReceiver) + 1
  BY <1>1, <1>3, AppendProperties DEF TTypes, ReceiverSide
<1>7. Forwarded' = Forwarded + 1 /\ Answered' = Answered
  <2>1. Forwarded' = Forwarded + 1
    BY <1>1, <1>5 DEF Forwarded
  <2>. QED  BY <1>1, <1>5, <1>6, <2>1 DEF Answered
<1>. PICK U, P, A, O : U = Answered + Len(ackUplink) /\ P = U + Len(ack_output_queue)
                       /\ A = alteredAt /\ O = overtaken'
  OBVIOUS
<1>8. /\ U \in Int /\ P \in Int /\ P + Len(toReceiver) = Forwarded
      /\ Answered + Len(ackUplink) <= Forwarded /\ U + Len(ack_output_queue) <= Forwarded
  BY <1>5
\* The frame gets the number after those of the frames sent on before.
<1>9. \A k \in Int : k <= Forwarded => ForwardedNumber(k, A, O) = ForwardedNumber(k, A, overtaken)
  <2>. SUFFICES ASSUME NEW k \in Int, k <= Forwarded
                PROVE  ForwardedNumber(k, A, O) = ForwardedNumber(k, A, overtaken)
    OBVIOUS
  <2>1. CASE O = overtaken
    BY <2>1
  <2>2. CASE O # overtaken
    <3>1. alteredAt > 0 /\ ~m_seq_ack_control_flag /\ O = overtaken + 1
      BY <1>1, <2>2
    <3>2. overtaken = passed - alteredAt
      BY <3>1 DEF ShiftedNumbers
    <3>3. ~(k > A + O + 1) /\ ~(k > A + overtaken + 1)
      BY <1>5, <3>1, <3>2
    <3>. QED  BY <3>3 DEF ForwardedNumber
  <2>. QED  BY <2>1, <2>2
<1>10. frame.seq_ack_num = ForwardedNumber(Forwarded + 1, A, O)
  <2>1. CASE alteredAt = 0
    <3>1. ~m_seq_ack_control_flag /\ Forwarded + 1 - 1 = passed
      BY <1>5, <2>1 DEF ShiftedNumbers
    <3>2. frame.seq_ack_num = passed % SeqMod
      BY <1>4, <3>1 DEF Shifts
    <3>. PICK x : x = Forwarded + 1
      OBVIOUS
    <3>3. ForwardedNumber(x, A, O) = (x - 1) % SeqMod
      BY <2>1 DEF ForwardedNumber
    <3>4. x - 1 = passed /\ x = Forwarded + 1
      BY <1>5, <3>1
    <3>. QED  BY ONLY <3>2, <3>3, <3>4
  <2>2. CASE alteredAt > 0
    <3>. PICK x, r, b : x = Forwarded + 1 /\ r = passed % SeqMod /\ b = (alteredAt - 1) % SeqMod
      OBVIOUS
    <3>1. x \in Int /\ x - 2 = passed /\ ~(A = 0) /\ ~(x <= A + 1)
      BY <1>5, <2>2
    <3>2. ForwardedNumber(x, A, O) = IF x > A + O + 1 /\ b < r THEN Inc(r) ELSE r
      BY <3>1 DEF ForwardedNumber
    <3>3. CASE m_seq_ack_control_flag
      <4>1. x > A + O + 1
        BY <1>1, <1>5, <2>2, <3>1, <3>3
      <4>2. Shifts(r) <=> b < r
        BY <2>2, <3>3 DEF Shifts, ShiftedNumbers
      <4>. QED  BY <1>4, <3>2, <4>1, <4>2
    <3>4. CASE ~m_seq_ack_control_flag
      <4>1. overtaken = passed - alteredAt
        BY <2>2, <3>4 DEF ShiftedNumbers
      <4>2. ~(x > A + O + 1)
        BY <1>1, <1>5, <2>2, <3>1, <3>4, <4>1
      <4>. QED  BY <1>4, <3>2, <3>4, <4>2 DEF Shifts
    <3>. QED  BY <3>3, <3>4
  <2>. QED  BY <1>5, <2>1, <2>2
<1>11. /\ ForwardedAs(ackUplink, Answered, A, O)
       /\ ForwardedAs(ack_output_queue, U, A, O)
       /\ ForwardedAs(toReceiver', P, A, O)
  <2>1. /\ ForwardedAs(ackUplink, Answered, A, overtaken)
        /\ ForwardedAs(ack_output_queue, U, A, overtaken)
        /\ ForwardedAs(toReceiver, P, A, overtaken)
    BY DEF ShiftedNumbers
  <2>2. \A f \in Int : \A queue : f + Len(queue) <= Forwarded =>
          \A k \in (f + 1)..(f + Len(queue)) :
            ForwardedNumber(k, A, O) = ForwardedNumber(k, A, overtaken)
    <3>. SUFFICES ASSUME NEW f \in Int, NEW queue, f + Len(queue) <= Forwarded,
                         NEW k \in (f + 1)..(f + Len(queue))
                  PROVE  ForwardedNumber(k, A, O) = ForwardedNumber(k, A, overtaken)
      OBVIOUS
    <3>1. k \in Int /\ k <= Forwarded
      BY <1>5
    <3>. QED  BY <1>9, <3>1
  <2>3. \A k \in (Answered + 1)..(Answered + Len(ackUplink)) :
          ForwardedNumber(k, A, O) = ForwardedNumber(k, A, overtaken)
    BY ONLY <1>5, <1>8, <2>2
  <2>4. \A k \in (U + 1)..(U + Len(ack_output_queue)) :
          ForwardedNumber(k, A, O) = ForwardedNumber(k, A, overtaken)
    BY ONLY <1>8, <2>2
  <2>5. \A k \in (P + 1)..(P + Len(toReceiver)) :
          ForwardedNumber(k, A, O) = ForwardedNumber(k, A, overtaken)
    <3>1. P + Len(toReceiver) <= Forwarded
      BY <1>5, <1>8
    <3>. QED  BY ONLY <1>8, <2>2, <3>1
  <2>6. /\ ForwardedAs(ackUplink, Answered, A, O) /\ ForwardedAs(ack_output_queue, U, A, O)
        /\ ForwardedAs(toReceiver, P, A, O)
    BY <1>5, <1>6, <1>8, <2>1, <2>3, <2>4, <2>5, ForwardedStable
  <2>7. frame.seq_ack_num = ForwardedNumber(P + Len(toReceiver) + 1, A, O)
    BY <1>8, <1>10
  <2>. QED  BY <1>1, <1>3, <1>6, <1>8, <2>6, <2>7, ForwardedAddLast
<1>12. overtaken' <= SWS /\ (alteredAt > 0 /\ ~m_seq_ack_control_flag
                             => overtaken' = passed' - alteredAt)
  <2>1. CASE alteredAt > 0 /\ ~m_seq_ack_control_flag
    <3>1. overtaken = passed - alteredAt /\ Len(sent) <= acked + SWS
      BY <2>1 DEF ShiftedNumbers, SenderNumbers
    <3>2. acked <= Answered /\ Answered <= alteredAt
      BY <2>1, TamperOrder
    <3>3. acked \in Nat /\ Len(sent) \in Nat /\ SWS \in Nat
      BY HostCounts, TamperLengths, WindowNumbers
    <3>. QED  BY <1>1, <1>2, <1>5, <2>1, <3>1, <3>2, <3>3
  <2>2. CASE ~(alteredAt > 0 /\ ~m_seq_ack_control_flag)
    BY <1>1, <2>2 DEF ShiftedNumbers
  <2>. QED  BY <2>1, <2>2
<1>13. ShiftedNumbers'
  BY <1>1, <1>7, <1>11, <1>12 DEF ShiftedNumbers
<1>14. AcksHeard'
  <2>1. Heard' = Heard /\ Astray' = Astray
    BY <1>1 DEF Astray, Heard, AdvancingLAR
  <2>2. CASE m_seq_ack_control_flag
    <3>1. Unheard' = Unheard
      BY <1>1, <2>2 DEF Unheard, WrapsAt
    <3>. QED  BY <1>1, <1>7, <2>1, <3>1 DEF AcksHeard
  <2>3. CASE ~m_seq_ack_control_flag
    <3>1. ~Astray /\ ~Astray'
      BY <2>1, <2>3 DEF Astray
    <3>2. \A i \in DOMAIN toSender' :
            InOrderUpTo(toSender'[i].seq_ack_num, Heard' + i, m_seq_ack_control_flag', alteredAt',
                        (Unheard' - 1) % SeqMod)
      BY <1>1, <2>1, <2>3, <3>1 DEF AcksHeard, InOrderUpTo
    <3>. QED  BY <1>1, <1>7, <2>1, <2>3, <3>1, <3>2 DEF AcksHeard
  <2>. QED  BY <2>2, <2>3
<1>. QED  BY <1>13, <1>14

\* An ack leaves the receiver's link: the Answered + 1-st.
LEMMA AckUplinkTaken ==
  ASSUME TTypes, ShiftedNumbers, AckThroughRouter4
  PROVE  /\ Head(ackUplink) \in Acks
         /\ Head(ackUplink).seq_ack_num = ForwardedNumber(Answered + 1, alteredAt, overtaken)
         /\ Forwarded' = Forwarded /\ Answered' = Answered + 1 /\ Answered + 1 <= Forwarded
         /\ ForwardedAs(ackUplink', Answered', alteredAt, overtaken)
         /\ ForwardedAs(ack_output_queue', Answered' + Len(ackUplink'), alteredAt, overtaken)
         /\ ForwardedAs(toReceiver', Answered' + Len(ackUplink') + Len(ack_output_queue'),
                        alteredAt, overtaken)
         /\ UNCHANGED <<m_hack_ack_data, tamperHistory, hostVars, frameLinks>>
<1>1. /\ ackUplink \in Seq(Acks) /\ ackUplink # <<>> /\ ackUplink' = Tail(ackUplink)
      /\ UNCHANGED <<m_hack_ack_data, tamperHistory, hostVars, frameLinks>>
  BY DEF TTypes, ReceiverSide, AckThroughRouter4, DropAck, ForwardAlteredAck, tamperVars
<1>2. UNCHANGED <<passed, alteredAt, overtaken, toReceiver, ack_output_queue>>
  BY <1>1 DEF tamperHistory, hostVars, frameLinks, receiverVars
<1>3. /\ Head(ackUplink) \in Acks /\ Len(ackUplink') = Len(ackUplink) - 1 /\ Len(ackUplink) > 0
  BY <1>1, HeadTailProperties
<1>4. /\ Answered \in Int /\ Forwarded \in Int
      /\ Answered + Len(toReceiver) + Len(ack_output_queue) + Len(ackUplink) = Forwarded
      /\ Len(toReceiver) \in Nat /\ Len(ackUplink) \in Nat /\ Len(ack_output_queue) \in Nat
  BY TamperLengths, RouterCounts
<1>5. Forwarded' = Forwarded /\ Answered' = Answered + 1 /\ Answered + 1 <= Forwarded
  <2>1. Forwarded' = Forwarded
    BY <1>2 DEF Forwarded
  <2>. QED  BY <1>2, <1>3, <1>4, <2>1 DEF Answered
<1>6. /\ Head(ackUplink).seq_ack_num = ForwardedNumber(Answered + 1, alteredAt, overtaken)
      /\ ForwardedAs(ackUplink', Answered + 1, alteredAt, overtaken)
  <2>1. ForwardedAs(ackUplink, Answered, alteredAt, overtaken)
    BY DEF ShiftedNumbers
  <2>. QED  BY <1>1, <1>4, <2>1, ForwardedTakeFirst
<1>7. Answered' + Len(ackUplink') = Answered + Len(ackUplink)
  BY <1>3, <1>4, <1>5
<1>. QED  BY <1>1, <1>2, <1>3, <1>5, <1>6, <1>7 DEF ShiftedNumbers

\* Before the drop, an ack with the number one above the altered frame's is that of the
\* inserted one.
LEMMA OfInsertedMeans ==
  ASSUME TTypes, alteredAt > 0, alteredAt < WrapsAt, ~m_seq_ack_control_flag,
         FramesCounted, SenderNumbers, ShiftedNumbers, AcksHeard, AckThroughRouter4
  PROVE  /\ Head(ackUplink).seq_ack_num = Answered % SeqMod
         /\ OfInserted(Head(ackUplink)) <=> Answered = alteredAt
<1>. PICK A, N, M, a, n : A = alteredAt /\ N = Answered /\ M = SeqMod /\ a = (A - 1) % SeqMod
                          /\ n = Head(ackUplink).seq_ack_num
  OBVIOUS
<1>1. /\ A \in Nat \ {0} /\ N \in Nat /\ N <= A /\ acked <= N /\ passed <= Len(sent)
      /\ A <= passed
  BY TamperOrder, RouterCounts
<1>2. Len(sent) <= acked + SWS /\ acked \in Nat /\ Len(sent) \in Nat /\ passed \in Nat
  BY HostCounts, TamperLengths, RouterCounts DEF SenderNumbers
<1>3. SWS \in 1..(M - 1) /\ M \in Nat /\ M > 1
  BY WindowNumbers
<1>4. n = N % M
  <2>. PICK x : x = N + 1
    OBVIOUS
  <2>1. n = ForwardedNumber(x, A, overtaken)
    BY AckUplinkTaken
  <2>2. x <= A + 1 /\ x - 1 = N
    BY <1>1
  <2>3. ForwardedNumber(x, A, overtaken) = (x - 1) % M
    BY <2>2 DEF ForwardedNumber
  <2>. QED  BY <2>1, <2>2, <2>3
<1>5. OfInserted(Head(ackUplink)) <=> n = a + 1
  BY DEF ShiftedNumbers, OfInserted
<1>6. a + 1 = A % M
  <2>1. /\ WrapsAt \in Nat /\ WrapsAt <= A - 1 + M
        /\ \A y \in Nat : WrapsAt <= y + M /\ y < WrapsAt => y % M = y + M - WrapsAt
    BY <1>1, LapValues DEF WrapsAt
  <2>. PICK W, y : W = WrapsAt /\ y = A - 1
    OBVIOUS
  <2>2. W \in Int /\ A < W /\ y \in Nat /\ W <= y + M /\ W <= A + M /\ y < W /\ A \in Nat /\ y = A - 1
        /\ M \in Nat
    BY <1>1, <1>3, <2>1
  <2>3. y % M = y + M - W /\ A % M = A + M - W
    BY <2>1, <2>2
  <2>4. a = y % M
    OBVIOUS
  <2>. QED  BY ONLY <2>2, <2>3, <2>4
<1>7. N # A => N % M # A % M
  <2>. HAVE N # A
  <2>. PICK d : d = A - N
    OBVIOUS
  <2>1. d \in 1..(M - 1) /\ N + d = A
    BY <1>1, <1>2, <1>3
  <2>. QED  BY <1>1, <2>1, ModDistinct
<1>. QED  BY <1>4, <1>5, <1>6, <1>7

LEMMA DropAckNumbers ==
  ASSUME TTypes, WithinLap, FramesCounted, SenderNumbers, ShiftedNumbers, AcksHeard, DropAck
  PROVE  ShiftedNumbers' /\ AcksHeard'
<1>1. alteredAt > 0
  <2>1. m_hack_ack_data # {}
    BY DEF DropAck, OfInserted
  <2>. QED  BY <2>1, RouterCounts DEF ShiftedNumbers
<1>2. AckThroughRouter4 /\ m_seq_ack_control_flag' = TRUE /\ OfInserted(Head(ackUplink))
      /\ toSender' = toSender
  BY DEF AckThroughRouter4, DropAck
<1>3. /\ UNCHANGED <<m_hack_ack_data, alteredAt, overtaken, passed, LAR, acked, sent,
                     ack_marked, pc>>
      /\ Answered' = Answered + 1
  BY <1>2, AckUplinkTaken DEF tamperHistory, hostVars, blockVars
<1>4. Answered >= alteredAt /\ (~m_seq_ack_control_flag => Answered = alteredAt)
  <2>1. CASE m_seq_ack_control_flag
    BY <2>1, TamperOrder, RouterCounts
  <2>2. CASE ~m_seq_ack_control_flag
    <3>1. Answered = alteredAt
      BY <1>1, <1>2, <2>2, OfInsertedMeans DEF WithinLap
    <3>. QED  BY <2>2, <3>1, RouterCounts
  <2>. QED  BY <2>1, <2>2
<1>5. ShiftedNumbers'
  <2>1. Answered' > alteredAt
    BY <1>3, <1>4, RouterCounts
  <2>. QED  BY <1>1, <1>2, <1>3, <2>1, AckUplinkTaken DEF ShiftedNumbers
<1>6. Unheard' = Unheard /\ Heard' = Heard
  BY <1>3 DEF Unheard, WrapsAt, Heard, AdvancingLAR
<1>7. AcksHeard'
  <2>1. CASE m_seq_ack_control_flag
    <3>1. Astray' = Astray
      BY <1>2, <1>3, <2>1 DEF Astray
    <3>. QED  BY <1>2, <1>3, <1>6, <2>1, <3>1 DEF AcksHeard
  <2>2. CASE ~m_seq_ack_control_flag
    <3>1. ~Astray /\ Answered = alteredAt /\ (Astray' <=> acked >= alteredAt)
      BY <1>2, <1>3, <1>4, <2>2 DEF Astray
    <3>2. /\ ack_marked \subseteq {Inc(LAR)} /\ Heard + Len(toSender) = alteredAt
          /\ \A i \in DOMAIN toSender :
               InOrderUpTo(toSender[i].seq_ack_num, Heard + i, m_seq_ack_control_flag, alteredAt,
                           (Unheard - 1) % SeqMod)
      BY <2>2, <3>1 DEF AcksHeard
    <3>3. acked \in Nat /\ Heard \in Nat /\ acked <= Heard /\ Len(toSender) \in Nat
          /\ alteredAt \in Nat /\ toSender \in Seq(Acks)
      BY HostCounts, TamperLengths, RouterCounts DEF TTypes, SenderSide
    <3>4. CASE Astray'
      <4>1. Heard = acked /\ acked = alteredAt /\ Len(toSender) = 0
        BY <3>1, <3>2, <3>3, <3>4
      <4>2. ack_marked = {}
        <5>1. ~AdvancingLAR
          BY <3>3, <4>1 DEF Heard
        <5>. QED  BY <3>2, <5>1 DEF AdvancingLAR
      <4>3. acked < Unheard
        <5>1. WrapsAt \in Nat /\ overtaken \in Nat /\ alteredAt < WrapsAt
          BY <1>1, <3>3, LapValues, RouterCounts DEF WrapsAt, WithinLap
        <5>. QED  BY <3>3, <4>1, <5>1 DEF Unheard
      <4>4. toSender = <<>>
        BY <3>3, <4>1
      <4>. QED  BY <1>2, <1>3, <1>6, <3>4, <4>2, <4>3, <4>4 DEF AcksHeard
    <3>5. CASE ~(Astray')
      <4>1. \A i \in DOMAIN toSender' :
              InOrderUpTo(toSender'[i].seq_ack_num, Heard' + i, m_seq_ack_control_flag', alteredAt',
                          (Unheard' - 1) % SeqMod)
        <5>. TAKE i \in DOMAIN toSender'
        <5>1. i \in 1..Len(toSender) /\ toSender' = toSender /\ i \in DOMAIN toSender
          BY <1>2, <3>3
        <5>2. ~(Heard + i > alteredAt)
          BY <3>2, <3>3, <5>1
        <5>3. InOrderUpTo(toSender[i].seq_ack_num, Heard + i, m_seq_ack_control_flag, alteredAt,
                          (Unheard - 1) % SeqMod)
          BY <3>2, <5>1
        <5>4. toSender[i].seq_ack_num = (Heard + i - 1) % SeqMod
          BY <2>2, <3>3, <5>1, <5>3 DEF InOrderUpTo
        <5>. QED  BY <1>3, <1>6, <3>3, <5>1, <5>2, <5>4 DEF InOrderUpTo
      <4>2. Heard + Len(toSender) >= alteredAt
        BY <3>2, <3>3
      <4>. QED  BY <1>2, <1>3, <1>6, <2>2, <3>1, <3>5, <4>1, <4>2 DEF AcksHeard
    <3>. QED  BY <3>4, <3>5
  <2>. QED  BY <2>1, <2>2
<1>. QED  BY <1>5, <1>7

LEMMA ForwardAlteredAckNumbers ==
  ASSUME TTypes, WithinLap, FramesCounted, SenderNumbers, ShiftedNumbers, AcksHeard,
         ForwardAlteredAck
  PROVE  ShiftedNumbers' /\ AcksHeard'
<1>. DEFINE ack == AlterAckNum(Head(ackUplink))
<1>1. AckThroughRouter4 /\ ~OfInserted(Head(ackUplink)) /\ m_seq_ack_control_flag' = m_seq_ack_control_flag
      /\ toSender' = Append(toSender, ack)
  BY DEF AckThroughRouter4, ForwardAlteredAck, tamperVars
<1>2. /\ UNCHANGED <<m_hack_ack_data, alteredAt, overtaken, passed, LAR, acked, sent,
                     ack_marked, pc>>
      /\ Answered' = Answered + 1 /\ Answered + 1 <= Forwarded
      /\ Head(ackUplink) \in Acks
      /\ Head(ackUplink).seq_ack_num = ForwardedNumber(Answered + 1, alteredAt, overtaken)
  BY <1>1, AckUplinkTaken DEF tamperHistory, hostVars, blockVars
<1>3. /\ toSender \in Seq(Acks) /\ ack \in Acks /\ Len(toSender') = Len(toSender) + 1
      /\ \A i \in DOMAIN toSender' : \/ i \in DOMAIN toSender /\ toSender'[i] = toSender[i]
                                     \/ i = Len(toSender) + 1 /\ toSender'[i] = ack
  <2>1. toSender \in Seq(Acks) /\ ack \in Acks
    BY <1>2, AlterAckNumType DEF TTypes, SenderSide
  <2>. HIDE DEF ack
  <2>. QED  BY <1>1, <2>1
<1>4. /\ acked \in Nat /\ Heard \in Nat /\ acked <= Heard /\ Len(toSender) \in Nat
      /\ alteredAt \in Nat /\ overtaken \in Nat /\ passed \in Nat /\ Answered \in Nat
      /\ Forwarded = IF alteredAt > 0 THEN passed + 1 ELSE passed
      /\ Len(sent) \in Nat /\ passed <= Len(sent)
  <2>1. Answered \in Nat /\ passed <= Len(sent)
    BY TamperOrder
  <2>. QED  BY <2>1, HostCounts, TamperLengths, RouterCounts
<1>5. Unheard' = Unheard /\ Heard' = Heard /\ Astray' = Astray
  BY <1>1, <1>2 DEF Unheard, WrapsAt, Heard, AdvancingLAR, Astray
<1>6. ~m_seq_ack_control_flag => /\ ~(alteredAt > 0 /\ Answered' > alteredAt)
                                 /\ ack.seq_ack_num = Answered % SeqMod
  <2>. HAVE ~m_seq_ack_control_flag
  <2>1. ack = Head(ackUplink)
    BY DEF AlterAckNum, Shifts
  <2>2. CASE alteredAt = 0
    <3>. PICK x : x = Answered + 1
      OBVIOUS
    <3>1. ForwardedNumber(x, alteredAt, overtaken) = (x - 1) % SeqMod
      BY <2>2 DEF ForwardedNumber
    <3>2. x - 1 = Answered
      BY <1>4
    <3>. QED  BY <1>2, <2>1, <2>2, <3>1, <3>2
  <2>3. CASE alteredAt > 0
    <3>1. Head(ackUplink).seq_ack_num = Answered % SeqMod /\ Answered # alteredAt
      BY <1>1, <2>3, OfInsertedMeans DEF WithinLap
    <3>2. Answered <= alteredAt
      BY <2>3, TamperOrder
    <3>. QED  BY <1>2, <1>4, <2>1, <3>1, <3>2
  <2>. QED  BY <1>4, <2>2, <2>3
<1>7. m_seq_ack_control_flag => ack.seq_ack_num # (Unheard - 1) % SeqMod
  <2>. HAVE m_seq_ack_control_flag
  <2>1. alteredAt > 0 /\ Answered > alteredAt /\ alteredAt < WrapsAt /\ overtaken <= SWS
    BY TamperOrder DEF WithinLap, ShiftedNumbers
  <2>2. acked < Unheard
    <3>1. CASE Astray
      BY <3>1 DEF AcksHeard
    <3>2. CASE ~Astray
      <4>1. WrapsAt \in Nat
        BY <1>4, <2>1, LapValues DEF WrapsAt
      <4>. QED  BY <1>4, <2>1, <3>2, <4>1 DEF Unheard, Astray
    <3>. QED  BY <3>1, <3>2
  <2>. PICK k, n, u : k = Answered + 1 /\ n = Head(ackUplink).seq_ack_num /\ u = Unheard
    OBVIOUS
  <2>3. k \in Nat /\ alteredAt + 1 < k /\ k <= u + SWS
    <3>1. u \in Int
      <4>1. WrapsAt \in Nat
        BY <1>4, <2>1, LapValues DEF WrapsAt
      <4>. QED  BY <1>4, <4>1 DEF Unheard
    <3>2. Len(sent) <= acked + SWS /\ SWS \in Nat
      BY WindowNumbers DEF SenderNumbers
    <3>. QED  BY <1>2, <1>4, <2>1, <2>2, <3>1, <3>2
  <2>4. (IF (alteredAt - 1) % SeqMod < n THEN n - 1 ELSE n) # (Unheard - 1) % SeqMod
    <3>1. alteredAt \in Nat \ {0} /\ n = ForwardedNumber(k, alteredAt, overtaken)
          /\ k <= Unheard + SWS
      BY <1>2, <1>4, <2>1, <2>3
    <3>. QED  BY <1>4, <2>1, <2>3, <3>1, NeverHeard
  <2>5. ack.seq_ack_num = IF (alteredAt - 1) % SeqMod < n THEN n - 1 ELSE n
    <3>1. Shifts(n) <=> (alteredAt - 1) % SeqMod < n
      BY <1>4, <2>1 DEF Shifts, ShiftedNumbers
    <3>. QED  BY <1>2, <3>1 DEF AlterAckNum, Acks
  <2>. QED  BY <2>4, <2>5
<1>. HIDE DEF ack
<1>8. ShiftedNumbers'
  <2>1. m_seq_ack_control_flag' <=> alteredAt > 0 /\ Answered' > alteredAt
    <3>1. CASE m_seq_ack_control_flag
      <4>1. alteredAt > 0 /\ Answered > alteredAt
        BY <3>1 DEF ShiftedNumbers
      <4>. QED  BY <1>1, <1>2, <1>4, <3>1, <4>1
    <3>2. CASE ~m_seq_ack_control_flag
      BY <1>1, <1>6, <3>2
    <3>. QED  BY <3>1, <3>2
  <2>. QED  BY <1>1, <1>2, <2>1, AckUplinkTaken DEF ShiftedNumbers
<1>9. AcksHeard'
  <2>1. CASE Astray
    <3>1. m_seq_ack_control_flag
      BY <2>1 DEF Astray
    <3>2. /\ acked < Unheard /\ (Unheard - 1) % SeqMod \notin ack_marked
          /\ \A i \in DOMAIN toSender : toSender[i].seq_ack_num # (Unheard - 1) % SeqMod
      BY <2>1 DEF AcksHeard
    <3>3. \A i \in DOMAIN toSender' : toSender'[i].seq_ack_num # (Unheard - 1) % SeqMod
      BY <1>3, <1>7, <3>1, <3>2
    <3>. QED  BY <1>2, <1>5, <2>1, <3>2, <3>3 DEF AcksHeard
  <2>2. CASE ~Astray
    <3>1. /\ ack_marked \subseteq {Inc(LAR)} /\ (ack_marked # {} => pc = "incoming")
          /\ IF m_seq_ack_control_flag THEN Heard + Len(toSender) >= alteredAt
             ELSE Heard + Len(toSender) = Answered
          /\ \A i \in DOMAIN toSender :
               InOrderUpTo(toSender[i].seq_ack_num, Heard + i, m_seq_ack_control_flag, alteredAt,
                           (Unheard - 1) % SeqMod)
      BY <2>2 DEF AcksHeard
    <3>. PICK k : k = Heard + (Len(toSender) + 1)
      OBVIOUS
    <3>2. InOrderUpTo(ack.seq_ack_num, k, m_seq_ack_control_flag, alteredAt,
                      (Unheard - 1) % SeqMod)
      <4>1. CASE m_seq_ack_control_flag
        <5>1. k > alteredAt
          BY <1>4, <3>1, <4>1
        <5>. QED  BY <1>7, <4>1, <5>1 DEF InOrderUpTo
      <4>2. CASE ~m_seq_ack_control_flag
        <5>1. k - 1 = Answered
          BY <1>4, <3>1, <4>2
        <5>. QED  BY <1>6, <4>2, <5>1 DEF InOrderUpTo
      <4>. QED  BY <4>1, <4>2
    <3>3. \A i \in DOMAIN toSender' :
            InOrderUpTo(toSender'[i].seq_ack_num, Heard + i, m_seq_ack_control_flag, alteredAt,
                        (Unheard - 1) % SeqMod)
      BY <1>3, <3>1, <3>2
    <3>4. IF m_seq_ack_control_flag THEN Heard + Len(toSender') >= alteredAt
          ELSE Heard + Len(toSender') = Answered'
      BY <1>2, <1>3, <1>4, <3>1
    <3>5. \A m \in ack_marked : \E i \in (acked + 1)..Len(sent) : m = (i - 1) % SeqMod
      BY DEF AcksHeard
    <3>. QED  BY <1>1, <1>2, <1>5, <2>2, <3>1, <3>3, <3>4, <3>5 DEF AcksHeard
  <2>. QED  BY <2>1, <2>2
<1>. QED  BY <1>8, <1>9

LEMMA Router4Numbers ==
  ASSUME TTypes, NumbersInv, FrameThroughRouter4 \/ AckThroughRouter4
  PROVE  NumbersInv'
<1>1. CASE CreateAttackMessage
  <2>1. FrameThroughRouter4
    BY <1>1 DEF FrameThroughRouter4
  <2>2. WithinLap
    <3>1. m_hack_ack_data = {}
      BY <1>1 DEF CreateAttackMessage, AttackObject
    <3>2. ~ \E a \in SeqNums : m_hack_ack_data = {a}
      BY <3>1
    <3>. QED  BY <3>2 DEF TTypes, Remembered, WithinLap
  <2>. QED  BY <1>1, <2>1, <2>2, UplinkTaken, UplinkTakenNumbers, CreateAttackMessageNumbers
       DEF NumbersInv
<1>2. CASE ForwardAlteredFrame
  <2>1. FrameThroughRouter4
    BY <1>2 DEF FrameThroughRouter4
  <2>2. WithinLap' => WithinLap
    BY <1>2 DEF ForwardAlteredFrame, WithinLap, WrapsAt
  <2>. QED  BY <1>2, <2>1, <2>2, UplinkTaken, UplinkTakenNumbers, ForwardAlteredFrameNumbers
       DEF NumbersInv
<1>3. CASE AckThroughRouter4
  <2>1. UNCHANGED <<hostVars, frameLinks, tamperHistory>>
    BY <1>3 DEF AckThroughRouter4, DropAck, ForwardAlteredAck
  <2>2. UNCHANGED <<LAR, LFS, SEQ, acked, sent, pending_frame_list, passed, uplink,
                    m_output_queue>> /\ WithinLap' = WithinLap
    BY <2>1 DEF hostVars, blockVars, frameLinks, tamperHistory, WithinLap, WrapsAt
  <2>3. WithinLap => ShiftedNumbers' /\ AcksHeard'
    BY <1>3, DropAckNumbers, ForwardAlteredAckNumbers DEF AckThroughRouter4, NumbersInv
  <2>. QED  BY <2>2, <2>3, FramesCountedSame, SenderNumbersSame DEF NumbersInv
<1>. QED  BY <1>1, <1>2, <1>3 DEF FrameThroughRouter4

LEMMA NumbersNext == TTypes /\ NumbersInv /\ [TNext]_allVars => NumbersInv'
<1>. SUFFICES ASSUME TTypes, NumbersInv, [TNext]_allVars PROVE NumbersInv'
  OBVIOUS
<1>1. CASE Hosts /\ UNCHANGED <<tamperVars, tamperHistory>>
  <2>1. CASE \E length \in Lengths : UserTypes(length)
    <3>1. UNCHANGED <<LAR, LFS, SEQ, acked, sent, pending_frame_list, uplink, m_output_queue,
                      ack_marked, toSender, toReceiver, ack_output_queue, ackUplink, pc>>
      BY <2>1 DEF UserTypes, blockVars, frameLinks, receiverVars, ackLinks
    <3>. QED  BY <1>1, <3>1, UserNumbers
  <2>. QED  BY <1>1, <2>1, SenderThreadNumbers, ReceiverThreadNumbers DEF Hosts
<1>2. CASE UNCHANGED allVars
  BY <1>2, UserNumbers DEF allVars, vars, blockVars, frameLinks, receiverVars, ackLinks
<1>. QED  BY <1>1, <1>2, Router4Numbers DEF TNext

\* alterSeqAckNum compares without wrapping: a flow whose altered frame is not the last
\* of its lap never gets past that lap.
LEMMA LapEnds == TTypes /\ NumbersInv => EndsWithTheLap /\ OvertakingStalls
<1>. SUFFICES ASSUME TTypes, NumbersInv, alteredAt > 0, alteredAt < WrapsAt
              PROVE  acked < WrapsAt /\ (overtaken > 0 => acked < alteredAt + overtaken)
  <2>1. ASSUME TTypes, NumbersInv PROVE overtaken > 0 => alteredAt > 0
    <3>. SUFFICES ASSUME ~(alteredAt > 0) PROVE overtaken = 0
      OBVIOUS
    <3>1. alteredAt = 0 /\ WithinLap
      BY <2>1, RouterCounts DEF WithinLap
    <3>2. m_hack_ack_data = {}
      BY <2>1, <3>1 DEF NumbersInv, ShiftedNumbers
    <3>3. ~ \E a \in SeqNums : m_hack_ack_data = {a}
      BY <3>2
    <3>. QED  BY <2>1, <3>3 DEF TTypes, Remembered
  <2>. QED  BY <2>1 DEF EndsWithTheLap, OvertakingStalls
<1>1. alteredAt \in Nat \ {0} /\ overtaken \in Nat /\ acked \in Nat
  BY RouterCounts, HostCounts
<1>2. WrapsAt \in Nat
  BY <1>1, LapValues DEF WrapsAt
<1>3. WithinLap /\ FramesCounted /\ SenderNumbers /\ ShiftedNumbers /\ AcksHeard
  BY DEF NumbersInv, WithinLap
<1>4. CASE Astray
  <2>1. acked < Unheard
    BY <1>3, <1>4 DEF AcksHeard
  <2>. QED  BY <1>1, <1>2, <2>1 DEF Unheard
<1>5. CASE ~Astray
  <2>1. acked <= alteredAt
    <3>1. CASE m_seq_ack_control_flag
      BY <1>1, <1>5, <3>1 DEF Astray
    <3>2. CASE ~m_seq_ack_control_flag
      <4>1. acked <= Answered /\ Answered <= alteredAt /\ Answered \in Nat
        BY <1>3, <3>2, TamperOrder
      <4>. QED  BY <1>1, <4>1
    <3>. QED  BY <3>1, <3>2
  <2>. QED  BY <1>1, <1>2, <2>1
<1>. QED  BY <1>4, <1>5

\* dropAck, alterSeqAckNum: once a message is altered, the sender never hears of the
\* frame in front of the wrap, whatever has overtaken the drop and however long the
\* flow; a tampered flow ends with the lap it began in.
THEOREM LapNeverPassed == TSpec => []EndsWithTheLap
BY TTypesInit, TTypesNext, NumbersInit, NumbersNext, LapEnds, PTL DEF TSpec

\* createAttackMessage, dropAck: if frames come by before the drop, the sender's window
\* stays in front of the last of them for ever.
THEOREM OvertakingAlwaysStalls == TSpec => []OvertakingStalls
BY TTypesInit, TTypesNext, NumbersInit, NumbersNext, LapEnds, PTL DEF TSpec

-----------------------------------------------------------------------------
(* Where messages begin in the flow of frames.  The receiver's flow has    *)
(* one frame more than the sender's, at the end of the first message.      *)

\* Rows of pieces, one per message, and how many pieces come before each.
Laid(starts, cuts) ==
  /\ cuts \in Seq(Seq(Pieces)) /\ \A m \in 1..Len(cuts) : Len(cuts[m]) > 0
  /\ starts \in Seq(Nat) /\ Len(starts) = Len(cuts) + 1 /\ starts[1] = 0
  /\ \A m \in 1..Len(cuts) : starts[m + 1] = starts[m] + Len(cuts[m])
  /\ \A m \in 1..(Len(cuts) + 1) : \A l \in 1..(m - 1) : starts[l] + Len(cuts[l]) <= starts[m]

\* The k-th frame is a piece of its message and has the markers of that piece.
Placed(frame, k, starts, cuts) ==
  \E m \in 1..Len(cuts) : \E i \in 1..Len(cuts[m]) :
    /\ k = starts[m] + i /\ frame.data = cuts[m][i]
    /\ frame.start_of_message = (i = 1) /\ frame.end_of_message = (i = Len(cuts[m]))
AllPlaced(queue, first, starts, cuts) ==
  \A i \in DOMAIN queue : Placed(queue[i], first + i, starts, cuts)

LEMMA PlacedTakeFirst ==
  ASSUME NEW S, NEW queue \in Seq(S), queue # <<>>, NEW first \in Int, NEW starts, NEW cuts,
         AllPlaced(queue, first, starts, cuts)
  PROVE  /\ Placed(Head(queue), first + 1, starts, cuts)
         /\ AllPlaced(Tail(queue), first + 1, starts, cuts)
<1>1. /\ 1 \in DOMAIN queue /\ Head(queue) = queue[1]
      /\ \A i \in DOMAIN Tail(queue) : /\ Tail(queue)[i] = queue[i + 1] /\ i + 1 \in DOMAIN queue
                                       /\ first + (i + 1) = (first + 1) + i
  OBVIOUS
<1>. QED  BY <1>1 DEF AllPlaced

LEMMA PlacedAddLast ==
  ASSUME NEW S, NEW queue \in Seq(S), NEW elem \in S, NEW first \in Int, NEW starts, NEW cuts,
         AllPlaced(queue, first, starts, cuts),
         Placed(elem, first + Len(queue) + 1, starts, cuts)
  PROVE  AllPlaced(Append(queue, elem), first, starts, cuts)
<1>1. \A i \in DOMAIN Append(queue, elem) :
        \/ Append(queue, elem)[i] = elem /\ first + i = first + Len(queue) + 1
        \/ i \in DOMAIN queue /\ Append(queue, elem)[i] = queue[i]
  OBVIOUS
<1>. QED  BY <1>1 DEF AllPlaced

LEMMA PlacedMoveBehind ==
  ASSUME NEW S, NEW queue \in Seq(S), NEW rest \in Seq(S), NEW first \in Int,
         NEW starts, NEW cuts, AllPlaced(queue, first, starts, cuts),
         AllPlaced(rest, first + Len(queue), starts, cuts)
  PROVE  AllPlaced(queue \o rest, first, starts, cuts)
<1>. DEFINE both == queue \o rest
<1>1. /\ Len(queue) \in Nat /\ Len(rest) \in Nat
      /\ DOMAIN queue = 1..Len(queue) /\ DOMAIN rest = 1..Len(rest)
      /\ DOMAIN both = 1..(Len(queue) + Len(rest))
      /\ \A i \in 1..(Len(queue) + Len(rest)) :
           both[i] = IF i <= Len(queue) THEN queue[i] ELSE rest[i - Len(queue)]
  BY ConcatProperties
<1>2. \A i \in DOMAIN both :
        \/ i \in DOMAIN queue /\ both[i] = queue[i]
        \/ /\ i - Len(queue) \in DOMAIN rest /\ both[i] = rest[i - Len(queue)]
           /\ first + Len(queue) + (i - Len(queue)) = first + i
  BY <1>1
<1>. HIDE DEF both
<1>. QED  BY <1>2 DEF AllPlaced, both

LEMMA LaidValues ==
  ASSUME NEW starts, NEW cuts, Laid(starts, cuts)
  PROVE  /\ Len(cuts) \in Nat /\ starts[1] = 0
         /\ \A m \in 1..(Len(cuts) + 1) : starts[m] \in Nat
         /\ \A m \in 1..Len(cuts) : /\ Len(cuts[m]) \in Nat \ {0}
                                    /\ starts[m + 1] = starts[m] + Len(cuts[m])
         /\ \A m \in 1..(Len(cuts) + 1) : \A l \in 1..(m - 1) :
              starts[l] + Len(cuts[l]) <= starts[m]
<1>1. cuts \in Seq(Seq(Pieces)) /\ Len(cuts) \in Nat /\ starts \in Seq(Nat)
      /\ Len(starts) = Len(cuts) + 1
  BY LenProperties DEF Laid
<1>2. \A m \in 1..(Len(cuts) + 1) : starts[m] \in Nat
  BY <1>1
<1>3. \A m \in 1..Len(cuts) : Len(cuts[m]) \in Nat \ {0}
  <2>. TAKE m \in 1..Len(cuts)
  <2>1. cuts[m] \in Seq(Pieces)
    BY <1>1
  <2>2. Len(cuts[m]) \in Nat
    BY <2>1, LenProperties
  <2>. QED  BY <2>2 DEF Laid
<1>. QED  BY <1>1, <1>2, <1>3 DEF Laid

\* One more message behind the others.
LongerBy(starts, cuts, cut, more, rows) ==
  /\ Laid(more, rows) /\ Len(rows) = Len(cuts) + 1 /\ rows[Len(cuts) + 1] = cut
  /\ more[Len(cuts) + 2] = starts[Len(cuts) + 1] + Len(cut)
  /\ \A m \in 1..Len(cuts) : rows[m] = cuts[m]
  /\ \A m \in 1..(Len(cuts) + 1) : more[m] = starts[m]

LEMMA LaidLonger ==
  ASSUME NEW starts, NEW cuts, NEW cut, Laid(starts, cuts), cut \in Seq(Pieces), cut # <<>>
  PROVE  \E more, rows : LongerBy(starts, cuts, cut, more, rows)
<1>p1. PICK n, end, more, rows :
         /\ n = Len(cuts) /\ end = starts[n + 1] + Len(cut)
         /\ more = Append(starts, end) /\ rows = Append(cuts, cut)
  OBVIOUS
<1>0. Len(cut) > 0 /\ n = Len(cuts) /\ end = starts[n + 1] + Len(cut)
      /\ more = Append(starts, end) /\ rows = Append(cuts, cut)
  BY <1>p1
<1>1. /\ n \in Nat /\ cuts \in Seq(Seq(Pieces)) /\ starts \in Seq(Nat) /\ Len(starts) = n + 1
      /\ Len(cut) \in Nat /\ Len(cut) > 0 /\ starts[n + 1] \in Nat /\ end \in Nat
      /\ \A m \in 1..n : Len(cuts[m]) \in Nat /\ Len(cuts[m]) > 0
      /\ \A m \in 1..(n + 1) : starts[m] \in Nat
      /\ starts[1] = 0
      /\ \A m \in 1..n : starts[m + 1] = starts[m] + Len(cuts[m])
      /\ \A m \in 1..(n + 1) : \A l \in 1..(m - 1) : starts[l] + Len(cuts[l]) <= starts[m]
  <2>1. Len(cut) \in Nat /\ n + 1 \in 1..(n + 1)
    BY <1>0, LaidValues, LenProperties
  <2>2. starts[n + 1] \in Nat
    BY <1>0, <2>1, LaidValues
  <2>3. end \in Nat
    BY <1>0, <2>1, <2>2
  <2>4. cuts \in Seq(Seq(Pieces)) /\ starts \in Seq(Nat) /\ Len(starts) = n + 1
    BY <1>0 DEF Laid
  <2>5. /\ starts[1] = 0
        /\ \A m \in 1..n : Len(cuts[m]) \in Nat /\ Len(cuts[m]) > 0
        /\ \A m \in 1..n : starts[m + 1] = starts[m] + Len(cuts[m])
        /\ \A m \in 1..(n + 1) : starts[m] \in Nat
        /\ \A m \in 1..(n + 1) : \A l \in 1..(m - 1) : starts[l] + Len(cuts[l]) <= starts[m]
    <3>1. \A m \in 1..Len(cuts) : Len(cuts[m]) \in Nat /\ Len(cuts[m]) > 0
      <4>1. \A m \in 1..Len(cuts) : Len(cuts[m]) \in Nat \ {0}
        BY LaidValues
      <4>. QED  BY <4>1
    <3>2. /\ starts[1] = 0
          /\ \A m \in 1..Len(cuts) : starts[m + 1] = starts[m] + Len(cuts[m])
          /\ \A m \in 1..(Len(cuts) + 1) : starts[m] \in Nat
          /\ \A m \in 1..(Len(cuts) + 1) : \A l \in 1..(m - 1) :
               starts[l] + Len(cuts[l]) <= starts[m]
      <4>1. Laid(starts, cuts)
        OBVIOUS
      <4>. QED  BY ONLY <4>1, LaidValues
    <3>. QED  BY ONLY <1>0, <3>1, <3>2
  <2>. QED  BY <1>0, <2>1, <2>2, <2>3, <2>4, <2>5
<1>2. /\ rows \in Seq(Seq(Pieces)) /\ Len(rows) = n + 1 /\ rows[n + 1] = cut
      /\ \A m \in 1..n : rows[m] = cuts[m]
  BY <1>0, <1>1, AppendProperties
<1>3. /\ more \in Seq(Nat) /\ Len(more) = n + 2 /\ more[n + 2] = end
      /\ \A m \in 1..(n + 1) : more[m] = starts[m]
  BY <1>0, <1>1, AppendProperties
<1>4. \A m \in 1..(n + 1) : Len(rows[m]) > 0 /\ more[m + 1] = more[m] + Len(rows[m])
  <2>. TAKE m \in 1..(n + 1)
  <2>1. CASE m = n + 1
    <3>1. m + 1 = n + 2
      BY <1>1, <2>1
    <3>. QED  BY <1>0, <1>1, <1>2, <1>3, <2>1, <3>1
  <2>2. CASE m \in 1..n
    <3>1. m + 1 \in 1..(n + 1)
      BY <1>1, <2>2
    <3>. QED  BY <1>1, <1>2, <1>3, <2>2, <3>1
  <2>. QED  BY <1>1, <2>1, <2>2
<1>5. \A m \in 1..(n + 2) : \A l \in 1..(m - 1) : more[l] + Len(rows[l]) <= more[m]
  <2>. TAKE m \in 1..(n + 2)
  <2>. TAKE l \in 1..(m - 1)
  <2>4. m \in 1..(n + 2) /\ l \in 1..(m - 1)
    OBVIOUS
  <2>1. CASE m \in 1..(n + 1)
    <3>1. l \in 1..n /\ l \in 1..(n + 1)
      BY ONLY <1>1, <2>1, <2>4
    <3>2. more[l] = starts[l]
      BY ONLY <1>3, <3>1
    <3>3. rows[l] = cuts[l]
      BY ONLY <1>2, <3>1
    <3>4. more[m] = starts[m]
      BY ONLY <1>3, <2>1
    <3>5. l \in 1..(m - 1)
      OBVIOUS
    <3>6. starts[l] + Len(cuts[l]) <= starts[m]
      BY ONLY <1>1, <2>1, <3>5
    <3>. QED  BY ONLY <3>2, <3>3, <3>4, <3>6
  <2>2. CASE m = n + 2 /\ l = n + 1
    <3>1. l \in 1..(n + 1) /\ rows[l] = cut /\ more[m] = end
      BY ONLY <1>1, <1>2, <1>3, <2>2
    <3>2. more[l] = starts[n + 1] /\ end = starts[n + 1] + Len(cut)
      BY ONLY <1>0, <1>3, <2>2, <3>1
    <3>. QED  BY ONLY <1>1, <3>1, <3>2
  <2>3. CASE m = n + 2 /\ l \in 1..n
    <3>1. l \in 1..(n + 1) /\ n + 1 \in 1..(n + 1) /\ l \in 1..((n + 1) - 1)
      BY ONLY <1>1, <2>3
    <3>2. more[l] = starts[l] /\ rows[l] = cuts[l] /\ more[m] = end
      BY ONLY <1>2, <1>3, <2>3, <3>1
    <3>3. starts[l] + Len(cuts[l]) <= starts[n + 1]
      BY ONLY <1>1, <3>1
    <3>4. starts[l] \in Nat /\ Len(cuts[l]) \in Nat /\ end = starts[n + 1] + Len(cut)
      BY ONLY <1>1, <2>3, <3>1, <1>0
    <3>. PICK a, b, c : a = starts[l] /\ b = Len(cuts[l]) /\ c = starts[n + 1]
      OBVIOUS
    <3>5. a \in Nat /\ b \in Nat /\ a + b <= c /\ end = c + Len(cut) /\ c \in Nat
          /\ Len(cut) \in Nat
      BY <1>1, <3>3, <3>4
    <3>6. a + b <= end
      BY ONLY <3>5
    <3>7. more[l] = a /\ Len(rows[l]) = b /\ more[m] = end
      BY <3>2
    <3>. QED  BY ONLY <3>6, <3>7
  <2>5. m \in 1..(n + 1) \/ (m = n + 2 /\ l = n + 1) \/ (m = n + 2 /\ l \in 1..n)
    BY ONLY <1>1, <2>4
  <2>. QED  BY <2>1, <2>2, <2>3, <2>5
<1>6. Laid(more, rows)
  <2>1. more[1] = 0 /\ Len(more) = Len(rows) + 1 /\ Len(rows) + 1 = n + 2
    BY <1>1, <1>2, <1>3
  <2>. QED  BY <1>2, <1>3, <1>4, <1>5, <2>1 DEF Laid
<1>7. LongerBy(starts, cuts, cut, more, rows)
  BY ONLY <1>0, <1>1, <1>2, <1>3, <1>6 DEF LongerBy
<1>. QED  BY <1>7

\* What was placed stays so when a message is added.
LEMMA PlacedLonger ==
  ASSUME NEW starts, NEW cuts, NEW starts2, NEW cuts2,
         Len(cuts) \in Nat, Len(cuts2) \in Nat, Len(cuts) <= Len(cuts2),
         \A m \in 1..Len(cuts) : cuts2[m] = cuts[m] /\ starts2[m] = starts[m]
  PROVE  /\ \A frame, k : Placed(frame, k, starts, cuts) => Placed(frame, k, starts2, cuts2)
         /\ \A queue, first : AllPlaced(queue, first, starts, cuts)
                              => AllPlaced(queue, first, starts2, cuts2)
<1>1. ASSUME NEW frame, NEW k, Placed(frame, k, starts, cuts)
      PROVE  Placed(frame, k, starts2, cuts2)
  <2>1. PICK m \in 1..Len(cuts) : \E i \in 1..Len(cuts[m]) :
          /\ k = starts[m] + i /\ frame.data = cuts[m][i]
          /\ frame.start_of_message = (i = 1) /\ frame.end_of_message = (i = Len(cuts[m]))
    BY <1>1 DEF Placed
  <2>2. m \in 1..Len(cuts2) /\ cuts2[m] = cuts[m] /\ starts2[m] = starts[m]
    OBVIOUS
  <2>3. \E i \in 1..Len(cuts2[m]) :
          /\ k = starts2[m] + i /\ frame.data = cuts2[m][i]
          /\ frame.start_of_message = (i = 1) /\ frame.end_of_message = (i = Len(cuts2[m]))
    BY <2>1, <2>2
  <2>. QED  BY ONLY <2>2, <2>3 DEF Placed
<1>. QED  BY <1>1 DEF AllPlaced

\* A place belongs to one message.
LEMMA PlacedMeans ==
  ASSUME NEW starts, NEW cuts, Laid(starts, cuts), NEW frame, NEW k \in Nat,
         Placed(frame, k, starts, cuts), NEW m \in 1..Len(cuts), starts[m] < k,
         k <= starts[m + 1], NEW i, i = k - starts[m]
  PROVE  /\ i \in 1..Len(cuts[m]) /\ frame.data = cuts[m][i]
         /\ frame.start_of_message = (i = 1) /\ frame.end_of_message = (i = Len(cuts[m]))
<1>. PICK l \in 1..Len(cuts) : \E j \in 1..Len(cuts[l]) :
       /\ k = starts[l] + j /\ frame.data = cuts[l][j]
       /\ frame.start_of_message = (j = 1) /\ frame.end_of_message = (j = Len(cuts[l]))
  BY DEF Placed
<1>1. PICK j \in 1..Len(cuts[l]) :
        /\ k = starts[l] + j /\ frame.data = cuts[l][j]
        /\ frame.start_of_message = (j = 1) /\ frame.end_of_message = (j = Len(cuts[l]))
  OBVIOUS
<1>2. /\ Len(cuts) \in Nat /\ starts[m] \in Nat /\ starts[l] \in Nat
      /\ Len(cuts[m]) \in Nat /\ Len(cuts[l]) \in Nat
      /\ starts[m + 1] = starts[m] + Len(cuts[m])
  <2>1. /\ Len(cuts) \in Nat
        /\ \A h \in 1..(Len(cuts) + 1) : starts[h] \in Nat
        /\ \A h \in 1..Len(cuts) : /\ Len(cuts[h]) \in Nat \ {0}
                                   /\ starts[h + 1] = starts[h] + Len(cuts[h])
    BY LaidValues
  <2>2. m \in 1..Len(cuts) /\ l \in 1..Len(cuts) /\ m \in 1..(Len(cuts) + 1)
        /\ l \in 1..(Len(cuts) + 1)
    BY <2>1
  <2>. QED  BY ONLY <2>1, <2>2
<1>7. \A h \in 1..(Len(cuts) + 1) : \A g \in 1..(h - 1) :
        starts[g] + Len(cuts[g]) <= starts[h]
  BY LaidValues
<1>3. ~(l < m)
  <2>. SUFFICES ASSUME l < m PROVE FALSE
    OBVIOUS
  <2>1. m \in 1..(Len(cuts) + 1) /\ l \in 1..(m - 1)
    BY <1>2
  <2>2. starts[l] + Len(cuts[l]) <= starts[m]
    BY ONLY <1>7, <2>1
  <2>3. k = starts[l] + j /\ starts[m] < k /\ k <= starts[m + 1] /\ j \in 1..Len(cuts[l])
    BY <1>1
  <2>. QED  BY ONLY <1>2, <2>2, <2>3
<1>4. ~(m < l)
  <2>. SUFFICES ASSUME m < l PROVE FALSE
    OBVIOUS
  <2>1. l \in 1..(Len(cuts) + 1) /\ m \in 1..(l - 1)
    BY <1>2
  <2>2. starts[m] + Len(cuts[m]) <= starts[l]
    BY ONLY <1>7, <2>1
  <2>3. k = starts[l] + j /\ starts[m] < k /\ k <= starts[m + 1] /\ j \in 1..Len(cuts[l])
    BY <1>1
  <2>. QED  BY ONLY <1>2, <2>2, <2>3
<1>5. l = m
  BY <1>2, <1>3, <1>4
<1>6. i = j
  BY <1>1, <1>2, <1>5
<1>. QED  BY <1>1, <1>5, <1>6

-----------------------------------------------------------------------------
(* The inductive invariant about messages.                                 *)

\* The m-th message as the sender cuts it, and as the receiver is to get it.
Whole(m, altered) ==
  IF altered /\ m = 1 THEN Split(typed[m]) \o <<Inserted>> ELSE Split(typed[m])
LaidOut(starts, cuts, altered) ==
  Laid(starts, cuts) /\ Len(cuts) = Framed /\ \A m \in 1..Framed : cuts[m] = Whole(m, altered)

\* The sender's flow, which the router alters at the end of its first message.
SentPlaced(starts, cuts) ==
  /\ starts[Framed + 1] = Len(sent) + Len(pending_frame_list)
  /\ AllPlaced(uplink, passed, starts, cuts)
  /\ AllPlaced(m_output_queue, passed + Len(uplink), starts, cuts)
  /\ AllPlaced(pending_frame_list, Len(sent), starts, cuts)
  /\ IF alteredAt = 0 THEN Framed > 0 => passed < starts[2]
     ELSE Framed > 0 /\ alteredAt = starts[2]

\* The receiver's flow, of which its array still holds the last SeqMod frames.
ReceivedPlaced(starts, cuts) ==
  /\ NFE = accepted % SeqMod /\ recv_marked \subseteq {NFE}
  /\ TakenIn + Len(toReceiver) = Forwarded
  /\ AllPlaced(toReceiver, TakenIn, starts, cuts)
  /\ \A k \in 1..TakenIn : TakenIn < k + SeqMod =>
       Placed(receiver_queue[(k - 1) % SeqMod], k, starts, cuts)
  /\ Len(printed) <= Framed /\ starts[Len(printed) + 1] <= accepted
  /\ Len(printed) < Framed => accepted < starts[Len(printed) + 2]
  /\ \A p \in DOMAIN printed : printed[p] = Expected(p)

BothLaidOut(starts, cuts, later, longer) ==
  /\ LaidOut(starts, cuts, FALSE) /\ LaidOut(later, longer, TRUE)
  /\ \A m \in 2..(Framed + 1) : later[m] = starts[m] + 1

PlacesInv ==
  /\ UserQueueInOrder
  /\ \E starts, cuts, later, longer :
       /\ BothLaidOut(starts, cuts, later, longer) /\ SentPlaced(starts, cuts)
       /\ Orderly => ReceivedPlaced(later, longer)

LEMMA PlacesCounts ==
  ASSUME TTypes, UserQueueInOrder
  PROVE  /\ Framed \in Nat /\ Framed <= Len(typed) /\ Len(typed) \in Nat
         /\ DOMAIN typed = 1..Len(typed) /\ Len(printed) \in Nat
         /\ DOMAIN printed = 1..Len(printed) /\ accepted \in Nat
         /\ \A m \in DOMAIN typed : typed[m] \in Messages
<1>1. typed \in Seq(Messages) /\ m_user_input_queue \in Seq(Messages) /\ accepted \in Nat
      /\ printed \in Seq(Seq(Pieces))
  BY DEF TTypes, SenderSide, ReceiverSide
<1>2. Len(typed) \in Nat /\ Len(m_user_input_queue) \in Nat /\ DOMAIN typed = 1..Len(typed)
      /\ Len(printed) \in Nat /\ DOMAIN printed = 1..Len(printed)
  BY <1>1, LenProperties
<1>3. Framed \in Nat /\ Framed <= Len(typed)
  BY <1>2 DEF Framed, UserQueueInOrder
<1>. QED  BY <1>1, <1>2, <1>3

\* What a message is cut into.
LEMMA WholeType ==
  ASSUME TTypes, UserQueueInOrder, NEW m \in DOMAIN typed, NEW altered \in BOOLEAN
  PROVE  /\ Whole(m, altered) \in Seq(Pieces)
         /\ Len(Split(typed[m])) \in Nat \ {0} /\ Len(Split(typed[m])) = FramesIn(m)
         /\ Len(Whole(m, altered))
              = IF altered /\ m = 1 THEN FramesIn(m) + 1 ELSE FramesIn(m)
         /\ \A i \in 1..FramesIn(m) : Whole(m, altered)[i] = Split(typed[m])[i]
         /\ altered /\ m = 1 => Whole(m, altered)[FramesIn(m) + 1] = Inserted
<1>. PICK cut : cut = Split(typed[m])
  OBVIOUS
<1>1. typed[m] \in Messages
  BY PlacesCounts
<1>2. cut \in Seq(Chunks) /\ Len(cut) = FramesIn(m) /\ Len(cut) \in Nat \ {0}
  BY <1>1, SplitType DEF FramesIn
<1>3. cut \in Seq(Pieces) /\ <<Inserted>> \in Seq(Pieces) /\ Len(<<Inserted>>) = 1
  BY <1>2 DEF Pieces
<1>4. /\ cut \o <<Inserted>> \in Seq(Pieces) /\ Len(cut \o <<Inserted>>) = Len(cut) + 1
      /\ \A i \in 1..(Len(cut) + 1) :
           (cut \o <<Inserted>>)[i] = IF i <= Len(cut) THEN cut[i] ELSE <<Inserted>>[i - Len(cut)]
  BY <1>3, ConcatProperties
<1>5. /\ \A i \in 1..Len(cut) : (cut \o <<Inserted>>)[i] = cut[i]
      /\ (cut \o <<Inserted>>)[Len(cut) + 1] = Inserted
  BY <1>2, <1>4
<1>. QED  BY <1>2, <1>3, <1>4, <1>5 DEF Whole

LEMMA PlacesInit == TInit => PlacesInv
<1>. SUFFICES ASSUME TInit PROVE PlacesInv
  OBVIOUS
<1>1. /\ typed = <<>> /\ m_user_input_queue = <<>> /\ sent = <<>> /\ pending_frame_list = <<>>
      /\ uplink = <<>> /\ m_output_queue = <<>> /\ toReceiver = <<>> /\ printed = <<>>
      /\ passed = 0 /\ alteredAt = 0 /\ accepted = 0 /\ NFE = 0 /\ recv_marked = {}
  BY DEF TInit, Init
<1>2. Len(<<>>) = 0 /\ DOMAIN <<>> = {} /\ Framed = 0
  BY <1>1 DEF Framed
<1>3. TakenIn = 0 /\ Forwarded = 0
  BY <1>1 DEF TakenIn, Delivering, Forwarded
<1>4. UserQueueInOrder
  BY <1>1, <1>2 DEF UserQueueInOrder
<1>. PICK starts, cuts : starts = <<0>> /\ cuts = <<>>
  OBVIOUS
<1>5. /\ starts \in Seq(Nat) /\ Len(starts) = 1 /\ starts[1] = 0 /\ Len(cuts) = 0
      /\ cuts \in Seq(Seq(Pieces))
  BY EmptySeq
<1>6. Laid(starts, cuts)
  BY <1>5 DEF Laid
<1>7. BothLaidOut(starts, cuts, starts, cuts)
  BY <1>2, <1>5, <1>6 DEF LaidOut, BothLaidOut
<1>8. \A first : AllPlaced(<<>>, first, starts, cuts)
  BY <1>2 DEF AllPlaced
<1>9. SentPlaced(starts, cuts)
  BY <1>1, <1>2, <1>5, <1>8 DEF SentPlaced
<1>10. ReceivedPlaced(starts, cuts)
  <2>1. 0 % SeqMod = 0
    BY SeqModAssumption
  <2>. QED  BY <1>1, <1>2, <1>3, <1>5, <1>8, <2>1 DEF ReceivedPlaced
<1>. QED  BY <1>4, <1>7, <1>9, <1>10 DEF PlacesInv

-----------------------------------------------------------------------------
(* What a step leaves alone.                                               *)

LEMMA FramedSame ==
  ASSUME UNCHANGED userVars
  PROVE  /\ UNCHANGED <<typed, m_user_input_queue>> /\ Framed' = Framed
         /\ UserQueueInOrder => UserQueueInOrder'
         /\ \A p : Expected(p)' = Expected(p) /\ FramesIn(p)' = FramesIn(p)
         /\ \A starts, cuts, later, longer :
              BothLaidOut(starts, cuts, later, longer) => BothLaidOut(starts, cuts, later, longer)'
<1>1. typed' = typed /\ m_user_input_queue' = m_user_input_queue /\ Framed' = Framed
  BY DEF userVars, Framed
<1>2. \A p : Expected(p)' = Expected(p) /\ FramesIn(p)' = FramesIn(p)
  BY <1>1 DEF Expected, FramesIn
<1>3. UserQueueInOrder => UserQueueInOrder'
  BY <1>1 DEF UserQueueInOrder
<1>4. \A m, altered : Whole(m, altered)' = Whole(m, altered)
  BY <1>1 DEF Whole
<1>5. \A starts, cuts, altered : LaidOut(starts, cuts, altered) => LaidOut(starts, cuts, altered)'
  BY <1>1, <1>4 DEF LaidOut
<1>. QED  BY <1>1, <1>2, <1>3, <1>5 DEF BothLaidOut

LEMMA ReceivedSame ==
  ASSUME NEW starts, NEW cuts, ReceivedPlaced(starts, cuts),
         UNCHANGED <<userVars, toReceiver, passed, alteredAt, NFE, recv_marked,
                     receiver_queue, printed, accepted>>
  PROVE  ReceivedPlaced(starts, cuts)'
<1>1. Framed' = Framed /\ \A p : Expected(p)' = Expected(p)
  BY FramedSame
<1>2. TakenIn' = TakenIn /\ Forwarded' = Forwarded
  BY DEF TakenIn, Delivering, Forwarded
<1>. QED  BY <1>1, <1>2 DEF ReceivedPlaced

LEMMA SentSame ==
  ASSUME NEW starts, NEW cuts, SentPlaced(starts, cuts),
         UNCHANGED <<userVars, sent, pending_frame_list, uplink, m_output_queue,
                     passed, alteredAt>>
  PROVE  SentPlaced(starts, cuts)'
<1>1. Framed' = Framed
  BY FramedSame
<1>. QED  BY <1>1 DEF SentPlaced

\* A flow that is orderly after a step was so before it.
LEMMA OrderlyBefore ==
  ASSUME TTypes, overtaken' = 0 => overtaken = 0, alteredAt' = alteredAt \/ alteredAt = 0,
         Len(sent) <= Len(sent'), Len(sent') \in Nat, Orderly'
  PROVE  Orderly
<1>1. overtaken = 0
  BY DEF Orderly
<1>2. ASSUME alteredAt > 0 PROVE Len(sent) < WrapsAt
  <2>1. alteredAt' = alteredAt /\ WrapsAt' = WrapsAt
    BY <1>2, RouterCounts DEF WrapsAt
  <2>2. Len(sent') < WrapsAt
    BY <1>2, <2>1 DEF Orderly, BeforeWrap
  <2>3. WrapsAt \in Nat
    <3>1. alteredAt \in Nat \ {0}
      BY <1>2, RouterCounts
    <3>. QED  BY <3>1, LapValues DEF WrapsAt
  <2>4. Len(sent) \in Nat
    BY TamperLengths
  <2>. QED  BY <2>2, <2>3, <2>4
<1>. QED  BY <1>1, <1>2 DEF Orderly, BeforeWrap

-----------------------------------------------------------------------------
(* The user and the sender thread.                                         *)

LEMMA UserTypesPlaces ==
  ASSUME TTypes, PlacesInv, NEW length \in Lengths, UserTypes(length),
         UNCHANGED <<tamperVars, tamperHistory>>
  PROVE  PlacesInv'
<1>1. /\ UNCHANGED <<sent, pending_frame_list, uplink, m_output_queue, toReceiver, NFE,
                     recv_marked, receiver_queue, printed, accepted>>
      /\ UNCHANGED <<passed, alteredAt, overtaken>>
  BY DEF UserTypes, blockVars, frameLinks, receiverVars, tamperHistory
<1>2. /\ UserQueueInOrder' /\ Framed' = Framed
      /\ \A m \in DOMAIN typed : m \in DOMAIN typed' /\ typed'[m] = typed[m]
  BY UserTypesInOrder DEF TTypes, SenderSide, PlacesInv
<1>3. \A m \in 1..Framed : m \in DOMAIN typed
  BY PlacesCounts DEF PlacesInv
<1>4. \A m \in 1..Framed : \A altered : Whole(m, altered)' = Whole(m, altered)
  BY <1>2, <1>3 DEF Whole
<1>. PICK starts, cuts, later, longer :
       /\ BothLaidOut(starts, cuts, later, longer) /\ SentPlaced(starts, cuts)
       /\ Orderly => ReceivedPlaced(later, longer)
  BY DEF PlacesInv
<1>5. BothLaidOut(starts, cuts, later, longer)'
  BY <1>2, <1>4 DEF BothLaidOut, LaidOut
<1>6. SentPlaced(starts, cuts)'
  BY <1>1, <1>2 DEF SentPlaced
<1>7. ASSUME Orderly' PROVE ReceivedPlaced(later, longer)'
  <2>1. Orderly
    BY <1>1, <1>7 DEF Orderly, BeforeWrap, WrapsAt
  <2>2. ReceivedPlaced(later, longer)
    BY <2>1
  <2>3. TakenIn' = TakenIn /\ Forwarded' = Forwarded
    BY <1>1 DEF TakenIn, Delivering, Forwarded
  <2>4. \A p \in DOMAIN printed : p \in 1..Framed
    <3>1. Len(printed) <= Framed /\ Framed \in Nat /\ Len(printed) \in Nat
          /\ DOMAIN printed = 1..Len(printed)
      BY <2>2, PlacesCounts DEF ReceivedPlaced, PlacesInv
    <3>. QED  BY <3>1
  <2>5. \A p \in 1..Framed : Expected(p)' = Expected(p)
    BY <1>2, <1>3 DEF Expected
  <2>. QED  BY <1>1, <1>2, <2>2, <2>3, <2>4, <2>5 DEF ReceivedPlaced
<1>. QED  BY <1>2, <1>5, <1>6, <1>7 DEF PlacesInv

\* Steps that touch neither what is typed nor the flow of frames.
LEMMA NoFramePlaces ==
  ASSUME TTypes, PlacesInv,
         UNCHANGED <<userVars, sent, pending_frame_list, uplink, m_output_queue, toReceiver, NFE,
                     recv_marked, receiver_queue, printed, accepted, tamperHistory>>
  PROVE  PlacesInv'
<1>1. UNCHANGED <<passed, alteredAt, overtaken>>
  BY DEF tamperHistory
<1>. PICK starts, cuts, later, longer :
       /\ BothLaidOut(starts, cuts, later, longer) /\ SentPlaced(starts, cuts)
       /\ Orderly => ReceivedPlaced(later, longer)
  BY DEF PlacesInv
<1>2. UserQueueInOrder' /\ BothLaidOut(starts, cuts, later, longer)'
  BY FramedSame DEF PlacesInv
<1>3. SentPlaced(starts, cuts)'
  BY <1>1, SentSame
<1>4. Orderly' => Orderly
  BY <1>1 DEF Orderly, BeforeWrap, WrapsAt
<1>5. Orderly' => ReceivedPlaced(later, longer)'
  BY <1>1, <1>4, ReceivedSame
<1>. QED  BY <1>2, <1>3, <1>5 DEF PlacesInv

LEMMA SendPendingFramePlaces ==
  ASSUME TTypes, PlacesInv, SendPendingFrame, UNCHANGED <<tamperVars, tamperHistory>>,
         FramesCounted
  PROVE  PlacesInv'
<1>. DEFINE frame == Head(pending_frame_list)
<1>1. /\ pending_frame_list # <<>> /\ pending_frame_list' = Tail(pending_frame_list)
      /\ m_output_queue' = Append(m_output_queue, frame)
      /\ sent' = Append(sent, frame.data)
      /\ UNCHANGED <<userVars, uplink, toReceiver, NFE, recv_marked, receiver_queue, printed,
                     accepted>>
      /\ UNCHANGED <<passed, alteredAt, overtaken>>
  BY DEF SendPendingFrame, MayLeave, frameLinks, receiverVars, tamperHistory
<1>2. /\ pending_frame_list \in Seq(Frames) /\ m_output_queue \in Seq(Frames)
      /\ sent \in Seq(Chunks)
  BY DEF TTypes, SenderSide
<1>3. frame \in Frames /\ frame.data \in Chunks
  <2>1. frame \in Frames
    BY <1>1, <1>2, HeadTailProperties
  <2>. QED  BY <2>1 DEF Frames
<1>4. Len(pending_frame_list') = Len(pending_frame_list) - 1 /\ Len(sent') = Len(sent) + 1
  BY <1>1, <1>2, <1>3, HeadTailProperties, AppendProperties
<1>5. /\ Len(sent) \in Nat /\ Len(pending_frame_list) \in Nat
      /\ Len(uplink) \in Nat /\ Len(m_output_queue) \in Nat
  BY TamperLengths
<1>6. passed \in Nat /\ passed + Len(uplink) + Len(m_output_queue) = Len(sent)
  BY RouterCounts DEF FramesCounted
<1>. HIDE DEF frame
<1>. PICK starts, cuts, later, longer :
       /\ BothLaidOut(starts, cuts, later, longer) /\ SentPlaced(starts, cuts)
       /\ Orderly => ReceivedPlaced(later, longer)
  BY DEF PlacesInv
<1>7. UserQueueInOrder' /\ BothLaidOut(starts, cuts, later, longer)' /\ Framed' = Framed
  BY <1>1, FramedSame DEF PlacesInv
<1>8. SentPlaced(starts, cuts)'
  <2>1. /\ AllPlaced(pending_frame_list, Len(sent), starts, cuts)
        /\ AllPlaced(m_output_queue, passed + Len(uplink), starts, cuts)
    BY DEF SentPlaced
  <2>2. /\ Placed(frame, Len(sent) + 1, starts, cuts)
        /\ AllPlaced(pending_frame_list', Len(sent) + 1, starts, cuts)
    BY <1>1, <1>2, <1>5, <2>1, PlacedTakeFirst DEF frame
  <2>. PICK first : first = passed + Len(uplink)
    OBVIOUS
  <2>3. first \in Int /\ first + Len(m_output_queue) + 1 = Len(sent) + 1
    BY <1>5, <1>6
  <2>4. AllPlaced(m_output_queue', first, starts, cuts)
    <3>1. Placed(frame, first + Len(m_output_queue) + 1, starts, cuts)
      BY <2>2, <2>3
    <3>. QED  BY <1>1, <1>2, <1>3, <2>1, <2>3, <3>1, PlacedAddLast
  <2>5. Len(sent') + Len(pending_frame_list') = Len(sent) + Len(pending_frame_list)
    BY <1>4, <1>5
  <2>. QED  BY <1>1, <1>4, <1>7, <2>2, <2>4, <2>5 DEF SentPlaced
<1>9. ASSUME Orderly' PROVE ReceivedPlaced(later, longer)'
  <2>1. Len(sent) <= Len(sent') /\ Len(sent') \in Nat
    BY <1>4, <1>5
  <2>2. Orderly
    BY <1>1, <1>9, <2>1, OrderlyBefore
  <2>. QED  BY <1>1, <2>2, ReceivedSame
<1>. QED  BY <1>7, <1>8, <1>9 DEF PlacesInv

LEMMA SendMessageToRouterPlaces ==
  ASSUME TTypes, PlacesInv, SendMessageToRouter, UNCHANGED <<tamperVars, tamperHistory>>
  PROVE  PlacesInv'
<1>1. /\ uplink' = uplink \o m_output_queue /\ m_output_queue' = <<>>
      /\ UNCHANGED <<userVars, sent, pending_frame_list, toReceiver, NFE, recv_marked,
                     receiver_queue, printed, accepted>>
      /\ UNCHANGED <<passed, alteredAt, overtaken>>
  BY DEF SendMessageToRouter, blockVars, receiverVars, tamperHistory
<1>2. uplink \in Seq(Frames) /\ m_output_queue \in Seq(Frames) /\ passed \in Int
  BY RouterCounts DEF TTypes, SenderSide
<1>. PICK starts, cuts, later, longer :
       /\ BothLaidOut(starts, cuts, later, longer) /\ SentPlaced(starts, cuts)
       /\ Orderly => ReceivedPlaced(later, longer)
  BY DEF PlacesInv
<1>3. UserQueueInOrder' /\ BothLaidOut(starts, cuts, later, longer)' /\ Framed' = Framed
  BY <1>1, FramedSame DEF PlacesInv
<1>4. SentPlaced(starts, cuts)'
  <2>1. AllPlaced(uplink', passed, starts, cuts)
    BY <1>1, <1>2, PlacedMoveBehind DEF SentPlaced
  <2>2. AllPlaced(m_output_queue', passed + Len(uplink'), starts, cuts)
    BY <1>1 DEF AllPlaced
  <2>. QED  BY <1>1, <1>3, <2>1, <2>2 DEF SentPlaced
<1>5. Orderly' => Orderly
  BY <1>1 DEF Orderly, BeforeWrap, WrapsAt
<1>6. Orderly' => ReceivedPlaced(later, longer)'
  BY <1>1, <1>5, ReceivedSame
<1>. QED  BY <1>3, <1>4, <1>6 DEF PlacesInv

\* handleUserInput adds a message to both flows.
LEMMA HandleUserInputPlaces ==
  ASSUME TTypes, PlacesInv, HandleUserInput, UNCHANGED <<tamperVars, tamperHistory>>,
         FramesCounted
  PROVE  PlacesInv'
<1>. DEFINE message == Head(m_user_input_queue)
            frames == FramesOf(message)
<1>1. /\ m_user_input_queue # <<>> /\ typed' = typed
      /\ pending_frame_list' = pending_frame_list \o frames
      /\ UNCHANGED <<sent, uplink, m_output_queue, toReceiver, NFE, recv_marked, receiver_queue,
                     printed, accepted>>
      /\ UNCHANGED <<passed, alteredAt, overtaken>>
  BY DEF HandleUserInput, frameLinks, receiverVars, tamperHistory
<1>p1. PICK n, cut, cut2 : n = Framed /\ cut = Whole(Framed + 1, FALSE) /\ cut2 = Whole(Framed + 1, TRUE)
  OBVIOUS
<1>2. /\ UserQueueInOrder' /\ n \in Nat /\ Framed' = n + 1 /\ n + 1 \in DOMAIN typed
      /\ message = typed[n + 1] /\ message \in Messages
  <2>1. typed \in Seq(Messages) /\ m_user_input_queue \in Seq(Messages) /\ UserQueueInOrder
    BY DEF TTypes, SenderSide, PlacesInv
  <2>2. message \in Messages
    BY <1>1, <2>1, HeadTailProperties
  <2>. QED  BY <1>p1, <2>1, <2>2, HandleUserInputInOrder
<1>3. /\ cut \in Seq(Pieces) /\ cut2 \in Seq(Pieces) /\ Len(cut) \in Nat \ {0}
      /\ Len(cut2) = IF n = 0 THEN Len(cut) + 1 ELSE Len(cut)
      /\ cut = Split(message)
  <2>1. UserQueueInOrder
    BY DEF PlacesInv
  <2>2. FramesIn(n + 1) \in Nat \ {0} /\ Len(cut) = FramesIn(n + 1)
        /\ cut \in Seq(Pieces) /\ cut2 \in Seq(Pieces)
        /\ Len(cut2) = IF n + 1 = 1 THEN FramesIn(n + 1) + 1 ELSE FramesIn(n + 1)
    BY <1>p1, <1>2, <2>1, WholeType
  <2>. QED  BY <1>p1, <1>2, <2>2 DEF Whole
<1>4. /\ frames \in Seq(Frames) /\ Len(frames) = Len(cut)
      /\ \A i \in 1..Len(cut) : /\ frames[i].data = cut[i]
                                /\ frames[i].start_of_message = (i = 1)
                                /\ frames[i].end_of_message = (i = Len(cut))
  <2>1. SEQ \in SeqNums
    BY DEF TTypes, SenderSide
  <2>2. frames \in Seq(Frames) /\ Len(frames) = Len(cut)
    BY <1>2, <1>3, <2>1, FramesOfType, SplitType
  <2>. QED  BY <1>3, <2>2 DEF FramesOf
<1>5. /\ Len(sent) \in Nat /\ Len(pending_frame_list) \in Nat
      /\ Len(uplink) \in Nat /\ Len(m_output_queue) \in Nat
  BY TamperLengths
<1>6. /\ passed \in Nat /\ passed + Len(uplink) + Len(m_output_queue) = Len(sent)
      /\ passed <= Len(sent)
  <2>1. passed \in Nat /\ passed + Len(uplink) + Len(m_output_queue) = Len(sent)
    BY RouterCounts DEF FramesCounted
  <2>. QED  BY <1>5, <2>1
<1>7. pending_frame_list \in Seq(Frames)
  BY DEF TTypes, SenderSide
<1>. HIDE DEF frames, message
<1>8. Len(pending_frame_list') = Len(pending_frame_list) + Len(cut)
  <2>p. PICK a, b : a = pending_frame_list /\ b = frames
    OBVIOUS
  <2>2. a \in Seq(Frames) /\ b \in Seq(Frames)
    BY <1>4, <1>7, <2>p
  <2>3. Len(a \o b) = Len(a) + Len(b)
    BY ONLY <2>2, ConcatProperties
  <2>1. Len(pending_frame_list \o frames) = Len(pending_frame_list) + Len(frames)
    BY ONLY <2>p, <2>3
  <2>. QED  BY <1>1, <1>4, <2>1
<1>p2. PICK starts, cuts, later, longer :
       /\ BothLaidOut(starts, cuts, later, longer) /\ SentPlaced(starts, cuts)
       /\ Orderly => ReceivedPlaced(later, longer)
  BY DEF PlacesInv
<1>9. /\ Laid(starts, cuts) /\ Laid(later, longer) /\ Len(cuts) = n /\ Len(longer) = n
      /\ \A m \in 1..n : cuts[m] = Whole(m, FALSE) /\ longer[m] = Whole(m, TRUE)
      /\ \A m \in 2..(n + 1) : later[m] = starts[m] + 1
      /\ starts[1] = 0 /\ later[1] = 0
      /\ starts[n + 1] = Len(sent) + Len(pending_frame_list)
  BY <1>p1, <1>p2 DEF BothLaidOut, LaidOut, Laid, SentPlaced
<1>p3. PICK total, start, end :
       /\ total = Len(sent) + Len(pending_frame_list)
       /\ start = total + Len(cut) /\ end = later[n + 1] + Len(cut2)
  OBVIOUS
<1>10. /\ total \in Nat /\ passed <= total /\ start \in Nat /\ start > total
       /\ end = start + 1 /\ (n = 0 => total = 0)
  <2>1. total \in Nat /\ passed <= total /\ start \in Nat /\ start > total
    BY <1>p3, <1>3, <1>5, <1>6
  <2>2. starts[n + 1] = total
    BY <1>p3, <1>9
  <2>3. CASE n = 0
    <3>1. starts[1] = total /\ later[n + 1] = 0
      BY <1>9, <2>2, <2>3
    <3>. QED  BY <1>p3, <1>3, <1>9, <2>1, <2>3, <3>1
  <2>4. CASE n # 0
    <3>1. n + 1 \in 2..(n + 1)
      BY <1>2, <2>4
    <3>2. later[n + 1] = total + 1
      BY <1>9, <2>2, <3>1
    <3>. QED  BY <1>p3, <1>3, <2>1, <2>4, <3>2
  <2>. QED  BY <2>3, <2>4
<1>11a. cut # <<>> /\ cut2 # <<>>
  BY <1>2, <1>3
<1>p4. PICK starts2, cuts2 : LongerBy(starts, cuts, cut, starts2, cuts2)
  BY <1>3, <1>9, <1>11a, LaidLonger
<1>p5. PICK later2, longer2 : LongerBy(later, longer, cut2, later2, longer2)
  BY <1>3, <1>9, <1>11a, LaidLonger
<1>11. /\ Laid(starts2, cuts2) /\ Len(cuts2) = n + 1 /\ cuts2[n + 1] = cut
       /\ starts2[n + 2] = start
       /\ \A m \in 1..n : cuts2[m] = cuts[m]
       /\ \A m \in 1..(n + 1) : starts2[m] = starts[m]
  <2>1. Len(cuts) = n /\ start = starts[n + 1] + Len(cut)
    BY <1>p3, <1>9
  <2>. QED  BY ONLY <1>p4, <2>1 DEF LongerBy
<1>12. /\ Laid(later2, longer2) /\ Len(longer2) = n + 1 /\ longer2[n + 1] = cut2
       /\ later2[n + 2] = end
       /\ \A m \in 1..n : longer2[m] = longer[m]
       /\ \A m \in 1..(n + 1) : later2[m] = later[m]
  <2>1. Len(longer) = n /\ end = later[n + 1] + Len(cut2)
    BY <1>p3, <1>9
  <2>. QED  BY ONLY <1>p5, <2>1 DEF LongerBy
<1>13. BothLaidOut(starts2, cuts2, later2, longer2)'
  <2>1. \A m, altered : Whole(m, altered)' = Whole(m, altered)
    BY <1>1 DEF Whole
  <2>2. \A m \in 1..(n + 1) : m \in 1..n \/ m = n + 1
    BY <1>2
  <2>3. \A m \in 1..(n + 1) : cuts2[m] = Whole(m, FALSE) /\ longer2[m] = Whole(m, TRUE)
    BY <1>p1, <1>9, <1>11, <1>12, <2>2
  <2>4. ASSUME NEW m \in 2..(n + 2) PROVE later2[m] = starts2[m] + 1
    <3>0. m \in 2..(n + 2)
      OBVIOUS
    <3>1. CASE m = n + 2
      <4>1. later2[n + 2] = end /\ starts2[n + 2] = start
        BY <1>11, <1>12
      <4>. QED  BY ONLY <1>10, <3>1, <4>1
    <3>2. CASE m \in 2..(n + 1)
      <4>1. m \in 1..(n + 1)
        BY <3>2
      <4>. QED  BY <1>9, <1>11, <1>12, <3>2, <4>1
    <3>. QED  BY <1>2, <3>0, <3>1, <3>2
  <2>5. Framed' + 1 = n + 2
    BY <1>2
  <2>. QED  BY <1>2, <1>11, <1>12, <2>1, <2>3, <2>4, <2>5 DEF BothLaidOut, LaidOut
<1>14. /\ \A queue, first : AllPlaced(queue, first, starts, cuts)
                            => AllPlaced(queue, first, starts2, cuts2)
       /\ \A queue, first : AllPlaced(queue, first, later, longer)
                            => AllPlaced(queue, first, later2, longer2)
       /\ \A frame, k : Placed(frame, k, later, longer) => Placed(frame, k, later2, longer2)
  <2>1. n \in Nat /\ n <= n + 1 /\ n + 1 \in Nat /\ \A m \in 1..n : m \in 1..(n + 1)
    BY <1>2
  <2>2. Len(cuts) \in Nat /\ Len(cuts2) \in Nat /\ Len(cuts) <= Len(cuts2)
        /\ \A m \in 1..Len(cuts) : cuts2[m] = cuts[m] /\ starts2[m] = starts[m]
    BY <1>9, <1>11, <2>1
  <2>3. Len(longer) \in Nat /\ Len(longer2) \in Nat /\ Len(longer) <= Len(longer2)
        /\ \A m \in 1..Len(longer) : longer2[m] = longer[m] /\ later2[m] = later[m]
    BY <1>9, <1>12, <2>1
  <2>4. \A queue, first : AllPlaced(queue, first, starts, cuts)
                          => AllPlaced(queue, first, starts2, cuts2)
    BY <2>2, PlacedLonger
  <2>. QED  BY <2>3, <2>4, PlacedLonger
<1>15. SentPlaced(starts2, cuts2)'
  <2>1. AllPlaced(frames, total, starts2, cuts2)
    <3>. SUFFICES ASSUME NEW i \in DOMAIN frames
                  PROVE  Placed(frames[i], total + i, starts2, cuts2)
      BY DEF AllPlaced
    <3>1. i \in 1..Len(cut)
      BY <1>4, LenProperties
    <3>2. n + 1 \in 1..Len(cuts2) /\ starts2[n + 1] = total /\ cuts2[n + 1] = cut
      BY <1>p3, <1>2, <1>9, <1>11
    <3>3. /\ total + i = starts2[n + 1] + i /\ frames[i].data = cuts2[n + 1][i]
          /\ frames[i].start_of_message = (i = 1)
          /\ frames[i].end_of_message = (i = Len(cuts2[n + 1]))
          /\ i \in 1..Len(cuts2[n + 1])
      BY <1>4, <3>1, <3>2
    <3>. QED  BY ONLY <3>2, <3>3 DEF Placed
  <2>2. AllPlaced(pending_frame_list', Len(sent), starts2, cuts2)
    <3>1. AllPlaced(pending_frame_list, Len(sent), starts2, cuts2)
      BY <1>p2, <1>14 DEF SentPlaced
    <3>2. AllPlaced(frames, Len(sent) + Len(pending_frame_list), starts2, cuts2)
      BY <1>p3, <2>1
    <3>. QED  BY <1>1, <1>4, <1>5, <1>7, <3>1, <3>2, PlacedMoveBehind
  <2>3. /\ AllPlaced(uplink, passed, starts2, cuts2)
        /\ AllPlaced(m_output_queue, passed + Len(uplink), starts2, cuts2)
    BY <1>p2, <1>14 DEF SentPlaced
  <2>4. starts2[Framed' + 1] = Len(sent) + Len(pending_frame_list')
    <3>1. Framed' + 1 = n + 2 /\ start = Len(sent) + Len(pending_frame_list')
      BY <1>p3, <1>2, <1>3, <1>5, <1>8
    <3>. QED  BY <1>11, <3>1
  <2>5. IF alteredAt = 0 THEN passed < starts2[2] ELSE alteredAt = starts2[2]
    <3>1. CASE n = 0
      <4>1. starts2[2] = start /\ passed < start /\ alteredAt = 0
        BY <1>p1, <1>p2, <1>2, <1>6, <1>10, <1>11, <3>1 DEF SentPlaced
      <4>. QED  BY <4>1
    <3>2. CASE n # 0
      <4>1. 2 \in 1..(n + 1) /\ Framed > 0
        BY <1>p1, <1>2, <3>2
      <4>2. starts2[2] = starts[2]
        BY <1>11, <4>1
      <4>. QED  BY <1>p2, <4>1, <4>2 DEF SentPlaced
    <3>. QED  BY <3>1, <3>2
  <2>6. Framed' > 0
    BY <1>2
  <2>. QED  BY <1>1, <2>2, <2>3, <2>4, <2>5, <2>6 DEF SentPlaced
<1>16. ASSUME Orderly' PROVE ReceivedPlaced(later2, longer2)'
  <2>1. ReceivedPlaced(later, longer)
    BY <1>p2, <1>1, <1>16 DEF Orderly, BeforeWrap, WrapsAt
  <2>2. TakenIn' = TakenIn /\ Forwarded' = Forwarded
    BY <1>1 DEF TakenIn, Delivering, Forwarded
  <2>3. /\ Len(printed) \in Nat /\ Len(printed) <= n /\ accepted \in Nat
        /\ later[Len(printed) + 1] <= accepted
        /\ Len(printed) < n => accepted < later[Len(printed) + 2]
    BY <1>p1, <2>1, PlacesCounts DEF ReceivedPlaced, PlacesInv
  <2>4. accepted <= total + 1
    <3>1. Forwarded <= passed + 1 /\ Len(toReceiver) \in Nat /\ Forwarded \in Nat
      <4>1. /\ passed \in Nat /\ Forwarded \in Nat
            /\ Forwarded = IF alteredAt > 0 THEN passed + 1 ELSE passed
        BY RouterCounts
      <4>. QED  BY <4>1, TamperLengths
    <3>2. accepted <= TakenIn /\ TakenIn \in Nat
      BY <2>3 DEF TakenIn
    <3>3. TakenIn + Len(toReceiver) = Forwarded
      BY <2>1 DEF ReceivedPlaced
    <3>. QED  BY <1>6, <1>10, <2>3, <3>1, <3>2, <3>3
  <2>5. later2[Len(printed) + 1] <= accepted
    <3>1. Len(printed) + 1 \in 1..(n + 1)
      BY <1>2, <2>3
    <3>2. later2[Len(printed) + 1] = later[Len(printed) + 1]
      BY ONLY <1>12, <3>1
    <3>. QED  BY <2>3, <3>2
  <2>6. accepted < later2[Len(printed) + 2]
    <3>1. CASE Len(printed) = n
      <4>1. later2[n + 2] = end
        BY <1>12
      <4>2. accepted < end /\ Len(printed) + 2 = n + 2
        BY <1>10, <2>3, <2>4, <3>1
      <4>. QED  BY ONLY <4>1, <4>2
    <3>2. CASE Len(printed) < n
      <4>1. Len(printed) + 2 \in 1..(n + 1)
        BY <1>2, <2>3, <3>2
      <4>2. later2[Len(printed) + 2] = later[Len(printed) + 2]
        BY ONLY <1>12, <4>1
      <4>. QED  BY <2>3, <3>2, <4>2
    <3>. QED  BY <1>2, <2>3, <3>1, <3>2
  <2>7. Len(printed) <= n + 1
    BY <1>2, <2>3
  <2>8. \A p : Expected(p)' = Expected(p)
    BY <1>1 DEF Expected
  <2>9. /\ AllPlaced(toReceiver, TakenIn, later2, longer2)
        /\ \A k \in 1..TakenIn : TakenIn < k + SeqMod =>
             Placed(receiver_queue[(k - 1) % SeqMod], k, later2, longer2)
    BY <1>14, <2>1 DEF ReceivedPlaced
  <2>. QED  BY <1>1, <1>2, <2>1, <2>2, <2>5, <2>6, <2>7, <2>8, <2>9 DEF ReceivedPlaced
<1>. QED  BY <1>2, <1>13, <1>15, <1>16 DEF PlacesInv

-----------------------------------------------------------------------------
(* While the flow is orderly and no number wraps, the receiver's numbers   *)
(* are the places in its flow.                                             *)

LEMMA OrderlyNumbers ==
  ASSUME TTypes, NumbersInv, Orderly
  PROVE  /\ SenderNumbers /\ ShiftedNumbers /\ overtaken = 0
         /\ \A k \in 1..Forwarded : ForwardedNumber(k, alteredAt, 0) = (k - 1) % SeqMod
<1>p1. PICK A, W, M : A = alteredAt /\ W = WrapsAt /\ M = SeqMod
  OBVIOUS
<1>1. /\ A \in Nat /\ M \in Nat /\ M > 1 /\ passed \in Nat /\ A <= passed /\ passed <= Len(sent)
      /\ Len(sent) \in Nat /\ overtaken = 0 /\ (A > 0 => Len(sent) < W)
      /\ Forwarded = IF A > 0 THEN passed + 1 ELSE passed
  <2>1. passed <= Len(sent)
    BY TamperLengths, RouterCounts DEF NumbersInv, FramesCounted
  <2>. QED  BY <1>p1, <2>1, TamperLengths, RouterCounts, SeqModAssumption DEF Orderly, BeforeWrap
<1>2. A > 0 => /\ W \in Nat /\ W <= A - 1 + M
               /\ \A x \in Nat : W <= x + M /\ x < W => x % M = x + M - W
  <2>. SUFFICES ASSUME A > 0
                PROVE  /\ W \in Nat /\ W <= A - 1 + M
                       /\ \A x \in Nat : W <= x + M /\ x < W => x % M = x + M - W
    OBVIOUS
  <2>1. A \in Nat \ {0} /\ W = ((A - 1) \div SeqMod + 1) * SeqMod
    BY <1>p1, <1>1 DEF WrapsAt
  <2>2. /\ W \in Nat /\ W <= A - 1 + SeqMod
        /\ \A x \in Nat : W <= x + SeqMod /\ x < W => x % SeqMod = x + SeqMod - W
    BY ONLY <2>1, LapValues
  <2>. QED  BY <1>p1, <2>2
<1>3. WithinLap
  BY <1>p1, <1>1, <1>2 DEF WithinLap
<1>4. ASSUME NEW k \in 1..Forwarded PROVE ForwardedNumber(k, alteredAt, 0) = (k - 1) % SeqMod
  <2>1. CASE A = 0 \/ k <= A + 1
    BY <1>p1, <2>1 DEF ForwardedNumber
  <2>2. CASE A > 0 /\ k > A + 1
    <3>p1. PICK x, a, r, s : x = k - 2 /\ a = (A - 1) % M /\ r = x % M /\ s = (k - 1) % M
      OBVIOUS
    <3>0. k \in Int /\ k \in 1..Forwarded
      OBVIOUS
    <3>1. x \in Nat /\ A <= x /\ x + 2 <= W /\ x + 1 = k - 1 /\ A - 1 \in Nat
      BY ONLY <1>1, <1>2, <2>2, <3>0, <3>p1
    <3>2. a = A - 1 + M - W
      <4>1. W <= (A - 1) + M /\ A - 1 < W
        BY ONLY <1>1, <1>2, <2>2, <3>1
      <4>. QED  BY ONLY <1>2, <2>2, <3>p1, <3>1, <4>1
    <3>3. r = x + M - W
      <4>1. W <= x + M /\ x < W
        BY ONLY <1>1, <1>2, <2>2, <3>1
      <4>. QED  BY ONLY <1>2, <2>2, <3>p1, <3>1, <4>1
    <3>4. s = x + 1 + M - W
      <4>1. W <= (x + 1) + M /\ x + 1 < W /\ x + 1 \in Nat
        BY ONLY <1>1, <1>2, <2>2, <3>1
      <4>2. (x + 1) % M = (x + 1) + M - W
        BY ONLY <1>2, <2>2, <4>1
      <4>. QED  BY ONLY <3>p1, <3>1, <4>2
    <3>5. r \in SeqNums
      BY <1>p1, <3>p1, <3>1, ModType
    <3>6. Inc(r) = r + 1
      <4>1. r # SeqMod - 1
        BY ONLY <1>p1, <1>1, <1>2, <2>2, <3>1, <3>3
      <4>. QED  BY ONLY <3>5, <4>1, IncValue
    <3>7. ForwardedNumber(k, alteredAt, 0) = Inc(r)
      <4>1. ~(alteredAt = 0 \/ k <= alteredAt + 1) /\ k > alteredAt + 0 + 1
        BY ONLY <1>p1, <1>1, <2>2, <3>0
      <4>2. (alteredAt - 1) % SeqMod < (k - 2) % SeqMod /\ (k - 2) % SeqMod = r
        <5>1. a < r
          BY ONLY <1>1, <1>2, <2>2, <3>1, <3>2, <3>3
        <5>. QED  BY ONLY <1>p1, <3>p1, <5>1
      <4>. QED  BY ONLY <4>1, <4>2 DEF ForwardedNumber
    <3>8. s = r + 1
      BY ONLY <1>1, <1>2, <2>2, <3>1, <3>3, <3>4
    <3>. QED  BY <1>p1, <3>p1, <3>6, <3>7, <3>8
  <2>. QED  BY <1>1, <2>1, <2>2
<1>. QED  BY <1>1, <1>3, <1>4 DEF NumbersInv

\* Nothing is altered exactly while router 4 remembers no number.
LEMMA NothingAltered ==
  ASSUME TTypes, NumbersInv
  PROVE  /\ m_hack_ack_data = {} => alteredAt = 0
         /\ alteredAt = 0 => m_hack_ack_data = {} /\ overtaken = 0
<1>1. m_hack_ack_data = {} => alteredAt = 0 /\ overtaken = 0
  <2>1. m_hack_ack_data = {} => ~ \E a \in SeqNums : m_hack_ack_data = {a}
    OBVIOUS
  <2>. QED  BY <2>1 DEF TTypes, Remembered
<1>2. alteredAt = 0 => m_hack_ack_data = {}
  <2>1. alteredAt = 0 => WithinLap
    BY DEF WithinLap
  <2>. QED  BY <2>1 DEF NumbersInv, ShiftedNumbers
<1>. QED  BY <1>1, <1>2

\* What router 4 adds to the receiver's flow goes behind what is on the way.
LEMMA ReceivedMore ==
  ASSUME NEW starts, NEW cuts, ReceivedPlaced(starts, cuts),
         UNCHANGED <<userVars, NFE, recv_marked, receiver_queue, printed, accepted>>,
         TakenIn + Len(toReceiver') = Forwarded', AllPlaced(toReceiver', TakenIn, starts, cuts)
  PROVE  ReceivedPlaced(starts, cuts)'
<1>1. Framed' = Framed /\ \A p : Expected(p)' = Expected(p)
  BY FramedSame
<1>2. TakenIn' = TakenIn
  BY DEF TakenIn, Delivering
<1>. QED  BY <1>1, <1>2 DEF ReceivedPlaced

\* The first message as both sides count it.
FirstLonger(starts, cuts, later, longer) ==
  /\ 1 \in 1..Len(cuts) /\ 1 \in 1..Len(longer) /\ starts[1] = 0 /\ later[1] = 0
  /\ starts[2] \in Nat \ {0} /\ starts[2] = Len(cuts[1])
  /\ Len(longer[1]) = starts[2] + 1 /\ longer[1][starts[2] + 1] = Inserted
  /\ \A i \in 1..starts[2] : longer[1][i] = cuts[1][i]

LEMMA FirstMessage ==
  ASSUME TTypes, UserQueueInOrder, NEW starts, NEW cuts, NEW later, NEW longer,
         BothLaidOut(starts, cuts, later, longer), Framed > 0
  PROVE  FirstLonger(starts, cuts, later, longer)
<1>1. /\ Laid(starts, cuts) /\ Laid(later, longer) /\ Len(cuts) = Framed /\ Len(longer) = Framed
      /\ \A m \in 1..Framed : cuts[m] = Whole(m, FALSE) /\ longer[m] = Whole(m, TRUE)
  BY DEF BothLaidOut, LaidOut
<1>2. Framed \in Nat /\ 1 \in 1..Framed /\ 1 \in DOMAIN typed
  BY PlacesCounts
<1>3. cuts[1] = Whole(1, FALSE) /\ longer[1] = Whole(1, TRUE)
  BY <1>1, <1>2
<1>4. /\ Len(Whole(1, FALSE)) = FramesIn(1) /\ Len(Whole(1, TRUE)) = FramesIn(1) + 1
      /\ FramesIn(1) \in Nat \ {0} /\ Whole(1, TRUE)[FramesIn(1) + 1] = Inserted
  BY <1>2, WholeType
<1>5. \A i \in 1..FramesIn(1) : Whole(1, TRUE)[i] = Whole(1, FALSE)[i]
  <2>1. \A i \in 1..FramesIn(1) : Whole(1, TRUE)[i] = Split(typed[1])[i]
    BY <1>2, WholeType
  <2>2. \A i \in 1..FramesIn(1) : Whole(1, FALSE)[i] = Split(typed[1])[i]
    BY <1>2, WholeType
  <2>. QED  BY <2>1, <2>2
<1>6. starts[1] = 0 /\ later[1] = 0
  BY <1>1 DEF Laid
<1>7. starts[2] = FramesIn(1)
  <2>1. starts[1 + 1] = starts[1] + Len(cuts[1])
    <3>1. \A m \in 1..Framed : starts[m + 1] = starts[m] + Len(cuts[m])
      BY <1>1 DEF Laid
    <3>. QED  BY <1>2, <3>1
  <2>2. starts[1 + 1] = 0 + FramesIn(1)
    BY ONLY <1>3, <1>4, <1>6, <2>1, Zenon
  <2>3. 0 + FramesIn(1) = FramesIn(1)
    BY <1>4
  <2>. QED  BY <2>2, <2>3
<1>. QED  BY <1>1, <1>2, <1>3, <1>4, <1>5, <1>6, <1>7 DEF FirstLonger

\* createAttackMessage: the last frame of the first message and the inserted one behind it.
LEMMA CreateAttackMessagePlaces ==
  ASSUME TTypes, NumbersInv, PlacesInv, CreateAttackMessage
  PROVE  PlacesInv'
<1>p1. PICK frame, first, copy :
         /\ frame = Head(uplink) /\ first = [frame EXCEPT !.end_of_message = FALSE]
         /\ copy = [data |-> Inserted, seq_ack_num |-> Inc(frame.seq_ack_num),
                    start_of_message |-> FALSE, end_of_message |-> TRUE]
  OBVIOUS
<1>1. /\ frame.end_of_message /\ m_hack_ack_data = {}
      /\ toReceiver' = toReceiver \o <<first, copy>>
      /\ alteredAt' = passed + 1 /\ overtaken' = overtaken
      /\ UNCHANGED <<userVars, sent, pending_frame_list, m_output_queue, NFE, recv_marked,
                     receiver_queue, printed, accepted>>
  BY <1>p1 DEF CreateAttackMessage, AttackObject, hostVars, blockVars, receiverVars
<1>2. alteredAt = 0 /\ overtaken = 0
  BY <1>1, NothingAltered
<1>3. /\ frame \in Frames /\ uplink \in Seq(Frames) /\ uplink # <<>> /\ uplink' = Tail(uplink)
      /\ Len(uplink') = Len(uplink) - 1 /\ passed' = passed + 1
  BY <1>p1, UplinkTaken DEF FrameThroughRouter4
<1>4. /\ first.data = frame.data /\ first.start_of_message = frame.start_of_message
      /\ first.end_of_message = FALSE /\ first \in TFrames
      /\ copy.data = Inserted /\ copy.start_of_message = FALSE /\ copy.end_of_message = TRUE
      /\ copy \in TFrames
  BY <1>p1, <1>3, IncType DEF Frames, TFrames
<1>5. /\ passed \in Nat /\ Len(uplink) \in Nat /\ Len(toReceiver) \in Nat
      /\ Forwarded = passed /\ Forwarded' = passed + 2
  <2>1. passed \in Nat /\ Len(uplink) \in Nat /\ Len(toReceiver) \in Nat
    BY RouterCounts, TamperLengths
  <2>. QED  BY <1>1, <1>2, <1>3, <2>1 DEF Forwarded
<1>6. toReceiver \in Seq(TFrames)
  BY DEF TTypes, ReceiverSide
<1>p2. PICK starts, cuts, later, longer :
         /\ BothLaidOut(starts, cuts, later, longer) /\ SentPlaced(starts, cuts)
         /\ Orderly => ReceivedPlaced(later, longer)
  BY DEF PlacesInv
<1>7. UserQueueInOrder' /\ BothLaidOut(starts, cuts, later, longer)' /\ Framed' = Framed
  BY <1>1, <1>p2, FramedSame DEF PlacesInv
<1>8. /\ Placed(frame, passed + 1, starts, cuts)
      /\ AllPlaced(uplink', passed + 1, starts, cuts)
  <2>1. AllPlaced(uplink, passed, starts, cuts) /\ passed \in Int
    BY <1>5, <1>p2 DEF SentPlaced
  <2>. QED  BY <1>p1, <1>3, <2>1, PlacedTakeFirst
<1>9. Framed > 0
  <2>1. \E m \in 1..Len(cuts) : TRUE
    BY <1>8 DEF Placed
  <2>2. Len(cuts) = Framed /\ Framed \in Nat
    BY <1>p2, PlacesCounts DEF BothLaidOut, LaidOut, PlacesInv
  <2>. QED  BY <2>1, <2>2
<1>10. /\ 1 \in 1..Len(cuts) /\ 1 \in 1..Len(longer) /\ starts[1] = 0 /\ later[1] = 0
       /\ starts[2] \in Nat \ {0} /\ starts[2] = Len(cuts[1])
       /\ Len(longer[1]) = starts[2] + 1 /\ longer[1][starts[2] + 1] = Inserted
       /\ \A i \in 1..starts[2] : longer[1][i] = cuts[1][i]
  <2>1. TTypes /\ UserQueueInOrder /\ BothLaidOut(starts, cuts, later, longer) /\ Framed > 0
    BY <1>p2, <1>9 DEF PlacesInv
  <2>. QED  BY <2>1, FirstMessage DEF FirstLonger
<1>11. /\ passed + 1 = starts[2] /\ frame.data = longer[1][passed + 1]
       /\ frame.start_of_message = (passed + 1 = 1)
  <2>1. passed < starts[2]
    BY <1>2, <1>9, <1>p2 DEF SentPlaced
  <2>p. PICK k, m : k = passed + 1 /\ m = 1
    OBVIOUS
  <2>2. /\ Laid(starts, cuts) /\ k \in Nat /\ Placed(frame, k, starts, cuts) /\ m \in 1..Len(cuts)
        /\ starts[m] < k /\ k <= starts[m + 1] /\ k = k - starts[m]
    <3>1. Laid(starts, cuts)
      BY <1>p2 DEF BothLaidOut, LaidOut
    <3>. QED  BY <1>5, <1>8, <1>10, <2>1, <2>p, <3>1
  <2>3. /\ k \in 1..Len(cuts[m]) /\ frame.data = cuts[m][k]
        /\ frame.start_of_message = (k = 1) /\ frame.end_of_message = (k = Len(cuts[m]))
    BY ONLY <2>2, PlacedMeans
  <2>. QED  BY <1>1, <1>10, <2>p, <2>3
<1>12. SentPlaced(starts, cuts)'
  <2>1. passed' + Len(uplink') = passed + Len(uplink)
    BY <1>3, <1>5
  <2>2. alteredAt' # 0 /\ alteredAt' = starts[2]
    BY <1>1, <1>5, <1>11
  <2>. QED  BY <1>1, <1>3, <1>7, <1>8, <1>9, <1>p2, <2>1, <2>2 DEF SentPlaced
<1>13. ReceivedPlaced(later, longer)'
  <2>1. Orderly
    BY <1>2 DEF Orderly, BeforeWrap
  <2>2. /\ ReceivedPlaced(later, longer) /\ TakenIn + Len(toReceiver) = passed
        /\ AllPlaced(toReceiver, TakenIn, later, longer)
    BY <1>5, <1>p2, <2>1 DEF ReceivedPlaced
  <2>3. Placed(first, passed + 1, later, longer)
    <3>p. PICK k, m : k = passed + 1 /\ m = 1
      OBVIOUS
    <3>0. k \in Nat \ {0} /\ k = starts[2] /\ Len(longer[m]) = k + 1
      BY <1>5, <1>10, <1>11, <3>p
    <3>1. /\ m \in 1..Len(longer) /\ k \in 1..Len(longer[m]) /\ passed + 1 = later[m] + k
          /\ first.data = longer[m][k] /\ first.start_of_message = (k = 1)
          /\ first.end_of_message = (k = Len(longer[m]))
      <4>1. m \in 1..Len(longer) /\ k \in 1..Len(longer[m]) /\ k # Len(longer[m])
        BY <1>10, <3>0, <3>p
      <4>2. passed + 1 = later[m] + k
        BY <1>10, <3>0, <3>p
      <4>3. first.end_of_message = (k = Len(longer[m]))
        BY <1>4, <4>1
      <4>. QED  BY <1>4, <1>11, <3>p, <4>1, <4>2, <4>3
    <3>. QED  BY ONLY <3>1 DEF Placed
  <2>4. Placed(copy, passed + 2, later, longer)
    <3>p. PICK k, m : k = passed + 2 /\ m = 1
      OBVIOUS
    <3>1. /\ m \in 1..Len(longer) /\ k \in 1..Len(longer[m]) /\ passed + 2 = later[m] + k
          /\ copy.data = longer[m][k] /\ copy.start_of_message = (k = 1)
          /\ copy.end_of_message = (k = Len(longer[m]))
      <4>1. k = starts[2] + 1 /\ m = 1 /\ k \in Nat /\ k # 1
        BY <1>5, <1>11, <3>p
      <4>2. Len(longer[m]) = k /\ longer[m][k] = Inserted /\ m \in 1..Len(longer)
        BY <1>10, <4>1
      <4>3. k \in 1..Len(longer[m])
        BY <1>10, <4>1, <4>2
      <4>4. passed + 2 = later[m] + k
        BY <1>10, <3>p, <4>1
      <4>. QED  BY <1>4, <4>1, <4>2, <4>3, <4>4
    <3>. QED  BY ONLY <3>1 DEF Placed
  <2>5. AllPlaced(<<first, copy>>, passed, later, longer)
    <3>1. \A i \in DOMAIN <<first, copy>> : \/ i = 1 /\ <<first, copy>>[i] = first
                                            \/ i = 2 /\ <<first, copy>>[i] = copy
      OBVIOUS
    <3>. QED  BY ONLY <2>3, <2>4, <3>1 DEF AllPlaced
  <2>p. PICK more, base : more = <<first, copy>> /\ base = TakenIn
    OBVIOUS
  <2>6. more \in Seq(TFrames) /\ Len(more) = 2
    BY <1>4, <2>p
  <2>7. base \in Int /\ base + Len(toReceiver) = passed
    <3>1. base \in Int
      BY <2>p, PlacesCounts DEF PlacesInv, TakenIn
    <3>. QED  BY <2>2, <2>p, <3>1
  <2>8. Len(toReceiver') = Len(toReceiver) + 2
    BY <1>1, <1>6, <2>p, <2>6, ConcatProperties
  <2>9. AllPlaced(toReceiver', base, later, longer)
    <3>1. AllPlaced(toReceiver, base, later, longer)
          /\ AllPlaced(more, base + Len(toReceiver), later, longer)
      BY <2>2, <2>5, <2>7, <2>p
    <3>2. AllPlaced(toReceiver \o more, base, later, longer)
      BY ONLY <1>6, <2>6, <2>7, <3>1, PlacedMoveBehind
    <3>. QED  BY <1>1, <2>p, <3>2
  <2>10. TakenIn + Len(toReceiver') = Forwarded'
    BY <1>5, <2>7, <2>8, <2>p
  <2>. QED  BY <1>1, <2>2, <2>9, <2>10, <2>p, ReceivedMore
<1>. QED  BY <1>7, <1>12, <1>13 DEF PlacesInv

\* The frame at the head of router 4's queue, before and after something is altered.
LEMMA FrameBeforeAltered ==
  ASSUME TTypes, PlacesInv, FrameThroughRouter4, alteredAt = 0,
         NEW starts, NEW cuts, NEW later, NEW longer,
         BothLaidOut(starts, cuts, later, longer), SentPlaced(starts, cuts),
         NEW frame, frame = Head(uplink), ~frame.end_of_message
  PROVE  /\ Placed(frame, passed + 1, later, longer)
         /\ passed + 1 < starts[2]
<1>1. passed \in Nat /\ Placed(frame, passed + 1, starts, cuts)
  <2>1. passed \in Int /\ passed \in Nat /\ AllPlaced(uplink, passed, starts, cuts)
    BY RouterCounts DEF SentPlaced
  <2>. QED  BY <2>1, UplinkTaken, PlacedTakeFirst
<1>2. Framed > 0
  <2>1. \E m \in 1..Len(cuts) : TRUE
    BY <1>1 DEF Placed
  <2>2. Len(cuts) = Framed /\ Framed \in Nat
    BY PlacesCounts DEF BothLaidOut, LaidOut, PlacesInv
  <2>. QED  BY <2>1, <2>2
<1>3. FirstLonger(starts, cuts, later, longer)
  BY <1>2, FirstMessage DEF PlacesInv
<1>p1. PICK k, m : k = passed + 1 /\ m = 1
  OBVIOUS
<1>4. /\ Laid(starts, cuts) /\ k \in Nat /\ Placed(frame, k, starts, cuts) /\ m \in 1..Len(cuts)
      /\ starts[m] < k /\ k <= starts[m + 1] /\ k = k - starts[m]
  <2>1. Laid(starts, cuts)
    BY DEF BothLaidOut, LaidOut
  <2>2. passed < starts[2]
    BY <1>2 DEF SentPlaced
  <2>. QED  BY <1>p1, <1>1, <1>3, <2>1, <2>2 DEF FirstLonger
<1>5. /\ k \in 1..Len(cuts[m]) /\ frame.data = cuts[m][k]
      /\ frame.start_of_message = (k = 1) /\ frame.end_of_message = (k = Len(cuts[m]))
  BY ONLY <1>4, PlacedMeans
<1>6. /\ k # starts[2] /\ k \in 1..starts[2] /\ starts[2] \in Nat /\ Len(longer[m]) = starts[2] + 1
      /\ frame.data = longer[m][k] /\ later[m] = 0 /\ m \in 1..Len(longer)
  BY <1>p1, <1>3, <1>5 DEF FirstLonger
<1>7. k \in 1..Len(longer[m]) /\ passed + 1 = later[m] + k /\ k # Len(longer[m])
  BY <1>p1, <1>6
<1>8. Placed(frame, passed + 1, later, longer)
  <2>1. frame.end_of_message = (k = Len(longer[m]))
    BY <1>5, <1>6, <1>7
  <2>. QED  BY <1>5, <1>6, <1>7, <2>1 DEF Placed
<1>. QED  BY <1>p1, <1>6, <1>8

LEMMA FrameAfterAltered ==
  ASSUME TTypes, PlacesInv, FrameThroughRouter4, alteredAt # 0,
         NEW starts, NEW cuts, NEW later, NEW longer,
         BothLaidOut(starts, cuts, later, longer), SentPlaced(starts, cuts),
         NEW frame, frame = Head(uplink)
  PROVE  Placed(frame, passed + 2, later, longer)
<1>1. passed \in Nat /\ Placed(frame, passed + 1, starts, cuts) /\ alteredAt <= passed
      /\ alteredAt \in Nat
  <2>1. passed \in Int /\ passed \in Nat /\ AllPlaced(uplink, passed, starts, cuts)
    BY RouterCounts DEF SentPlaced
  <2>. QED  BY <2>1, UplinkTaken, PlacedTakeFirst, RouterCounts
<1>2. Framed > 0 /\ alteredAt = starts[2]
  BY DEF SentPlaced
<1>3. FirstLonger(starts, cuts, later, longer)
  BY <1>2, FirstMessage DEF PlacesInv
<1>4. PICK m \in 1..Len(cuts) : \E i \in 1..Len(cuts[m]) :
        /\ passed + 1 = starts[m] + i /\ frame.data = cuts[m][i]
        /\ frame.start_of_message = (i = 1) /\ frame.end_of_message = (i = Len(cuts[m]))
  BY <1>1 DEF Placed
<1>5. PICK i \in 1..Len(cuts[m]) :
        /\ passed + 1 = starts[m] + i /\ frame.data = cuts[m][i]
        /\ frame.start_of_message = (i = 1) /\ frame.end_of_message = (i = Len(cuts[m]))
  BY <1>4
<1>6. /\ Len(cuts) = Framed /\ Len(longer) = Framed /\ Framed \in Nat
      /\ cuts[m] = Whole(m, FALSE) /\ longer[m] = Whole(m, TRUE)
  BY PlacesCounts DEF BothLaidOut, LaidOut, PlacesInv
<1>7. m # 1
  <2>. SUFFICES ASSUME m = 1 PROVE FALSE
    OBVIOUS
  <2>p. PICK l : l = Len(cuts[1])
    OBVIOUS
  <2>1. i \in 1..l /\ passed + 1 = 0 + i /\ l = starts[2]
    BY <1>3, <1>5, <2>p DEF FirstLonger
  <2>2. starts[2] <= passed /\ starts[2] \in Nat /\ passed \in Nat
    BY <1>1, <1>2
  <2>. QED  BY ONLY <2>1, <2>2
<1>8. m \in 2..(Framed + 1)
  BY <1>6, <1>7
<1>9. later[m] = starts[m] + 1
  BY <1>8 DEF BothLaidOut
<1>10. longer[m] = cuts[m] /\ m \in 1..Len(longer)
  BY <1>6, <1>7 DEF Whole
<1>11. passed + 2 = later[m] + i
  <2>1. starts[m] \in Nat
    <3>1. Laid(starts, cuts) /\ m \in 1..(Len(cuts) + 1)
      BY <1>6 DEF BothLaidOut, LaidOut
    <3>. QED  BY <3>1, LaidValues
  <2>p. PICK l, s : l = Len(cuts[m]) /\ s = starts[m]
    OBVIOUS
  <2>2. i \in 1..l /\ passed + 1 = s + i /\ later[m] = s + 1 /\ s \in Nat /\ passed \in Nat
    BY <1>1, <1>5, <1>9, <2>1, <2>p
  <2>3. i \in Int
    BY ONLY <2>2
  <2>. QED  BY ONLY <2>2, <2>3
<1>12. /\ i \in 1..Len(longer[m]) /\ frame.data = longer[m][i]
       /\ frame.start_of_message = (i = 1) /\ frame.end_of_message = (i = Len(longer[m]))
  BY <1>5, <1>10
<1>. QED  BY ONLY <1>10, <1>11, <1>12 DEF Placed

\* alterSeqNum: a frame keeps its place in the message whatever number it is given.
LEMMA ForwardAlteredFramePlaces ==
  ASSUME TTypes, NumbersInv, PlacesInv, ForwardAlteredFrame
  PROVE  PlacesInv'
<1>p1. PICK frame, shifted : frame = Head(uplink) /\ shifted = AlterSeqNum(frame)
  OBVIOUS
<1>1. /\ ~(m_hack_ack_data = {} /\ frame.end_of_message)
      /\ toReceiver' = Append(toReceiver, shifted)
      /\ alteredAt' = alteredAt
      /\ overtaken' = overtaken + (IF alteredAt > 0 /\ ~m_seq_ack_control_flag THEN 1 ELSE 0)
      /\ UNCHANGED <<userVars, sent, pending_frame_list, m_output_queue, NFE, recv_marked,
                     receiver_queue, printed, accepted>>
  BY <1>p1 DEF ForwardAlteredFrame, AttackObject, hostVars, blockVars, receiverVars
<1>3. /\ frame \in Frames /\ uplink \in Seq(Frames) /\ uplink # <<>> /\ uplink' = Tail(uplink)
      /\ Len(uplink') = Len(uplink) - 1 /\ passed' = passed + 1 /\ FrameThroughRouter4
  BY <1>p1, UplinkTaken DEF FrameThroughRouter4
<1>4. /\ shifted.data = frame.data /\ shifted.start_of_message = frame.start_of_message
      /\ shifted.end_of_message = frame.end_of_message /\ shifted \in TFrames
  <2>1. Inc(frame.seq_ack_num) \in SeqNums
    BY <1>3, IncType DEF Frames
  <2>. QED  BY <1>p1, <1>3, <2>1 DEF AlterSeqNum, Frames, TFrames
<1>5. /\ passed \in Nat /\ Len(uplink) \in Nat /\ Len(toReceiver) \in Nat
      /\ Forwarded \in Nat /\ Forwarded' = Forwarded + 1
      /\ Forwarded = IF alteredAt # 0 THEN passed + 1 ELSE passed
  <2>1. passed \in Nat /\ Len(uplink) \in Nat /\ Len(toReceiver) \in Nat /\ alteredAt \in Nat
    BY RouterCounts, TamperLengths
  <2>. QED  BY <1>1, <1>3, <2>1 DEF Forwarded
<1>6. toReceiver \in Seq(TFrames)
  BY DEF TTypes, ReceiverSide
<1>p2. PICK starts, cuts, later, longer :
         /\ BothLaidOut(starts, cuts, later, longer) /\ SentPlaced(starts, cuts)
         /\ Orderly => ReceivedPlaced(later, longer)
  BY DEF PlacesInv
<1>7. UserQueueInOrder' /\ BothLaidOut(starts, cuts, later, longer)' /\ Framed' = Framed
  BY <1>1, <1>p2, FramedSame DEF PlacesInv
<1>8. AllPlaced(uplink', passed + 1, starts, cuts)
  <2>1. AllPlaced(uplink, passed, starts, cuts) /\ passed \in Int
    BY <1>5, <1>p2 DEF SentPlaced
  <2>. QED  BY <1>p1, <1>3, <2>1, PlacedTakeFirst
<1>9. /\ Placed(frame, Forwarded + 1, later, longer)
      /\ alteredAt = 0 => passed + 1 < starts[2]
  <2>1. CASE alteredAt = 0
    <3>1. ~frame.end_of_message
      BY <1>1, <2>1, NothingAltered
    <3>2. Placed(frame, passed + 1, later, longer) /\ passed + 1 < starts[2]
      BY <1>p1, <1>p2, <1>3, <2>1, <3>1, FrameBeforeAltered
    <3>. QED  BY <1>5, <2>1, <3>2
  <2>2. CASE alteredAt # 0
    <3>1. Placed(frame, passed + 2, later, longer)
      BY <1>p1, <1>p2, <1>3, <2>2, FrameAfterAltered
    <3>2. Forwarded + 1 = passed + 2
      BY <1>5, <2>2
    <3>. QED  BY <2>2, <3>1, <3>2
  <2>. QED  BY <2>1, <2>2
<1>12. SentPlaced(starts, cuts)'
  <2>1. passed' + Len(uplink') = passed + Len(uplink)
    BY <1>3, <1>5
  <2>. QED  BY <1>1, <1>3, <1>7, <1>8, <1>9, <1>p2, <2>1 DEF SentPlaced
<1>13. ASSUME Orderly' PROVE ReceivedPlaced(later, longer)'
  <2>1. Orderly
    <3>1. overtaken' = 0 => overtaken = 0
      BY <1>1, RouterCounts
    <3>2. Len(sent) <= Len(sent') /\ Len(sent') \in Nat
      BY <1>1, TamperLengths
    <3>. QED  BY <1>1, <1>13, <3>1, <3>2, OrderlyBefore
  <2>2. /\ ReceivedPlaced(later, longer) /\ TakenIn + Len(toReceiver) = Forwarded
        /\ AllPlaced(toReceiver, TakenIn, later, longer)
    BY <1>p2, <2>1 DEF ReceivedPlaced
  <2>p. PICK base : base = TakenIn
    OBVIOUS
  <2>7. base \in Int /\ base + Len(toReceiver) = Forwarded
    <3>1. base \in Int
      BY <2>p, PlacesCounts DEF PlacesInv, TakenIn
    <3>. QED  BY <2>2, <2>p, <3>1
  <2>8. Len(toReceiver') = Len(toReceiver) + 1
    BY <1>1, <1>4, <1>6, AppendProperties
  <2>9. AllPlaced(toReceiver', base, later, longer)
    <3>1. /\ AllPlaced(toReceiver, base, later, longer)
          /\ Placed(shifted, base + Len(toReceiver) + 1, later, longer)
      <4>1. Placed(shifted, Forwarded + 1, later, longer)
        BY <1>4, <1>9 DEF Placed
      <4>. QED  BY <2>2, <2>7, <2>p, <4>1
    <3>2. AllPlaced(Append(toReceiver, shifted), base, later, longer)
      BY ONLY <1>4, <1>6, <2>7, <3>1, PlacedAddLast
    <3>. QED  BY <1>1, <3>2
  <2>10. TakenIn + Len(toReceiver') = Forwarded'
    BY <1>5, <2>7, <2>8, <2>p
  <2>. QED  BY <1>1, <2>2, <2>9, <2>10, <2>p, ReceivedMore
<1>. QED  BY <1>7, <1>12, <1>13 DEF PlacesInv

-----------------------------------------------------------------------------
(* The receiver thread.                                                    *)

\* While the flow is orderly the receiver takes in the frame it expects.
LEMMA ExpectedArrives ==
  ASSUME TTypes, NumbersInv, Orderly, NEW starts, NEW cuts, ReceivedPlaced(starts, cuts),
         HandlePacket
  PROVE  /\ TakenIn = accepted /\ NFE = accepted % SeqMod /\ NFE \in SeqNums /\ accepted \in Nat
         /\ Head(toReceiver).seq_ack_num = NFE
         /\ Placed(Head(toReceiver), accepted + 1, starts, cuts)
         /\ AllPlaced(Tail(toReceiver), accepted + 1, starts, cuts)
<1>1. /\ TakenIn = accepted /\ toReceiver # <<>> /\ toReceiver \in Seq(TFrames)
      /\ NFE = accepted % SeqMod /\ NFE \in SeqNums /\ accepted \in Nat
      /\ AllPlaced(toReceiver, accepted, starts, cuts) /\ accepted + Len(toReceiver) = Forwarded
  BY DEF HandlePacket, TakenIn, ReceivedPlaced, TTypes, ReceiverSide
<1>2. /\ Placed(Head(toReceiver), accepted + 1, starts, cuts)
      /\ AllPlaced(Tail(toReceiver), accepted + 1, starts, cuts)
  <2>1. accepted \in Int
    BY <1>1
  <2>. QED  BY <1>1, <2>1, PlacedTakeFirst
<1>3. /\ ShiftedNumbers /\ overtaken = 0
      /\ \A k \in 1..Forwarded : ForwardedNumber(k, alteredAt, 0) = (k - 1) % SeqMod
  BY OrderlyNumbers
<1>p1. PICK P : P = Answered + Len(ackUplink) + Len(ack_output_queue)
  OBVIOUS
<1>4. P = accepted
  <2>1. /\ Len(toReceiver) \in Nat /\ Len(ackUplink) \in Nat /\ Len(ack_output_queue) \in Nat
        /\ Answered \in Int /\ Forwarded \in Nat
        /\ Answered + Len(toReceiver) + Len(ack_output_queue) + Len(ackUplink) = Forwarded
    BY TamperLengths, RouterCounts
  <2>. QED  BY ONLY <1>1, <1>p1, <2>1
<1>5. Head(toReceiver).seq_ack_num = ForwardedNumber(accepted + 1, alteredAt, 0)
  <2>1. ForwardedAs(toReceiver, P, alteredAt, 0)
    BY <1>3, <1>p1 DEF ShiftedNumbers
  <2>2. ForwardedAs(toReceiver, accepted, alteredAt, 0) /\ accepted \in Int
    BY <1>1, <1>4, <2>1
  <2>. QED  BY <1>1, <2>2, ForwardedTakeFirst
<1>6. ForwardedNumber(accepted + 1, alteredAt, 0) = accepted % SeqMod
  <2>1. accepted + 1 \in 1..Forwarded
    <3>1. Len(toReceiver) \in Nat /\ Len(toReceiver) > 0 /\ Forwarded \in Nat
      BY <1>1, TamperLengths, RouterCounts
    <3>. QED  BY <1>1, <3>1
  <2>2. (accepted + 1) - 1 = accepted
    BY <1>1
  <2>3. ForwardedNumber(accepted + 1, alteredAt, 0) = ((accepted + 1) - 1) % SeqMod
    BY ONLY <1>3, <2>1
  <2>. QED  BY <2>2, <2>3
<1>. QED  BY <1>1, <1>2, <1>5, <1>6

LEMMA HandlePacketPlaces ==
  ASSUME TTypes, NumbersInv, PlacesInv, HandlePacket, UNCHANGED <<tamperVars, tamperHistory>>
  PROVE  PlacesInv'
<1>p1. PICK frame : frame = Head(toReceiver)
  OBVIOUS
<1>1. /\ toReceiver # <<>> /\ toReceiver' = Tail(toReceiver) /\ ~Delivering
      /\ UNCHANGED <<userVars, sent, pending_frame_list, uplink, m_output_queue, NFE, printed,
                     accepted>>
      /\ UNCHANGED <<passed, alteredAt, overtaken>>
  BY DEF HandlePacket, blockVars, tamperHistory
<1>p2. PICK starts, cuts, later, longer :
         /\ BothLaidOut(starts, cuts, later, longer) /\ SentPlaced(starts, cuts)
         /\ Orderly => ReceivedPlaced(later, longer)
  BY DEF PlacesInv
<1>2. UserQueueInOrder' /\ BothLaidOut(starts, cuts, later, longer)' /\ SentPlaced(starts, cuts)'
  BY <1>1, <1>p2, FramedSame, SentSame DEF PlacesInv
<1>3. ASSUME Orderly' PROVE ReceivedPlaced(later, longer)'
  <2>1. Orderly /\ ReceivedPlaced(later, longer)
    BY <1>1, <1>3, <1>p2 DEF Orderly, BeforeWrap, WrapsAt
  <2>2. /\ TakenIn = accepted /\ NFE = accepted % SeqMod /\ NFE \in SeqNums /\ accepted \in Nat
        /\ frame.seq_ack_num = NFE /\ Placed(frame, accepted + 1, later, longer)
        /\ AllPlaced(toReceiver', accepted + 1, later, longer)
    BY <1>1, <1>p1, <2>1, ExpectedArrives
  <2>3. /\ receiver_queue' = [receiver_queue EXCEPT ![NFE] = frame]
        /\ recv_marked' = recv_marked \cup {NFE} /\ recv_marked' \subseteq {NFE}
    <3>1. InReceiveWindow(NFE)
      BY <2>2, ExpectedIsReceivable
    <3>. QED  BY <1>p1, <2>1, <2>2, <3>1 DEF HandlePacket, ReceivedPlaced
  <2>4. TakenIn' = accepted + 1
    BY <1>1, <2>3 DEF TakenIn, Delivering
  <2>5. receiver_queue \in [SeqNums -> TFrames \cup {NoFrame}] /\ toReceiver \in Seq(TFrames)
    BY DEF TTypes, ReceiverSide
  <2>6. TakenIn' + Len(toReceiver') = Forwarded'
    <3>1. Len(toReceiver') = Len(toReceiver) - 1
      BY <1>1, <2>5, HeadTailProperties
    <3>2. Forwarded' = Forwarded /\ accepted + Len(toReceiver) = Forwarded
      BY <1>1, <2>1, <2>2 DEF Forwarded, ReceivedPlaced
    <3>. QED  BY <2>2, <2>4, <3>1, <3>2, TamperLengths
  <2>7. ASSUME NEW k \in 1..(accepted + 1), accepted + 1 < k + SeqMod
        PROVE  Placed(receiver_queue'[(k - 1) % SeqMod], k, later, longer)
    <3>1. CASE k = accepted + 1
      <4>1. k - 1 = accepted
        BY <2>2, <3>1
      <4>2. receiver_queue'[NFE] = frame
        BY <2>2, <2>3, <2>5
      <4>. QED  BY <2>2, <3>1, <4>1, <4>2
    <3>2. CASE k # accepted + 1
      <4>1. /\ k \in 1..TakenIn /\ TakenIn < k + SeqMod /\ k - 1 \in Nat
            /\ accepted - (k - 1) \in 1..(SeqMod - 1)
            /\ (k - 1) + (accepted - (k - 1)) = accepted
        BY <2>2, <2>7, <3>2, SeqModAssumption
      <4>2. (k - 1) % SeqMod # NFE
        BY <2>2, <4>1, ModDistinct
      <4>3. (k - 1) % SeqMod \in SeqNums
        BY <4>1, ModType
      <4>4. receiver_queue'[(k - 1) % SeqMod] = receiver_queue[(k - 1) % SeqMod]
        BY <2>3, <2>5, <4>2, <4>3
      <4>5. Placed(receiver_queue[(k - 1) % SeqMod], k, later, longer)
        BY <2>1, <4>1 DEF ReceivedPlaced
      <4>. QED  BY <4>4, <4>5
    <3>. QED  BY <3>1, <3>2
  <2>8. Framed' = Framed /\ \A p : Expected(p)' = Expected(p)
    BY <1>1, FramedSame
  <2>9. \A k \in 1..TakenIn' : TakenIn' < k + SeqMod =>
          Placed(receiver_queue'[(k - 1) % SeqMod], k, later, longer)
    BY <2>4, <2>7
  <2>10. AllPlaced(toReceiver', TakenIn', later, longer)
    BY <2>2, <2>4
  <2>. QED  BY <1>1, <2>1, <2>3, <2>6, <2>8, <2>9, <2>10 DEF ReceivedPlaced
<1>. QED  BY <1>2, <1>3 DEF PlacesInv

\* The frame handed over belongs to the first message that is not printed.
LEMMA NextPlace ==
  ASSUME TTypes, UserQueueInOrder, NEW starts, NEW cuts, LaidOut(starts, cuts, TRUE),
         ReceivedPlaced(starts, cuts), DeliverFrame, NEW m, m = Len(printed) + 1
  PROVE  /\ Laid(starts, cuts) /\ Len(cuts) = Framed /\ m \in 1..Len(cuts) /\ m \in DOMAIN typed
         /\ cuts[m] = Whole(m, TRUE) /\ Len(cuts[m]) \in Nat \ {0}
         /\ starts[m] \in Nat /\ starts[m + 1] = starts[m] + Len(cuts[m])
         /\ starts[m] <= accepted /\ accepted + 1 <= starts[m + 1]
         /\ TakenIn = accepted + 1 /\ accepted \in Nat /\ NFE = accepted % SeqMod
<1>1. /\ Laid(starts, cuts) /\ Len(cuts) = Framed /\ Framed \in Nat /\ Len(printed) \in Nat
      /\ accepted \in Nat /\ Framed <= Len(typed) /\ DOMAIN typed = 1..Len(typed)
      /\ Len(typed) \in Nat /\ \A l \in 1..Framed : cuts[l] = Whole(l, TRUE)
  BY PlacesCounts DEF LaidOut
<1>2. /\ Len(cuts) \in Nat
      /\ \A h \in 1..(Len(cuts) + 1) : starts[h] \in Nat
      /\ \A h \in 1..Len(cuts) : /\ Len(cuts[h]) \in Nat \ {0}
                                 /\ starts[h + 1] = starts[h] + Len(cuts[h])
      /\ \A h \in 1..(Len(cuts) + 1) : \A l \in 1..(h - 1) :
           starts[l] + Len(cuts[l]) <= starts[h]
  <2>1. Laid(starts, cuts)
    BY <1>1
  <2>. QED  BY ONLY <2>1, LaidValues
<1>3. TakenIn = accepted + 1
  BY DEF DeliverFrame, TakenIn
<1>4. /\ NFE = accepted % SeqMod /\ Len(printed) <= Framed /\ starts[m] <= accepted
      /\ Len(printed) < Framed => accepted < starts[m + 1]
  <2>1. m + 1 = Len(printed) + 2
    BY <1>1
  <2>. QED  BY <2>1 DEF ReceivedPlaced
<1>5. accepted < starts[Framed + 1]
  <2>1. \E frame : Placed(frame, accepted + 1, starts, cuts)
    <3>1. TakenIn \in 1..TakenIn /\ TakenIn < TakenIn + SeqMod
      BY <1>1, <1>3, SeqModAssumption
    <3>2. Placed(receiver_queue[(TakenIn - 1) % SeqMod], TakenIn, starts, cuts)
      BY <3>1 DEF ReceivedPlaced
    <3>. QED  BY <1>3, <3>2
  <2>2. PICK l \in 1..Len(cuts) : \E i \in 1..Len(cuts[l]) : accepted + 1 = starts[l] + i
    BY <2>1 DEF Placed
  <2>3. PICK i \in 1..Len(cuts[l]) : accepted + 1 = starts[l] + i
    BY <2>2
  <2>p. PICK h : h = Framed + 1
    OBVIOUS
  <2>4. h \in 1..(Len(cuts) + 1) /\ l \in 1..(h - 1) /\ l \in 1..(Len(cuts) + 1)
    BY <1>1, <2>p
  <2>5. starts[l] + Len(cuts[l]) <= starts[h] /\ starts[l] \in Nat /\ starts[h] \in Nat
    BY ONLY <1>2, <2>4
  <2>q. PICK a, b, c : a = starts[l] /\ b = Len(cuts[l]) /\ c = starts[h]
    OBVIOUS
  <2>6. i \in 1..b /\ b \in Nat /\ a \in Nat /\ c \in Nat /\ a + b <= c /\ accepted + 1 = a + i
    BY <1>2, <2>3, <2>5, <2>q
  <2>7. accepted < c
    BY ONLY <1>1, <2>6
  <2>. QED  BY <2>7, <2>p, <2>q
<1>6. Len(printed) < Framed
  <2>. SUFFICES ASSUME ~(Len(printed) < Framed) PROVE FALSE
    OBVIOUS
  <2>1. m = Framed + 1
    BY <1>1, <1>4
  <2>2. starts[m] \in Nat
    BY <1>1, <1>2, <2>1
  <2>. QED  BY <1>1, <1>4, <1>5, <2>1, <2>2
<1>7. m \in 1..Len(cuts) /\ m \in DOMAIN typed /\ m \in 1..(Len(cuts) + 1) /\ m \in 1..Framed
  BY <1>1, <1>6
<1>8. /\ starts[m] \in Nat /\ Len(cuts[m]) \in Nat \ {0}
      /\ starts[m + 1] = starts[m] + Len(cuts[m])
  BY <1>2, <1>7
<1>9. accepted + 1 <= starts[m + 1]
  BY <1>1, <1>4, <1>6, <1>8
<1>. QED  BY <1>1, <1>3, <1>4, <1>7, <1>8, <1>9

\* What a slot holds d frames behind the one handed over.
IsPiece(frame, row, i) ==
  /\ i \in 1..Len(row) /\ frame.data = row[i]
  /\ frame.start_of_message = (i = 1) /\ frame.end_of_message = (i = Len(row))

LEMMA PlaceBehind ==
  ASSUME TTypes, UserQueueInOrder, NEW starts, NEW cuts, LaidOut(starts, cuts, TRUE),
         ReceivedPlaced(starts, cuts), DeliverFrame, NEW m, m = Len(printed) + 1,
         NEW d \in Nat, d < SeqMod, d <= accepted - starts[m],
         NEW i, i = accepted + 1 - starts[m] - d,
         NEW frame, frame = receiver_queue[(NFE + SeqMod - d) % SeqMod]
  PROVE  IsPiece(frame, cuts[m], i)
<1>1. /\ Laid(starts, cuts) /\ m \in 1..Len(cuts) /\ Len(cuts[m]) \in Nat
      /\ starts[m] \in Nat /\ starts[m + 1] = starts[m] + Len(cuts[m])
      /\ starts[m] <= accepted /\ accepted + 1 <= starts[m + 1]
      /\ TakenIn = accepted + 1 /\ accepted \in Nat /\ NFE = accepted % SeqMod
  BY NextPlace
<1>p1. PICK k, s, e, A : /\ k = accepted + 1 - d /\ s = starts[m] /\ e = starts[m + 1]
                         /\ A = accepted
  OBVIOUS
<1>2. /\ SeqMod \in Nat /\ d \in Nat /\ d < SeqMod /\ d <= A - s /\ i = A + 1 - s - d
      /\ k = A + 1 - d
  BY <1>p1, SeqModAssumption
<1>3. /\ s \in Nat /\ e \in Nat /\ s <= A /\ A + 1 <= e /\ A \in Nat /\ TakenIn = A + 1 /\ NFE = A % SeqMod
  BY <1>p1, <1>1
<1>4. /\ k \in Nat /\ k \in 1..(A + 1) /\ A + 1 < k + SeqMod /\ k - 1 = A - d
      /\ s < k /\ k <= e /\ i = k - s /\ d \in 0..SeqMod /\ d <= A
  <2>1. d <= A /\ d \in 0..SeqMod /\ s < A + 1 - d /\ A + 1 - d <= A + 1 /\ A + 1 - d \in Nat
    BY ONLY <1>2, <1>3
  <2>2. i = (A + 1 - d) - s /\ A + 1 < (A + 1 - d) + SeqMod /\ (A + 1 - d) - 1 = A - d
    BY ONLY <1>2, <1>3
  <2>3. k = A + 1 - d
    BY <1>2
  <2>4. k \in Nat /\ s < k /\ k <= A + 1 /\ i = k - s /\ A + 1 < k + SeqMod /\ k - 1 = A - d
        /\ k # 0
    BY ONLY <2>1, <2>2, <2>3, <1>3
  <2>5. k <= e /\ k \in 1..(A + 1)
    BY ONLY <1>3, <2>4
  <2>. QED  BY <2>1, <2>4, <2>5
<1>5. (NFE + SeqMod - d) % SeqMod = (k - 1) % SeqMod
  <2>1. ((A % SeqMod) + SeqMod - d) % SeqMod = (A - d) % SeqMod
    BY ONLY <1>3, <1>4, SlotBack
  <2>. QED  BY ONLY <1>3, <1>4, <2>1
<1>6. Placed(frame, k, starts, cuts)
  <2>1. k \in 1..TakenIn /\ TakenIn < k + SeqMod
    BY <1>3, <1>4
  <2>2. Placed(receiver_queue[(k - 1) % SeqMod], k, starts, cuts)
    BY <2>1 DEF ReceivedPlaced
  <2>. QED  BY <1>5, <2>2
<1>7. /\ Laid(starts, cuts) /\ k \in Nat /\ Placed(frame, k, starts, cuts) /\ m \in 1..Len(cuts)
      /\ starts[m] < k /\ k <= starts[m + 1] /\ i = k - starts[m]
  BY <1>p1, <1>1, <1>4, <1>6
<1>. QED  BY ONLY <1>7, PlacedMeans DEF IsPiece

\* printOutMessage, called on the last frame of a message, shows that message.
LEMMA PrintsExpected ==
  ASSUME TTypes, UserQueueInOrder, NEW starts, NEW cuts, LaidOut(starts, cuts, TRUE),
         ReceivedPlaced(starts, cuts), DeliverFrame, NEW m, m = Len(printed) + 1,
         accepted + 1 = starts[m + 1]
  PROVE  MessageEndingAt(NFE) = Expected(m) /\ MessageEndingAt(NFE) \in Seq(Pieces)
<1>1. /\ m \in DOMAIN typed /\ cuts[m] = Whole(m, TRUE) /\ Len(cuts[m]) \in Nat \ {0}
      /\ starts[m] \in Nat /\ starts[m + 1] = starts[m] + Len(cuts[m])
      /\ starts[m] <= accepted /\ accepted \in Nat
  <2>1. /\ TTypes /\ UserQueueInOrder /\ LaidOut(starts, cuts, TRUE)
        /\ ReceivedPlaced(starts, cuts) /\ DeliverFrame /\ m = Len(printed) + 1
    OBVIOUS
  <2>. QED  BY ONLY <2>1, NextPlace, Zenon
<1>2. /\ SeqMod \in Nat /\ SeqMod > 1 /\ NFE \in SeqNums
      /\ receiver_queue \in [SeqNums -> TFrames \cup {NoFrame}]
  BY SeqModAssumption DEF TTypes, ReceiverSide
<1>p1. PICK n, w, row : /\ row = cuts[m] /\ n = Len(row)
                        /\ w = IF n > SeqMod THEN SeqMod ELSE n
  OBVIOUS
<1>p2. PICK A, s : A = accepted /\ s = starts[m]
  OBVIOUS
<1>3. /\ n \in Nat \ {0} /\ A - s = n - 1 /\ w \in 1..n /\ w <= SeqMod
      /\ row \in Seq(Pieces) /\ A \in Nat /\ s \in Nat
      /\ w = IF n > SeqMod THEN SeqMod ELSE n
  <2>1. Whole(m, TRUE) \in Seq(Pieces)
    BY <1>1, WholeType
  <2>2. /\ n \in Nat \ {0} /\ w = IF n > SeqMod THEN SeqMod ELSE n
        /\ row \in Seq(Pieces) /\ n = Len(row)
    BY <1>p1, <1>1, <2>1
  <2>3. A \in Nat /\ s \in Nat /\ A + 1 = s + n
    BY <1>p1, <1>p2, <1>1
  <2>. QED  BY ONLY <1>2, <2>2, <2>3
<1>4. ASSUME NEW d \in 0..(w - 1), NEW frame,
             frame = receiver_queue[(NFE + SeqMod - d) % SeqMod]
      PROVE  frame.start_of_message = (d = n - 1) /\ frame.data = row[n - d]
  <2>p. PICK i : i = accepted + 1 - starts[m] - d
    OBVIOUS
  <2>0. d \in 0..(w - 1)
    OBVIOUS
  <2>1. d \in Nat /\ d < SeqMod /\ d <= A - s /\ i = n - d
    <3>1. i = A + 1 - s - d
      BY ONLY <2>p, <1>p2
    <3>2. /\ SeqMod \in Nat /\ n \in Nat \ {0} /\ A - s = n - 1 /\ w \in 1..n /\ w <= SeqMod
          /\ A \in Nat /\ s \in Nat
      BY ONLY <1>2, <1>3
    <3>. QED  BY ONLY <2>0, <3>1, <3>2
  <2>2. /\ TTypes /\ UserQueueInOrder /\ LaidOut(starts, cuts, TRUE)
        /\ ReceivedPlaced(starts, cuts) /\ DeliverFrame /\ m = Len(printed) + 1
        /\ d \in Nat /\ d < SeqMod /\ d <= accepted - starts[m]
        /\ i = accepted + 1 - starts[m] - d
        /\ frame = receiver_queue[(NFE + SeqMod - d) % SeqMod]
    BY <1>p2, <1>4, <2>1, <2>p
  <2>5. IsPiece(frame, cuts[m], i)
    BY ONLY <2>2, PlaceBehind
  <2>3. frame.start_of_message = (i = 1) /\ frame.data = cuts[m][i]
    BY ONLY <2>5 DEF IsPiece
  <2>4. (i = 1) = (d = n - 1)
    BY ONLY <1>3, <2>1
  <2>. QED  BY <1>p1, <2>1, <2>3, <2>4
<1>5. MessageEndingAt(NFE)
        = [j \in 1..w |-> receiver_queue[(NFE + SeqMod - (w - j)) % SeqMod].data]
  <2>1. StartsBehind(NFE, n, w)
    BY <1>4 DEF StartsBehind
  <2>2. NFE \in SeqNums /\ n \in Nat \ {0} /\ w = IF n > SeqMod THEN SeqMod ELSE n
    BY <1>2, <1>3
  <2>. QED  BY ONLY <2>1, <2>2, WalkBack
<1>6. MessageEndingAt(NFE) = [j \in 1..w |-> row[n - w + j]]
  <2>1. ASSUME NEW j \in 1..w
        PROVE  receiver_queue[(NFE + SeqMod - (w - j)) % SeqMod].data = row[n - w + j]
    <3>1. w - j \in 0..(w - 1) /\ n - (w - j) = n - w + j
      BY <1>3
    <3>. QED  BY <1>4, <3>1
  <2>. QED  BY <1>5, <2>1
<1>7. Expected(m) = SubSeq(row, (n - w) + 1, n)
  <2>1. Split(typed[m]) \o (IF m = 1 THEN <<Inserted>> ELSE <<>>) = row
    <3>1. CASE m = 1
      BY <1>p1, <1>1, <3>1 DEF Whole
    <3>2. CASE m # 1
      <4>1. row = Split(typed[m])
        BY <1>p1, <1>1, <3>2 DEF Whole
      <4>2. row \o <<>> = row
        BY <1>3, ConcatEmptySeq
      <4>. QED  BY <3>2, <4>1, <4>2
    <3>. QED  BY <3>1, <3>2
  <2>2. n - w = IF n > SeqMod THEN n - SeqMod ELSE 0
    BY <1>p1, <1>2, <1>3
  <2>. QED  BY <1>p1, <2>1, <2>2 DEF Expected
<1>p3. PICK shown, asked : /\ shown = MessageEndingAt(NFE)
                           /\ asked = SubSeq(row, (n - w) + 1, n)
  OBVIOUS
<1>8. shown \in Seq(Pieces) /\ Len(shown) = w /\ \A j \in 1..w : shown[j] = row[n - w + j]
  <2>1. \A j \in 1..w : row[n - w + j] \in Pieces
    <3>. TAKE j \in 1..w
    <3>0. j \in 1..w
      OBVIOUS
    <3>1. n - w + j \in 1..n
      BY ONLY <1>3, <3>0
    <3>p. PICK x : x = n - w + j
      OBVIOUS
    <3>2. row \in Seq(Pieces) /\ x \in 1..Len(row)
      BY <1>3, <1>p1, <3>1, <3>p
    <3>3. row[x] \in Pieces
      BY ONLY <3>2
    <3>. QED  BY <3>3, <3>p
  <2>2. shown = [j \in 1..w |-> row[n - w + j]] /\ w \in Nat
    BY <1>p3, <1>3, <1>6
  <2>. QED  BY ONLY <2>1, <2>2
<1>9. asked \in Seq(Pieces) /\ Len(asked) = w /\ \A j \in 1..w : asked[j] = row[n - w + j]
  <2>p. PICK a : a = (n - w) + 1
    OBVIOUS
  <2>1. a \in Int /\ n \in Int /\ a <= n /\ n - a + 1 = w
    BY <1>3, <2>p
  <2>2. \A i \in a..n : row[i] \in Pieces
    <3>. TAKE i \in a..n
    <3>1. i \in 1..Len(row)
      BY <1>p1, <1>3, <2>p
    <3>. QED  BY <1>3, <3>1
  <2>3. /\ SubSeq(row, a, n) \in Seq(Pieces)
        /\ Len(SubSeq(row, a, n)) = IF a <= n THEN n - a + 1 ELSE 0
        /\ \A i \in 1..(n - a + 1) : SubSeq(row, a, n)[i] = row[a + i - 1]
    BY ONLY <2>1, <2>2, SubSeqProperties
  <2>4. \A j \in 1..w : a + j - 1 = n - w + j
    BY <1>3, <2>p
  <2>5. asked = SubSeq(row, a, n)
    BY <1>p3, <2>p
  <2>. QED  BY ONLY <2>1, <2>3, <2>4, <2>5
<1>10. shown = asked
  BY ONLY <1>8, <1>9, SeqEqual
<1>. QED  BY <1>p3, <1>7, <1>8, <1>10

\* Either the frame does not end its message and nothing is printed, or it does and
\* the next message is.
LEMMA PrintsNext ==
  ASSUME TTypes, UserQueueInOrder, NEW starts, NEW cuts, LaidOut(starts, cuts, TRUE),
         ReceivedPlaced(starts, cuts), DeliverFrame, NEW m, m = Len(printed) + 1
  PROVE  \/ accepted + 1 < starts[m + 1] /\ printed' = printed
         \/ /\ accepted + 1 = starts[m + 1]
            /\ printed' = Append(printed, MessageEndingAt(NFE))
            /\ MessageEndingAt(NFE) = Expected(m) /\ MessageEndingAt(NFE) \in Seq(Pieces)
<1>p1. PICK A, s, e, l : A = accepted /\ s = starts[m] /\ e = starts[m + 1] /\ l = Len(cuts[m])
  OBVIOUS
<1>0. /\ TTypes /\ UserQueueInOrder /\ LaidOut(starts, cuts, TRUE)
      /\ ReceivedPlaced(starts, cuts) /\ DeliverFrame /\ m = Len(printed) + 1
  OBVIOUS
<1>1. /\ l \in Nat \ {0} /\ s \in Nat /\ e = s + l /\ s <= A /\ A + 1 <= e /\ A \in Nat
      /\ NFE = A % SeqMod
  <2>1. /\ Len(cuts[m]) \in Nat \ {0}
        /\ starts[m] \in Nat /\ starts[m + 1] = starts[m] + Len(cuts[m])
        /\ starts[m] <= accepted /\ accepted + 1 <= starts[m + 1]
        /\ accepted \in Nat /\ NFE = accepted % SeqMod
    BY ONLY <1>0, NextPlace, Zenon
  <2>. QED  BY <1>p1, <2>1
<1>2. SeqMod \in Nat /\ SeqMod > 1
  BY SeqModAssumption
<1>p2. PICK d, i, frame : /\ d = 0 /\ i = accepted + 1 - starts[m] - d
                          /\ frame = receiver_queue[(NFE + SeqMod - d) % SeqMod]
  OBVIOUS
<1>3. frame = receiver_queue[NFE]
  <2>1. ((A % SeqMod) + SeqMod - d) % SeqMod = (A - d) % SeqMod
    <3>1. d \in 0..SeqMod /\ d <= A
      BY <1>1, <1>2, <1>p2
    <3>. QED  BY ONLY <1>1, <3>1, SlotBack
  <2>2. A - d = A
    BY ONLY <1>1, <1>p2
  <2>. QED  BY ONLY <1>1, <1>p2, <2>1, <2>2
<1>4. IsPiece(frame, cuts[m], i)
  <2>1. d \in Nat /\ d < SeqMod /\ d <= accepted - starts[m]
    <3>1. d \in Nat /\ d < SeqMod /\ d <= A - s
      BY ONLY <1>1, <1>2, <1>p2
    <3>. QED  BY <1>p1, <3>1
  <2>. QED  BY ONLY <1>0, <1>p2, <2>1, PlaceBehind
<1>5. receiver_queue[NFE].end_of_message = (A + 1 = e)
  <2>1. i = A + 1 - s - 0
    BY ONLY <1>p1, <1>p2
  <2>2. (i = l) = (A + 1 = e)
    BY ONLY <1>1, <2>1
  <2>3. frame.end_of_message = (i = l)
    BY ONLY <1>p1, <1>4 DEF IsPiece
  <2>. QED  BY ONLY <1>3, <2>2, <2>3
<1>6. CASE A + 1 = e
  <2>1. printed' = Append(printed, MessageEndingAt(NFE))
    BY <1>5, <1>6 DEF DeliverFrame
  <2>2. accepted + 1 = starts[m + 1]
    BY <1>6, <1>p1
  <2>3. MessageEndingAt(NFE) = Expected(m) /\ MessageEndingAt(NFE) \in Seq(Pieces)
    BY ONLY <1>0, <2>2, PrintsExpected
  <2>. QED  BY <2>1, <2>2, <2>3
<1>7. CASE A + 1 # e
  <2>1. printed' = printed
    BY <1>5, <1>7 DEF DeliverFrame
  <2>2. A + 1 < e
    BY ONLY <1>1, <1>7
  <2>. QED  BY <1>p1, <2>1, <2>2
<1>. QED  BY <1>6, <1>7

\* handlePacket's loop and printOutMessage: what is printed is the next message as the
\* receiver is to get it.
LEMMA DeliverFramePlaces ==
  ASSUME TTypes, PlacesInv, DeliverFrame, UNCHANGED <<tamperVars, tamperHistory>>
  PROVE  PlacesInv'
<1>1. /\ UNCHANGED <<userVars, sent, pending_frame_list, uplink, m_output_queue, toReceiver,
                     receiver_queue>>
      /\ UNCHANGED <<passed, alteredAt, overtaken>>
      /\ recv_marked' = recv_marked \ {NFE} /\ NFE' = Inc(NFE) /\ accepted' = accepted + 1
  BY DEF DeliverFrame, blockVars, frameLinks, tamperHistory
<1>p2. PICK starts, cuts, later, longer :
         /\ BothLaidOut(starts, cuts, later, longer) /\ SentPlaced(starts, cuts)
         /\ Orderly => ReceivedPlaced(later, longer)
  BY DEF PlacesInv
<1>2. UserQueueInOrder' /\ BothLaidOut(starts, cuts, later, longer)' /\ SentPlaced(starts, cuts)'
  BY <1>1, <1>p2, FramedSame, SentSame DEF PlacesInv
<1>3. ASSUME Orderly' PROVE ReceivedPlaced(later, longer)'
  <2>p1. PICK m : m = Len(printed) + 1
    OBVIOUS
  <2>1. /\ TTypes /\ UserQueueInOrder /\ LaidOut(later, longer, TRUE)
        /\ ReceivedPlaced(later, longer) /\ DeliverFrame /\ m = Len(printed) + 1
    BY <1>1, <1>3, <1>p2, <2>p1 DEF Orderly, BeforeWrap, WrapsAt, BothLaidOut, PlacesInv
  <2>p2. PICK s, e : s = later[m] /\ e = later[m + 1]
    OBVIOUS
  <2>2. /\ Laid(later, longer) /\ Len(longer) = Framed /\ m \in 1..Len(longer)
        /\ s \in Nat /\ e \in Nat /\ s <= accepted /\ accepted + 1 <= e
        /\ TakenIn = accepted + 1 /\ accepted \in Nat /\ NFE = accepted % SeqMod
    <3>1. /\ Laid(later, longer) /\ Len(longer) = Framed /\ m \in 1..Len(longer)
          /\ later[m] \in Nat /\ Len(longer[m]) \in Nat \ {0}
          /\ later[m + 1] = later[m] + Len(longer[m])
          /\ later[m] <= accepted /\ accepted + 1 <= later[m + 1]
          /\ TakenIn = accepted + 1 /\ accepted \in Nat /\ NFE = accepted % SeqMod
      BY ONLY <2>1, NextPlace, Zenon
    <3>2. later[m + 1] \in Nat
      BY <3>1
    <3>. QED  BY ONLY <2>p2, <3>1, <3>2
  <2>3. /\ Framed \in Nat /\ Len(printed) \in Nat /\ DOMAIN printed = 1..Len(printed)
    BY <2>1, PlacesCounts
  <2>4. TakenIn' = accepted + 1
    <3>1. ~Delivering'
      BY <1>1, <2>1 DEF Delivering, ReceivedPlaced
    <3>. QED  BY <1>1, <3>1 DEF TakenIn
  <2>5. NFE' = accepted' % SeqMod /\ recv_marked' \subseteq {NFE'}
    BY <1>1, <2>1, <2>2, ModNext DEF ReceivedPlaced
  <2>6. Framed' = Framed /\ \A p : Expected(p)' = Expected(p)
    BY <1>1, FramedSame
  <2>7. /\ Len(printed') <= Framed /\ later[Len(printed') + 1] <= accepted + 1
        /\ Len(printed') < Framed => accepted + 1 < later[Len(printed') + 2]
        /\ \A p \in DOMAIN printed' : printed'[p] = Expected(p)
    <3>0. m + 1 = Len(printed) + 2 /\ Len(printed) < Framed /\ m <= Framed /\ m \in Nat
      BY <2>2, <2>3, <2>p1
    <3>1. CASE accepted + 1 < later[m + 1] /\ printed' = printed
      <4>1. later[Len(printed) + 1] <= accepted + 1
        BY <2>2, <2>p1, <2>p2
      <4>2. Len(printed) < Framed => accepted + 1 < later[Len(printed) + 2]
        BY <3>0, <3>1
      <4>3. \A p \in DOMAIN printed : printed[p] = Expected(p)
        BY <2>1 DEF ReceivedPlaced
      <4>. QED  BY <2>3, <3>0, <3>1, <4>1, <4>2, <4>3
    <3>2. CASE /\ accepted + 1 = later[m + 1]
               /\ printed' = Append(printed, MessageEndingAt(NFE))
               /\ MessageEndingAt(NFE) = Expected(m) /\ MessageEndingAt(NFE) \in Seq(Pieces)
      <4>1. /\ Len(printed') = m /\ DOMAIN printed' = 1..m
            /\ \A p \in 1..Len(printed) : printed'[p] = printed[p]
            /\ printed'[m] = MessageEndingAt(NFE)
        <5>1. printed \in Seq(Seq(Pieces))
          BY DEF TTypes, ReceiverSide
        <5>p. PICK elt : elt = MessageEndingAt(NFE)
          OBVIOUS
        <5>2. elt \in Seq(Pieces) /\ printed' = Append(printed, elt)
          BY <3>2, <5>p
        <5>3. /\ printed' \in Seq(Seq(Pieces)) /\ Len(printed') = Len(printed) + 1
              /\ \A p \in 1..Len(printed) : printed'[p] = printed[p]
              /\ printed'[Len(printed) + 1] = elt
          BY ONLY <5>1, <5>2, AppendProperties
        <5>4. DOMAIN printed' = 1..Len(printed')
          BY ONLY <5>3, LenProperties
        <5>. QED  BY ONLY <2>p1, <5>p, <5>3, <5>4
      <4>2. \A p \in 1..m : p = m \/ p \in 1..Len(printed)
        BY <2>3, <2>p1
      <4>3. \A p \in 1..Len(printed) : printed[p] = Expected(p)
        BY <2>1, <2>3 DEF ReceivedPlaced
      <4>4. \A p \in 1..m : printed'[p] = Expected(p)
        BY <3>2, <4>1, <4>2, <4>3
      <4>5. later[m + 1] <= accepted + 1
        BY <2>2, <3>2
      <4>6. ASSUME m < Framed PROVE accepted + 1 < later[m + 2]
        <5>1. m + 1 \in 1..Len(longer) /\ (m + 1) + 1 = m + 2
          BY <2>2, <2>3, <3>0, <4>6
        <5>2. Laid(later, longer)
          BY <2>2
        <5>3. \A h \in 1..Len(longer) : /\ Len(longer[h]) \in Nat \ {0}
                                        /\ later[h + 1] = later[h] + Len(longer[h])
          BY ONLY <5>2, LaidValues
        <5>4. Len(longer[m + 1]) \in Nat \ {0}
              /\ later[(m + 1) + 1] = later[m + 1] + Len(longer[m + 1])
          BY ONLY <5>1, <5>3
        <5>p. PICK x, y : x = Len(longer[m + 1]) /\ y = later[m + 2]
          OBVIOUS
        <5>5. x \in Nat \ {0} /\ y = e + x /\ accepted + 1 = e
          BY ONLY <2>p2, <3>2, <5>1, <5>4, <5>p
        <5>6. accepted + 1 < y
          BY ONLY <2>2, <5>5
        <5>. QED  BY <5>6, <5>p
      <4>. QED  BY <3>0, <4>1, <4>4, <4>5, <4>6
    <3>3. \/ accepted + 1 < later[m + 1] /\ printed' = printed
          \/ /\ accepted + 1 = later[m + 1]
             /\ printed' = Append(printed, MessageEndingAt(NFE))
             /\ MessageEndingAt(NFE) = Expected(m) /\ MessageEndingAt(NFE) \in Seq(Pieces)
      BY ONLY <2>1, PrintsNext
    <3>. QED  BY <3>1, <3>2, <3>3
  <2>8. TakenIn' = TakenIn /\ Forwarded' = Forwarded
    BY <1>1, <2>2, <2>4 DEF Forwarded
  <2>9. /\ TakenIn + Len(toReceiver) = Forwarded
        /\ AllPlaced(toReceiver, TakenIn, later, longer)
        /\ \A k \in 1..TakenIn : TakenIn < k + SeqMod =>
             Placed(receiver_queue[(k - 1) % SeqMod], k, later, longer)
    BY <2>1 DEF ReceivedPlaced
  <2>. QED  BY <1>1, <2>5, <2>6, <2>7, <2>8, <2>9 DEF ReceivedPlaced
<1>. QED  BY <1>2, <1>3 DEF PlacesInv

-----------------------------------------------------------------------------
(* Every step, and what the places say of the printed messages.            *)

LEMMA SenderThreadPlaces ==
  ASSUME TTypes, NumbersInv, PlacesInv, SenderThread, UNCHANGED <<tamperVars, tamperHistory>>
  PROVE  PlacesInv'
<1>1. FramesCounted
  BY DEF NumbersInv
<1>2. CASE HandleAck \/ AdvanceLAR \/ EndIncoming \/ EndInput \/ EndPending
  <2>1. UNCHANGED <<userVars, sent, pending_frame_list, uplink, m_output_queue, toReceiver, NFE,
                    recv_marked, receiver_queue, printed, accepted>>
    BY <1>2 DEF HandleAck, AdvanceLAR, EndIncoming, EndInput, EndPending, SenderGoesTo,
                blockVars, frameLinks, receiverVars
  <2>. QED  BY <2>1, NoFramePlaces
<1>3. CASE HandleUserInput
  BY <1>1, <1>3, HandleUserInputPlaces
<1>4. CASE SendPendingFrame
  BY <1>1, <1>4, SendPendingFramePlaces
<1>5. CASE SendMessageToRouter
  BY <1>5, SendMessageToRouterPlaces
<1>. QED  BY <1>2, <1>3, <1>4, <1>5 DEF SenderThread

LEMMA ReceiverThreadPlaces ==
  ASSUME TTypes, NumbersInv, PlacesInv, ReceiverThread, UNCHANGED <<tamperVars, tamperHistory>>
  PROVE  PlacesInv'
<1>1. CASE HandlePacket
  BY <1>1, HandlePacketPlaces
<1>2. CASE DeliverFrame
  BY <1>2, DeliverFramePlaces
<1>3. CASE SendAcks
  <2>1. UNCHANGED <<userVars, sent, pending_frame_list, uplink, m_output_queue, toReceiver, NFE,
                    recv_marked, receiver_queue, printed, accepted>>
    BY <1>3 DEF SendAcks, blockVars, frameLinks
  <2>. QED  BY <2>1, NoFramePlaces
<1>. QED  BY <1>1, <1>2, <1>3 DEF ReceiverThread

LEMMA PlacesNext == TTypes /\ NumbersInv /\ PlacesInv /\ [TNext]_allVars => PlacesInv'
<1>. SUFFICES ASSUME TTypes, NumbersInv, PlacesInv, [TNext]_allVars PROVE PlacesInv'
  OBVIOUS
<1>1. CASE Hosts /\ UNCHANGED <<tamperVars, tamperHistory>>
  <2>1. CASE \E length \in Lengths : UserTypes(length)
    BY <1>1, <2>1, UserTypesPlaces
  <2>. QED  BY <1>1, <2>1, SenderThreadPlaces, ReceiverThreadPlaces DEF Hosts
<1>2. CASE FrameThroughRouter4
  BY <1>2, CreateAttackMessagePlaces, ForwardAlteredFramePlaces DEF FrameThroughRouter4
<1>3. CASE AckThroughRouter4 \/ UNCHANGED allVars
  <2>1. UNCHANGED <<userVars, sent, pending_frame_list, uplink, m_output_queue, toReceiver, NFE,
                    recv_marked, receiver_queue, printed, accepted, tamperHistory>>
    BY <1>3 DEF AckThroughRouter4, DropAck, ForwardAlteredAck, hostVars, allVars, vars,
                blockVars, frameLinks, receiverVars
  <2>. QED  BY <2>1, NoFramePlaces
<1>. QED  BY <1>1, <1>2, <1>3 DEF TNext

LEMMA PrintedAsExpected == TTypes /\ PlacesInv => OneMessageAltered
<1>. SUFFICES ASSUME TTypes, PlacesInv, Orderly, NEW p \in DOMAIN printed
              PROVE  p <= Len(typed) /\ printed[p] = Expected(p)
  BY DEF OneMessageAltered
<1>1. /\ Framed \in Nat /\ Framed <= Len(typed) /\ Len(typed) \in Nat
      /\ Len(printed) \in Nat /\ DOMAIN printed = 1..Len(printed)
  BY PlacesCounts DEF PlacesInv
<1>2. Len(printed) <= Framed /\ printed[p] = Expected(p)
  BY DEF PlacesInv, ReceivedPlaced
<1>. QED  BY <1>1, <1>2

\* createAttackMessage, alterSeqNum, printOutMessage: whatever the lengths, the window and
\* the number of messages, as long as no frame overtakes the drop and no number wraps,
\* the receiver prints the typed messages in order, each piece once, and the inserted
\* piece only at the end of the first.
THEOREM OnlyFirstMessageAltered == TSpec => []OneMessageAltered
BY TTypesInit, TTypesNext, NumbersInit, NumbersNext, PlacesInit, PlacesNext,
   PrintedAsExpected, PTL DEF TSpec

=============================================================================
