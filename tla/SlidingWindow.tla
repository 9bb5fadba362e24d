--------------------------- MODULE SlidingWindow ---------------------------
(***************************************************************************)
(* The sliding window protocol of host.cpp between the sender host and one *)
(* receiver, with the two threads that run it (runSender.cpp and           *)
(* runReceiver.cpp) and a network of routers that forwards in order and    *)
(* loses nothing (what Router.tla shows of a path whose routes are up).    *)
(*                                                                         *)
(* Sequence numbers are uint8_t in the code: SeqMod is 256 there, and both *)
(* windows are 8.  A drain loop that holds a queue's mutex is modelled one *)
(* element per step; a push by another thread in the middle of the drain   *)
(* has the effect of the same push just before the mutex was taken.        *)
(* The SenderBlock is allocated by the first message; until then (listed   *)
(* is FALSE) its fields hold the values a new block gets.                  *)
(***************************************************************************)
EXTENDS Naturals, Sequences, FiniteSets, MessageFraming

CONSTANTS SeqMod,       \* number of sequence numbers (2^8 in the code)
          SWS,          \* SWS_SIZE
          RWS,          \* RWS_SIZE
          MaxMessages,  \* bound: how many messages the user types
          Lengths       \* bound: how many characters a message may have

ASSUME SeqModAssumption == SeqMod \in Nat /\ SeqMod > 1
ASSUME WindowAssumption == SWS \in 1..(SeqMod - 1) /\ RWS \in 1..(SeqMod - 1)
ASSUME BoundAssumption == MaxMessages \in Nat /\ Lengths \subseteq Nat

VARIABLES
  typed,               \* history: every message typed
  m_user_input_queue,  \* messages the sender thread has not taken yet
  pc,                  \* which call of its loop the sender thread is in
  listed,              \* is the SenderBlock in m_sender_block_list?
  LAR, LFS, SEQ,       \* last ack received, last frame sent, next number
  pending_frame_list,  \* frames numbered but still outside the window
  ack_marked,          \* the slots of sender_queue whose ack_marked is set
  sender_queue,        \* the frame saved in each slot, for a retransmission
  m_output_queue,      \* frames on their way out of the sender
  uplink,              \* frames queued in the routers
  toReceiver,          \* the receiver's m_input_queue
  NFE,                 \* next frame expected
  recv_marked,         \* the slots of receiver_queue whose ack_marked is set
  receiver_queue,      \* the frame stored in each slot
  ack_output_queue,    \* the receiver's m_output_queue
  ackUplink,           \* acks queued in the routers
  toSender,            \* the sender's m_input_queue
  printed,             \* what the receiver has printed, a message per entry
  sent,                \* history: the chunks that entered the window, in order
  accepted,            \* history: how many frames NFE has moved past
  acked                \* history: how many frames LAR has moved past

blockVars == <<listed, LAR, LFS, SEQ, pending_frame_list, ack_marked, sender_queue>>
receiverVars == <<NFE, recv_marked, receiver_queue, ack_output_queue, printed, accepted>>
userVars == <<typed, m_user_input_queue>>
frameLinks == <<uplink, toReceiver>>
ackLinks == <<ackUplink, toSender>>
vars == <<userVars, pc, blockVars, m_output_queue, frameLinks, receiverVars,
          ackLinks, sent, acked>>

SeqNums == 0..(SeqMod - 1)
Inc(s) == (s + 1) % SeqMod              \* ++ on a uint8_t

Chunks == [message : 1..MaxMessages, first : Nat, last : Nat]
Frames == [data : Chunks, seq_ack_num : SeqNums,
           start_of_message : BOOLEAN, end_of_message : BOOLEAN]
\* A slot nothing was stored in: RecvInfo's pair is (0, NULL).
NoChunk == [message |-> 0, first |-> 1, last |-> 0]
NoFrame == [data |-> NoChunk, seq_ack_num |-> 0,
            start_of_message |-> FALSE, end_of_message |-> FALSE]
Acks == [seq_ack_num : SeqNums]

Messages == [id : 1..MaxMessages, length : Lengths]

Init ==
  /\ typed = <<>> /\ m_user_input_queue = <<>>
  /\ pc = "incoming"
  /\ listed = FALSE
  /\ LAR = SeqMod - 1 /\ LFS = SeqMod - 1 /\ SEQ = 0
  /\ pending_frame_list = <<>>
  /\ ack_marked = {}
  /\ sender_queue = [s \in SeqNums |-> NoFrame]
  /\ m_output_queue = <<>> /\ uplink = <<>> /\ toReceiver = <<>>
  /\ NFE = 0 /\ recv_marked = {}
  /\ receiver_queue = [s \in SeqNums |-> NoFrame]
  /\ ack_output_queue = <<>> /\ ackUplink = <<>> /\ toSender = <<>>
  /\ printed = <<>>
  /\ sent = <<>> /\ accepted = 0 /\ acked = 0

-----------------------------------------------------------------------------
(* The user, at the menu of main.cpp, in the main thread.                  *)

UserTypes(length) ==
  LET message == [id |-> Len(typed) + 1, length |-> length]
  IN  /\ Len(typed) < MaxMessages
      /\ typed' = Append(typed, message)
      /\ m_user_input_queue' = Append(m_user_input_queue, message)
      /\ UNCHANGED <<pc, blockVars, m_output_queue, frameLinks, receiverVars,
                     ackLinks, sent, acked>>

-----------------------------------------------------------------------------
(* The sender thread: handleIncomingRouterMessage, handleUserInput,        *)
(* handlePendingFrames, sendMessageToRouter, in a loop (the call of        *)
(* handleTimeoutFrames is commented out: nothing is ever sent again).      *)

\* Mutant: the case of a window that wraps past zero is forgotten.
AckAcceptableNoWrap(a) == Inc(LAR) <= a /\ a <= LFS

AckAcceptable(a) ==
  \/ Inc(LAR) <= a /\ a <= LFS
  \/ LFS < LAR /\ (Inc(LAR) <= a \/ a <= LFS)

\* The loop that moves LAR over marked slots runs while the next one is marked.
AdvancingLAR == Inc(LAR) \in ack_marked

HandleAck ==
  LET a == Head(toSender).seq_ack_num
  IN  /\ pc = "incoming" /\ ~AdvancingLAR /\ toSender # <<>>
      /\ toSender' = Tail(toSender)
      /\ ack_marked' = IF AckAcceptable(a) THEN ack_marked \cup {a} ELSE ack_marked
      /\ UNCHANGED <<userVars, pc, listed, LAR, LFS, SEQ, pending_frame_list,
                     sender_queue, m_output_queue, frameLinks, receiverVars,
                     ackUplink, sent, acked>>

AdvanceLAR ==
  /\ pc = "incoming" /\ AdvancingLAR
  /\ ack_marked' = ack_marked \ {Inc(LAR)}
  /\ LAR' = Inc(LAR)
  /\ acked' = acked + 1
  /\ UNCHANGED <<userVars, pc, listed, LFS, SEQ, pending_frame_list, sender_queue,
                 m_output_queue, frameLinks, receiverVars, ackLinks, sent>>

SenderGoesTo(next) ==
  /\ pc' = next
  /\ UNCHANGED <<userVars, blockVars, m_output_queue, frameLinks, receiverVars,
                 ackLinks, sent, acked>>

EndIncoming == /\ pc = "incoming" /\ ~AdvancingLAR /\ toSender = <<>>
               /\ SenderGoesTo("input")

\* Mutant: the numbers of a long message are counted in an int.
FramesOfWide(message) ==
  LET chunks == Split(message)
  IN  [i \in 1..Len(chunks) |->
         [data |-> chunks[i], seq_ack_num |-> SEQ + i - 1,
          start_of_message |-> i = 1, end_of_message |-> i = Len(chunks)]]

\* The frames of a message, numbered from SEQ on, with their position markers.
FramesOf(message) ==
  LET chunks == Split(message)
  IN  [i \in 1..Len(chunks) |->
         [data |-> chunks[i], seq_ack_num |-> (SEQ + i - 1) % SeqMod,
          start_of_message |-> i = 1, end_of_message |-> i = Len(chunks)]]

\* Mutant: SEQ is kept in an int.
HandleUserInputWide ==
  LET message == Head(m_user_input_queue)
  IN  /\ pc = "input" /\ m_user_input_queue # <<>>
      /\ m_user_input_queue' = Tail(m_user_input_queue)
      /\ listed' = TRUE
      /\ pending_frame_list' = pending_frame_list \o FramesOf(message)
      /\ SEQ' = SEQ + NumOfChunks(message.length)
      /\ UNCHANGED <<typed, pc, LAR, LFS, ack_marked, sender_queue, m_output_queue,
                     frameLinks, receiverVars, ackLinks, sent, acked>>

HandleUserInput ==
  LET message == Head(m_user_input_queue)
  IN  /\ pc = "input" /\ m_user_input_queue # <<>>
      /\ m_user_input_queue' = Tail(m_user_input_queue)
      /\ listed' = TRUE
      /\ pending_frame_list' = pending_frame_list \o FramesOf(message)
      /\ SEQ' = (SEQ + NumOfChunks(message.length)) % SeqMod
      /\ UNCHANGED <<typed, pc, LAR, LFS, ack_marked, sender_queue, m_output_queue,
                     frameLinks, receiverVars, ackLinks, sent, acked>>

\* Nothing typed: the timed wait gives up after a second at the latest.
EndInput == /\ pc = "input" /\ m_user_input_queue = <<>>
            /\ SenderGoesTo("pending")

\* Mutant: the window reaches one number too far.
LastOfWindowOffByOne == (LAR + SWS + 1) % SeqMod
LastOfWindow == (LAR + SWS) % SeqMod

\* Mutant: the case of a window that wraps past zero is forgotten.
InSendWindowNoWrap(s) == LAR < s /\ s <= LastOfWindow

\* Mutant: the window is never closed.
InSendWindowAlways(s) == s \in SeqNums

InSendWindow(s) ==
  \/ LAR < s /\ s <= LastOfWindow
  \/ LastOfWindow < LAR /\ (LAR < s \/ s <= LastOfWindow)

MayLeave == pending_frame_list # <<>> /\ InSendWindow(Head(pending_frame_list).seq_ack_num)

SendPendingFrame ==
  LET frame == Head(pending_frame_list)
      s == frame.seq_ack_num
  IN  /\ pc = "pending" /\ MayLeave
      /\ pending_frame_list' = Tail(pending_frame_list)
      /\ sender_queue' = [sender_queue EXCEPT ![s] = frame]
      /\ ack_marked' = ack_marked \ {s}
      /\ LFS' = s
      /\ m_output_queue' = Append(m_output_queue, frame)
      /\ sent' = Append(sent, frame.data)
      /\ UNCHANGED <<userVars, pc, listed, LAR, SEQ, frameLinks, receiverVars,
                     ackLinks, acked>>

EndPending == /\ pc = "pending" /\ ~MayLeave
              /\ SenderGoesTo("output")

SendMessageToRouter ==
  /\ pc = "output"
  /\ pc' = "incoming"
  /\ uplink' = uplink \o m_output_queue
  /\ m_output_queue' = <<>>
  /\ UNCHANGED <<userVars, blockVars, toReceiver, receiverVars, ackLinks, sent, acked>>

SenderThread == \/ HandleAck \/ AdvanceLAR \/ EndIncoming
                \/ HandleUserInput \/ EndInput
                \/ SendPendingFrame \/ EndPending
                \/ SendMessageToRouter

-----------------------------------------------------------------------------
(* The routers between the two hosts.                                      *)

ForwardFrame ==
  /\ uplink # <<>>
  /\ toReceiver' = Append(toReceiver, Head(uplink))
  /\ uplink' = Tail(uplink)
  /\ UNCHANGED <<userVars, pc, blockVars, m_output_queue, receiverVars, ackLinks,
                 sent, acked>>

ForwardAck ==
  /\ ackUplink # <<>>
  /\ toSender' = Append(toSender, Head(ackUplink))
  /\ ackUplink' = Tail(ackUplink)
  /\ UNCHANGED <<userVars, pc, blockVars, m_output_queue, frameLinks, receiverVars,
                 sent, acked>>

-----------------------------------------------------------------------------
(* The receiver thread: handlePacket on every queued frame, then           *)
(* sendMessageToRouter with the acks.                                      *)

LAF == (NFE + RWS - 1) % SeqMod
\* Mutant: the case of a window that wraps past zero is forgotten.
InReceiveWindowNoWrap(s) == NFE <= s /\ s <= LAF

InReceiveWindow(s) ==
  \/ NFE <= s /\ s <= LAF
  \/ LAF < NFE /\ (NFE <= s \/ s <= LAF)

\* The loop that hands over a run of stored frames runs while the next is marked.
Delivering == NFE \in recv_marked

\* Every frame is answered, with its own number, accepted or not.
HandlePacket ==
  LET frame == Head(toReceiver)
      s == frame.seq_ack_num
  IN  /\ ~Delivering /\ toReceiver # <<>>
      /\ toReceiver' = Tail(toReceiver)
      /\ ack_output_queue' = Append(ack_output_queue, [seq_ack_num |-> s])
      /\ IF InReceiveWindow(s)
         THEN /\ receiver_queue' = [receiver_queue EXCEPT ![s] = frame]
              /\ recv_marked' = recv_marked \cup {s}
         ELSE UNCHANGED <<receiver_queue, recv_marked>>
      /\ UNCHANGED <<userVars, pc, blockVars, m_output_queue, uplink, NFE, printed,
                     accepted, ackLinks, sent, acked>>

\* Mutant: the walk back stops at the first slot of the array.
MessageFromSlotZero(index) ==
  LET Back(d) == receiver_queue[index - d]
      walked  == {d \in 0..index : \A e \in 0..index : e < d => ~Back(e).start_of_message}
  IN  [k \in 1..Cardinality(walked) |-> Back(Cardinality(walked) - k).data]

\* Mutant: the walk back looks at the frame after it has moved past it.
MessageOneTooFar(index) ==
  LET Back(d) == receiver_queue[(index + SeqMod - d) % SeqMod]
      walked  == {d \in SeqNums : \A e \in SeqNums : e + 1 < d => ~Back(e).start_of_message}
  IN  [k \in 1..Cardinality(walked) |-> Back(Cardinality(walked) - k).data]

\* printOutMessage: walk back from the last frame to a start_of_message, at most
\* once round the whole array, and print forward from there.
MessageEndingAt(index) ==
  LET Back(d) == receiver_queue[(index + SeqMod - d) % SeqMod]
      walked  == {d \in SeqNums : \A e \in SeqNums : e < d => ~Back(e).start_of_message}
  IN  [k \in 1..Cardinality(walked) |-> Back(Cardinality(walked) - k).data]

\* Mutant: the slot of a delivered frame stays marked.
DeliverFrameStaysMarked ==
  /\ Delivering
  /\ printed' = IF receiver_queue[NFE].end_of_message
                THEN Append(printed, MessageEndingAt(NFE)) ELSE printed
  /\ NFE' = Inc(NFE)
  /\ accepted' = accepted + 1
  /\ UNCHANGED <<userVars, pc, blockVars, m_output_queue, frameLinks, recv_marked,
                 receiver_queue, ack_output_queue, ackLinks, sent, acked>>

DeliverFrame ==
  /\ Delivering
  /\ printed' = IF receiver_queue[NFE].end_of_message
                THEN Append(printed, MessageEndingAt(NFE)) ELSE printed
  /\ recv_marked' = recv_marked \ {NFE}
  /\ NFE' = Inc(NFE)
  /\ accepted' = accepted + 1
  /\ UNCHANGED <<userVars, pc, blockVars, m_output_queue, frameLinks, receiver_queue,
                 ack_output_queue, ackLinks, sent, acked>>

SendAcks ==
  /\ ~Delivering /\ toReceiver = <<>> /\ ack_output_queue # <<>>
  /\ ackUplink' = ackUplink \o ack_output_queue
  /\ ack_output_queue' = <<>>
  /\ UNCHANGED <<userVars, pc, blockVars, m_output_queue, frameLinks, NFE, recv_marked,
                 receiver_queue, printed, accepted, toSender, sent, acked>>

ReceiverThread == HandlePacket \/ DeliverFrame \/ SendAcks

-----------------------------------------------------------------------------
Next == \/ \E length \in Lengths : UserTypes(length)
        \/ SenderThread
        \/ ForwardFrame \/ ForwardAck
        \/ ReceiverThread

\* Every thread keeps being scheduled, and the routers keep forwarding both ways.
Fairness == /\ WF_vars(SenderThread) /\ WF_vars(ReceiverThread)
            /\ WF_vars(ForwardFrame) /\ WF_vars(ForwardAck)

Spec == Init /\ [][Next]_vars /\ Fairness

-----------------------------------------------------------------------------
(* Properties.                                                             *)

\* Every field keeps its type; the uint8_t counters stay below SeqMod.
TypeOK ==
  /\ typed \in Seq(Messages) /\ m_user_input_queue \in Seq(Messages)
  /\ pc \in {"incoming", "input", "pending", "output"}
  /\ listed \in BOOLEAN
  /\ LAR \in SeqNums /\ LFS \in SeqNums /\ SEQ \in SeqNums
  /\ pending_frame_list \in Seq(Frames)
  /\ ack_marked \subseteq SeqNums
  /\ sender_queue \in [SeqNums -> Frames \cup {NoFrame}]
  /\ m_output_queue \in Seq(Frames) /\ uplink \in Seq(Frames)
  /\ toReceiver \in Seq(Frames)
  /\ NFE \in SeqNums /\ recv_marked \subseteq SeqNums
  /\ receiver_queue \in [SeqNums -> Frames \cup {NoFrame}]
  /\ ack_output_queue \in Seq(Acks) /\ ackUplink \in Seq(Acks)
  /\ toSender \in Seq(Acks)
  /\ printed \in Seq(Seq(Chunks \cup {NoChunk}))
  /\ sent \in Seq(Chunks) /\ accepted \in Nat /\ acked \in Nat

\* How many frames the receiver has taken in, and acks the sender, counting the one
\* that its thread is in the middle of handing over.
TakenIn == accepted + (IF Delivering THEN 1 ELSE 0)
Heard == acked + (IF AdvancingLAR THEN 1 ELSE 0)

\* Across any number of wraps of the uint8_t counters, a frame that reaches the
\* receiver is the one NFE waits for and an ack that reaches the sender is the
\* one after LAR: neither window test (host.cpp handlePacket and
\* handleIncomingRouterMessage) ever meets a number it refuses.
InOrderArrival ==
  /\ toReceiver # <<>> /\ ~Delivering => Head(toReceiver).seq_ack_num = NFE
  /\ toSender # <<>> /\ ~AdvancingLAR => Head(toSender).seq_ack_num = Inc(LAR)

\* handlePendingFrames never has more than SWS frames unacknowledged, and every
\* frame the receiver took in but the sender has not heard of has its ack, once,
\* on the way back.
WindowRespected ==
  /\ Len(sent) - acked <= SWS
  /\ Heard + Len(toSender) + Len(ackUplink) + Len(ack_output_queue) = TakenIn

\* What was sent and not yet taken in is on the links, once, in the order it was
\* sent: no frame is overtaken by one that left handlePendingFrames later.
Carries(queue, chunks, first) ==
  \A i \in DOMAIN queue : queue[i].data = chunks[first + i]
FramesInTransit ==
  /\ TakenIn + Len(toReceiver) + Len(uplink) + Len(m_output_queue) = Len(sent)
  /\ Carries(toReceiver, sent, TakenIn)
  /\ Carries(uplink, sent, TakenIn + Len(toReceiver))
  /\ Carries(m_output_queue, sent, TakenIn + Len(toReceiver) + Len(uplink))

\* The slot a frame was saved in by handlePendingFrames still holds that frame
\* until its ack arrives: a retransmission would send the right data although
\* the slots are reused after every wrap.
UnackedFramesKept ==
  \A k \in (acked + 1)..Len(sent) : sender_queue[(k - 1) % SeqMod].data = sent[k]

\* The uint8_t counters and the numbers in every queue are the true counts modulo
\* 2^8, and a slot is marked only while its thread is moving the window over it.
Numbered(queue, first) ==
  \A i \in DOMAIN queue : queue[i].seq_ack_num = (first + i - 1) % SeqMod
CountersAreCounts ==
  /\ LAR = (acked + SeqMod - 1) % SeqMod
  /\ LFS = (Len(sent) + SeqMod - 1) % SeqMod
  /\ SEQ = (Len(sent) + Len(pending_frame_list)) % SeqMod
  /\ NFE = accepted % SeqMod
  /\ recv_marked \subseteq {NFE}
  /\ ack_marked \subseteq {Inc(LAR)}
  /\ ack_marked # {} => pc = "incoming"
QueuesNumbered ==
  /\ Numbered(toReceiver, TakenIn)
  /\ Numbered(uplink, TakenIn + Len(toReceiver))
  /\ Numbered(m_output_queue, TakenIn + Len(toReceiver) + Len(uplink))
  /\ Numbered(pending_frame_list, Len(sent))
  /\ Numbered(toSender, Heard)
  /\ Numbered(ackUplink, Heard + Len(toSender))
  /\ Numbered(ack_output_queue, Heard + Len(toSender) + Len(ackUplink))
NumberingSound == CountersAreCounts /\ QueuesNumbered

\* What comes out of the receiver's terminal: the characters of the frames that
\* printOutMessage walks over.
Output == [p \in DOMAIN printed |-> Text(printed[p])]

\* Of a message of more than SeqMod frames only the last SeqMod are still in
\* receiver_queue when it is complete; every other one is there whole.
Shown(message) ==
  LET n    == NumOfChunks(message.length)
      lost == IF n > SeqMod THEN n - SeqMod ELSE 0
  IN  <<[message |-> message.id, first |-> lost * Room + 1, last |-> message.length]>>

\* The hosts implement MessageDelivery, character by character: each message typed
\* is printed whole (or its last SeqMod frames), once and in order, and (under
\* Fairness) eventually, whatever its length leaves over in the last chunk.
Delivery == INSTANCE MessageDelivery
              WITH typed <- [m \in DOMAIN typed |-> Shown(typed[m])],
                   printed <- Output,
                   Messages <- {Shown(message) : message \in Messages}
MessagesDelivered == Delivery!Spec

\* Every frame that left the pending list is acknowledged sooner or later, so the
\* window opens again and no pending frame waits for ever.
WindowReopens == pending_frame_list # <<>> ~> pending_frame_list = <<>>

=============================================================================
