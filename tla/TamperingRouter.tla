-------------------------- MODULE TamperingRouter --------------------------
(***************************************************************************)
(* Router 4 of main.cpp (AttackerRouter.cpp, runAttackerRouter.cpp) on the *)
(* way between the sender and receiver 1.  It appends a frame of its own   *)
(* to the first message it sees end, and then shifts the numbers of later  *)
(* frames and of their acks so that neither host notices.  The hosts are   *)
(* those of SlidingWindow; the routers in front of and behind router 4     *)
(* keep order, as there.                                                   *)
(*                                                                         *)
(* Its two maps have one key here, the sender's address: m_hack_ack_data   *)
(* is the set of the values in it, m_seq_ack_control_flag whether it has   *)
(* an entry.  What handlePacket does besides (routes, ARP, TTL) is in      *)
(* Router.                                                                 *)
(***************************************************************************)
EXTENDS SlidingWindow

VARIABLES
  m_hack_ack_data,         \* the number of the altered message's last frame
  m_seq_ack_control_flag,  \* has the ack of the inserted frame been dropped?
  passed,                  \* history: how many frames of the sender came by
  alteredAt,               \* history: which of them was altered, 0 for none
  overtaken                \* history: how many came by unshifted after it

tamperVars == <<m_hack_ack_data, m_seq_ack_control_flag>>
tamperHistory == <<passed, alteredAt, overtaken>>
allVars == <<vars, tamperVars, tamperHistory>>

hostVars == <<userVars, pc, blockVars, m_output_queue, receiverVars, sent, acked>>

\* "Message Attacked!", which is no part of any typed message.
Inserted == [message |-> 0, first |-> 1, last |-> 17]

TInit == /\ Init
         /\ m_hack_ack_data = {} /\ m_seq_ack_control_flag = FALSE
         /\ passed = 0 /\ alteredAt = 0 /\ overtaken = 0

-----------------------------------------------------------------------------
(* Frames to the receiver.                                                 *)

\* Mutant: every message is altered.
AttackObjectAlways(frame) == frame.end_of_message
AttackObject(frame) == m_hack_ack_data = {} /\ frame.end_of_message

\* The frame goes on without its end marker, a copy with the inserted text behind it.
CreateAttackMessage ==
  LET frame == Head(uplink)
      copy  == [data |-> Inserted, seq_ack_num |-> Inc(frame.seq_ack_num),
                start_of_message |-> FALSE, end_of_message |-> TRUE]
  IN  /\ uplink # <<>> /\ AttackObject(frame)
      /\ uplink' = Tail(uplink)
      /\ toReceiver' = toReceiver \o <<[frame EXCEPT !.end_of_message = FALSE], copy>>
      /\ m_hack_ack_data' = {frame.seq_ack_num}
      /\ passed' = passed + 1
      /\ alteredAt' = passed + 1
      /\ UNCHANGED <<hostVars, ackLinks, m_seq_ack_control_flag, overtaken>>

Shifts(number) == m_seq_ack_control_flag /\ \A a \in m_hack_ack_data : a < number

\* Mutant: the number is raised in an int.
AlterSeqNumWide(frame) ==
  IF Shifts(frame.seq_ack_num) THEN [frame EXCEPT !.seq_ack_num = @ + 1] ELSE frame
AlterSeqNum(frame) ==
  IF Shifts(frame.seq_ack_num) THEN [frame EXCEPT !.seq_ack_num = Inc(@)] ELSE frame

ForwardAlteredFrame ==
  /\ uplink # <<>> /\ ~AttackObject(Head(uplink))
  /\ uplink' = Tail(uplink)
  /\ toReceiver' = Append(toReceiver, AlterSeqNum(Head(uplink)))
  /\ passed' = passed + 1
  /\ overtaken' = overtaken + (IF alteredAt > 0 /\ ~m_seq_ack_control_flag THEN 1 ELSE 0)
  /\ UNCHANGED <<hostVars, ackLinks, tamperVars, alteredAt>>

-----------------------------------------------------------------------------
(* Acks to the sender.                                                     *)

\* The sum is an int in the code: behind 255 it is 256, which no ack has.
OfInserted(ack) == \E a \in m_hack_ack_data : ack.seq_ack_num = a + 1

\* Mutant: the ack of the inserted frame goes on to the sender.
DropAckForwarded ==
  /\ ackUplink # <<>> /\ OfInserted(Head(ackUplink))
  /\ ackUplink' = Tail(ackUplink)
  /\ toSender' = Append(toSender, Head(ackUplink))
  /\ m_seq_ack_control_flag' = TRUE
  /\ UNCHANGED <<hostVars, frameLinks, m_hack_ack_data, tamperHistory>>

DropAck ==
  /\ ackUplink # <<>> /\ OfInserted(Head(ackUplink))
  /\ ackUplink' = Tail(ackUplink)
  /\ m_seq_ack_control_flag' = TRUE
  /\ UNCHANGED <<hostVars, frameLinks, toSender, m_hack_ack_data, tamperHistory>>

\* Mutant: acks pass with the numbers the receiver gave them.
AlterAckNumNot(ack) == ack
\* Mutant: every ack is lowered, whatever its number.
AlterAckNumAll(ack) ==
  IF m_seq_ack_control_flag THEN [ack EXCEPT !.seq_ack_num = (@ + SeqMod - 1) % SeqMod] ELSE ack
AlterAckNum(ack) ==
  IF Shifts(ack.seq_ack_num) THEN [ack EXCEPT !.seq_ack_num = @ - 1] ELSE ack

ForwardAlteredAck ==
  /\ ackUplink # <<>> /\ ~OfInserted(Head(ackUplink))
  /\ ackUplink' = Tail(ackUplink)
  /\ toSender' = Append(toSender, AlterAckNum(Head(ackUplink)))
  /\ UNCHANGED <<hostVars, frameLinks, tamperVars, tamperHistory>>

-----------------------------------------------------------------------------
FrameThroughRouter4 == CreateAttackMessage \/ ForwardAlteredFrame
AckThroughRouter4 == DropAck \/ ForwardAlteredAck

Hosts == \/ \E length \in Lengths : UserTypes(length)
         \/ SenderThread
         \/ ReceiverThread

TNext == \/ Hosts /\ UNCHANGED <<tamperVars, tamperHistory>>
         \/ FrameThroughRouter4 \/ AckThroughRouter4

\* The threads of both hosts and of router 4, whose input queues take turns.
TFairness == /\ WF_allVars(SenderThread /\ UNCHANGED <<tamperVars, tamperHistory>>)
             /\ WF_allVars(ReceiverThread /\ UNCHANGED <<tamperVars, tamperHistory>>)
             /\ WF_allVars(FrameThroughRouter4) /\ WF_allVars(AckThroughRouter4)

TSpec == TInit /\ [][TNext]_allVars /\ TFairness

-----------------------------------------------------------------------------
(* Properties.                                                             *)

\* Router 4 keeps numbers uint8_t, and remembers one of them at most.
TTypeOK ==
  /\ LAR \in SeqNums /\ LFS \in SeqNums /\ SEQ \in SeqNums /\ NFE \in SeqNums
  /\ toReceiver \in Seq([data : Chunks \cup {Inserted}, seq_ack_num : SeqNums,
                         start_of_message : BOOLEAN, end_of_message : BOOLEAN])
  /\ toSender \in Seq(Acks)
  /\ m_hack_ack_data \subseteq SeqNums /\ Cardinality(m_hack_ack_data) <= 1
  /\ m_seq_ack_control_flag \in BOOLEAN
  /\ passed \in Nat /\ alteredAt \in 0..passed /\ overtaken \in 0..(passed - alteredAt)

\* The first frame whose number has wrapped past zero since the altered one; before
\* anything is altered, numbers may wrap as they like.
WrapsAt == ((alteredAt - 1) \div SeqMod + 1) * SeqMod
BeforeWrap == alteredAt > 0 => Len(sent) < WrapsAt

\* What the receiver's terminal shows of the p-th message: the inserted text at the end
\* of the first, nothing else, and no more than the array holds.
Expected(p) ==
  LET pieces == Split(typed[p]) \o (IF p = 1 THEN <<Inserted>> ELSE <<>>)
      over   == IF Len(pieces) > SeqMod THEN Len(pieces) - SeqMod ELSE 0
  IN  SubSeq(pieces, over + 1, Len(pieces))

\* No frame has come by between the altered one and the drop of the inserted one's ack.
Orderly == overtaken = 0 /\ BeforeWrap

\* As long as that is so and no number wraps, shifting both ways hides the inserted
\* frame from both hosts: the receiver prints the typed messages in order, with the one
\* insertion, although its numbers are one ahead of the sender's.
OneMessageAltered ==
  Orderly => \A p \in DOMAIN printed : p <= Len(typed) /\ printed[p] = Expected(p)

\* alterSeqAckNum compares without wrapping: once a message is altered, the sender never
\* hears of the frame before the wrap, so a tampered flow ends with the lap it began in.
EndsWithTheLap == alteredAt > 0 /\ alteredAt < WrapsAt => acked < WrapsAt

\* A frame that comes by too early takes the number of the inserted one, whose ack is
\* dropped: every later ack is one short, and the sender's window stays in front of the
\* last frame that came too early for ever.
OvertakingStalls ==
  overtaken > 0 /\ alteredAt < WrapsAt => acked < alteredAt + overtaken

\* While the flow is orderly everything typed is printed in the end, and the sender's
\* window opens again: no ack it needs is shifted or dropped.
AllPrintedWhileOrderly ==
  \A m \in 1..MaxMessages : Len(typed) >= m ~> (Len(printed) >= m \/ ~Orderly)

=============================================================================
